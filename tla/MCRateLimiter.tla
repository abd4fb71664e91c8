---------------------------- MODULE MCRateLimiter ---------------------------
(* A small instance of RateLimiter for TLC. *)
EXTENDS RateLimiter, TLC

CONSTANTS a, b, r1, r2, r3

AnyRequest == Permutations(Requests)
=============================================================================
