------------------------------ MODULE MCAccounts ----------------------------
(* A small instance of Accounts for TLC. *)
EXTENDS Accounts, TLC

CONSTANTS r1, r2, r3, n1, n2, e1, e2, w1, w2, w3, x, y

AnyName ==
  Permutations(Requests) \cup Permutations(Names) \cup Permutations(Emails)
    \cup Permutations(Passwords \ TooLong) \cup Permutations(Texts)
=============================================================================
