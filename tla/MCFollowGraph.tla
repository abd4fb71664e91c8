--------------------------- MODULE MCFollowGraph ----------------------------
(* Small instances of FollowGraph for TLC. *)
EXTENDS FollowGraph

CONSTANTS r1, r2, r3, u1, u2, nobody
=============================================================================
