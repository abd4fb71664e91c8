---------------------------- MODULE MCLikeCounts ----------------------------
(* Small instances of LikeCounts for TLC. *)
EXTENDS LikeCounts, TLC

CONSTANTS r1, r2, r3, u1, u2, t1, t2, i1, i2, i3

(* One instance answers in strong mode, the others in eventual mode. *)
OneStrong == [i \in Instances |-> IF i = i1 THEN "strong" ELSE "eventual"]
AllEventual == [i \in Instances |-> "eventual"]

AnyRequest == Permutations(Requests)
=============================================================================
