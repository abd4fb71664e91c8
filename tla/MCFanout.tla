------------------------------ MODULE MCFanout ------------------------------
(* A small instance of FanoutDelivery for TLC: user 9 tweets, others follow.  *)
EXTENDS FanoutDelivery

OneAuthor == {<<u, 9>> : u \in Users \ {9}}
TwoLoyal == {<<2, 9>>, <<3, 9>>}
=============================================================================
