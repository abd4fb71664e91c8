----------------------------- MODULE MCHomeFeed -----------------------------
(* Small instances of HomeFeed for TLC: user 2 may follow user 1.          *)
EXTENDS HomeFeed

OneFollowee == {<<2, 1>>}
=============================================================================
