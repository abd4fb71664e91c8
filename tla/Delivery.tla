------------------------------ MODULE Delivery ------------------------------
(* What fan-out on write promises of the lists timeline:<user>, whoever does   *)
(* it and however.  A tweet is open from its creation on, if it is fanned out  *)
(* at all, until its fan-out is over; it is pushed only while it is open.      *)
EXTENDS Integers, Sequences

CONSTANTS
  Users, Authors,
  MaxTweets,       \* bound: tweets created
  MaxLen           \* timelineMaxLen

VARIABLES
  author,   \* who wrote tweet 1, 2, ...
  open,     \* tweets that may still be pushed
  lists,    \* timeline:<user>, newest push first
  overlap   \* history: per tweet, those that were open when it was created

vars == <<author, open, lists, overlap>>

Init ==
  /\ author = <<>> /\ open = {} /\ overlap = <<>>
  /\ lists = [u \in Users |-> <<>>]

Create(u) ==
  LET t == Len(author) + 1 IN
  /\ t <= MaxTweets
  /\ author' = Append(author, u)
  /\ overlap' = Append(overlap, open)
  /\ open' = open \/ open' = open \cup {t}
  /\ UNCHANGED lists

(* In front, and the list is cut to its length: what was pushed first goes.    *)
Push(u, t) ==
  /\ t \in open
  /\ lists' = [lists EXCEPT ![u] =
                 SubSeq(<<t>> \o @, 1, IF Len(@) < MaxLen THEN Len(@) + 1 ELSE MaxLen)]
  /\ UNCHANGED <<author, open, overlap>>

(* The fan-out of tweets is over, with or without them in every list.          *)
Close ==
  /\ open' \subseteq open
  /\ UNCHANGED <<author, lists, overlap>>

Expire(u) ==
  /\ lists' = [lists EXCEPT ![u] = <<>>]
  /\ UNCHANGED <<author, open, overlap>>

Next ==
  \/ \E u \in Authors : Create(u)
  \/ \E u \in Users : Expire(u) \/ \E t \in open : Push(u, t)
  \/ Close

Spec == Init /\ [][Next]_vars

(* Newest first, but for tweets whose fan-outs overlapped: an older tweet is    *)
(* above a newer one only if it was still open when the newer one was created.  *)
InOrder ==
  \A u \in Users : \A i, j \in DOMAIN lists[u] :
    i < j /\ lists[u][i] < lists[u][j] => lists[u][i] \in overlap[lists[u][j]]
=============================================================================
