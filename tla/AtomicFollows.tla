--------------------------- MODULE AtomicFollows ----------------------------
(* What callers of Follow and Unfollow are promised: a call takes effect in   *)
(* one step or not at all; an answered "ok" has taken effect, or found the    *)
(* pair there (follow) or gone (unfollow) at some time during the call; an    *)
(* error leaves open whether it has.                                          *)
EXTENDS Integers

CONSTANTS
  Requests,   \* the calls
  Users,      \* rows of the table users
  Ids         \* the ids a call may name

NoCall == [op |-> "none"]

VARIABLES
  follows,         \* table follows: pairs <<follower, followee>>
  followingCount,  \* users.following_count
  followerCount,   \* users.follower_count
  answer,          \* per request: "none", "ok" or "error"
  call,            \* per request: its arguments
  held             \* the calls during which follows has had their pair

vars == <<follows, followingCount, followerCount, answer, call, held>>

Pair(r) == <<call[r].follower, call[r].followee>>

(* GREATEST(n - 1, 0) *)
FlooredDecrement(n) == IF n > 0 THEN n - 1 ELSE 0

Init ==
  /\ follows = {}
  /\ followingCount = [u \in Users |-> 0]
  /\ followerCount = [u \in Users |-> 0]
  /\ answer = [r \in Requests |-> "none"]
  /\ call = [r \in Requests |-> NoCall]
  /\ held = {}

Ask(r, op, a, b) ==
  /\ call[r] = NoCall
  /\ call' = [call EXCEPT ![r] = [op |-> op, follower |-> a, followee |-> b]]
  /\ held' = IF <<a, b>> \in follows THEN held \cup {r} ELSE held
  /\ UNCHANGED <<follows, followingCount, followerCount, answer>>

Open(r) == call[r] # NoCall /\ answer[r] = "none"

Count(r) ==
  /\ followingCount' = [followingCount EXCEPT ![call[r].follower] = @ + 1]
  /\ followerCount' = [followerCount EXCEPT ![call[r].followee] = @ + 1]

(* Follow adds a pair of two different users. *)
Add(r) ==
  /\ call[r].op = "follow" /\ Pair(r) \notin follows
  /\ call[r].followee \in Users \ {call[r].follower}
  /\ follows' = follows \cup {Pair(r)}
  /\ Count(r)

(* It counts as well when the pair is, or was, already there. *)
AddAgain(r) ==
  /\ call[r].op = "follow" /\ r \in held
  /\ UNCHANGED follows
  /\ Count(r)

Remove(r) ==
  /\ call[r].op = "unfollow" /\ Pair(r) \in follows
  /\ follows' = follows \ {Pair(r)}
  /\ followingCount' =
       [followingCount EXCEPT ![call[r].follower] = FlooredDecrement(@)]
  /\ followerCount' =
       [followerCount EXCEPT ![call[r].followee] = FlooredDecrement(@)]

(* The call takes effect and is answered, with an error if the answer to its  *)
(* COMMIT is lost.                                                            *)
Finish(r) ==
  /\ Open(r)
  /\ Add(r) \/ AddAgain(r) \/ Remove(r)
  /\ \E a \in {"ok", "error"} : answer' = [answer EXCEPT ![r] = a]
  /\ held' = held \cup {q \in Requests : Open(q) /\ Pair(q) \in follows'}
  /\ UNCHANGED call

(* Unfollow of somebody who is not followed changes nothing. *)
NothingToRemove(r) ==
  /\ Open(r) /\ call[r].op = "unfollow" /\ Pair(r) \notin follows
  /\ answer' = [answer EXCEPT ![r] = "ok"]
  /\ UNCHANGED <<follows, followingCount, followerCount, call, held>>

Fail(r) ==
  /\ Open(r)
  /\ answer' = [answer EXCEPT ![r] = "error"]
  /\ UNCHANGED <<follows, followingCount, followerCount, call, held>>

Next ==
  \E r \in Requests :
    \/ \E op \in {"follow", "unfollow"}, a \in Users, b \in Ids : Ask(r, op, a, b)
    \/ Finish(r) \/ NothingToRemove(r) \/ Fail(r)

Spec == Init /\ [][Next]_vars
=============================================================================
