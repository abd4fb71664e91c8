---------------------------- MODULE FollowGraph -----------------------------
(* Follow and Unfollow of the user service.  Each runs one transaction of     *)
(* three statements on the primary, at READ COMMITTED, on a connection of the *)
(* pool it keeps until it ends.  A statement waits for the transaction that   *)
(* holds the key or the row it writes.  An UPDATE computes its new value from *)
(* the last committed one; others see what was written when it commits.       *)
EXTENDS Integers, FiniteSets

CONSTANTS
  Requests,   \* the HTTP requests, one call each
  Users,      \* registered users; the API deletes none
  Ids,        \* the ids a caller may name, registered or not
  PoolSize,   \* MaxConns of the primary pool
  Faults      \* what may go wrong, a subset of FaultKinds

(* "abort": a statement or COMMIT fails or the client hangs up;               *)
(* "lost_ack": COMMIT is done but its answer is lost.                         *)
FaultKinds == {"abort", "lost_ack"}

ASSUME FollowAssumption ==
  /\ IsFiniteSet(Requests)
  /\ IsFiniteSet(Users)
  /\ Users \subseteq Ids
  /\ PoolSize \in Nat \ {0}
  /\ Faults \subseteq FaultKinds

NoCall == [op |-> "none"]

VARIABLES
  follows,         \* table follows, committed: pairs <<follower, followee>>
  followingCount,  \* users.following_count, committed
  followerCount,   \* users.follower_count, committed
  pc,              \* per request: the statement it runs next, or its answer
  call,            \* per request: its arguments
  wrote,           \* the requests whose INSERT or DELETE changed a row
  newFollowing,    \* per request: what its UPDATE of following_count wrote
  newFollowers,    \* per request: what its UPDATE of follower_count wrote
  repeats,         \* history: follows committed of a pair that was there
  held             \* history: the calls during which follows had their pair

counts == <<followingCount, followerCount>>
written == <<wrote, newFollowing, newFollowers>>
history == <<repeats, held>>
vars == <<follows, counts, pc, call, written, history>>

Pair(r) == <<call[r].follower, call[r].followee>>

-----------------------------------------------------------------------------
(* Locks, as far as a transaction's position tells what it holds.  Operators  *)
(* that end in "Mutant" are slips with which the properties must fail.        *)

(* Its transaction has a connection: from Begin to Commit or the deferred      *)
(* Rollback.                                                                   *)
InTxMutant(r) == pc[r] \notin {"idle", "begin", "ok"}
InTx(r) == pc[r] \in {"insert", "delete", "following", "followers", "commit"}

(* The index entry of the pair it has inserted or deleted. *)
HoldsKey(r) == pc[r] \in {"following", "followers", "commit"} /\ r \in wrote

(* The rows of users it has updated. *)
HoldsRow(r, u) ==
  \/ pc[r] \in {"followers", "commit"} /\ u = call[r].follower
  \/ pc[r] = "commit" /\ u = call[r].followee

(* The transactions r waits for.  A DELETE does not see, and so not wait for, *)
(* a pair whose INSERT is not committed.                                      *)
Blockers(r) ==
  {q \in Requests \ {r} :
     \/ pc[r] = "insert" /\ HoldsKey(q) /\ Pair(q) = Pair(r)
     \/ pc[r] = "delete" /\ HoldsKey(q) /\ Pair(q) = Pair(r)
          /\ call[q].op = "unfollow"
     \/ pc[r] = "following" /\ HoldsRow(q, call[r].follower)
     \/ pc[r] = "followers" /\ HoldsRow(q, call[r].followee)}

(* The deadlock detector: r is on a cycle of waiting transactions.            *)
Deadlocked(r) ==
  \E C \in SUBSET Requests :
    /\ r \in C
    /\ \A q \in C : Blockers(q) \cap C # {} /\ \E p \in C : q \in Blockers(p)

(* The pool has a connection to give. *)
PoolHasRoomMutant == TRUE
PoolHasRoom == Cardinality({q \in Requests : InTx(q)}) < PoolSize

(* RowsAffected() of the DELETE is not 0. *)
DeletesRowMutant(r) == call[r].followee \in Users
DeletesRow(r) == Pair(r) \in follows

(* GREATEST(n - 1, 0) *)
FlooredDecrement(n) == IF n > 0 THEN n - 1 ELSE 0

-----------------------------------------------------------------------------
Init ==
  /\ follows = {}
  /\ followingCount = [u \in Users |-> 0]
  /\ followerCount = [u \in Users |-> 0]
  /\ pc = [r \in Requests |-> "idle"]
  /\ call = [r \in Requests |-> NoCall]
  /\ wrote = {}
  /\ newFollowing = [r \in Requests |-> 0] /\ newFollowers = [r \in Requests |-> 0]
  /\ repeats = {} /\ held = {}

(* Authentication has named the follower. *)
Ask(r, op, a, b) ==
  /\ pc[r] = "idle"
  /\ call' = [call EXCEPT ![r] = [op |-> op, follower |-> a, followee |-> b]]
  /\ pc' = [pc EXCEPT ![r] = "begin"]
  /\ held' = IF <<a, b>> \in follows THEN held \cup {r} ELSE held
  /\ UNCHANGED <<follows, counts, written, repeats>>

(* "cannot follow yourself" *)
IsSelfFollow(r) ==
  call[r].op = "follow" /\ call[r].follower = call[r].followee

RejectSelf(r) ==
  /\ pc[r] = "begin" /\ IsSelfFollow(r)
  /\ pc' = [pc EXCEPT ![r] = "error"]
  /\ UNCHANGED <<follows, counts, call, written, history>>

(* BEGIN, once the pool has a connection. *)
Begin(r) ==
  /\ pc[r] = "begin" /\ ~IsSelfFollow(r) /\ PoolHasRoom
  /\ pc' = [pc EXCEPT ![r] = IF call[r].op = "follow" THEN "insert" ELSE "delete"]
  /\ UNCHANGED <<follows, counts, call, written, history>>

(* INSERT ... ON CONFLICT DO NOTHING; the foreign key rejects an unknown id. *)
InsertFollow(r) ==
  /\ pc[r] = "insert" /\ Blockers(r) = {}
  /\ IF call[r].followee \in Users
     THEN /\ pc' = [pc EXCEPT ![r] = "following"]
          /\ wrote' = IF Pair(r) \in follows THEN wrote ELSE wrote \cup {r}
     ELSE /\ pc' = [pc EXCEPT ![r] = "error"]
          /\ UNCHANGED wrote
  /\ UNCHANGED <<follows, counts, call, newFollowing, newFollowers, history>>

(* DELETE; when no row was deleted Unfollow returns nil and rolls back. *)
DeleteFollow(r) ==
  /\ pc[r] = "delete" /\ Blockers(r) = {}
  /\ IF DeletesRow(r)
     THEN /\ pc' = [pc EXCEPT ![r] = "following"]
          /\ wrote' = wrote \cup {r}
     ELSE /\ pc' = [pc EXCEPT ![r] = "ok"]
          /\ UNCHANGED wrote
  /\ UNCHANGED <<follows, counts, call, newFollowing, newFollowers, history>>

Step(n, op) == IF op = "follow" THEN n + 1 ELSE FlooredDecrement(n)

(* UPDATE users SET following_count of the follower. *)
UpdateFollowing(r) ==
  /\ pc[r] = "following" /\ Blockers(r) = {}
  /\ newFollowing' = [newFollowing EXCEPT ![r] =
                        Step(followingCount[call[r].follower], call[r].op)]
  /\ pc' = [pc EXCEPT ![r] = "followers"]
  /\ UNCHANGED <<follows, counts, call, wrote, newFollowers, history>>

(* UPDATE users SET follower_count of the followee. *)
UpdateFollowers(r) ==
  /\ pc[r] = "followers" /\ Blockers(r) = {}
  /\ newFollowers' = [newFollowers EXCEPT ![r] =
                        Step(followerCount[call[r].followee], call[r].op)]
  /\ pc' = [pc EXCEPT ![r] = "commit"]
  /\ UNCHANGED <<follows, counts, call, wrote, newFollowing, history>>

(* The transaction is over: nothing it wrote is of use any more. *)
Forget(r) ==
  /\ wrote' = wrote \ {r}
  /\ newFollowing' = [newFollowing EXCEPT ![r] = 0]
  /\ newFollowers' = [newFollowers EXCEPT ![r] = 0]

(* What a transaction does to the table follows when it commits. *)
Written(r) ==
  IF r \notin wrote THEN follows
  ELSE IF call[r].op = "follow" THEN follows \cup {Pair(r)}
  ELSE follows \ {Pair(r)}

Unanswered == {q \in Requests : pc[q] \notin {"idle", "ok", "error"}}

(* COMMIT makes the three writes visible at once.  The counters are updated  *)
(* after an INSERT that did nothing too.                                     *)
Commit(r) ==
  /\ pc[r] = "commit"
  /\ follows' = Written(r)
  /\ followingCount' = [followingCount EXCEPT ![call[r].follower] = newFollowing[r]]
  /\ followerCount' = [followerCount EXCEPT ![call[r].followee] = newFollowers[r]]
  /\ held' = held \cup {q \in Unanswered : Pair(q) \in follows'}
  /\ repeats' = IF r \in wrote THEN repeats ELSE repeats \cup {r}
  /\ \/ pc' = [pc EXCEPT ![r] = "ok"]
     \/ "lost_ack" \in Faults /\ pc' = [pc EXCEPT ![r] = "error"]
  /\ Forget(r)
  /\ UNCHANGED call

(* The deferred Rollback after any failed statement. *)
Rollback(r) ==
  /\ pc' = [pc EXCEPT ![r] = "error"]
  /\ Forget(r)
  /\ UNCHANGED <<follows, counts, call, history>>

Abort(r) == "abort" \in Faults /\ (pc[r] = "begin" \/ InTx(r)) /\ Rollback(r)

(* Postgres fails a statement of a transaction on a cycle of waiters. *)
DeadlockVictim(r) == Deadlocked(r) /\ Rollback(r)

Execute(r) ==
  \/ RejectSelf(r) \/ Begin(r) \/ InsertFollow(r) \/ DeleteFollow(r)
  \/ UpdateFollowing(r) \/ UpdateFollowers(r) \/ Commit(r) \/ DeadlockVictim(r)

Next ==
  \E r \in Requests :
    \/ \E op \in {"follow", "unfollow"}, a \in Users, b \in Ids : Ask(r, op, a, b)
    \/ Execute(r) \/ Abort(r)

Spec == Init /\ [][Next]_vars

(* net/http runs every request it has accepted; the deadlock detector runs    *)
(* whenever a statement has waited for deadlock_timeout.                      *)
FairSpec == Spec /\ \A r \in Requests : WF_vars(Execute(r))

-----------------------------------------------------------------------------
(* Properties. *)

Calls == [op : {"follow", "unfollow"}, follower : Users, followee : Ids]

TypeOK ==
  /\ follows \subseteq Users \X Users
  /\ followingCount \in [Users -> Nat] /\ followerCount \in [Users -> Nat]
  /\ pc \in [Requests -> {"idle", "begin", "insert", "delete", "following",
                          "followers", "commit", "ok", "error"}]
  /\ call \in [Requests -> Calls \cup {NoCall}]
  /\ \A r \in Requests : IF pc[r] = "idle" THEN call[r] = NoCall ELSE call[r] \in Calls
  /\ Cardinality({r \in Requests : InTx(r)}) <= PoolSize
  /\ newFollowing \in [Requests -> Nat] /\ newFollowers \in [Requests -> Nat]
  /\ wrote \subseteq Requests /\ held \subseteq Requests /\ repeats \subseteq Requests

Followers(u) == {p \in follows : p[2] = u}
Following(u) == {p \in follows : p[1] = u}
RepeatsOf(u) == {r \in repeats : call[r].followee = u}
RepeatsBy(u) == {r \in repeats : call[r].follower = u}

(* follower_count and following_count are the sizes of what follows holds,    *)
(* plus one for each committed follow of a pair that was already followed:    *)
(* nothing else moves them apart, the floor of GREATEST included.             *)
CountsDrift ==
  \A u \in Users :
    /\ followerCount[u] = Cardinality(Followers(u)) + Cardinality(RepeatsOf(u))
    /\ followingCount[u] = Cardinality(Following(u)) + Cardinality(RepeatsBy(u))

(* Follow: "ON CONFLICT DO NOTHING makes the operation idempotent if the      *)
(* follow already exists", and it "atomically increments both counters": the  *)
(* counters are what a count of the rows would give.                          *)
FollowIdempotent ==
  \A u \in Users : followerCount[u] = Cardinality(Followers(u))

(* Every call is answered, whoever waits for whom.                            *)
CallsAnswered == \A r \in Requests : pc[r] = "begin" ~> pc[r] \in {"ok", "error"}

(* A step of its own is open to r: its statement waits for nobody, the pool    *)
(* has a connection for it, or the deadlock detector fails it.                 *)
CanRun(r) ==
  \/ pc[r] = "begin" /\ (IsSelfFollow(r) \/ PoolHasRoom)
  \/ /\ pc[r] \in {"insert", "delete", "following", "followers", "commit"}
     /\ Blockers(r) = {} \/ Deadlocked(r)

(* Calls that wait for locks and calls that wait for connections never wait    *)
(* for each other all at once: connections are given back by every way out of  *)
(* a transaction, and whoever holds all of them, one can go on.                *)
NeverStuck == Unanswered # {} => \E r \in Unanswered : CanRun(r)

(* The three statements are one step to everybody else.                       *)
answer == [r \in Requests |-> IF pc[r] \in {"ok", "error"} THEN pc[r] ELSE "none"]

Atomic == INSTANCE AtomicFollows
            WITH follows <- follows, followingCount <- followingCount,
                 followerCount <- followerCount, call <- call,
                 held <- held, answer <- answer
AtomicSpec == Atomic!Spec
=============================================================================
