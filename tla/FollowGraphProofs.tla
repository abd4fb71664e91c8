-------------------------- MODULE FollowGraphProofs --------------------------
(* Proofs about FollowGraph, for any number of calls and users, any size of   *)
(* the pool and any faults.                                                   *)
EXTENDS FollowGraph, FiniteSetTheorems, WellFoundedInduction, TLAPS

(* Past the first statement: the transaction will update both counters. *)
Writing == {"following", "followers", "commit"}

(* What a transaction's position says about its call. *)
TxShape ==
  /\ \A p \in follows : p[1] # p[2]
  /\ \A r \in Requests :
       /\ pc[r] = "insert" => call[r].op = "follow" /\ ~IsSelfFollow(r)
       /\ pc[r] = "delete" => call[r].op = "unfollow"
       /\ pc[r] \in Writing =>
            /\ call[r].followee \in Users \ {call[r].follower}
            /\ call[r].op = "unfollow" => r \in wrote
       /\ r \in wrote => pc[r] \in Writing

(* All of TypeOK but the bound on open transactions, and the arguments as     *)
(* facts about each field.                                                    *)
LEMMA CallFields ==
  ASSUME TypeOK, NEW r \in Requests, pc[r] # "idle"
  PROVE  /\ call[r].op \in {"follow", "unfollow"}
         /\ call[r].follower \in Users /\ call[r].followee \in Ids
         /\ call[r] # NoCall
<1>1. call[r] \in Calls
  BY DEF TypeOK
<1>2. call[r].op # NoCall.op
  BY <1>1 DEF NoCall, Calls
<1>3. QED
  BY <1>1, <1>2 DEF Calls

LEMMA StepNat == ASSUME NEW n \in Nat, NEW op PROVE Step(n, op) \in Nat
BY DEF Step, FlooredDecrement

(* The pool: a transaction begins only while there is room for one more.      *)
LEMMA PoolBound ==
  ASSUME TypeOK, NEW r \in Requests,
         pc' \in [Requests -> {"idle", "begin", "insert", "delete", "following",
                               "followers", "commit", "ok", "error"}],
         \A q \in Requests \ {r} : pc'[q] = pc[q],
         InTx(r) \/ PoolHasRoom \/ ~InTx(r)'
  PROVE  Cardinality({q \in Requests : InTx(q)'}) <= PoolSize
<1> DEFINE S == {q \in Requests : InTx(q)}
           T == {q \in Requests : InTx(q)'}
<1>1. IsFiniteSet(S) /\ IsFiniteSet(T)
  BY FollowAssumption, FS_Subset
<1>2. Cardinality(S) \in Nat /\ Cardinality(T) \in Nat /\ PoolSize \in Nat
  BY <1>1, FollowAssumption, FS_CardinalityType
<1>3. T \subseteq S \cup {r}
  BY DEF InTx
<1>4. CASE T \subseteq S
  <2>1. Cardinality(T) <= Cardinality(S)
    BY <1>1, <1>4, FS_Subset
  <2>2. QED
    BY <1>2, <2>1 DEF TypeOK
<1>5. CASE r \in T /\ r \notin S
  <2>1. Cardinality(S) < PoolSize
    BY <1>5 DEF PoolHasRoom
  <2>2. IsFiniteSet(S \cup {r}) /\ Cardinality(S \cup {r}) = Cardinality(S) + 1
    BY <1>1, <1>5, FS_AddElement
  <2>3. Cardinality(T) <= Cardinality(S \cup {r})
    BY <1>3, <2>2, FS_Subset
  <2>4. QED
    BY <1>2, <2>1, <2>2, <2>3
<1>6. QED
  BY <1>3, <1>4, <1>5

States == {"idle", "begin", "insert", "delete", "following", "followers", "commit",
           "ok", "error"}

(* A step of r alone, which keeps the tables and the arguments of every call. *)
LEMMA LocalStep ==
  ASSUME TypeOK, NEW r \in Requests, NEW p \in States \ {"idle"}, pc[r] # "idle",
         pc' = [pc EXCEPT ![r] = p], InTx(r) \/ PoolHasRoom \/ ~InTx(r)',
         UNCHANGED <<follows, counts, call, history>>,
         newFollowing' \in [Requests -> Nat], newFollowers' \in [Requests -> Nat],
         wrote' \subseteq Requests
  PROVE  TypeOK'
<1>1. pc' \in [Requests -> States]
  BY DEF TypeOK, States
<1>2. Cardinality({q \in Requests : InTx(q)'}) <= PoolSize
  BY <1>1, PoolBound DEF TypeOK, States
<1>3. \A q \in Requests :
        IF pc'[q] = "idle" THEN call'[q] = NoCall ELSE call'[q] \in Calls
  BY DEF TypeOK
<1>4. QED
  BY <1>1, <1>2, <1>3 DEF TypeOK, States, counts, history

LEMMA TypeAsk ==
  ASSUME TypeOK, NEW r \in Requests, NEW op \in {"follow", "unfollow"},
         NEW a \in Users, NEW b \in Ids, Ask(r, op, a, b)
  PROVE  TypeOK'
<1> DEFINE new == [op |-> op, follower |-> a, followee |-> b]
<1>1. pc' \in [Requests -> States] /\ ~InTx(r)'
  BY DEF Ask, TypeOK, States, InTx
<1>2. Cardinality({q \in Requests : InTx(q)'}) <= PoolSize
  BY <1>1, PoolBound DEF Ask, TypeOK, States
<1>3. \A q \in Requests :
        IF pc'[q] = "idle" THEN call'[q] = NoCall ELSE call'[q] \in Calls
  <2>1. new \in Calls
    BY DEF Calls
  <2>2. pc'[r] = "begin" /\ \A q \in Requests \ {r} : pc'[q] = pc[q]
    BY DEF Ask, TypeOK
  <2>3. call'[r] = new /\ \A q \in Requests \ {r} : call'[q] = call[q]
    BY DEF Ask, TypeOK
  <2>4. QED
    BY <2>1, <2>2, <2>3 DEF TypeOK
<1>4. call' \in [Requests -> Calls \cup {NoCall}]
  BY DEF Ask, TypeOK, Calls
<1>5. QED
  BY <1>1, <1>2, <1>3, <1>4 DEF Ask, TypeOK, States, counts, written

(* COMMIT is the one step of a transaction that changes the tables.           *)
LEMMA TypeCommit ==
  ASSUME TypeOK, TxShape, NEW r \in Requests, Commit(r)
  PROVE  TypeOK'
<1>1. /\ pc[r] = "commit" /\ pc' \in [Requests -> States] /\ ~InTx(r)' /\ InTx(r)
      /\ \A q \in Requests \ {r} : pc'[q] = pc[q]
  BY DEF Commit, TypeOK, States, InTx
<1>2. Cardinality({q \in Requests : InTx(q)'}) <= PoolSize
  BY <1>1, PoolBound DEF States
<1>3. call[r].follower \in Users /\ call[r].followee \in Users
  BY <1>1, CallFields DEF TxShape, Writing
<1>4. follows' \subseteq Users \X Users
  <2>1. Pair(r) \in Users \X Users
    BY <1>3 DEF Pair
  <2>2. QED
    BY <2>1 DEF Commit, Written, TypeOK
<1>5. followingCount' \in [Users -> Nat] /\ followerCount' \in [Users -> Nat]
  BY DEF Commit, TypeOK
<1>6. newFollowing' \in [Requests -> Nat] /\ newFollowers' \in [Requests -> Nat]
  BY DEF Commit, Forget, TypeOK
<1>7. wrote' \subseteq Requests /\ held' \subseteq Requests /\ repeats' \subseteq Requests
  BY DEF Commit, Forget, Unanswered, TypeOK
<1>8. /\ call' = call
      /\ \A q \in Requests :
           IF pc'[q] = "idle" THEN call'[q] = NoCall ELSE call'[q] \in Calls
  BY <1>1 DEF Commit, TypeOK
<1>9. QED
  BY <1>1, <1>2, <1>4, <1>5, <1>6, <1>7, <1>8 DEF TypeOK, States

LEMMA TypeStep == TypeOK /\ TxShape /\ [Next]_vars => TypeOK'
<1> SUFFICES ASSUME TypeOK, TxShape, [Next]_vars PROVE TypeOK'
  OBVIOUS
<1>1. ASSUME NEW r \in Requests, NEW op \in {"follow", "unfollow"}, NEW a \in Users,
             NEW b \in Ids, Ask(r, op, a, b)
      PROVE  TypeOK'
  BY <1>1, TypeAsk
<1>2. ASSUME NEW r \in Requests, RejectSelf(r) PROVE TypeOK'
  BY <1>2, LocalStep DEF RejectSelf, States, InTx, TypeOK, written
<1>3. ASSUME NEW r \in Requests, Begin(r) PROVE TypeOK'
  BY <1>3, LocalStep DEF Begin, States, TypeOK, written
<1>4. ASSUME NEW r \in Requests, InsertFollow(r) PROVE TypeOK'
  <2>1. InTx(r) /\ wrote' \subseteq Requests
    BY <1>4 DEF InsertFollow, InTx, TypeOK
  <2>2. QED
    BY <1>4, <2>1, LocalStep DEF InsertFollow, States, TypeOK
<1>5. ASSUME NEW r \in Requests, DeleteFollow(r) PROVE TypeOK'
  <2>1. InTx(r) /\ wrote' \subseteq Requests
    BY <1>5 DEF DeleteFollow, InTx, TypeOK
  <2>2. QED
    BY <1>5, <2>1, LocalStep DEF DeleteFollow, States, TypeOK
<1>6. ASSUME NEW r \in Requests, UpdateFollowing(r) PROVE TypeOK'
  <2>1. InTx(r) /\ pc[r] # "idle"
    BY <1>6 DEF UpdateFollowing, InTx
  <2>2. Step(followingCount[call[r].follower], call[r].op) \in Nat
    BY <2>1, CallFields, StepNat DEF TypeOK
  <2>3. newFollowing' \in [Requests -> Nat]
    BY <1>6, <2>2 DEF UpdateFollowing, TypeOK
  <2>4. QED
    BY <1>6, <2>1, <2>3, LocalStep DEF UpdateFollowing, States, TypeOK
<1>7. ASSUME NEW r \in Requests, UpdateFollowers(r) PROVE TypeOK'
  <2>1. InTx(r) /\ pc[r] # "idle" /\ call[r].followee \in Users
    BY <1>7 DEF UpdateFollowers, InTx, TxShape, Writing
  <2>2. Step(followerCount[call[r].followee], call[r].op) \in Nat
    BY <2>1, StepNat DEF TypeOK
  <2>3. newFollowers' \in [Requests -> Nat]
    BY <1>7, <2>2 DEF UpdateFollowers, TypeOK
  <2>4. QED
    BY <1>7, <2>1, <2>3, LocalStep DEF UpdateFollowers, States, TypeOK
<1>8. ASSUME NEW r \in Requests, Commit(r) PROVE TypeOK'
  BY <1>8, TypeCommit
<1>9. ASSUME NEW r \in Requests, pc[r] # "idle", Rollback(r) PROVE TypeOK'
  <2>1. ~InTx(r)'
    BY <1>9 DEF Rollback, InTx, TypeOK
  <2>2. /\ newFollowing' \in [Requests -> Nat] /\ newFollowers' \in [Requests -> Nat]
        /\ wrote' \subseteq Requests
    BY <1>9 DEF Rollback, Forget, TypeOK
  <2>3. QED
    BY <1>9, <2>1, <2>2, LocalStep DEF Rollback, States
<1>10. ASSUME NEW r \in Requests, Abort(r) PROVE TypeOK'
  BY <1>9, <1>10 DEF Abort, InTx
<1>11. ASSUME NEW r \in Requests, DeadlockVictim(r) PROVE TypeOK'
  <2>1. pc[r] # "idle"
    BY <1>11 DEF DeadlockVictim, Deadlocked, Blockers
  <2>2. QED
    BY <1>9, <1>11, <2>1 DEF DeadlockVictim
<1>12. CASE UNCHANGED vars
  BY <1>12 DEF TypeOK, InTx, vars, counts, written, history
<1>13. QED
  BY <1>1, <1>2, <1>3, <1>4, <1>5, <1>6, <1>7, <1>8, <1>10, <1>11, <1>12 DEF Next, Execute

(* TxShape at one call. *)
ShapeOf(r) ==
  /\ pc[r] = "insert" => call[r].op = "follow" /\ ~IsSelfFollow(r)
  /\ pc[r] = "delete" => call[r].op = "unfollow"
  /\ pc[r] \in Writing =>
       /\ call[r].followee \in Users \ {call[r].follower}
       /\ call[r].op = "unfollow" => r \in wrote
  /\ r \in wrote => pc[r] \in Writing

(* A step of r alone leaves the shape of every other call as it is. *)
LEMMA ShapeLocal ==
  ASSUME TypeOK, TxShape, NEW r \in Requests, ShapeOf(r)',
         \A p \in follows' : p[1] # p[2],
         \A q \in Requests \ {r} :
           /\ pc'[q] = pc[q] /\ call'[q] = call[q]
           /\ q \in wrote' <=> q \in wrote
  PROVE  TxShape'
<1>1. \A q \in Requests \ {r} : ShapeOf(q)'
  BY DEF TxShape, ShapeOf, IsSelfFollow
<1>2. \A q \in Requests : ShapeOf(q)'
  BY <1>1
<1>3. QED
  BY <1>2 DEF TxShape, ShapeOf

LEMMA ShapeStep == TypeOK /\ TxShape /\ [Next]_vars => TxShape'
<1> SUFFICES ASSUME TypeOK, TxShape, [Next]_vars PROVE TxShape'
  OBVIOUS
<1>1. ASSUME NEW r \in Requests, NEW op \in {"follow", "unfollow"}, NEW a \in Users,
             NEW b \in Ids, Ask(r, op, a, b)
      PROVE  TxShape'
  BY <1>1, ShapeLocal DEF Ask, ShapeOf, TxShape, Writing, TypeOK, written
<1>2. ASSUME NEW r \in Requests, RejectSelf(r) PROVE TxShape'
  BY <1>2, ShapeLocal DEF RejectSelf, ShapeOf, TxShape, Writing, TypeOK, written
<1>3. ASSUME NEW r \in Requests, Begin(r) PROVE TxShape'
  <2>1. call[r].op \in {"follow", "unfollow"}
    BY <1>3, CallFields DEF Begin
  <2>2. QED
    BY <1>3, <2>1, ShapeLocal
    DEF Begin, ShapeOf, TxShape, IsSelfFollow, Writing, TypeOK, written
<1>4. ASSUME NEW r \in Requests, InsertFollow(r) PROVE TxShape'
  <2>1. ShapeOf(r)'
    BY <1>4 DEF InsertFollow, ShapeOf, TxShape, IsSelfFollow, Writing, TypeOK
  <2>2. QED
    BY <1>4, <2>1, ShapeLocal DEF InsertFollow, TxShape, TypeOK
<1>5. ASSUME NEW r \in Requests, DeleteFollow(r) PROVE TxShape'
  <2>1. Pair(r) \in follows => call[r].followee \in Users \ {call[r].follower}
    BY DEF Pair, TxShape, TypeOK
  <2>2. ShapeOf(r)'
    BY <1>5, <2>1 DEF DeleteFollow, DeletesRow, ShapeOf, TxShape, Writing, TypeOK
  <2>3. QED
    BY <1>5, <2>2, ShapeLocal DEF DeleteFollow, TxShape, TypeOK
<1>6. ASSUME NEW r \in Requests, UpdateFollowing(r) PROVE TxShape'
  BY <1>6, ShapeLocal DEF UpdateFollowing, ShapeOf, TxShape, Writing, TypeOK
<1>7. ASSUME NEW r \in Requests, UpdateFollowers(r) PROVE TxShape'
  BY <1>7, ShapeLocal DEF UpdateFollowers, ShapeOf, TxShape, Writing, TypeOK
<1>8. ASSUME NEW r \in Requests, Commit(r) PROVE TxShape'
  <2>1. ShapeOf(r)'
    BY <1>8 DEF Commit, Forget, ShapeOf, Writing, TypeOK
  <2>2. \A p \in follows' : p[1] # p[2]
    BY <1>8 DEF Commit, Written, Pair, TxShape, Writing
  <2>3. QED
    BY <1>8, <2>1, <2>2, ShapeLocal DEF Commit, Forget, TypeOK
<1>9. ASSUME NEW r \in Requests, Abort(r) \/ DeadlockVictim(r) PROVE TxShape'
  <2>1. Rollback(r)
    BY <1>9 DEF Abort, DeadlockVictim
  <2>2. ShapeOf(r)'
    BY <2>1 DEF Rollback, Forget, ShapeOf, Writing, TypeOK
  <2>3. QED
    BY <2>1, <2>2, ShapeLocal DEF Rollback, Forget, TxShape, TypeOK
<1>10. CASE UNCHANGED vars
  BY <1>10 DEF TxShape, IsSelfFollow, vars, written
<1>11. QED
  BY <1>1, <1>2, <1>3, <1>4, <1>5, <1>6, <1>7, <1>8, <1>9, <1>10 DEF Next, Execute

LEMMA TypeInit == Init => TypeOK /\ TxShape
<1> SUFFICES ASSUME Init PROVE TypeOK /\ TxShape
  OBVIOUS
<1>1. {r \in Requests : InTx(r)} = {}
  BY DEF Init, InTx
<1>2. Cardinality({r \in Requests : InTx(r)}) <= PoolSize
  BY <1>1, FS_EmptySet, FollowAssumption
<1>3. QED
  BY <1>2 DEF Init, TypeOK, TxShape, Writing

(* Every reachable state is well typed, and no more transactions are open     *)
(* than the pool has connections.                                             *)
THEOREM TypeCorrect == Spec => []TypeOK
BY TypeInit, TypeStep, ShapeStep, PTL DEF Spec

-----------------------------------------------------------------------------
(* Waiting.                                                                   *)

LEMMA Least ==
  ASSUME NEW S \in SUBSET Nat, S # {}
  PROVE  \E n \in S : \A m \in S : n <= m
<1>1. PICK n \in S : \A m \in S : ~(<<m, n>> \in OpToRel(<, Nat))
  BY NatLessThanWellFounded, WFMin
<1>2. \A m \in S : ~(m < n)
  BY <1>1 DEF OpToRel
<1>3. QED
  BY <1>2

(* Transactions that all wait for one of their own: a smallest such set has    *)
(* nobody for whom no other one waits, and so is a cycle.                      *)
LEMMA WaitersDeadlock ==
  ASSUME NEW S \in SUBSET Requests, S # {}, \A q \in S : Blockers(q) \cap S # {}
  PROVE  \E r \in S : Deadlocked(r)
<1> DEFINE Waits(T) == T # {} /\ \A q \in T : Blockers(q) \cap T # {}
           Sizes == {Cardinality(T) : T \in {U \in SUBSET S : Waits(U)}}
<1>1. \A T \in SUBSET S : IsFiniteSet(T) /\ Cardinality(T) \in Nat
  BY FollowAssumption, FS_Subset, FS_CardinalityType
<1>2. PICK C \in SUBSET S :
        Waits(C) /\ \A T \in SUBSET S : Waits(T) => Cardinality(C) <= Cardinality(T)
  <2>1. Sizes \in SUBSET Nat /\ Sizes # {}
    BY <1>1
  <2>2. PICK n \in Sizes : \A m \in Sizes : n <= m
    BY <2>1, Least
  <2>3. QED
    BY <2>2
<1>3. ASSUME NEW q \in C PROVE \E p \in C : q \in Blockers(p)
  <2>1. SUFFICES ASSUME \A p \in C : q \notin Blockers(p) PROVE FALSE
    OBVIOUS
  <2>2. PICK p \in C : p \in Blockers(q)
    BY <1>2
  <2>3. p \in C \ {q}
    BY <2>1, <2>2
  <2>4. Waits(C \ {q})
    BY <1>2, <2>1, <2>3
  <2>5. Cardinality(C) <= Cardinality(C \ {q})
    BY <1>2, <2>4
  <2>6. Cardinality(C \ {q}) = Cardinality(C) - 1
    BY <1>1, FS_RemoveElement
  <2>7. QED
    BY <1>1, <2>5, <2>6
<1>4. PICK r \in C : TRUE
  BY <1>2
<1>5. Deadlocked(r)
  BY <1>2, <1>3, <1>4 DEF Deadlocked
<1>6. QED
  BY <1>5

(* Locks are held by open transactions only, since each way out of one is a    *)
(* position without locks.                                                     *)
LEMMA BlockersOpen == ASSUME NEW r PROVE \A q \in Blockers(r) : InTx(q)
BY DEF Blockers, HoldsKey, HoldsRow, InTx

LEMMA SomebodyRuns == TypeOK => NeverStuck
<1>1. SUFFICES ASSUME TypeOK, NEW r \in Unanswered PROVE \E q \in Unanswered : CanRun(q)
  BY DEF NeverStuck
<1> DEFINE Open == {q \in Requests : InTx(q)}
<1>2. Open \subseteq Unanswered
  BY DEF InTx, Unanswered
<1>3. CASE Open = {}
  <2>1. Cardinality(Open) < PoolSize
    BY <1>3, FollowAssumption, FS_EmptySet
  <2>2. r \in Requests /\ pc[r] = "begin"
    BY <1>1, <1>3 DEF TypeOK, Unanswered, InTx
  <2>3. CanRun(r)
    BY <2>1, <2>2 DEF CanRun, PoolHasRoom
  <2>4. QED
    BY <2>3
<1>4. CASE \E q \in Open : Blockers(q) = {}
  BY <1>2, <1>4 DEF CanRun, InTx
<1>5. CASE Open # {} /\ \A q \in Open : Blockers(q) # {}
  <2>1. \A q \in Open : Blockers(q) \cap Open # {}
    BY <1>5, BlockersOpen DEF Blockers
  <2>2. \E q \in Open : Deadlocked(q)
    BY <1>5, <2>1, WaitersDeadlock
  <2>3. QED
    BY <1>2, <2>2 DEF CanRun, InTx
<1>6. QED
  BY <1>3, <1>4, <1>5

(* However many calls wait for row locks, for keys and for connections of a    *)
(* pool of any size, one of them can take its next step.                       *)
THEOREM NobodyStuck == Spec => []NeverStuck
BY TypeCorrect, SomebodyRuns, PTL

-----------------------------------------------------------------------------
(* What the locks guarantee.  A key is written by one transaction at a time,  *)
(* which makes what its INSERT or DELETE found still true at COMMIT; a row is *)
(* updated by one transaction at a time, which makes the values it computed   *)
(* still right at COMMIT.                                                     *)

KeyInv ==
  /\ \A q, r \in Requests :
       q # r /\ HoldsKey(q) /\ HoldsKey(r) => Pair(q) # Pair(r)
  /\ \A r \in Requests :
       HoldsKey(r) => (Pair(r) \in follows <=> call[r].op = "unfollow")

RowInv ==
  /\ \A q, r \in Requests : q # r =>
       \A u \in Users : ~(HoldsRow(q, u) /\ HoldsRow(r, u))
  /\ \A r \in Requests :
       /\ pc[r] \in {"followers", "commit"} =>
            newFollowing[r] = Step(followingCount[call[r].follower], call[r].op)
       /\ pc[r] = "commit" =>
            newFollowers[r] = Step(followerCount[call[r].followee], call[r].op)

(* Steps that neither take a key nor write the table follows. *)
LEMMA KeyKept ==
  ASSUME KeyInv, follows' = follows,
         \A q \in Requests : HoldsKey(q)' => HoldsKey(q) /\ call'[q] = call[q]
  PROVE  KeyInv'
BY DEF KeyInv, Pair

LEMMA KeyStep == TypeOK /\ TxShape /\ KeyInv /\ [Next]_vars => KeyInv'
<1> SUFFICES ASSUME TypeOK, TxShape, KeyInv, [Next]_vars PROVE KeyInv'
  OBVIOUS
<1>1. ASSUME NEW r \in Requests, NEW op \in {"follow", "unfollow"}, NEW a \in Users,
             NEW b \in Ids, Ask(r, op, a, b)
      PROVE  KeyInv'
  BY <1>1, KeyKept DEF Ask, HoldsKey, TypeOK, written
<1>2. ASSUME NEW r \in Requests,
             RejectSelf(r) \/ Begin(r) \/ UpdateFollowing(r) \/ UpdateFollowers(r)
      PROVE  KeyInv'
  BY <1>2, KeyKept
  DEF RejectSelf, Begin, UpdateFollowing, UpdateFollowers, HoldsKey, TypeOK, written
<1>3. ASSUME NEW r \in Requests, InsertFollow(r) PROVE KeyInv'
  <2>1. CASE wrote' = wrote
    BY <1>3, <2>1, KeyKept DEF InsertFollow, HoldsKey, TxShape, Writing, TypeOK
  <2>2. CASE wrote' = wrote \cup {r} /\ Pair(r) \notin follows
    <3>1. call[r].op = "follow"
      BY <1>3 DEF InsertFollow, TxShape
    <3>2. \A q \in Requests \ {r} : HoldsKey(q) => Pair(q) # Pair(r)
      BY <1>3 DEF InsertFollow, Blockers
    <3>3. \A q \in Requests \ {r} : HoldsKey(q)' <=> HoldsKey(q)
      BY <1>3, <2>2 DEF InsertFollow, HoldsKey, TypeOK
    <3>4. UNCHANGED <<follows, call>> /\ \A q \in Requests : Pair(q)' = Pair(q)
      BY <1>3 DEF InsertFollow, Pair
    <3>5. QED
      BY <2>2, <3>1, <3>2, <3>3, <3>4 DEF KeyInv
  <2>3. QED
    BY <1>3, <2>1, <2>2 DEF InsertFollow
<1>4. ASSUME NEW r \in Requests, DeleteFollow(r) PROVE KeyInv'
  <2>1. CASE wrote' = wrote
    BY <1>4, <2>1, KeyKept DEF DeleteFollow, HoldsKey, TxShape, Writing, TypeOK
  <2>2. CASE wrote' = wrote \cup {r} /\ Pair(r) \in follows
    <3>1. call[r].op = "unfollow"
      BY <1>4 DEF DeleteFollow, TxShape
    <3>2. \A q \in Requests \ {r} : HoldsKey(q) => Pair(q) # Pair(r)
      BY <1>4, <2>2 DEF DeleteFollow, Blockers, KeyInv
    <3>3. \A q \in Requests \ {r} : HoldsKey(q)' <=> HoldsKey(q)
      BY <1>4, <2>2 DEF DeleteFollow, HoldsKey, TypeOK
    <3>4. UNCHANGED <<follows, call>> /\ \A q \in Requests : Pair(q)' = Pair(q)
      BY <1>4 DEF DeleteFollow, Pair
    <3>5. QED
      BY <2>2, <3>1, <3>2, <3>3, <3>4 DEF KeyInv
  <2>3. QED
    BY <1>4, <2>1, <2>2 DEF DeleteFollow, DeletesRow
<1>5. ASSUME NEW r \in Requests, Commit(r) PROVE KeyInv'
  <2>1. ~HoldsKey(r)'
    BY <1>5 DEF Commit, HoldsKey, Forget
  <2>2. \A q \in Requests \ {r} : HoldsKey(q)' <=> HoldsKey(q)
    BY <1>5 DEF Commit, HoldsKey, Forget, TypeOK
  <2>3. \A q \in Requests \ {r} :
          HoldsKey(q) => (Pair(q) \in follows' <=> Pair(q) \in follows)
    <3>1. \/ follows' = follows
          \/ HoldsKey(r) /\ follows' = follows \cup {Pair(r)}
          \/ HoldsKey(r) /\ follows' = follows \ {Pair(r)}
      BY <1>5 DEF Commit, Written, HoldsKey
    <3>2. QED
      BY <3>1 DEF KeyInv
  <2>4. UNCHANGED call /\ \A q \in Requests : Pair(q)' = Pair(q)
    BY <1>5 DEF Commit, Pair
  <2>5. QED
    BY <2>1, <2>2, <2>3, <2>4 DEF KeyInv
<1>6. ASSUME NEW r \in Requests, Abort(r) \/ DeadlockVictim(r) PROVE KeyInv'
  BY <1>6, KeyKept DEF Abort, DeadlockVictim, Rollback, Forget, HoldsKey, TypeOK
<1>7. CASE UNCHANGED vars
  BY <1>7, KeyKept DEF KeyInv, HoldsKey, Pair, vars, written
<1>8. QED
  BY <1>1, <1>2, <1>3, <1>4, <1>5, <1>6, <1>7 DEF Next, Execute

(* Steps that take no row and write no counter. *)
LEMMA RowKept ==
  ASSUME RowInv, UNCHANGED counts,
         \A q \in Requests :
           /\ pc'[q] \in {"followers", "commit"} => pc'[q] = pc[q] /\ call'[q] = call[q]
           /\ pc'[q] \in {"followers", "commit"} => newFollowing'[q] = newFollowing[q]
           /\ pc'[q] = "commit" => newFollowers'[q] = newFollowers[q]
  PROVE  RowInv'
<1>1. \A q \in Requests, u \in Users : HoldsRow(q, u)' => HoldsRow(q, u)
  BY DEF HoldsRow
<1>2. QED
  BY <1>1 DEF RowInv, counts

LEMMA RowStep == TypeOK /\ TxShape /\ RowInv /\ [Next]_vars => RowInv'
<1> SUFFICES ASSUME TypeOK, TxShape, RowInv, [Next]_vars PROVE RowInv'
  OBVIOUS
<1>1. ASSUME NEW r \in Requests, NEW op \in {"follow", "unfollow"}, NEW a \in Users,
             NEW b \in Ids, Ask(r, op, a, b)
      PROVE  RowInv'
  BY <1>1, RowKept DEF Ask, TypeOK, written
<1>2. ASSUME NEW r \in Requests, RejectSelf(r) \/ Begin(r) PROVE RowInv'
  BY <1>2, RowKept DEF RejectSelf, Begin, TypeOK, written
<1>3. ASSUME NEW r \in Requests, InsertFollow(r) \/ DeleteFollow(r) PROVE RowInv'
  BY <1>3, RowKept DEF InsertFollow, DeleteFollow, TypeOK
<1>4. ASSUME NEW r \in Requests, UpdateFollowing(r) PROVE RowInv'
  <2>1. /\ pc[r] = "following" /\ pc'[r] = "followers"
        /\ \A q \in Requests \ {r} : pc'[q] = pc[q] /\ newFollowing'[q] = newFollowing[q]
        /\ newFollowing'[r] = Step(followingCount[call[r].follower], call[r].op)
        /\ UNCHANGED <<counts, call, newFollowers>>
    BY <1>4 DEF UpdateFollowing, TypeOK
  <2>2. \A q \in Requests \ {r} : ~HoldsRow(q, call[r].follower)
    BY <1>4 DEF UpdateFollowing, Blockers
  <2>3. \A q \in Requests \ {r}, u \in Users : HoldsRow(q, u)' <=> HoldsRow(q, u)
    BY <2>1 DEF HoldsRow
  <2>4. \A u \in Users : HoldsRow(r, u)' => u = call[r].follower
    BY <2>1 DEF HoldsRow
  <2>5. QED
    BY <2>1, <2>2, <2>3, <2>4 DEF RowInv, counts
<1>5. ASSUME NEW r \in Requests, UpdateFollowers(r) PROVE RowInv'
  <2>1. /\ pc[r] = "followers" /\ pc'[r] = "commit"
        /\ \A q \in Requests \ {r} : pc'[q] = pc[q] /\ newFollowers'[q] = newFollowers[q]
        /\ newFollowers'[r] = Step(followerCount[call[r].followee], call[r].op)
        /\ UNCHANGED <<counts, call, newFollowing>>
    BY <1>5 DEF UpdateFollowers, TypeOK
  <2>2. \A q \in Requests \ {r} : ~HoldsRow(q, call[r].followee)
    BY <1>5 DEF UpdateFollowers, Blockers
  <2>3. \A q \in Requests \ {r}, u \in Users : HoldsRow(q, u)' <=> HoldsRow(q, u)
    BY <2>1 DEF HoldsRow
  <2>4. \A u \in Users : HoldsRow(r, u)' => HoldsRow(r, u) \/ u = call[r].followee
    BY <2>1 DEF HoldsRow
  <2>5. QED
    BY <2>1, <2>2, <2>3, <2>4 DEF RowInv, counts
<1>6. ASSUME NEW r \in Requests, Commit(r) PROVE RowInv'
  <2>1. /\ pc[r] = "commit" /\ pc'[r] \in {"ok", "error"}
        /\ \A q \in Requests \ {r} : /\ pc'[q] = pc[q]
                                    /\ newFollowing'[q] = newFollowing[q]
                                    /\ newFollowers'[q] = newFollowers[q]
        /\ UNCHANGED call
    BY <1>6 DEF Commit, Forget, TypeOK
  <2>2. call[r].follower \in Users /\ call[r].followee \in Users
    BY <2>1, CallFields DEF TxShape, Writing
  <2>3. HoldsRow(r, call[r].follower) /\ HoldsRow(r, call[r].followee)
    BY <2>1 DEF HoldsRow
  <2>4. \A q \in Requests \ {r} :
          ~HoldsRow(q, call[r].follower) /\ ~HoldsRow(q, call[r].followee)
    BY <2>2, <2>3 DEF RowInv
  <2>5. \A u \in Users : /\ u # call[r].follower => followingCount'[u] = followingCount[u]
                         /\ u # call[r].followee => followerCount'[u] = followerCount[u]
    BY <1>6 DEF Commit, TypeOK
  <2>6. \A q \in Requests, u \in Users : HoldsRow(q, u)' => HoldsRow(q, u)
    BY <2>1 DEF HoldsRow
  <2>7. ASSUME NEW q \in Requests, pc'[q] \in {"followers", "commit"}
        PROVE  newFollowing'[q] = Step(followingCount'[call'[q].follower], call'[q].op)
    <3>1. q # r /\ pc[q] \in {"followers", "commit"} /\ call[q].follower \in Users
      BY <2>1, <2>7, CallFields
    <3>2. call[q].follower # call[r].follower
      BY <2>4, <3>1 DEF HoldsRow
    <3>3. QED
      BY <2>1, <2>5, <3>1, <3>2 DEF RowInv
  <2>8. ASSUME NEW q \in Requests, pc'[q] = "commit"
        PROVE  newFollowers'[q] = Step(followerCount'[call'[q].followee], call'[q].op)
    <3>1. q # r /\ pc[q] = "commit" /\ call[q].followee \in Users
      BY <2>1, <2>8 DEF TxShape, Writing
    <3>2. call[q].followee # call[r].followee
      BY <2>4, <3>1 DEF HoldsRow
    <3>3. QED
      BY <2>1, <2>5, <3>1, <3>2 DEF RowInv
  <2>9. QED
    BY <2>6, <2>7, <2>8 DEF RowInv
<1>7. ASSUME NEW r \in Requests, Abort(r) \/ DeadlockVictim(r) PROVE RowInv'
  BY <1>7, RowKept DEF Abort, DeadlockVictim, Rollback, Forget, TypeOK
<1>8. CASE UNCHANGED vars
  BY <1>8, RowKept DEF vars, written
<1>9. QED
  BY <1>1, <1>2, <1>3, <1>4, <1>5, <1>6, <1>7, <1>8 DEF Next, Execute

-----------------------------------------------------------------------------
(* How far the counters are from the rows they count. *)

DriftInv ==
  /\ CountsDrift
  /\ \A r \in repeats : pc[r] \in {"ok", "error"}

LEMMA FiniteTables ==
  ASSUME TypeOK
  PROVE  /\ IsFiniteSet(repeats)
         /\ \A u \in Users :
              /\ IsFiniteSet(Followers(u)) /\ IsFiniteSet(Following(u))
              /\ IsFiniteSet(RepeatsOf(u)) /\ IsFiniteSet(RepeatsBy(u))
              /\ Cardinality(Followers(u)) \in Nat /\ Cardinality(Following(u)) \in Nat
              /\ Cardinality(RepeatsOf(u)) \in Nat /\ Cardinality(RepeatsBy(u)) \in Nat
<1>1. IsFiniteSet(Users \X Users)
  BY FollowAssumption, FS_Product
<1>2. IsFiniteSet(follows) /\ IsFiniteSet(repeats)
  BY <1>1, FollowAssumption, FS_Subset DEF TypeOK
<1>3. \A u \in Users : /\ Followers(u) \subseteq follows /\ Following(u) \subseteq follows
                       /\ RepeatsOf(u) \subseteq repeats /\ RepeatsBy(u) \subseteq repeats
  BY DEF Followers, Following, RepeatsOf, RepeatsBy
<1>4. \A u \in Users : /\ IsFiniteSet(Followers(u)) /\ IsFiniteSet(Following(u))
                       /\ IsFiniteSet(RepeatsOf(u)) /\ IsFiniteSet(RepeatsBy(u))
  BY <1>2, <1>3, FS_Subset
<1>5. QED
  BY <1>2, <1>4, FS_CardinalityType

(* Steps that touch no table and no answered call. *)
LEMMA DriftKept ==
  ASSUME DriftInv, UNCHANGED <<follows, counts, repeats>>,
         \A q \in repeats : pc'[q] = pc[q] /\ call'[q] = call[q]
  PROVE  DriftInv'
<1>1. \A u \in Users : /\ Followers(u)' = Followers(u) /\ Following(u)' = Following(u)
                       /\ RepeatsOf(u)' = RepeatsOf(u) /\ RepeatsBy(u)' = RepeatsBy(u)
  BY DEF Followers, Following, RepeatsOf, RepeatsBy
<1>2. QED
  BY <1>1 DEF DriftInv, CountsDrift, counts

(* COMMIT moves a counter by one exactly when it moves what is counted by one. *)
LEMMA DriftCommit ==
  ASSUME TypeOK, TxShape, KeyInv, RowInv, DriftInv, NEW r \in Requests, Commit(r)
  PROVE  DriftInv'
<1> DEFINE a == call[r].follower
           b == call[r].followee
           p == Pair(r)
<1>1. pc[r] = "commit" /\ a \in Users /\ b \in Users
  BY CallFields DEF Commit, TxShape, Writing
<1>2. r \notin repeats /\ p = <<a, b>> /\ UNCHANGED call
  BY <1>1 DEF DriftInv, Commit, Pair
<1>3. /\ followingCount' = [followingCount EXCEPT ![a] = Step(followingCount[a], call[r].op)]
      /\ followerCount' = [followerCount EXCEPT ![b] = Step(followerCount[b], call[r].op)]
  BY <1>1 DEF Commit, RowInv
<1>4. \A u \in Users : /\ followingCount[u] \in Nat /\ followerCount[u] \in Nat
                       /\ followingCount'[u] = IF u = a THEN Step(followingCount[u], call[r].op)
                                               ELSE followingCount[u]
                       /\ followerCount'[u] = IF u = b THEN Step(followerCount[u], call[r].op)
                                              ELSE followerCount[u]
  BY <1>3 DEF TypeOK
<1>5. \A q \in repeats' : pc'[q] \in {"ok", "error"}
  BY <1>1 DEF Commit, DriftInv, TypeOK
<1>6. CASE r \notin wrote
  <2>1. call[r].op = "follow" /\ follows' = follows /\ repeats' = repeats \cup {r}
    BY <1>1, <1>6, CallFields DEF Commit, Written, TxShape, Writing
  <2>2. \A n \in Nat : Step(n, call[r].op) = n + 1
    BY <2>1 DEF Step
  <2>3. ASSUME NEW u \in Users
        PROVE  /\ Followers(u)' = Followers(u) /\ Following(u)' = Following(u)
               /\ RepeatsOf(u)' = IF u = b THEN RepeatsOf(u) \cup {r} ELSE RepeatsOf(u)
               /\ RepeatsBy(u)' = IF u = a THEN RepeatsBy(u) \cup {r} ELSE RepeatsBy(u)
               /\ r \notin RepeatsOf(u) /\ r \notin RepeatsBy(u)
    BY <1>2, <2>1 DEF Followers, Following, RepeatsOf, RepeatsBy
  <2>4. ASSUME NEW u \in Users
        PROVE  /\ Cardinality(RepeatsOf(u) \cup {r}) = Cardinality(RepeatsOf(u)) + 1
               /\ Cardinality(RepeatsBy(u) \cup {r}) = Cardinality(RepeatsBy(u)) + 1
    BY <2>3, FiniteTables, FS_AddElement
  <2>5. ASSUME NEW u \in Users
        PROVE  /\ followerCount'[u] = Cardinality(Followers(u)') + Cardinality(RepeatsOf(u)')
               /\ followingCount'[u] = Cardinality(Following(u)') + Cardinality(RepeatsBy(u)')
    <3>1. /\ followerCount[u] = Cardinality(Followers(u)) + Cardinality(RepeatsOf(u))
          /\ followingCount[u] = Cardinality(Following(u)) + Cardinality(RepeatsBy(u))
      BY DEF DriftInv, CountsDrift
    <3>2. /\ Cardinality(Followers(u)) \in Nat /\ Cardinality(Following(u)) \in Nat
          /\ Cardinality(RepeatsOf(u)) \in Nat /\ Cardinality(RepeatsBy(u)) \in Nat
      BY FiniteTables
    <3>3. /\ followerCount'[u] = IF u = b THEN followerCount[u] + 1 ELSE followerCount[u]
          /\ followingCount'[u] = IF u = a THEN followingCount[u] + 1 ELSE followingCount[u]
      BY <1>4, <2>2
    <3>4. /\ Cardinality(RepeatsOf(u)') = IF u = b THEN Cardinality(RepeatsOf(u)) + 1
                                      ELSE Cardinality(RepeatsOf(u))
          /\ Cardinality(RepeatsBy(u)') = IF u = a THEN Cardinality(RepeatsBy(u)) + 1
                                      ELSE Cardinality(RepeatsBy(u))
      BY <2>3, <2>4
    <3>5. /\ followerCount[u] \in Nat /\ followingCount[u] \in Nat
      BY <1>4
    <3>6. followerCount'[u] = Cardinality(Followers(u)') + Cardinality(RepeatsOf(u)')
      BY <2>3, <3>1, <3>2, <3>3, <3>4, <3>5
    <3>7. followingCount'[u] = Cardinality(Following(u)') + Cardinality(RepeatsBy(u)')
      BY <2>3, <3>1, <3>2, <3>3, <3>4, <3>5
    <3>8. QED
      BY <3>6, <3>7
  <2>6. QED
    BY <1>5, <2>5 DEF DriftInv, CountsDrift
<1>7. CASE r \in wrote /\ call[r].op = "follow"
  <2>1. follows' = follows \cup {p} /\ p \notin follows /\ repeats' = repeats
    BY <1>1, <1>7 DEF Commit, Written, KeyInv, HoldsKey
  <2>2. \A n \in Nat : Step(n, call[r].op) = n + 1
    BY <1>7 DEF Step
  <2>3. ASSUME NEW u \in Users
        PROVE  /\ RepeatsOf(u)' = RepeatsOf(u) /\ RepeatsBy(u)' = RepeatsBy(u)
               /\ Followers(u)' = IF u = b THEN Followers(u) \cup {p} ELSE Followers(u)
               /\ Following(u)' = IF u = a THEN Following(u) \cup {p} ELSE Following(u)
               /\ p \notin Followers(u) /\ p \notin Following(u)
    BY <1>2, <2>1 DEF Followers, Following, RepeatsOf, RepeatsBy
  <2>4. ASSUME NEW u \in Users
        PROVE  /\ Cardinality(Followers(u) \cup {p}) = Cardinality(Followers(u)) + 1
               /\ Cardinality(Following(u) \cup {p}) = Cardinality(Following(u)) + 1
    BY <2>3, FiniteTables, FS_AddElement
  <2>5. ASSUME NEW u \in Users
        PROVE  /\ followerCount'[u] = Cardinality(Followers(u)') + Cardinality(RepeatsOf(u)')
               /\ followingCount'[u] = Cardinality(Following(u)') + Cardinality(RepeatsBy(u)')
    <3>1. /\ followerCount[u] = Cardinality(Followers(u)) + Cardinality(RepeatsOf(u))
          /\ followingCount[u] = Cardinality(Following(u)) + Cardinality(RepeatsBy(u))
      BY DEF DriftInv, CountsDrift
    <3>2. /\ Cardinality(Followers(u)) \in Nat /\ Cardinality(Following(u)) \in Nat
          /\ Cardinality(RepeatsOf(u)) \in Nat /\ Cardinality(RepeatsBy(u)) \in Nat
      BY FiniteTables
    <3>3. /\ followerCount'[u] = IF u = b THEN followerCount[u] + 1 ELSE followerCount[u]
          /\ followingCount'[u] = IF u = a THEN followingCount[u] + 1 ELSE followingCount[u]
      BY <1>4, <2>2
    <3>4. /\ Cardinality(Followers(u)') = IF u = b THEN Cardinality(Followers(u)) + 1
                                      ELSE Cardinality(Followers(u))
          /\ Cardinality(Following(u)') = IF u = a THEN Cardinality(Following(u)) + 1
                                      ELSE Cardinality(Following(u))
      BY <2>3, <2>4
    <3>5. /\ followerCount[u] \in Nat /\ followingCount[u] \in Nat
      BY <1>4
    <3>6. followerCount'[u] = Cardinality(Followers(u)') + Cardinality(RepeatsOf(u)')
      BY <2>3, <3>1, <3>2, <3>3, <3>4, <3>5
    <3>7. followingCount'[u] = Cardinality(Following(u)') + Cardinality(RepeatsBy(u)')
      BY <2>3, <3>1, <3>2, <3>3, <3>4, <3>5
    <3>8. QED
      BY <3>6, <3>7
  <2>6. QED
    BY <1>5, <2>5 DEF DriftInv, CountsDrift
<1>8. CASE r \in wrote /\ call[r].op = "unfollow"
  <2>1. follows' = follows \ {p} /\ p \in follows /\ repeats' = repeats
    BY <1>1, <1>8 DEF Commit, Written, KeyInv, HoldsKey
  <2>2. \A n \in Nat : n > 0 => Step(n, call[r].op) = n - 1
    BY <1>8 DEF Step, FlooredDecrement
  <2>3. ASSUME NEW u \in Users
        PROVE  /\ RepeatsOf(u)' = RepeatsOf(u) /\ RepeatsBy(u)' = RepeatsBy(u)
               /\ Followers(u)' = IF u = b THEN Followers(u) \ {p} ELSE Followers(u)
               /\ Following(u)' = IF u = a THEN Following(u) \ {p} ELSE Following(u)
    BY <1>2, <2>1 DEF Followers, Following, RepeatsOf, RepeatsBy
  <2>4. p \in Followers(b) /\ p \in Following(a)
    BY <1>2, <2>1 DEF Followers, Following
  <2>5. /\ Cardinality(Followers(b) \ {p}) = Cardinality(Followers(b)) - 1
        /\ Cardinality(Following(a) \ {p}) = Cardinality(Following(a)) - 1
    BY <1>1, <2>4, FiniteTables, FS_RemoveElement
  <2>6. Cardinality(Followers(b)) > 0 /\ Cardinality(Following(a)) > 0
    BY <1>1, <2>4, FiniteTables, FS_EmptySet
  <2>7. ASSUME NEW u \in Users
        PROVE  /\ followerCount'[u] = Cardinality(Followers(u)') + Cardinality(RepeatsOf(u)')
               /\ followingCount'[u] = Cardinality(Following(u)') + Cardinality(RepeatsBy(u)')
    <3>1. /\ followerCount[u] = Cardinality(Followers(u)) + Cardinality(RepeatsOf(u))
          /\ followingCount[u] = Cardinality(Following(u)) + Cardinality(RepeatsBy(u))
      BY DEF DriftInv, CountsDrift
    <3>2. /\ Cardinality(Followers(u)) \in Nat /\ Cardinality(Following(u)) \in Nat
          /\ Cardinality(RepeatsOf(u)) \in Nat /\ Cardinality(RepeatsBy(u)) \in Nat
      BY FiniteTables
    <3>3. /\ followerCount'[u] = IF u = b THEN followerCount[u] - 1 ELSE followerCount[u]
          /\ followingCount'[u] = IF u = a THEN followingCount[u] - 1 ELSE followingCount[u]
      BY <1>4, <2>2, <2>6, <3>1, <3>2
    <3>4. /\ Cardinality(Followers(u)') = IF u = b THEN Cardinality(Followers(u)) - 1
                                      ELSE Cardinality(Followers(u))
          /\ Cardinality(Following(u)') = IF u = a THEN Cardinality(Following(u)) - 1
                                      ELSE Cardinality(Following(u))
      BY <2>3, <2>5
    <3>5. /\ followerCount[u] \in Nat /\ followingCount[u] \in Nat
      BY <1>4
    <3>6. followerCount'[u] = Cardinality(Followers(u)') + Cardinality(RepeatsOf(u)')
      BY <2>3, <3>1, <3>2, <3>3, <3>4, <3>5
    <3>7. followingCount'[u] = Cardinality(Following(u)') + Cardinality(RepeatsBy(u)')
      BY <2>3, <3>1, <3>2, <3>3, <3>4, <3>5
    <3>8. QED
      BY <3>6, <3>7
  <2>8. QED
    BY <1>5, <2>7 DEF DriftInv, CountsDrift
<1>9. QED
  BY <1>1, <1>6, <1>7, <1>8, CallFields

LEMMA DriftStep ==
  TypeOK /\ TxShape /\ KeyInv /\ RowInv /\ DriftInv /\ [Next]_vars => DriftInv'
<1> SUFFICES ASSUME TypeOK, TxShape, KeyInv, RowInv, DriftInv, [Next]_vars PROVE DriftInv'
  OBVIOUS
<1>1. ASSUME NEW r \in Requests, Commit(r) PROVE DriftInv'
  BY <1>1, DriftCommit
<1>2. ASSUME NEW r \in Requests, NEW op \in {"follow", "unfollow"}, NEW a \in Users,
             NEW b \in Ids, Ask(r, op, a, b)
      PROVE  DriftInv'
  BY <1>2, DriftKept DEF Ask, DriftInv, TypeOK
<1>3. ASSUME NEW r \in Requests, RejectSelf(r) \/ Begin(r) PROVE DriftInv'
  BY <1>3, DriftKept DEF RejectSelf, Begin, DriftInv, TypeOK, history
<1>4. ASSUME NEW r \in Requests, InsertFollow(r) \/ DeleteFollow(r) PROVE DriftInv'
  BY <1>4, DriftKept DEF InsertFollow, DeleteFollow, DriftInv, TypeOK, history
<1>5. ASSUME NEW r \in Requests, UpdateFollowing(r) \/ UpdateFollowers(r) PROVE DriftInv'
  BY <1>5, DriftKept DEF UpdateFollowing, UpdateFollowers, DriftInv, TypeOK, history
<1>6. ASSUME NEW r \in Requests, Abort(r) \/ DeadlockVictim(r) PROVE DriftInv'
  <2>1. pc[r] \notin {"ok", "error"} /\ Rollback(r)
    BY <1>6 DEF Abort, DeadlockVictim, Deadlocked, Blockers, InTx
  <2>2. QED
    BY <2>1, DriftKept DEF Rollback, DriftInv, TypeOK, history
<1>7. CASE UNCHANGED vars
  BY <1>7, DriftKept DEF vars, history
<1>8. QED
  BY <1>1, <1>2, <1>3, <1>4, <1>5, <1>6, <1>7 DEF Next, Execute

LEMMA LocksInit == Init => KeyInv /\ RowInv /\ DriftInv
<1> SUFFICES ASSUME Init PROVE KeyInv /\ RowInv /\ DriftInv
  OBVIOUS
<1>1. KeyInv /\ RowInv
  BY DEF Init, KeyInv, RowInv, HoldsKey, HoldsRow
<1>2. \A u \in Users : /\ Followers(u) = {} /\ Following(u) = {}
                       /\ RepeatsOf(u) = {} /\ RepeatsBy(u) = {}
  BY DEF Init, Followers, Following, RepeatsOf, RepeatsBy
<1>3. CountsDrift
  BY <1>2, FS_EmptySet DEF Init, CountsDrift
<1>4. QED
  BY <1>1, <1>3 DEF Init, DriftInv

(* Both counters are the sizes of what they count plus one for each repeated  *)
(* follow, whatever the interleaving of the transactions' statements.         *)
THEOREM CountsOnlyDrift == Spec => []CountsDrift
<1>1. DriftInv => CountsDrift
  BY DEF DriftInv
<1>2. QED
  BY <1>1, TypeInit, LocksInit, TypeStep, ShapeStep, KeyStep, RowStep, DriftStep, PTL
  DEF Spec

-----------------------------------------------------------------------------
(* FollowGraph implements AtomicFollows: a transaction's step is its COMMIT.   *)

(* A follow that inserted nothing had found its pair in the table.            *)
HeldInv ==
  /\ \A r \in Unanswered : Pair(r) \in follows => r \in held
  /\ \A r \in Requests : pc[r] \in Writing /\ r \notin wrote => r \in held

LEMMA HeldLocal ==
  ASSUME HeldInv, NEW r \in Requests, UNCHANGED <<follows, call, held>>,
         r \in Unanswered' => r \in Unanswered,
         pc'[r] \in Writing /\ r \notin wrote' => r \in held,
         \A q \in Requests \ {r} : pc'[q] = pc[q] /\ (q \in wrote' <=> q \in wrote)
  PROVE  HeldInv'
BY DEF HeldInv, Unanswered, Pair

LEMMA HeldStep == TypeOK /\ TxShape /\ HeldInv /\ [Next]_vars => HeldInv'
<1> SUFFICES ASSUME TypeOK, TxShape, HeldInv, [Next]_vars PROVE HeldInv'
  OBVIOUS
<1>1. ASSUME NEW r \in Requests, NEW op \in {"follow", "unfollow"}, NEW a \in Users,
             NEW b \in Ids, Ask(r, op, a, b)
      PROVE  HeldInv'
  <2>1. /\ follows' = follows /\ wrote' = wrote /\ held \subseteq held'
        /\ pc'[r] = "begin" /\ Pair(r)' = <<a, b>> /\ (<<a, b>> \in follows => r \in held')
        /\ \A q \in Requests \ {r} : pc'[q] = pc[q] /\ call'[q] = call[q]
    BY <1>1 DEF Ask, TypeOK, Pair, written
  <2>2. \A q \in Requests \ {r} :
          /\ Pair(q)' = Pair(q)
          /\ q \in Unanswered' <=> q \in Unanswered
    BY <2>1 DEF Pair, Unanswered
  <2>3. QED
    BY <2>1, <2>2 DEF HeldInv, Writing, Unanswered
<1>2. ASSUME NEW r \in Requests, RejectSelf(r) \/ Begin(r) PROVE HeldInv'
  BY <1>2, HeldLocal
  DEF RejectSelf, Begin, Unanswered, Writing, TypeOK, history, written
<1>3. ASSUME NEW r \in Requests, InsertFollow(r) \/ DeleteFollow(r) PROVE HeldInv'
  <2>1. r \in Unanswered
    BY <1>3 DEF InsertFollow, DeleteFollow, Unanswered
  <2>2. pc'[r] \in Writing /\ r \notin wrote' => r \in held
    BY <1>3, <2>1 DEF InsertFollow, DeleteFollow, HeldInv, Writing, TypeOK
  <2>3. QED
    BY <1>3, <2>1, <2>2, HeldLocal DEF InsertFollow, DeleteFollow, TypeOK, history
<1>4. ASSUME NEW r \in Requests, UpdateFollowing(r) \/ UpdateFollowers(r) PROVE HeldInv'
  <2>1. r \in Unanswered /\ pc[r] \in Writing
    BY <1>4 DEF UpdateFollowing, UpdateFollowers, Unanswered, Writing
  <2>2. QED
    BY <1>4, <2>1, HeldLocal
    DEF UpdateFollowing, UpdateFollowers, HeldInv, TypeOK, history
<1>5. ASSUME NEW r \in Requests, Commit(r) PROVE HeldInv'
  <2>1. /\ pc'[r] \in {"ok", "error"} /\ UNCHANGED call /\ wrote' = wrote \ {r}
        /\ \A q \in Requests \ {r} : pc'[q] = pc[q]
        /\ held' = held \cup {q \in Unanswered : Pair(q) \in follows'}
    BY <1>5 DEF Commit, Forget, TypeOK
  <2>2. Unanswered' \subseteq Unanswered /\ \A q \in Requests : Pair(q)' = Pair(q)
    BY <2>1 DEF Unanswered, Pair
  <2>3. ASSUME NEW q \in Unanswered', Pair(q)' \in follows' PROVE q \in held'
    BY <2>1, <2>2, <2>3 DEF Unanswered
  <2>4. ASSUME NEW q \in Requests, pc'[q] \in Writing, q \notin wrote' PROVE q \in held'
    BY <2>1, <2>4 DEF HeldInv, Writing
  <2>5. QED
    BY <2>3, <2>4 DEF HeldInv
<1>6. ASSUME NEW r \in Requests, Abort(r) \/ DeadlockVictim(r) PROVE HeldInv'
  <2>1. Rollback(r)
    BY <1>6 DEF Abort, DeadlockVictim
  <2>2. QED
    BY <2>1, HeldLocal DEF Rollback, Forget, Unanswered, Writing, TypeOK, history
<1>7. CASE UNCHANGED vars
  BY <1>7 DEF HeldInv, Unanswered, Pair, vars, written, history
<1>8. QED
  BY <1>1, <1>2, <1>3, <1>4, <1>5, <1>6, <1>7 DEF Next, Execute

(* How a step of pc shows in the abstract answer. *)
LEMMA AnswerStep ==
  ASSUME TypeOK, NEW r \in Requests, NEW p \in States, pc' = [pc EXCEPT ![r] = p],
         pc[r] \notin {"ok", "error"}
  PROVE  /\ p \notin {"ok", "error"} => answer' = answer
         /\ p \in {"ok", "error"} => answer' = [answer EXCEPT ![r] = p]
BY DEF answer, TypeOK

LEMMA OpenIsUnanswered ==
  ASSUME TypeOK, NEW r \in Requests
  PROVE  Atomic!Open(r) <=> r \in Unanswered
<1>1. CASE pc[r] = "idle"
  BY <1>1 DEF Atomic!Open, Atomic!NoCall, NoCall, Unanswered, TypeOK
<1>2. CASE pc[r] # "idle"
  <2>1. call[r] # Atomic!NoCall
    BY <1>2, CallFields DEF Atomic!NoCall, NoCall
  <2>2. answer[r] = "none" <=> pc[r] \notin {"ok", "error"}
    BY DEF answer
  <2>3. QED
    BY <1>2, <2>1, <2>2 DEF Atomic!Open, Unanswered
<1>3. QED
  BY <1>1, <1>2

(* A call that ends with an error and has changed nothing. *)
LEMMA FailStep ==
  ASSUME TypeOK, NEW r \in Unanswered, pc' = [pc EXCEPT ![r] = "error"],
         UNCHANGED <<follows, counts, call, held>>
  PROVE  Atomic!Fail(r)
<1>1. r \in Requests /\ pc[r] \notin {"ok", "error"}
  BY DEF Unanswered
<1>2. answer' = [answer EXCEPT ![r] = "error"]
  BY <1>1, AnswerStep DEF States
<1>3. QED
  BY <1>1, <1>2, OpenIsUnanswered DEF Atomic!Fail, counts

(* A statement inside a transaction is invisible. *)
LEMMA SilentStep ==
  ASSUME TypeOK, NEW r \in Unanswered, NEW p \in States \ {"ok", "error"},
         pc' = [pc EXCEPT ![r] = p], UNCHANGED <<follows, counts, call, held>>
  PROVE  UNCHANGED Atomic!vars
<1>1. answer' = answer
  BY AnswerStep DEF Unanswered
<1>2. QED
  BY <1>1 DEF Atomic!vars, counts

LEMMA CommitFinishes ==
  ASSUME TypeOK, TxShape, KeyInv, RowInv, HeldInv, NEW r \in Requests, Commit(r)
  PROVE  Atomic!Finish(r)
<1> DEFINE a == call[r].follower
           b == call[r].followee
<1>1. /\ pc[r] = "commit" /\ a \in Users /\ b \in Users \ {a}
      /\ call[r].op \in {"follow", "unfollow"}
  BY CallFields DEF Commit, TxShape, Writing
<1>2. Atomic!Open(r)
  BY <1>1, OpenIsUnanswered DEF Unanswered
<1>3. \E x \in {"ok", "error"} : answer' = [answer EXCEPT ![r] = x]
  BY <1>1, AnswerStep DEF Commit, States
<1>4. held' = held \cup {q \in Requests : Atomic!Open(q) /\ Atomic!Pair(q) \in follows'}
  BY OpenIsUnanswered DEF Commit, Atomic!Pair, Pair, Unanswered
<1>5. /\ followingCount' = [followingCount EXCEPT ![a] = Step(followingCount[a], call[r].op)]
      /\ followerCount' = [followerCount EXCEPT ![b] = Step(followerCount[b], call[r].op)]
  BY <1>1 DEF Commit, RowInv
<1>6. CASE call[r].op = "follow"
  <2>1. Atomic!Count(r)
    BY <1>5, <1>6 DEF Step, Atomic!Count
  <2>2. CASE r \in wrote
    <3>1. Pair(r) \notin follows /\ follows' = follows \cup {Pair(r)}
      BY <1>1, <1>6, <2>2 DEF Commit, Written, KeyInv, HoldsKey
    <3>2. Atomic!Add(r)
      BY <1>1, <1>6, <2>1, <3>1 DEF Atomic!Add, Atomic!Pair, Pair
    <3>3. QED
      BY <1>2, <1>3, <1>4, <3>2 DEF Commit, Atomic!Finish
  <2>3. CASE r \notin wrote
    <3>1. r \in held /\ follows' = follows
      BY <1>1, <2>3 DEF Commit, Written, HeldInv, Writing
    <3>2. Atomic!AddAgain(r)
      BY <1>6, <2>1, <3>1 DEF Atomic!AddAgain
    <3>3. QED
      BY <1>2, <1>3, <1>4, <3>2 DEF Commit, Atomic!Finish
  <2>4. QED
    BY <2>2, <2>3
<1>7. CASE call[r].op = "unfollow"
  <2>1. r \in wrote
    BY <1>1, <1>7 DEF TxShape, Writing
  <2>2. Pair(r) \in follows /\ follows' = follows \ {Pair(r)}
    BY <1>1, <1>7, <2>1 DEF Commit, Written, KeyInv, HoldsKey
  <2>3. Atomic!Remove(r)
    BY <1>5, <1>7, <2>2
    DEF Atomic!Remove, Atomic!Pair, Pair, Step, FlooredDecrement, Atomic!FlooredDecrement
  <2>4. QED
    BY <1>2, <1>3, <1>4, <2>3 DEF Commit, Atomic!Finish
<1>8. QED
  BY <1>1, <1>6, <1>7

LEMMA RefinementStep ==
  TypeOK /\ TxShape /\ KeyInv /\ RowInv /\ HeldInv /\ [Next]_vars
    => [Atomic!Next]_(Atomic!vars)
<1> SUFFICES ASSUME TypeOK, TxShape, KeyInv, RowInv, HeldInv, [Next]_vars
             PROVE  [Atomic!Next]_(Atomic!vars)
  OBVIOUS
<1>1. ASSUME NEW r \in Requests, NEW op \in {"follow", "unfollow"}, NEW a \in Users,
             NEW b \in Ids, Ask(r, op, a, b)
      PROVE  [Atomic!Next]_(Atomic!vars)
  <2>1. call[r] = Atomic!NoCall
    BY <1>1 DEF Ask, TypeOK, Atomic!NoCall, NoCall
  <2>2. answer' = answer
    BY <1>1, AnswerStep DEF Ask, States
  <2>3. Atomic!Ask(r, op, a, b)
    BY <1>1, <2>1, <2>2 DEF Ask, Atomic!Ask, counts
  <2>4. QED
    BY <2>3 DEF Atomic!Next
<1>2. ASSUME NEW r \in Requests, RejectSelf(r) PROVE [Atomic!Next]_(Atomic!vars)
  <2>1. Atomic!Fail(r)
    BY <1>2, FailStep DEF RejectSelf, Unanswered, history
  <2>2. QED
    BY <2>1 DEF Atomic!Next
<1>3. ASSUME NEW r \in Requests, Begin(r) \/ UpdateFollowing(r) \/ UpdateFollowers(r)
      PROVE  [Atomic!Next]_(Atomic!vars)
  BY <1>3, SilentStep
  DEF Begin, UpdateFollowing, UpdateFollowers, Unanswered, States, history
<1>4. ASSUME NEW r \in Requests, InsertFollow(r) PROVE [Atomic!Next]_(Atomic!vars)
  <2>1. r \in Unanswered /\ UNCHANGED <<follows, counts, call, held>>
    BY <1>4 DEF InsertFollow, Unanswered, history
  <2>2. CASE pc' = [pc EXCEPT ![r] = "following"]
    BY <2>1, <2>2, SilentStep DEF States
  <2>3. CASE pc' = [pc EXCEPT ![r] = "error"]
    BY <2>1, <2>3, FailStep DEF Atomic!Next, Unanswered
  <2>4. QED
    BY <1>4, <2>2, <2>3 DEF InsertFollow
<1>5. ASSUME NEW r \in Requests, DeleteFollow(r) PROVE [Atomic!Next]_(Atomic!vars)
  <2>1. /\ r \in Unanswered /\ UNCHANGED <<follows, counts, call, held>>
        /\ pc[r] = "delete" /\ call[r].op = "unfollow"
    BY <1>5 DEF DeleteFollow, TxShape, Unanswered, history
  <2>2. CASE pc' = [pc EXCEPT ![r] = "following"]
    BY <2>1, <2>2, SilentStep DEF States
  <2>3. CASE pc' = [pc EXCEPT ![r] = "ok"] /\ Pair(r) \notin follows
    <3>1. answer' = [answer EXCEPT ![r] = "ok"]
      BY <2>1, <2>3, AnswerStep DEF States
    <3>2. Atomic!NothingToRemove(r)
      BY <2>1, <2>3, <3>1, OpenIsUnanswered
      DEF Atomic!NothingToRemove, Atomic!Pair, Pair, counts
    <3>3. QED
      BY <3>2 DEF Atomic!Next
  <2>4. QED
    BY <1>5, <2>2, <2>3 DEF DeleteFollow, DeletesRow
<1>6. ASSUME NEW r \in Requests, Commit(r) PROVE [Atomic!Next]_(Atomic!vars)
  BY <1>6, CommitFinishes DEF Atomic!Next
<1>7. ASSUME NEW r \in Requests, Abort(r) \/ DeadlockVictim(r)
      PROVE  [Atomic!Next]_(Atomic!vars)
  <2>1. Rollback(r) /\ r \in Unanswered
    BY <1>7 DEF Abort, DeadlockVictim, Deadlocked, Blockers, InTx, Unanswered
  <2>2. Atomic!Fail(r)
    BY <2>1, FailStep DEF Rollback, history
  <2>3. QED
    BY <2>2 DEF Atomic!Next
<1>8. CASE UNCHANGED vars
  BY <1>8 DEF vars, counts, history, answer, Atomic!vars
<1>9. QED
  BY <1>1, <1>2, <1>3, <1>4, <1>5, <1>6, <1>7, <1>8 DEF Next, Execute

LEMMA RefinementInit == Init => Atomic!Init /\ HeldInv
<1>1. Init => HeldInv
  BY DEF Init, HeldInv, Unanswered, Writing
<1>2. Init => Atomic!Init
  BY DEF Init, Atomic!Init, Atomic!NoCall, NoCall, answer
<1>3. QED
  BY <1>1, <1>2

(* Callers see each Follow and Unfollow take effect in one step or not at     *)
(* all, although its three statements interleave with those of others.        *)
THEOREM Refinement == Spec => AtomicSpec
<1>1. Init /\ [][Next]_vars => Atomic!Init /\ [][Atomic!Next]_(Atomic!vars)
  BY TypeInit, LocksInit, RefinementInit, TypeStep, ShapeStep, KeyStep, RowStep,
     HeldStep, RefinementStep, PTL
<1>2. QED
  BY <1>1 DEF Spec, AtomicSpec, Atomic!Spec
=============================================================================
