-------------------------- MODULE LikeCountsProofs --------------------------
(* Proofs about LikeCounts, for any number of requests, tweets and instances. *)
EXTENDS LikeCounts, FiniteSetTheorems, TLAPS

(* The sum of a set of deltas is an integer. *)
LEMMA NetInt == ASSUME NEW S \in SUBSET Requests
                PROVE  Net(S) \in Int
<1>1. IsFiniteSet({r \in S : call[r].op = "like"})
  BY LikeAssumption, FS_Subset
<1>2. IsFiniteSet({r \in S : call[r].op = "unlike"})
  BY LikeAssumption, FS_Subset
<1>3. QED
  BY <1>1, <1>2, FS_CardinalityType DEF Net

(* An UPDATE keeps like_count an integer. *)
LEMMA BumpType ==
  ASSUME TypeOK, NEW t, NEW S \in SUBSET Requests
  PROVE  Bump(t, Net(S)) \in [Tweets -> Int]
<1>1. likeCount \in [Tweets -> Int] /\ Net(S) \in Int
  BY NetInt DEF TypeOK
<1>2. CASE t \in tweets
  <2>1. Bump(t, Net(S)) = [likeCount EXCEPT ![t] = likeCount[t] + Net(S)]
    BY <1>2 DEF Bump
  <2>2. t \in Tweets
    BY <1>2 DEF TypeOK
  <2>3. QED
    BY <1>1, <2>1, <2>2
<1>3. QED
  BY <1>1, <1>2 DEF Bump

LEMMA CreditType ==
  ASSUME NEW h \in [Requests -> Nat], NEW t, NEW S
  PROVE  Credit(h, t, S) \in [Requests -> Nat]
BY DEF Credit

LEMMA TypeInit == Init => TypeOK
<1>1. ASSUME Init PROVE \A i \in Instances : tracked[i] = <<>> /\ Len(tracked[i]) = 0
  BY <1>1 DEF Init
<1>2. QED
  BY <1>1, LikeAssumption DEF Init, TypeOK

LEMMA TypeRequest ==
  ASSUME TypeOK, NEW r \in Requests, NEW i \in Instances, NEW u \in Users,
         NEW t \in Tweets, InsertLike(r, i, u, t) \/ DeleteLike(r, i, u, t)
  PROVE  TypeOK'
<1>1. Arrive(r, i, "like", u, t) \/ Arrive(r, i, "unlike", u, t)
  BY DEF InsertLike, DeleteLike
<1>2. call' \in [Requests -> Calls \cup {NoCall}]
  <2>1. \A op \in {"like", "unlike"} :
          [op |-> op, user |-> u, tweet |-> t, inst |-> i] \in Calls
    BY DEF Calls
  <2>2. QED
    BY <1>1, <2>1 DEF Arrive, TypeOK
<1>3. \A q \in Requests : pc'[q] # "idle" => call'[q] \in Calls
  <2>1. [op |-> "like", user |-> u, tweet |-> t, inst |-> i] \in Calls
    BY DEF Calls
  <2>2. [op |-> "unlike", user |-> u, tweet |-> t, inst |-> i] \in Calls
    BY DEF Calls
  <2>3. QED
    BY <2>1, <2>2 DEF InsertLike, DeleteLike, Arrive, TypeOK
<1>4. likes' \subseteq Users \X Tweets
  BY DEF InsertLike, DeleteLike, TypeOK
<1>5. pc' \in [Requests -> {"idle", "count", "redis", "row", "track", "ok",
                          "failed", "gone"}]
  BY DEF InsertLike, DeleteLike, AfterLikesTable, TypeOK
<1>6. QED
  BY <1>1, <1>2, <1>3, <1>4, <1>5 DEF Arrive, TypeOK, aggVars, history

(* The other steps of a request. *)
LEMMA TypeHandle ==
  ASSUME TypeOK, NEW r \in Requests, Handle(r)
  PROVE  TypeOK'
<1>1. CASE IncrLikeCount(r)
  <2>1. likeCount' \in [Tweets -> Int]
    BY <1>1, BumpType DEF IncrLikeCount, TypeOK
  <2>2. QED
    BY <1>1, <2>1 DEF IncrLikeCount, TypeOK, dbVars, aggVars, history
<1>2. CASE RedisIncr(r)
  BY <1>2 DEF RedisIncr, TypeOK, dbVars, aggVars, history
<1>3. CASE InsertLikePending(r)
  BY <1>3 DEF InsertLikePending, TypeOK, dbVars, aggVars, history
<1>4. CASE TrackTweet(r)
  BY <1>4, LikeAssumption
  DEF TrackTweet, Full, TypeOK, Calls, dbVars, aggVars, history
<1>5. QED
  BY <1>1, <1>2, <1>3, <1>4 DEF Handle

LEMMA TypeAggregate ==
  ASSUME TypeOK, NEW i \in Instances, Aggregate(i)
  PROVE  TypeOK'
<1>1. CASE Receive(i)
  BY <1>1, LikeAssumption DEF Receive, TypeOK, dbVars, reqVars, history
<1>2. CASE FlushStart(i)
  BY <1>2 DEF FlushStart, Goto, TypeOK, dbVars, reqVars, history
<1>3. CASE CleanPending(i)
  BY <1>3 DEF CleanPending, AfterDelete, Goto, TypeOK, dbVars, reqVars, history
<1>4. CASE FlushEnd(i)
  BY <1>4 DEF FlushEnd, FlushReturn, Goto, TypeOK, dbVars, reqVars, history
<1>5. CASE SelectSums(i)
  <2>1. rows \cap before[i] \in SUBSET Requests
    BY DEF TypeOK
  <2>2. sums' \in [Instances -> SUBSET Requests]
    BY <1>5, <2>1 DEF SelectSums, FlushReturn, TypeOK
  <2>3. QED
    BY <1>5, <2>2
    DEF SelectSums, FlushReturn, Goto, TypeOK, dbVars, reqVars, history
<1>6. CASE DeleteRows(i)
  BY <1>6 DEF DeleteRows, AfterDelete, FlushReturn, Goto, TypeOK, dbVars, reqVars,
              history
<1>7. CASE FallbackReturn(i)
  BY <1>7 DEF FallbackReturn, FlushReturn, Goto, TypeOK, dbVars, reqVars, history
<1>8. ASSUME NEW t \in Tweets, GetDel(i, t) PROVE TypeOK'
  <2>1. About(t, counter) \subseteq Requests /\ AfterGetDel(t) \subseteq Requests
    BY DEF AfterGetDel, About, TypeOK
  <2>2. counter' \subseteq Requests
    BY <1>8, <2>1 DEF GetDel, TypeOK
  <2>3. hand' \in [Instances -> SUBSET Requests]
    BY <1>8, <2>1 DEF GetDel, TypeOK
  <2>4. todo' \in [Instances -> SUBSET Tweets]
    BY <1>8 DEF GetDel, TypeOK
  <2>5. QED
    BY <1>8, <2>2, <2>3, <2>4 DEF GetDel, Goto, TypeOK, dbVars, reqVars, history
<1>9. ASSUME NEW t \in Tweets, ApplyCounter(i, t) PROVE TypeOK'
  <2>1. hand[i] \in SUBSET Requests
    BY DEF TypeOK
  <2>2. Bump(t, Net(hand[i])) \in [Tweets -> Int]
    BY <2>1, BumpType
  <2>3. Credit(byRedis, t, hand[i]) \in [Requests -> Nat]
    BY CreditType DEF TypeOK
  <2>4. QED
    BY <1>9, <2>2, <2>3 DEF ApplyCounter, Goto, TypeOK, dbVars, reqVars
<1>10. ASSUME NEW t \in Tweets, ApplySum(i, t) PROVE TypeOK'
  <2>1. About(t, sums[i]) \in SUBSET Requests
    BY DEF About, TypeOK
  <2>2. Bump(t, Net(About(t, sums[i]))) \in [Tweets -> Int]
    BY <2>1, BumpType
  <2>3. Credit(byRow[i], t, About(t, sums[i])) \in [Requests -> Nat]
    BY CreditType DEF TypeOK
  <2>4. sums' \in [Instances -> SUBSET Requests]
    BY <1>10 DEF ApplySum, Remaining, TypeOK
  <2>5. byRow' \in [Instances -> [Requests -> Nat]]
    BY <1>10, <2>3 DEF ApplySum, TypeOK
  <2>6. QED
    BY <1>10, <2>2, <2>4, <2>5 DEF ApplySum, Goto, TypeOK, dbVars, reqVars
<1>11. QED
  BY <1>1, <1>2, <1>3, <1>4, <1>5, <1>6, <1>7, <1>8, <1>9, <1>10 DEF Aggregate

LEMMA TypeStep == TypeOK /\ [Next]_vars => TypeOK'
<1> SUFFICES ASSUME TypeOK, [Next]_vars PROVE TypeOK'
  OBVIOUS
<1>1. ASSUME NEW r \in Requests, NEW i \in Instances, NEW u \in Users,
             NEW t \in Tweets, InsertLike(r, i, u, t) \/ DeleteLike(r, i, u, t)
      PROVE  TypeOK'
  BY <1>1, TypeRequest
<1>2. ASSUME NEW r \in Requests, Handle(r) PROVE TypeOK'
  BY <1>2, TypeHandle
<1>3. ASSUME NEW i \in Instances, Aggregate(i) PROVE TypeOK'
  BY <1>3, TypeAggregate
<1>4. ASSUME NEW i \in Instances, Shutdown(i) PROVE TypeOK'
  BY <1>4 DEF Shutdown, FlushReturn, Goto, TypeOK, dbVars, reqVars, history
<1>5. ASSUME NEW i \in Instances, Restart(i) PROVE TypeOK'
  BY <1>5, LikeAssumption DEF Restart, FlushReturn, Goto, TypeOK, dbVars, history
<1>6. ASSUME NEW t \in Tweets, DeleteTweet(t) PROVE TypeOK'
  BY <1>6 DEF DeleteTweet, About, TypeOK, reqVars, aggVars, history
<1>7. CASE RedisLoss
  BY <1>7 DEF RedisLoss, TypeOK, dbVars, reqVars, aggVars, history
<1>8. CASE UNCHANGED vars
  BY <1>8 DEF TypeOK, vars, dbVars, reqVars, aggVars, history
<1>9. QED
  BY <1>1, <1>2, <1>3, <1>4, <1>5, <1>6, <1>7, <1>8 DEF Next

(* Every reachable state is well typed; la.tracked never exceeds its capacity. *)
THEOREM TypeCorrect == Spec => []TypeOK
BY TypeInit, TypeStep, PTL DEF Spec

-----------------------------------------------------------------------------
(* CounterAppliedOnce.  A delta moves from its request to the counter, from   *)
(* there into one aggregator's hand, and from the hand into like_count or     *)
(* nowhere; it is in one place at a time and never goes back.                 *)

Unsent == {"idle", "count", "redis", "failed"}

CounterInv ==
  /\ \A r \in Requests :
       pc[r] \in Unsent => r \notin counter /\ byRedis[r] = 0
  /\ \A r \in counter : byRedis[r] = 0
  /\ \A i \in Instances : \A r \in hand[i] :
       /\ pc[r] \notin Unsent /\ r \notin counter /\ byRedis[r] = 0
       /\ \A j \in Instances \ {i} : r \notin hand[j]
  /\ CounterAppliedOnce

LEMMA CounterInit == Init => CounterInv
BY DEF Init, CounterInv, CounterAppliedOnce

LEMMA CounterRequest ==
  ASSUME TypeOK, CounterInv, NEW r \in Requests, NEW i \in Instances,
         NEW u \in Users, NEW t \in Tweets,
         InsertLike(r, i, u, t) \/ DeleteLike(r, i, u, t)
  PROVE  CounterInv'
<1>1. /\ pc[r] = "idle"
      /\ pc' = [pc EXCEPT ![r] = "count"] \/ pc' = [pc EXCEPT ![r] = "redis"]
           \/ pc' = [pc EXCEPT ![r] = "failed"]
  BY DEF InsertLike, DeleteLike, Arrive, AfterLikesTable
<1>2. UNCHANGED <<counter, hand, byRedis>>
  BY DEF InsertLike, DeleteLike, Arrive, aggVars, history
<1>3. QED
  BY <1>1, <1>2 DEF CounterInv, CounterAppliedOnce, Unsent, TypeOK

LEMMA CounterHandle ==
  ASSUME TypeOK, CounterInv, NEW r \in Requests, Handle(r)
  PROVE  CounterInv'
<1>1. CASE IncrLikeCount(r)
  BY <1>1 DEF IncrLikeCount, CounterInv, CounterAppliedOnce, Unsent, TypeOK, aggVars,
              history
<1>2. CASE RedisIncr(r)
  BY <1>2 DEF RedisIncr, CounterInv, CounterAppliedOnce, Unsent, TypeOK, aggVars,
              history
<1>3. CASE InsertLikePending(r)
  BY <1>3 DEF InsertLikePending, CounterInv, CounterAppliedOnce, Unsent, TypeOK,
              aggVars, history
<1>4. CASE TrackTweet(r)
  BY <1>4 DEF TrackTweet, CounterInv, CounterAppliedOnce, Unsent, TypeOK, aggVars,
              history
<1>5. QED
  BY <1>1, <1>2, <1>3, <1>4 DEF Handle

LEMMA CounterAggregate ==
  ASSUME TypeOK, CounterInv, NEW i \in Instances, Aggregate(i)
  PROVE  CounterInv'
<1>1. CASE UNCHANGED <<pc, counter, hand, byRedis>>
  BY <1>1 DEF CounterInv, CounterAppliedOnce
<1>2. ASSUME NEW t \in Tweets, GetDel(i, t) PROVE CounterInv'
  <2>1. CASE counter' = counter \ About(t, counter) /\ hand' = [hand EXCEPT ![i] = About(t, counter)]
    BY <1>2, <2>1 DEF GetDel, CounterInv, CounterAppliedOnce, About, TypeOK, reqVars,
                      history
  <2>2. CASE counter' \in {counter, counter \ About(t, counter)} /\ UNCHANGED hand
    BY <1>2, <2>2 DEF GetDel, CounterInv, CounterAppliedOnce, TypeOK, reqVars, history
  <2>3. QED
    BY <1>2, <2>1, <2>2 DEF GetDel, AfterGetDel
<1>3. ASSUME NEW t \in Tweets, ApplyCounter(i, t) PROVE CounterInv'
  BY <1>3 DEF ApplyCounter, Credit, CounterInv, CounterAppliedOnce, TypeOK, reqVars
<1>4. ASSUME NEW t \in Tweets, ApplySum(i, t) PROVE CounterInv'
  BY <1>1, <1>4 DEF ApplySum, reqVars
<1>5. QED
  BY <1>1, <1>2, <1>3, <1>4
  DEF Aggregate, Receive, FlushStart, CleanPending, FlushEnd, SelectSums, DeleteRows,
      FallbackReturn, reqVars, history

LEMMA CounterStep == TypeOK /\ CounterInv /\ [Next]_vars => CounterInv'
<1> SUFFICES ASSUME TypeOK, CounterInv, [Next]_vars PROVE CounterInv'
  OBVIOUS
<1>1. ASSUME NEW r \in Requests, NEW i \in Instances, NEW u \in Users,
             NEW t \in Tweets, InsertLike(r, i, u, t) \/ DeleteLike(r, i, u, t)
      PROVE  CounterInv'
  BY <1>1, CounterRequest
<1>2. ASSUME NEW r \in Requests, Handle(r) PROVE CounterInv'
  BY <1>2, CounterHandle
<1>3. ASSUME NEW i \in Instances, Aggregate(i) PROVE CounterInv'
  BY <1>3, CounterAggregate
<1>4. ASSUME NEW i \in Instances, Shutdown(i) PROVE CounterInv'
  BY <1>4 DEF Shutdown, CounterInv, CounterAppliedOnce, TypeOK, reqVars, history
<1>5. ASSUME NEW i \in Instances, Restart(i) PROVE CounterInv'
  BY <1>5 DEF Restart, CounterInv, CounterAppliedOnce, Unsent, TypeOK, history
<1>6. ASSUME NEW t \in Tweets, DeleteTweet(t) PROVE CounterInv'
  BY <1>6 DEF DeleteTweet, CounterInv, CounterAppliedOnce, reqVars, aggVars, history
<1>7. CASE RedisLoss
  BY <1>7 DEF RedisLoss, CounterInv, CounterAppliedOnce, reqVars, aggVars, history
<1>8. CASE UNCHANGED vars
  BY <1>8 DEF CounterInv, CounterAppliedOnce, vars, reqVars, aggVars, history
<1>9. QED
  BY <1>1, <1>2, <1>3, <1>4, <1>5, <1>6, <1>7, <1>8 DEF Next

(* No delta is added to like_count twice out of Redis: not with any number of *)
(* instances flushing the same tweet, nor after any lost key or restart.      *)
THEOREM CounterOnce == Spec => []CounterAppliedOnce
<1>1. Init => TypeOK /\ CounterInv
  BY TypeInit, CounterInit
<1>2. TypeOK /\ CounterInv /\ [Next]_vars => (TypeOK /\ CounterInv)'
  BY TypeStep, CounterStep
<1>3. CounterInv => CounterAppliedOnce
  BY DEF CounterInv
<1>4. QED
  BY <1>1, <1>2, <1>3, PTL DEF Spec

-----------------------------------------------------------------------------
(* RowAppliedPerAggregator.  SELECT and DELETE of FlushPendingLikes are two    *)
(* statements, so that several instances may have a row in their sums.  As     *)
(* long as the row is there, none has applied it; from then on nobody can put  *)
(* it into his sums any more, and who has it there has not applied it yet.     *)

Unrowed == {"idle", "count", "redis", "row", "failed"}

RowInv ==
  /\ \A r \in Requests : pc[r] \in Unrowed =>
       r \notin rows /\ \A i \in Instances : r \notin sums[i] /\ byRow[i][r] = 0
  /\ \A r \in rows, i \in Instances : byRow[i][r] = 0
  /\ \A i \in Instances : \A r \in sums[i] : byRow[i][r] = 0
  /\ \A i \in Instances : phase[i] = "delete" => sums[i] \subseteq before[i]
  /\ \A i \in Instances : phase[i] = "sums" => sums[i] \cap rows = {}
  /\ \A i \in Instances : phase[i] \notin {"delete", "sums"} => sums[i] = {}
  /\ \A i \in Instances, r \in Requests : byRow[i][r] <= 1

(* An instance in strong mode has nothing to aggregate, and never had.         *)
StrongIdle ==
  /\ \A r \in Requests : pc[r] \in {"redis", "row", "track"} => call[r].inst \in Eventual
  /\ \A i \in Instances \ Eventual :
       /\ tracked[i] = <<>> /\ pending[i] = {} /\ phase[i] = "idle"
       /\ \A r \in Requests : byRow[i][r] = 0

LEMMA StrongIdleStep == TypeOK /\ StrongIdle /\ [Next]_vars => StrongIdle'
<1> SUFFICES ASSUME TypeOK, StrongIdle, [Next]_vars PROVE StrongIdle'
  OBVIOUS
<1>1. ASSUME NEW r \in Requests, NEW i \in Instances, NEW u \in Users,
             NEW t \in Tweets, InsertLike(r, i, u, t) \/ DeleteLike(r, i, u, t)
      PROVE  StrongIdle'
  <2>1. /\ pc' = [pc EXCEPT ![r] = AfterLikesTable(i)]
             \/ pc' = [pc EXCEPT ![r] = "failed"]
        /\ call'[r].inst = i /\ \A q \in Requests \ {r} : call'[q] = call[q]
    BY <1>1 DEF InsertLike, DeleteLike, Arrive, TypeOK
  <2>2. UNCHANGED <<tracked, pending, phase, byRow>>
    BY <1>1 DEF InsertLike, DeleteLike, Arrive, aggVars, history
  <2>3. \A q \in Requests \ {r} : pc'[q] = pc[q]
    BY <2>1 DEF TypeOK
  <2>4. pc'[r] \in {"redis", "row", "track"} => i \in Eventual
    BY <2>1 DEF AfterLikesTable, TypeOK
  <2>5. QED
    BY <2>1, <2>2, <2>3, <2>4 DEF StrongIdle
<1>2. ASSUME NEW r \in Requests, Handle(r) PROVE StrongIdle'
  BY <1>2 DEF Handle, IncrLikeCount, RedisIncr, InsertLikePending, TrackTweet,
              StrongIdle, TypeOK, aggVars, history
<1>3. ASSUME NEW i \in Instances, Aggregate(i) PROVE StrongIdle'
  <2>1. i \in Eventual
    BY <1>3 DEF Aggregate, Receive, FlushStart, CleanPending, FlushEnd, SelectSums,
                DeleteRows, FallbackReturn, GetDel, ApplyCounter, ApplySum, At, StrongIdle
  <2>2. /\ UNCHANGED <<pc, call>>
        /\ \A j \in Instances \ {i} : /\ tracked'[j] = tracked[j]
                                     /\ pending'[j] = pending[j]
                                     /\ phase'[j] = phase[j]
                                     /\ byRow'[j] = byRow[j]
    BY <1>3 DEF Aggregate, Receive, FlushStart, CleanPending, FlushEnd, SelectSums,
                DeleteRows, FallbackReturn, GetDel, ApplyCounter, ApplySum, FlushReturn,
                Goto, TypeOK, reqVars, history
  <2>3. QED
    BY <2>1, <2>2 DEF StrongIdle
<1>4. ASSUME NEW i \in Instances, Shutdown(i) \/ Restart(i) PROVE StrongIdle'
  <2>1. CASE Shutdown(i)
    BY <2>1 DEF Shutdown, FlushReturn, Goto, StrongIdle, TypeOK, reqVars, history
  <2>2. CASE Restart(i)
    BY <2>2 DEF Restart, FlushReturn, Goto, StrongIdle, TypeOK, history
  <2>3. QED
    BY <1>4, <2>1, <2>2
<1>5. ASSUME NEW t \in Tweets, DeleteTweet(t) PROVE StrongIdle'
  BY <1>5 DEF DeleteTweet, StrongIdle, reqVars, aggVars, history
<1>6. CASE RedisLoss \/ UNCHANGED vars
  BY <1>6 DEF RedisLoss, StrongIdle, vars, reqVars, aggVars, history
<1>7. QED
  BY <1>1, <1>2, <1>3, <1>4, <1>5, <1>6 DEF Next

LEMMA RowRequest ==
  ASSUME TypeOK, RowInv, NEW r \in Requests, NEW i \in Instances,
         NEW u \in Users, NEW t \in Tweets,
         InsertLike(r, i, u, t) \/ DeleteLike(r, i, u, t)
  PROVE  RowInv'
<1>1. /\ pc[r] = "idle"
      /\ pc' = [pc EXCEPT ![r] = "count"] \/ pc' = [pc EXCEPT ![r] = "redis"]
           \/ pc' = [pc EXCEPT ![r] = "failed"]
  BY DEF InsertLike, DeleteLike, Arrive, AfterLikesTable
<1>2. UNCHANGED <<rows, sums, before, phase, byRow>>
  BY DEF InsertLike, DeleteLike, Arrive, aggVars, history
<1>3. \A q \in Requests : pc'[q] \in Unrowed => pc[q] \in Unrowed
  BY <1>1 DEF Unrowed, TypeOK
<1>4. QED
  BY <1>2, <1>3 DEF RowInv

LEMMA RowHandle ==
  ASSUME TypeOK, RowInv, NEW r \in Requests, Handle(r)
  PROVE  RowInv'
<1>1. CASE IncrLikeCount(r)
  <2>1. \A q \in Requests : pc'[q] \in Unrowed => pc[q] \in Unrowed
    BY <1>1 DEF IncrLikeCount, Unrowed, TypeOK
  <2>2. UNCHANGED <<rows, sums, before, phase, byRow>>
    BY <1>1 DEF IncrLikeCount, aggVars, history
  <2>3. QED
    BY <2>1, <2>2 DEF RowInv
<1>2. CASE RedisIncr(r)
  BY <1>2 DEF RedisIncr, RowInv, Unrowed, TypeOK, aggVars, history
<1>3. CASE InsertLikePending(r)
  BY <1>3 DEF InsertLikePending, RowInv, Unrowed, TypeOK, aggVars,
              history
<1>4. CASE TrackTweet(r)
  BY <1>4 DEF TrackTweet, RowInv, Unrowed, TypeOK, aggVars, history
<1>5. QED
  BY <1>1, <1>2, <1>3, <1>4 DEF Handle

(* The end of a flush, with whatever rows it has deleted. *)
LEMMA RowFlushReturn ==
  ASSUME TypeOK, RowInv, NEW i \in Instances, FlushReturn(i),
         UNCHANGED <<pc, byRow>>, rows' \subseteq rows
  PROVE  RowInv'
<1>1. /\ sums'[i] = {} /\ phase'[i] = "idle"
      /\ \A j \in Instances \ {i} : /\ sums'[j] = sums[j] /\ phase'[j] = phase[j]
                                   /\ before'[j] = before[j]
  BY DEF FlushReturn, Goto, TypeOK
<1>2. QED
  BY <1>1 DEF RowInv

LEMMA RowAggregate ==
  ASSUME TypeOK, RowInv, NEW i \in Instances, Aggregate(i)
  PROVE  RowInv'
<1>1. CASE Receive(i)
  BY <1>1 DEF Receive, RowInv, reqVars, history
<1>2. CASE FlushStart(i)
  BY <1>2 DEF FlushStart, At, Goto, RowInv, TypeOK, reqVars, history
<1>3. CASE CleanPending(i)
  BY <1>3 DEF CleanPending, AfterDelete, At, Goto, RowInv, TypeOK,
              reqVars, history
<1>4. CASE FlushEnd(i) \/ FallbackReturn(i)
  BY <1>4, RowFlushReturn DEF FlushEnd, FallbackReturn, reqVars, history
<1>5. CASE SelectSums(i)
  <2>1. UNCHANGED <<pc, rows, byRow>>
    BY <1>5 DEF SelectSums, reqVars, history
  <2>2. CASE /\ sums' = [sums EXCEPT ![i] = rows \cap before[i]] /\ Goto(i, "delete")
             /\ UNCHANGED before
    BY <2>1, <2>2 DEF Goto, RowInv, TypeOK
  <2>3. QED
    BY <1>5, <2>1, <2>2, RowFlushReturn DEF SelectSums
<1>6. CASE DeleteRows(i)
  <2>1. UNCHANGED <<pc, byRow>> /\ rows' \in {rows, rows \ before[i]} /\ phase[i] = "delete"
    BY <1>6 DEF DeleteRows, AfterDelete, At, reqVars, history
  <2>2. CASE /\ rows' = rows \ before[i] /\ Goto(i, "sums") /\ UNCHANGED <<before, sums>>
    BY <2>1, <2>2 DEF Goto, RowInv, TypeOK
  <2>3. QED
    BY <1>6, <2>1, <2>2, RowFlushReturn DEF DeleteRows, AfterDelete
<1>7. ASSUME NEW t \in Tweets, GetDel(i, t) PROVE RowInv'
  <2>1. phase[i] = "loop" /\ UNCHANGED <<pc, rows, sums, before, byRow>>
    BY <1>7 DEF GetDel, At, reqVars, history
  <2>2. /\ phase'[i] \in {"apply", "select"}
        /\ \A j \in Instances \ {i} : phase'[j] = phase[j]
    BY <1>7 DEF GetDel, Goto, TypeOK
  <2>3. sums[i] = {}
    BY <2>1 DEF RowInv
  <2>4. QED
    BY <2>1, <2>2, <2>3 DEF RowInv
<1>8. ASSUME NEW t \in Tweets, ApplyCounter(i, t) PROVE RowInv'
  BY <1>8 DEF ApplyCounter, At, Goto, RowInv, TypeOK, reqVars
<1>9. ASSUME NEW t \in Tweets, ApplySum(i, t) PROVE RowInv'
  <2>1. /\ UNCHANGED <<pc, rows, phase, before>> /\ phase[i] = "sums"
        /\ \A j \in Instances : sums'[j] \subseteq sums[j]
    BY <1>9 DEF ApplySum, Remaining, At, About, TypeOK, reqVars
  <2>2. /\ \A j \in Instances \ {i} : byRow'[j] = byRow[j]
        /\ \A r \in Requests :
             \/ byRow'[i][r] = byRow[i][r]
             \/ r \in sums[i] /\ r \notin sums'[i] /\ byRow'[i][r] = byRow[i][r] + 1
    <3>1. sums'[i] = sums[i] \ About(t, sums[i])
      BY <1>9 DEF ApplySum, Remaining, TypeOK
    <3>2. \/ byRow' = byRow
          \/ byRow' = [byRow EXCEPT ![i] = Credit(byRow[i], t, About(t, sums[i]))]
      BY <1>9 DEF ApplySum
    <3>3. QED
      BY <3>1, <3>2 DEF Credit, About, TypeOK
  <2>3. \A r \in Requests, j \in Instances :
          byRow'[j][r] # byRow[j][r] => r \in sums[i] /\ r \notin rows /\ pc[r] \notin Unrowed
    BY <2>1, <2>2 DEF RowInv
  <2>4. /\ \A j \in Instances, r \in Requests : byRow[j][r] \in Nat /\ byRow[j][r] <= 1
        /\ \A j \in Instances : \A r \in sums[j] : r \in Requests /\ byRow[j][r] = 0
    <3>1. byRow \in [Instances -> [Requests -> Nat]] /\ sums \in [Instances -> SUBSET Requests]
      BY DEF TypeOK
    <3>2. QED
      BY <3>1 DEF RowInv
  <2>5. \A j \in Instances, r \in Requests : byRow'[j][r] <= 1
    BY <2>2, <2>4
  <2>6. \A j \in Instances : \A r \in sums'[j] : r \in Requests /\ byRow'[j][r] = 0
    BY <2>1, <2>2, <2>4
  <2>7. QED
    BY <2>1, <2>3, <2>5, <2>6 DEF RowInv, TypeOK
<1>10. QED
  BY <1>1, <1>2, <1>3, <1>4, <1>5, <1>6, <1>7, <1>8, <1>9 DEF Aggregate

LEMMA RowStep == TypeOK /\ RowInv /\ [Next]_vars => RowInv'
<1> SUFFICES ASSUME TypeOK, RowInv, [Next]_vars PROVE RowInv'
  OBVIOUS
<1>1. ASSUME NEW r \in Requests, NEW i \in Instances, NEW u \in Users,
             NEW t \in Tweets, InsertLike(r, i, u, t) \/ DeleteLike(r, i, u, t)
      PROVE  RowInv'
  BY <1>1, RowRequest
<1>2. ASSUME NEW r \in Requests, Handle(r) PROVE RowInv'
  BY <1>2, RowHandle
<1>3. ASSUME NEW i \in Instances, Aggregate(i) PROVE RowInv'
  BY <1>3, RowAggregate
<1>4. ASSUME NEW i \in Instances, Shutdown(i) PROVE RowInv'
  BY <1>4, RowFlushReturn DEF Shutdown, reqVars, history
<1>5. ASSUME NEW i \in Instances, Restart(i) PROVE RowInv'
  BY <1>5 DEF Restart, FlushReturn, Goto, RowInv, Unrowed, TypeOK, history
<1>6. ASSUME NEW t \in Tweets, DeleteTweet(t) PROVE RowInv'
  BY <1>6 DEF DeleteTweet, RowInv, reqVars, aggVars, history
<1>7. CASE RedisLoss \/ UNCHANGED vars
  BY <1>7 DEF RedisLoss, RowInv, vars, reqVars, aggVars, history
<1>8. QED
  BY <1>1, <1>2, <1>3, <1>4, <1>5, <1>6, <1>7 DEF Next

LEMMA RowInit == Init => RowInv /\ StrongIdle
BY DEF Init, RowInv, StrongIdle

(* No instance adds a pending row to like_count twice, whatever call of its    *)
(* flushes fails half way and whichever process is restarted.                  *)
THEOREM RowPerAggregator == Spec => []RowAppliedPerAggregator
<1>1. Init => TypeOK /\ RowInv
  BY TypeInit, RowInit
<1>2. TypeOK /\ RowInv /\ [Next]_vars => (TypeOK /\ RowInv)'
  BY TypeStep, RowStep
<1>3. RowInv => RowAppliedPerAggregator
  BY DEF RowInv, RowAppliedPerAggregator
<1>4. QED
  BY <1>1, <1>2, <1>3, PTL DEF Spec

OneEventual == \A i, j \in Eventual : i = j

(* No pending row is added to like_count twice while one instance aggregates. *)
THEOREM RowOnce == OneEventual /\ Spec => []RowAppliedOnce
<1>1. SUFFICES ASSUME OneEventual PROVE Spec => []RowAppliedOnce
  OBVIOUS
<1>2. Init => TypeOK /\ StrongIdle
  BY TypeInit, RowInit
<1>3. TypeOK /\ StrongIdle /\ [Next]_vars => (TypeOK /\ StrongIdle)'
  BY TypeStep, StrongIdleStep
<1>4. ASSUME TypeOK, StrongIdle, RowAppliedPerAggregator PROVE RowAppliedOnce
  <2>1. SUFFICES ASSUME NEW r \in Requests, NEW i \in Instances, NEW j \in Instances
                 PROVE  /\ byRow[i][r] <= 1
                        /\ byRow[i][r] > 0 /\ byRow[j][r] > 0 => i = j
    BY DEF RowAppliedOnce
  <2>2. byRow[i][r] > 0 /\ byRow[j][r] > 0 => i \in Eventual /\ j \in Eventual
    BY <1>4 DEF StrongIdle
  <2>3. QED
    BY <1>1, <1>4, <2>2 DEF OneEventual, RowAppliedPerAggregator
<1>5. QED
  BY <1>2, <1>3, <1>4, RowPerAggregator, PTL DEF Spec

-----------------------------------------------------------------------------
(* NoOrphans.  A request with a row keeps the arguments the row was made of.  *)

OrphanInv == NoOrphans /\ \A r \in rows : pc[r] # "idle"

LEMMA OrphanStep == TypeOK /\ OrphanInv /\ [Next]_vars => OrphanInv'
<1> SUFFICES ASSUME TypeOK, OrphanInv, [Next]_vars PROVE OrphanInv'
  OBVIOUS
<1>1. ASSUME NEW r \in Requests, NEW i \in Instances, NEW u \in Users,
             NEW t \in Tweets, InsertLike(r, i, u, t) \/ DeleteLike(r, i, u, t)
      PROVE  OrphanInv'
  <2>1. \A l \in likes' : l[2] \in tweets
    BY <1>1 DEF InsertLike, DeleteLike, References, OrphanInv, NoOrphans
  <2>2. UNCHANGED <<tweets, rows>> /\ r \notin rows
        /\ \A q \in Requests \ {r} : pc'[q] = pc[q] /\ call'[q] = call[q]
    BY <1>1 DEF InsertLike, DeleteLike, Arrive, OrphanInv, TypeOK
  <2>3. QED
    BY <2>1, <2>2 DEF OrphanInv, NoOrphans, TypeOK
<1>2. ASSUME NEW r \in Requests, Handle(r) PROVE OrphanInv'
  BY <1>2 DEF Handle, IncrLikeCount, RedisIncr, InsertLikePending, TrackTweet,
              References, OrphanInv, NoOrphans, TypeOK, dbVars
<1>3. ASSUME NEW i \in Instances, Aggregate(i) PROVE OrphanInv'
  <2>1. UNCHANGED <<dbVars, pc, call>> /\ rows' \subseteq rows
    BY <1>3 DEF Aggregate, Receive, FlushStart, CleanPending, AfterDelete, FlushEnd,
                SelectSums, DeleteRows, FallbackReturn, GetDel, ApplyCounter, ApplySum,
                reqVars
  <2>2. QED
    BY <2>1 DEF OrphanInv, NoOrphans, dbVars
<1>4. ASSUME NEW i \in Instances, Shutdown(i) \/ Restart(i) PROVE OrphanInv'
  BY <1>4 DEF Shutdown, Restart, OrphanInv, NoOrphans, TypeOK, dbVars, reqVars
<1>5. ASSUME NEW t \in Tweets, DeleteTweet(t) PROVE OrphanInv'
  BY <1>5 DEF DeleteTweet, About, OrphanInv, NoOrphans, reqVars
<1>6. CASE RedisLoss \/ UNCHANGED vars
  BY <1>6 DEF RedisLoss, OrphanInv, NoOrphans, vars, dbVars, reqVars
<1>7. QED
  BY <1>1, <1>2, <1>3, <1>4, <1>5, <1>6 DEF Next

(* No like and no pending row outlives its tweet.                             *)
THEOREM OrphanFree == Spec => []NoOrphans
<1>1. Init => TypeOK /\ OrphanInv
  BY TypeInit DEF Init, OrphanInv, NoOrphans
<1>2. TypeOK /\ OrphanInv /\ [Next]_vars => (TypeOK /\ OrphanInv)'
  BY TypeStep, OrphanStep
<1>3. OrphanInv => NoOrphans
  BY DEF OrphanInv
<1>4. QED
  BY <1>1, <1>2, <1>3, PTL DEF Spec
=============================================================================
