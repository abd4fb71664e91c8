----------------------------- MODULE LikeCounts -----------------------------
(***************************************************************************)
(* The like counters of the tweet service: LikeTweet and UnlikeTweet as    *)
(* HTTP goroutines run them, one database or Redis call per step, and the  *)
(* LikeAggregator goroutine of each instance of the service.               *)
(*                                                                         *)
(* A call that was answered left its +1 or -1 in up to two places: in the  *)
(* Redis key like_count:<tweet>, and in one row of like_count_pending.     *)
(* Both are modelled as the set of the requests whose delta they hold:     *)
(* the number in the key is Net of the key's set, and SUM(delta) over rows *)
(* is Net of the rows.  A delta can so be followed to where it ends up.    *)
(***************************************************************************)
EXTENDS Integers, Sequences, FiniteSets

CONSTANTS
  Requests,         \* the HTTP requests, each one call of the API
  Users,
  Tweets,
  Deletable,        \* the tweets whose author may delete them
  Instances,        \* instances of the tweet service (terraform: ecs_count)
  Ops,              \* the calls the clients make, "like" and "unlike"
  ConsistencyMode,  \* CONSISTENCY_MODE, which each instance reads for itself
  TrackedCap,       \* capacity of la.tracked
  Faults            \* what may go wrong, a subset of FaultKinds

FaultKinds == {"db", "redis", "redis_loss", "restart"}

ASSUME LikeAssumption ==
  /\ ConsistencyMode \in [Instances -> {"strong", "eventual"}]
  /\ IsFiniteSet(Requests) /\ IsFiniteSet(Instances)
  /\ TrackedCap \in Nat
  /\ Ops \subseteq {"like", "unlike"}
  /\ Deletable \subseteq Tweets
  /\ Faults \subseteq FaultKinds

(* The instances whose calls go through Redis. *)
Eventual == {i \in Instances : ConsistencyMode[i] = "eventual"}

NoCall == [op |-> "none"]

VARIABLES
  tweets,     \* table tweets: the ids it has rows for
  likeCount,  \* tweets.like_count
  likes,      \* table likes: pairs <<user, tweet>>
  rows,       \* table like_count_pending: the requests that inserted its rows
  counter,    \* Redis, all keys like_count:<tweet>: the requests they sum up
  pc, call,   \* per request: its next step, and its arguments
  up,         \* per instance: serving, or draining after SIGTERM
  tracked,    \* la.tracked
  pending,    \* the map pending of run
  phase,      \* the next step of the aggregator goroutine
  todo,       \* flush: tweets the range over pending has still to visit
  hand,       \* flush: the requests summed up in val
  before,     \* flush: the requests whose row has created_at < flushTime
  sums,       \* flush: the requests summed up in the map sums
  byRedis,    \* history: how often a delta reached like_count out of Redis
  byRow       \* history: how often each instance added it out of
              \* like_count_pending

dbVars   == <<tweets, likes>>
reqVars  == <<pc, call>>
aggVars  == <<pending, phase, todo, hand, before, sums>>
history  == <<byRedis, byRow>>
vars     == <<dbVars, likeCount, rows, counter, reqVars, up, tracked, aggVars,
              history>>

(* The sum of the deltas of a set of requests: +1 per like, -1 per unlike. *)
Net(S) == Cardinality({r \in S : call[r].op = "like"})
            - Cardinality({r \in S : call[r].op = "unlike"})

(* The part of S that is about tweet t. *)
About(t, S) == {r \in S : call[r].tweet = t}

-----------------------------------------------------------------------------
(* What the stores do.  Each operator that ends in "Mutant" is a slip that   *)
(* code could have, with which the properties at the end must fail.          *)

BumpMutant(t, delta) == IF t \in tweets THEN [likeCount EXCEPT ![t] = delta] ELSE likeCount

(* UPDATE tweets SET like_count = like_count + $1 WHERE id = $2 *)
Bump(t, delta) ==
  IF t \in tweets THEN [likeCount EXCEPT ![t] = @ + delta] ELSE likeCount

(* The foreign key of likes and like_count_pending. *)
ReferencesMutant(t) == t \in Tweets
References(t) == t \in tweets

(* What GETDEL leaves of the keys. *)
AfterGetDelMutant(t) == counter
AfterGetDel(t) == counter \ About(t, counter)

(* The rows DELETE FROM like_count_pending WHERE created_at < $1 leaves. *)
AfterDeleteMutant(i) == rows
AfterDelete(i) == rows \ before[i]

(* What the range over sums has still to visit after tweet t. *)
RemainingMutant(i, t) == sums[i]
Remaining(i, t) == sums[i] \ About(t, sums[i])

(* No room in la.tracked: a send to it would block. *)
FullMutant(i) == FALSE
FullMutant2(i) == Len(tracked[i]) >= 0
Full(i) == Len(tracked[i]) >= TrackedCap

(* One more application, in a history h, of the deltas of S to tweet t. *)
Credit(h, t, S) ==
  [r \in Requests |-> IF r \in S /\ t \in tweets THEN h[r] + 1 ELSE h[r]]

Init ==
  /\ tweets = Tweets /\ likeCount = [t \in Tweets |-> 0] /\ likes = {}
  /\ rows = {} /\ counter = {}
  /\ pc = [r \in Requests |-> "idle"] /\ call = [r \in Requests |-> NoCall]
  /\ up = [i \in Instances |-> "serving"]
  /\ tracked = [i \in Instances |-> <<>>]
  /\ pending = [i \in Instances |-> {}]
  /\ phase = [i \in Instances |-> "idle"]
  /\ todo = [i \in Instances |-> {}]
  /\ hand = [i \in Instances |-> {}]
  /\ before = [i \in Instances |-> {}]
  /\ sums = [i \in Instances |-> {}]
  /\ byRedis = [r \in Requests |-> 0]
  /\ byRow = [i \in Instances |-> [r \in Requests |-> 0]]

-----------------------------------------------------------------------------
(* LikeTweet and UnlikeTweet.  A failed database call may have taken effect *)
(* or not; the two Redis and row failures after the likes table are only    *)
(* logged, and the request goes on.  A client that hangs up cancels         *)
(* r.Context(), which is one more way for the later calls to fail.          *)

(* Where a request of instance i goes once it has changed the likes table. *)
AfterLikesTable(i) == IF i \in Eventual THEN "redis" ELSE "count"

(* A serving instance takes a request and runs the first statement. *)
Arrive(r, i, op, u, t) ==
  /\ pc[r] = "idle" /\ up[i] = "serving" /\ op \in Ops
  /\ call' = [call EXCEPT ![r] =
                [op |-> op, user |-> u, tweet |-> t, inst |-> i]]
  /\ UNCHANGED <<tweets, likeCount, rows, counter, up, tracked, aggVars, history>>

(* INSERT INTO likes ... ON CONFLICT DO NOTHING; the foreign key needs t. *)
InsertLike(r, i, u, t) ==
  /\ Arrive(r, i, "like", u, t)
  /\ \/ /\ References(t)
        /\ likes' = likes \cup {<<u, t>>}
        /\ \/ pc' = [pc EXCEPT ![r] = AfterLikesTable(i)]
           \/ "db" \in Faults /\ pc' = [pc EXCEPT ![r] = "failed"]
     \/ /\ ~References(t) \/ "db" \in Faults
        /\ pc' = [pc EXCEPT ![r] = "failed"]
        /\ UNCHANGED likes

(* DELETE FROM likes, which is no error when there is no such row. *)
DeleteLike(r, i, u, t) ==
  /\ Arrive(r, i, "unlike", u, t)
  /\ \/ /\ likes' = likes \ {<<u, t>>}
        /\ \/ pc' = [pc EXCEPT ![r] = AfterLikesTable(i)]
           \/ "db" \in Faults /\ pc' = [pc EXCEPT ![r] = "failed"]
     \/ /\ "db" \in Faults
        /\ pc' = [pc EXCEPT ![r] = "failed"]
        /\ UNCHANGED likes

(* Strong mode: the counter is updated before the call is answered. *)
IncrLikeCount(r) ==
  /\ pc[r] = "count"
  /\ \/ /\ likeCount' = Bump(call[r].tweet, Net({r}))
        /\ \/ pc' = [pc EXCEPT ![r] = "ok"]
           \/ "db" \in Faults /\ pc' = [pc EXCEPT ![r] = "failed"]
     \/ /\ "db" \in Faults
        /\ pc' = [pc EXCEPT ![r] = "failed"]
        /\ UNCHANGED likeCount
  /\ UNCHANGED <<dbVars, rows, counter, call, up, tracked, aggVars, history>>

(* Eventual mode: INCR or DECR of the tweet's key. *)
RedisIncr(r) ==
  /\ pc[r] = "redis"
  /\ \/ counter' = counter \cup {r}
     \/ "redis" \in Faults /\ UNCHANGED counter
  /\ pc' = [pc EXCEPT ![r] = "row"]
  /\ UNCHANGED <<dbVars, likeCount, rows, call, up, tracked, aggVars, history>>

InsertLikePending(r) ==
  /\ pc[r] = "row"
  /\ \/ References(call[r].tweet) /\ rows' = rows \cup {r}
     \/ /\ ~References(call[r].tweet) \/ "db" \in Faults
        /\ UNCHANGED rows
  /\ pc' = [pc EXCEPT ![r] = "track"]
  /\ UNCHANGED <<dbVars, likeCount, counter, call, up, tracked, aggVars, history>>

(* A full channel drops the tweet; the call is answered either way. *)
TrackTweet(r) ==
  LET i == call[r].inst IN
  /\ pc[r] = "track"
  /\ tracked' = IF Full(i)
                THEN tracked
                ELSE [tracked EXCEPT ![i] = Append(@, call[r].tweet)]
  /\ pc' = [pc EXCEPT ![r] = "ok"]
  /\ UNCHANGED <<dbVars, likeCount, rows, counter, call, up, aggVars, history>>

(* DELETE FROM tweets: its likes and pending rows go by ON DELETE CASCADE. *)
DeleteTweet(t) ==
  /\ t \in tweets \cap Deletable
  /\ tweets' = tweets \ {t}
  /\ likes' = {l \in likes : l[2] # t}
  /\ rows' = rows \ About(t, rows)
  /\ UNCHANGED <<likeCount, counter, reqVars, up, tracked, aggVars, history>>

-----------------------------------------------------------------------------
(* The aggregator goroutine of instance i: the select loop of run, and the *)
(* calls flush makes for each tweet of pending.                            *)

At(i, p) == up[i] = "serving" /\ phase[i] = p
Goto(i, p) == phase' = [phase EXCEPT ![i] = p]

Receive(i) ==
  /\ At(i, "idle") /\ tracked[i] # <<>>
  /\ pending' = [pending EXCEPT ![i] = @ \cup {Head(tracked[i])}]
  /\ tracked' = [tracked EXCEPT ![i] = Tail(@)]
  /\ UNCHANGED <<dbVars, likeCount, rows, counter, reqVars, up, phase, todo,
                 hand, before, sums, history>>

(* The ticker fires; flushTime is later than every row there is.  A request *)
(* whose INSERT is under way may have its created_at on either side.        *)
FlushStart(i) ==
  /\ At(i, "idle") /\ pending[i] # {}
  /\ Goto(i, "loop")
  /\ todo' = [todo EXCEPT ![i] = pending[i]]
  /\ \E late \in SUBSET {r \in Requests : pc[r] = "row"} :
       before' = [before EXCEPT ![i] = rows \cup late]
  /\ UNCHANGED <<dbVars, likeCount, rows, counter, reqVars, up, tracked,
                 pending, hand, sums, history>>

(* flush returns and run makes a new pending map. *)
FlushReturn(i) ==
  /\ Goto(i, "idle")
  /\ pending' = [pending EXCEPT ![i] = {}]
  /\ todo' = [todo EXCEPT ![i] = {}]
  /\ before' = [before EXCEPT ![i] = {}]
  /\ sums' = [sums EXCEPT ![i] = {}]

(* GETDEL takes the key's delta into val.  Absent, zero and error all have  *)
(* val = 0 and all take the fallback; an error may leave the key in place.  *)
GetDel(i, t) ==
  LET key == About(t, counter) IN
  /\ At(i, "loop") /\ t \in todo[i]
  /\ todo' = [todo EXCEPT ![i] = @ \ {t}]
  /\ \/ /\ Net(key) # 0
        /\ hand' = [hand EXCEPT ![i] = key]
        /\ counter' = AfterGetDel(t)
        /\ Goto(i, "apply")
     \/ /\ Net(key) = 0 \/ "redis" \in Faults
        /\ counter' = AfterGetDel(t)
        /\ Goto(i, "select")
        /\ UNCHANGED hand
     \/ /\ "redis" \in Faults
        /\ Goto(i, "select")
        /\ UNCHANGED <<counter, hand>>
  /\ UNCHANGED <<dbVars, likeCount, rows, reqVars, up, tracked, pending, before,
                 sums, history>>

(* IncrLikeCount(tweetID, val); if it fails the delta is gone. *)
ApplyCounter(i, t) ==
  /\ At(i, "apply") /\ About(t, hand[i]) # {}
  /\ \/ /\ likeCount' = Bump(t, Net(hand[i]))
        /\ byRedis' = Credit(byRedis, t, hand[i])
     \/ "db" \in Faults /\ UNCHANGED <<likeCount, byRedis>>
  /\ hand' = [hand EXCEPT ![i] = {}]
  /\ Goto(i, "clean")
  /\ UNCHANGED <<dbVars, rows, counter, reqVars, up, tracked, pending, todo,
                 before, sums, byRow>>

(* FlushPendingLikes with its result thrown away: every tweet's old rows go. *)
CleanPending(i) ==
  /\ At(i, "clean")
  /\ \/ rows' = AfterDelete(i)
     \/ "db" \in Faults /\ UNCHANGED rows
  /\ Goto(i, "loop")
  /\ UNCHANGED <<dbVars, likeCount, counter, reqVars, up, tracked, pending, todo,
                 hand, before, sums, history>>

(* The range over pending is done. *)
FlushEnd(i) ==
  /\ At(i, "loop") /\ todo[i] = {}
  /\ FlushReturn(i)
  /\ UNCHANGED <<dbVars, likeCount, rows, counter, reqVars, up, tracked, hand,
                 history>>

(* The fallback: SELECT SUM(delta) of the old rows of every tweet ... *)
SelectSums(i) ==
  /\ At(i, "select")
  /\ \/ /\ sums' = [sums EXCEPT ![i] = rows \cap before[i]]
        /\ Goto(i, "delete")
        /\ UNCHANGED <<pending, todo, before>>
     \/ "db" \in Faults /\ FlushReturn(i)
  /\ UNCHANGED <<dbVars, likeCount, rows, counter, reqVars, up, tracked, hand,
                 history>>

(* ... DELETE them, without which the sums are not used ... *)
DeleteRows(i) ==
  /\ At(i, "delete")
  /\ \/ /\ rows' = AfterDelete(i)
        /\ \/ Goto(i, "sums") /\ UNCHANGED <<pending, todo, before, sums>>
           \/ "db" \in Faults /\ FlushReturn(i)
     \/ "db" \in Faults /\ FlushReturn(i) /\ UNCHANGED rows
  /\ UNCHANGED <<dbVars, likeCount, counter, reqVars, up, tracked, hand, history>>

(* ... and add each tweet's sum to its like_count ... *)
ApplySum(i, t) ==
  LET sum == About(t, sums[i]) IN
  /\ At(i, "sums") /\ sum # {}
  /\ \/ /\ likeCount' = Bump(t, Net(sum))
        /\ byRow' = [byRow EXCEPT ![i] = Credit(@, t, sum)]
     \/ "db" \in Faults /\ UNCHANGED <<likeCount, byRow>>
  /\ sums' = [sums EXCEPT ![i] = Remaining(i, t)]
  /\ UNCHANGED <<dbVars, rows, counter, reqVars, up, tracked, pending, phase,
                 todo, hand, before, byRedis>>

(* ... then return, whatever todo still holds. *)
FallbackReturn(i) ==
  /\ At(i, "sums") /\ sums[i] = {}
  /\ FlushReturn(i)
  /\ UNCHANGED <<dbVars, likeCount, rows, counter, reqVars, up, tracked, hand,
                 history>>

-----------------------------------------------------------------------------
(* What happens to the processes. *)

(* FLUSHALL, eviction or a Redis restart: docker-compose runs it with no    *)
(* persistence.                                                             *)
RedisLoss ==
  /\ "redis_loss" \in Faults /\ counter # {}
  /\ counter' = {}
  /\ UNCHANGED <<dbVars, likeCount, rows, reqVars, up, tracked, aggVars, history>>

(* SIGTERM: cancel() ends the aggregator, in mid-flush too, whose next call *)
(* fails; the requests already accepted go on under srv.Shutdown.           *)
Shutdown(i) ==
  /\ "restart" \in Faults /\ up[i] = "serving"
  /\ up' = [up EXCEPT ![i] = "draining"]
  /\ hand' = [hand EXCEPT ![i] = {}]
  /\ FlushReturn(i)
  /\ UNCHANGED <<dbVars, likeCount, rows, counter, reqVars, tracked, history>>

(* The process is gone, by a crash or at the end of the drain, and a new one *)
(* is started: its requests end unanswered, its memory is empty.             *)
Restart(i) ==
  /\ "restart" \in Faults
  /\ up' = [up EXCEPT ![i] = "serving"]
  /\ pc' = [r \in Requests |->
              IF pc[r] \in {"count", "redis", "row", "track"} /\ call[r].inst = i
              THEN "gone" ELSE pc[r]]
  /\ tracked' = [tracked EXCEPT ![i] = <<>>]
  /\ hand' = [hand EXCEPT ![i] = {}]
  /\ FlushReturn(i)
  /\ UNCHANGED <<dbVars, likeCount, rows, counter, call, history>>

-----------------------------------------------------------------------------
Handle(r) == \/ IncrLikeCount(r) \/ RedisIncr(r)
             \/ InsertLikePending(r) \/ TrackTweet(r)

Aggregate(i) ==
  \/ Receive(i) \/ FlushStart(i) \/ CleanPending(i) \/ FlushEnd(i)
  \/ SelectSums(i) \/ DeleteRows(i) \/ FallbackReturn(i)
  \/ \E t \in Tweets : GetDel(i, t) \/ ApplyCounter(i, t) \/ ApplySum(i, t)

Next ==
  \/ \E r \in Requests, i \in Instances, u \in Users, t \in Tweets :
       InsertLike(r, i, u, t) \/ DeleteLike(r, i, u, t)
  \/ \E r \in Requests : Handle(r)
  \/ \E i \in Instances : Aggregate(i) \/ Shutdown(i) \/ Restart(i)
  \/ \E t \in Tweets : DeleteTweet(t)
  \/ RedisLoss

Spec == Init /\ [][Next]_vars

(* Goroutines run.  The ticker keeps firing and select picks among its ready *)
(* cases at random, so a case that stays ready is taken.                     *)
FairSpec ==
  /\ Spec
  /\ \A r \in Requests : WF_vars(Handle(r))
  /\ \A i \in Instances :
       /\ WF_vars(Receive(i)) /\ WF_vars(FlushStart(i))
       /\ WF_vars(phase[i] # "idle" /\ Aggregate(i))

-----------------------------------------------------------------------------
(* Properties. *)

Calls == [op : {"like", "unlike"}, user : Users, tweet : Tweets, inst : Instances]

TypeOK ==
  /\ tweets \subseteq Tweets /\ likeCount \in [Tweets -> Int]
  /\ likes \subseteq Users \X Tweets
  /\ rows \subseteq Requests /\ counter \subseteq Requests
  /\ pc \in [Requests -> {"idle", "count", "redis", "row", "track", "ok",
                          "failed", "gone"}]
  /\ call \in [Requests -> Calls \cup {NoCall}]
  /\ \A r \in Requests : pc[r] # "idle" => call[r] \in Calls
  /\ up \in [Instances -> {"serving", "draining"}]
  /\ tracked \in [Instances -> Seq(Tweets)]
  /\ \A i \in Instances : Len(tracked[i]) <= TrackedCap
  /\ pending \in [Instances -> SUBSET Tweets]
  /\ phase \in [Instances -> {"idle", "loop", "apply", "clean", "select", "delete",
                              "sums"}]
  /\ todo \in [Instances -> SUBSET Tweets]
  /\ hand \in [Instances -> SUBSET Requests]
  /\ before \in [Instances -> SUBSET Requests]
  /\ sums \in [Instances -> SUBSET Requests]
  /\ byRedis \in [Requests -> Nat] /\ byRow \in [Instances -> [Requests -> Nat]]

(* A delta reaches like_count out of Redis at most once, whatever fails, is   *)
(* lost or is restarted, and however many instances flush (GETDEL).           *)
CounterAppliedOnce == \A r \in Requests : byRedis[r] <= 1

(* FlushPendingLikes: "then deletes those rows so they are only applied once": *)
(* a row reaches like_count once at most, out of one instance.                 *)
RowAppliedOnce ==
  \A r \in Requests, i, j \in Instances :
    /\ byRow[i][r] <= 1
    /\ byRow[i][r] > 0 /\ byRow[j][r] > 0 => i = j

(* FlushPendingLikes is no transaction, so that several instances may have     *)
(* summed up a row before one of them deletes it, and then each of them adds   *)
(* it to like_count.  But no instance adds a row a second time, in whichever   *)
(* flush, whatever fails or restarts between SELECT, DELETE and the updates.   *)
RowAppliedPerAggregator ==
  \A i \in Instances, r \in Requests : byRow[i][r] <= 1

(* A deleted tweet leaves no like and no pending row behind, though calls on   *)
(* it are still under way in every goroutine.                                  *)
NoOrphans ==
  /\ \A l \in likes : l[2] \in tweets
  /\ \A r \in rows : call[r].tweet \in tweets

(* The requests that have added their delta to Redis or to like_count.         *)
Counted == {r \in Requests : pc[r] \in {"row", "track", "ok"}}

(* The times an instance has added a row to like_count, and the sum of their  *)
(* deltas to tweet t.                                                          *)
Applied == UNION {{p} \X (1 .. byRow[p[1]][p[2]]) : p \in Instances \X Requests}
AppliedOf(t, op) ==
  {a \in Applied : call[a[1][2]].tweet = t /\ call[a[1][2]].op = op}
NetApplied(t) == Cardinality(AppliedOf(t, "like")) - Cardinality(AppliedOf(t, "unlike"))

(* Without faults the Redis path and the strong path count every call exactly  *)
(* once, however many instances flush: what like_count and the deltas still on *)
(* their way to it add up to is every call's delta, and over that only what    *)
(* the fallbacks took out of like_count_pending, where a call that the Redis   *)
(* path counts may have a row still.                                           *)
CountExact ==
  \A t \in tweets :
    LET onTheWay == counter \cup UNION {hand[i] : i \in Instances} IN
      likeCount[t] + Net(About(t, onTheWay))
        = Net(About(t, Counted)) + NetApplied(t)

(* The strong calls that have come to one of these ends. *)
Settled(ends) == {r \in Requests : pc[r] \in ends /\ call[r].inst \notin Eventual}

(* Whatever fails, is lost or is restarted, like_count is made of whole calls: *)
(* a strong one that was answered counts once, one that was not counts once or *)
(* not at all, and besides there is what came out of Redis, once, and out of   *)
(* like_count_pending, as often as it was applied.                             *)
CountExplained ==
  \E S \in SUBSET Settled({"ok", "failed", "gone"}) :
    /\ Settled({"ok"}) \subseteq S
    /\ \A t \in tweets :
         likeCount[t] = Net(About(t, S))
                          + Net(About(t, {r \in Requests : byRedis[r] > 0}))
                          + NetApplied(t)

(* LikeTweet: the count "is flushed to Postgres by the LikeAggregator later".  *)
(* A like that an eventual instance answered reaches like_count, unless its    *)
(* tweet is deleted first.                                                     *)
LikeIsCounted ==
  \A r \in Requests, t \in Tweets, i \in Eventual :
    pc[r] = "ok" /\ call[r].tweet = t /\ call[r].inst = i
      ~> \/ byRedis[r] > 0 \/ \E j \in Instances : byRow[j][r] > 0
         \/ t \notin tweets

=============================================================================
