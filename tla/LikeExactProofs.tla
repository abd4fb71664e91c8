--------------------------- MODULE LikeExactProofs ---------------------------
(* CountExact of LikeCounts, without faults: the deltas of a tweet in         *)
(* like_count, in Redis and in a flush are those of the calls, and what came  *)
(* out of like_count_pending besides.  CountExplained, with any faults.       *)
EXTENDS LikeCountsProofs, FunctionTheorems

(* The sum of the deltas of S to tweet t, the calls being c. *)
Sum(c, t, S) ==
  Cardinality({r \in S : c[r].tweet = t /\ c[r].op = "like"})
    - Cardinality({r \in S : c[r].tweet = t /\ c[r].op = "unlike"})

LEMMA NetIsSum ==
  ASSUME NEW t, NEW S \in SUBSET Requests
  PROVE  Net(About(t, S)) = Sum(call, t, S)
<1>1. {r \in About(t, S) : call[r].op = "like"}
        = {r \in S : call[r].tweet = t /\ call[r].op = "like"}
  BY DEF About
<1>2. {r \in About(t, S) : call[r].op = "unlike"}
        = {r \in S : call[r].tweet = t /\ call[r].op = "unlike"}
  BY DEF About
<1>3. QED
  BY <1>1, <1>2 DEF Net, Sum

LEMMA FiniteSumInt ==
  ASSUME NEW c, NEW t, NEW S, IsFiniteSet(S)
  PROVE  Sum(c, t, S) \in Int
<1>1. IsFiniteSet({r \in S : c[r].tweet = t /\ c[r].op = "like"})
  BY FS_Subset
<1>2. IsFiniteSet({r \in S : c[r].tweet = t /\ c[r].op = "unlike"})
  BY FS_Subset
<1>3. QED
  BY <1>1, <1>2, FS_CardinalityType DEF Sum

LEMMA SumInt ==
  ASSUME NEW c, NEW t, NEW S \in SUBSET Requests
  PROVE  Sum(c, t, S) \in Int
BY LikeAssumption, FS_Subset, FiniteSumInt

(* Deltas of sets that share no call add up. *)
LEMMA FiniteSumUnion ==
  ASSUME NEW c, NEW t, NEW A, NEW B, IsFiniteSet(A), IsFiniteSet(B), A \cap B = {}
  PROVE  Sum(c, t, A \cup B) = Sum(c, t, A) + Sum(c, t, B)
<1> DEFINE Likes(S) == {r \in S : c[r].tweet = t /\ c[r].op = "like"}
    Unlikes(S) == {r \in S : c[r].tweet = t /\ c[r].op = "unlike"}
<1>1. ASSUME NEW X \in SUBSET A, NEW Y \in SUBSET B, X \cap Y = {}
      PROVE  /\ Cardinality(X \cup Y) = Cardinality(X) + Cardinality(Y)
             /\ Cardinality(X) \in Nat /\ Cardinality(Y) \in Nat
  <2>1. IsFiniteSet(X) /\ IsFiniteSet(Y)
    BY FS_Subset
  <2>2. Cardinality(X \cup Y) = Cardinality(X) + Cardinality(Y) - Cardinality(X \cap Y)
    BY <2>1, FS_Union
  <2>3. Cardinality(X \cap Y) = 0
    BY <1>1, FS_EmptySet
  <2>4. Cardinality(X) \in Nat /\ Cardinality(Y) \in Nat
    BY <2>1, FS_CardinalityType
  <2>5. QED
    BY <2>2, <2>3, <2>4
<1>2. /\ Likes(A \cup B) = Likes(A) \cup Likes(B) /\ Likes(A) \cap Likes(B) = {}
      /\ Unlikes(A \cup B) = Unlikes(A) \cup Unlikes(B) /\ Unlikes(A) \cap Unlikes(B) = {}
      /\ Likes(A) \in SUBSET A /\ Likes(B) \in SUBSET B
      /\ Unlikes(A) \in SUBSET A /\ Unlikes(B) \in SUBSET B
  OBVIOUS
<1>3. \A S : Sum(c, t, S) = Cardinality(Likes(S)) - Cardinality(Unlikes(S))
  BY DEF Sum
<1> HIDE DEF Likes, Unlikes
<1>4. /\ Cardinality(Likes(A \cup B)) = Cardinality(Likes(A)) + Cardinality(Likes(B))
      /\ Cardinality(Likes(A)) \in Nat /\ Cardinality(Likes(B)) \in Nat
  BY <1>1, <1>2
<1>5. /\ Cardinality(Unlikes(A \cup B)) = Cardinality(Unlikes(A)) + Cardinality(Unlikes(B))
      /\ Cardinality(Unlikes(A)) \in Nat /\ Cardinality(Unlikes(B)) \in Nat
  BY <1>1, <1>2
<1>6. QED
  BY <1>3, <1>4, <1>5

LEMMA SumUnion ==
  ASSUME NEW c, NEW t, NEW A \in SUBSET Requests, NEW B \in SUBSET Requests,
         A \cap B = {}
  PROVE  Sum(c, t, A \cup B) = Sum(c, t, A) + Sum(c, t, B)
BY LikeAssumption, FS_Subset, FiniteSumUnion

(* Calls that are not about t, and no calls at all, add nothing to it. *)
LEMMA SumNone ==
  ASSUME NEW c, NEW t, NEW S, \A r \in S : c[r].tweet # t
  PROVE  Sum(c, t, S) = 0
<1>1. /\ {r \in S : c[r].tweet = t /\ c[r].op = "like"} = {}
      /\ {r \in S : c[r].tweet = t /\ c[r].op = "unlike"} = {}
  OBVIOUS
<1>2. QED
  BY <1>1, FS_EmptySet DEF Sum

(* The calls of S are all that counts. *)
LEMMA SumSame ==
  ASSUME NEW c, NEW d, NEW t, NEW S, \A r \in S : c[r] = d[r]
  PROVE  Sum(c, t, S) = Sum(d, t, S)
<1>1. /\ {r \in S : c[r].tweet = t /\ c[r].op = "like"}
           = {r \in S : d[r].tweet = t /\ d[r].op = "like"}
      /\ {r \in S : c[r].tweet = t /\ c[r].op = "unlike"}
           = {r \in S : d[r].tweet = t /\ d[r].op = "unlike"}
  OBVIOUS
<1>2. QED
  BY <1>1 DEF Sum

-----------------------------------------------------------------------------
(* An application of a row is named by the instance, the request and a number:  *)
(* the sum of the deltas is one over calls that are named so.                  *)

Histories == [Instances -> [Requests -> Nat]]
Places == Instances \X Requests
Named(c) == [a \in Places \X Nat |-> c[a[1][2]]]
Times(h) == UNION {{p} \X (1 .. h[p[1]][p[2]]) : p \in Places}
HistorySum(c, t, h) == Sum(Named(c), t, Times(h))

LEMMA TimesPairs ==
  ASSUME NEW h \in Histories
  PROVE  Times(h) = {a \in Places \X Nat : 1 <= a[2] /\ a[2] <= h[a[1][1]][a[1][2]]}
<1>1. \A p \in Places : h[p[1]][p[2]] \in Nat
  BY DEF Histories, Places
<1>2. QED
  BY <1>1 DEF Times

LEMMA TimesFinite ==
  ASSUME NEW h \in Histories, \A i \in Instances, r \in Requests : h[i][r] <= 1
  PROVE  IsFiniteSet(Times(h))
<1>1. IsFiniteSet({1}) /\ IsFiniteSet(Places)
  BY FS_Singleton, FS_Product, LikeAssumption DEF Places
<1>2. IsFiniteSet(Places \X {1})
  BY <1>1, FS_Product
<1>3. Times(h) \subseteq Places \X {1}
  <2>1. SUFFICES ASSUME NEW a \in Times(h) PROVE a \in Places \X {1}
    OBVIOUS
  <2>2. PICK p \in Places : a \in {p} \X (1 .. h[p[1]][p[2]])
    BY DEF Times
  <2>3. h[p[1]][p[2]] \in Nat /\ h[p[1]][p[2]] <= 1
    BY DEF Histories, Places
  <2>4. QED
    BY <2>2, <2>3
<1>4. QED
  BY <1>2, <1>3, FS_Subset

LEMMA NetAppliedIsSum ==
  ASSUME NEW t, byRow \in Histories
  PROVE  NetApplied(t) = HistorySum(call, t, byRow)
<1>1. \A a \in Applied : Named(call)[a] = call[a[1][2]]
  BY TimesPairs DEF Applied, Times, Places, Named
<1>2. \A op : AppliedOf(t, op)
                = {a \in Applied : Named(call)[a].tweet = t /\ Named(call)[a].op = op}
  BY <1>1 DEF AppliedOf
<1>3. Applied = Times(byRow)
  BY DEF Applied, Times, Places
<1>4. QED
  BY <1>2, <1>3 DEF NetApplied, HistorySum, Sum

(* One more application, by instance i, per call of S.                         *)
More(i, h, S) == {<<<<i, r>>, h[i][r] + 1>> : r \in S}

LEMMA MoreSize ==
  ASSUME NEW i \in Instances, NEW h \in Histories, NEW S \in SUBSET Requests
  PROVE  IsFiniteSet(More(i, h, S)) /\ Cardinality(More(i, h, S)) = Cardinality(S)
<1> DEFINE f == [r \in S |-> <<<<i, r>>, h[i][r] + 1>>]
<1>1. f \in [S -> More(i, h, S)] /\ \A a \in More(i, h, S) : \E r \in S : f[r] = a
  BY DEF More
<1>2. \A q, r \in S : f[q] = f[r] => q = r
  OBVIOUS
<1>3. f \in Bijection(S, More(i, h, S))
  BY <1>1, <1>2, Fun_IsBij
<1>4. IsFiniteSet(S)
  BY LikeAssumption, FS_Subset
<1>5. QED
  BY <1>3, <1>4, FS_Bijection DEF ExistsBijection

LEMMA MoreSum ==
  ASSUME NEW c, NEW t, NEW i \in Instances, NEW h \in Histories,
         NEW S \in SUBSET Requests
  PROVE  Sum(Named(c), t, More(i, h, S)) = Sum(c, t, S)
<1>1. \A r \in S : h[i][r] + 1 \in Nat
  BY DEF Histories
<1>2. \A r \in S : Named(c)[<<<<i, r>>, h[i][r] + 1>>] = c[r]
  BY <1>1 DEF Named, Places
<1>3. ASSUME NEW op
      PROVE  Cardinality({a \in More(i, h, S) : Named(c)[a].tweet = t /\ Named(c)[a].op = op})
               = Cardinality({r \in S : c[r].tweet = t /\ c[r].op = op})
  <2>1. {a \in More(i, h, S) : Named(c)[a].tweet = t /\ Named(c)[a].op = op}
          = More(i, h, {r \in S : c[r].tweet = t /\ c[r].op = op})
    BY <1>2 DEF More
  <2> DEFINE T == {r \in S : c[r].tweet = t /\ c[r].op = op}
  <2>2. T \in SUBSET Requests
    OBVIOUS
  <2> HIDE DEF T
  <2>3. Cardinality(More(i, h, T)) = Cardinality(T)
    BY <2>2, MoreSize
  <2>4. QED
    BY <2>1, <2>3 DEF T
<1> DEFINE M(op) == {a \in More(i, h, S) : Named(c)[a].tweet = t /\ Named(c)[a].op = op}
    T(op) == {r \in S : c[r].tweet = t /\ c[r].op = op}
<1>4. \A op : Cardinality(M(op)) = Cardinality(T(op))
  BY <1>3
<1>5. /\ Sum(Named(c), t, More(i, h, S)) = Cardinality(M("like")) - Cardinality(M("unlike"))
      /\ Sum(c, t, S) = Cardinality(T("like")) - Cardinality(T("unlike"))
  BY DEF Sum
<1> HIDE DEF M, T
<1>6. QED
  BY <1>4, <1>5

(* Credit adds to a history's sum what it adds to like_count.                  *)
LEMMA HistoryGrows ==
  ASSUME NEW c, NEW v, NEW i \in Instances, NEW h \in Histories,
         IsFiniteSet(Times(h)), NEW S \in SUBSET Requests, NEW t \in tweets
  PROVE  HistorySum(c, v, [h EXCEPT ![i] = Credit(h[i], t, S)])
           = HistorySum(c, v, h) + Sum(c, v, S)
<1> DEFINE g == [h EXCEPT ![i] = Credit(h[i], t, S)]
<1>1. \A j \in Instances, r \in Requests : h[j][r] \in Nat
  BY DEF Histories
<1>2. /\ g \in Histories
      /\ \A j \in Instances, r \in Requests :
           g[j][r] = IF j = i /\ r \in S THEN h[j][r] + 1 ELSE h[j][r]
  BY <1>1 DEF Histories, Credit
<1> HIDE DEF g
<1>3. /\ Times(g) = Times(h) \cup More(i, h, S)
      /\ Times(h) \cap More(i, h, S) = {}
  <2>1. \A a : a \in More(i, h, S) <=>
          \E r \in S : a = <<<<i, r>>, h[i][r] + 1>>
    BY DEF More
  <2>2. \A a \in Places \X Nat :
          a \in More(i, h, S) <=> a[1][1] = i /\ a[1][2] \in S /\ a[2] = h[i][a[1][2]] + 1
    BY <2>1 DEF Places
  <2>3. More(i, h, S) \subseteq Places \X Nat
    BY <1>1, <2>1 DEF Places
  <2>4. \A a \in Places \X Nat :
          /\ a \in Times(g) <=> 1 <= a[2] /\ a[2] <= g[a[1][1]][a[1][2]]
          /\ a \in Times(h) <=> 1 <= a[2] /\ a[2] <= h[a[1][1]][a[1][2]]
    BY <1>2, TimesPairs
  <2>5. Times(g) \subseteq Places \X Nat /\ Times(h) \subseteq Places \X Nat
    BY <1>2, TimesPairs
  <2>6. ASSUME NEW a \in Places \X Nat
        PROVE  /\ a \in Times(g) <=> a \in Times(h) \/ a \in More(i, h, S)
               /\ ~(a \in Times(h) /\ a \in More(i, h, S))
    <3>1. /\ a[1][1] \in Instances /\ a[1][2] \in Requests /\ a[2] \in Nat
          /\ h[a[1][1]][a[1][2]] \in Nat
      BY <1>1 DEF Places
    <3>2. QED
      BY <1>2, <2>2, <2>4, <3>1
  <2>7. QED
    BY <2>3, <2>5, <2>6
<1>4. HistorySum(c, v, g) = HistorySum(c, v, h) + Sum(c, v, S)
  BY <1>3, MoreSize, MoreSum, FiniteSumUnion, LikeAssumption, FS_Subset DEF HistorySum
<1>5. QED
  BY <1>4 DEF g

(* No instance has applied a row twice, so that there are finitely many times. *)
LEMMA RowsFinite ==
  ASSUME TypeOK, RowInv
  PROVE  /\ byRow \in Histories /\ IsFiniteSet(Times(byRow))
         /\ \A t : HistorySum(call, t, byRow) \in Int
<1>1. byRow \in Histories
  BY DEF TypeOK, Histories
<1>2. IsFiniteSet(Times(byRow))
  BY <1>1, TimesFinite DEF RowInv
<1>3. QED
  BY <1>1, <1>2, FiniteSumInt DEF HistorySum

LEMMA RowsSame ==
  ASSUME TypeOK, RowInv, \A r \in Requests : pc[r] # "idle" => call'[r] = call[r], NEW t
  PROVE  HistorySum(call', t, byRow) = HistorySum(call, t, byRow)
<1>1. \A a \in Times(byRow) : a \in Places \X Nat /\ 1 <= byRow[a[1][1]][a[1][2]]
  <2>1. byRow \in Histories
    BY RowsFinite
  <2>2. SUFFICES ASSUME NEW a \in Times(byRow)
                 PROVE  a \in Places \X Nat /\ 1 <= byRow[a[1][1]][a[1][2]]
    OBVIOUS
  <2>3. a \in Places \X Nat /\ 1 <= a[2] /\ a[2] <= byRow[a[1][1]][a[1][2]]
    BY <2>1, TimesPairs
  <2>4. byRow[a[1][1]][a[1][2]] \in Nat /\ a[2] \in Nat
    BY <2>1, <2>3 DEF Histories, Places
  <2>5. QED
    BY <2>3, <2>4
<1>2. \A i \in Instances, r \in Requests : 1 <= byRow[i][r] => pc[r] # "idle"
  BY DEF RowInv, Unrowed
<1>3. \A a \in Times(byRow) : Named(call')[a] = Named(call)[a]
  BY <1>1, <1>2 DEF Named, Places
<1>4. QED
  BY <1>3, SumSame DEF HistorySum

LEMMA RowsInit ==
  ASSUME Init, NEW t
  PROVE  HistorySum(call, t, byRow) = 0
<1>1. \A i \in Instances, r \in Requests : byRow[i][r] = 0
  BY DEF Init
<1>2. Times(byRow) = {}
  BY <1>1 DEF Times, Places
<1>3. QED
  BY <1>2, SumNone DEF HistorySum

-----------------------------------------------------------------------------
OnTheWay == counter \cup UNION {hand[i] : i \in Instances}

ExactInv ==
  \A t \in tweets :
    likeCount[t] + Sum(call, t, OnTheWay) = Sum(call, t, Counted) + HistorySum(call, t, byRow)

(* A flush has at most one tweet's delta in hand, and only until it applies it. *)
HandInv ==
  \A i \in Instances :
    /\ phase[i] # "apply" => hand[i] = {}
    /\ \A q, r \in hand[i] : call[q].tweet = call[r].tweet

LEMMA Sets ==
  ASSUME TypeOK
  PROVE  OnTheWay \subseteq Requests /\ Counted \subseteq Requests
BY DEF TypeOK, OnTheWay, Counted

LEMMA HandSame ==
  ASSUME TypeOK, CounterInv, HandInv, UNCHANGED <<hand, phase>>,
         \A r \in Requests : pc[r] # "idle" => call'[r] = call[r]
  PROVE  HandInv'
<1>1. \A i \in Instances : \A r \in hand[i] : call'[r] = call[r]
  BY DEF CounterInv, Unsent, TypeOK
<1>2. QED
  BY <1>1 DEF HandInv

(* Instance i goes to another phase, with nothing new in hand. *)
LEMMA HandMoves ==
  ASSUME TypeOK, HandInv, NEW i \in Instances, NEW p \in {"idle", "loop", "apply", "clean",
           "select", "delete", "sums"}, p = "apply" => phase[i] = "apply", Goto(i, p),
         call' = call,
         \/ hand' = [hand EXCEPT ![i] = {}]
         \/ UNCHANGED hand /\ phase[i] # "apply"
  PROVE  HandInv'
BY DEF HandInv, Goto, TypeOK

LEMMA HandStep ==
  ASSUME TypeOK, CounterInv, HandInv, [Next]_vars
  PROVE  HandInv'
<1>1. ASSUME NEW r \in Requests, NEW i \in Instances, NEW u \in Users,
             NEW t \in Tweets, InsertLike(r, i, u, t) \/ DeleteLike(r, i, u, t)
      PROVE  HandInv'
  <2>1. UNCHANGED <<hand, phase>>
    BY <1>1 DEF InsertLike, DeleteLike, Arrive, aggVars
  <2>2. \A q \in Requests : pc[q] # "idle" => call'[q] = call[q]
    BY <1>1 DEF InsertLike, DeleteLike, Arrive, TypeOK
  <2>3. QED
    BY <2>1, <2>2, HandSame
<1>2. ASSUME NEW r \in Requests, Handle(r) PROVE HandInv'
  BY <1>2, HandSame DEF Handle, IncrLikeCount, RedisIncr, InsertLikePending, TrackTweet,
    aggVars
<1>3. ASSUME NEW i \in Instances, Aggregate(i) PROVE HandInv'
  <2>1. CASE Receive(i)
    BY <2>1, HandSame DEF Receive, reqVars
  <2>2. CASE FlushStart(i) \/ CleanPending(i)
    BY <2>2, HandMoves DEF FlushStart, CleanPending, At, reqVars
  <2>3. CASE FlushEnd(i) \/ SelectSums(i) \/ DeleteRows(i) \/ FallbackReturn(i)
    BY <2>3, HandMoves DEF FlushEnd, SelectSums, DeleteRows, FallbackReturn, FlushReturn,
      At, reqVars
  <2>4. ASSUME NEW t \in Tweets, GetDel(i, t) PROVE HandInv'
    <3>1. phase[i] = "loop" /\ call' = call
      BY <2>4 DEF GetDel, At, reqVars
    <3>2. CASE hand' = [hand EXCEPT ![i] = About(t, counter)] /\ Goto(i, "apply")
      BY <3>1, <3>2 DEF About, Goto, HandInv, TypeOK
    <3>3. CASE UNCHANGED hand /\ Goto(i, "select")
      BY <3>1, <3>3, HandMoves
    <3>4. QED
      BY <2>4, <3>2, <3>3 DEF GetDel
  <2>5. ASSUME NEW t \in Tweets, ApplyCounter(i, t) PROVE HandInv'
    BY <2>5, HandMoves DEF ApplyCounter, reqVars
  <2>6. ASSUME NEW t \in Tweets, ApplySum(i, t) PROVE HandInv'
    BY <2>6, HandSame DEF ApplySum, reqVars
  <2>7. QED
    BY <1>3, <2>1, <2>2, <2>3, <2>4, <2>5, <2>6 DEF Aggregate
<1>4. ASSUME NEW i \in Instances, Shutdown(i) \/ Restart(i) PROVE HandInv'
  BY <1>4, HandMoves DEF Shutdown, Restart, FlushReturn, reqVars
<1>5. ASSUME NEW t \in Tweets, DeleteTweet(t) PROVE HandInv'
  BY <1>5, HandSame DEF DeleteTweet, reqVars, aggVars
<1>6. CASE RedisLoss \/ UNCHANGED vars
  BY <1>6, HandSame DEF RedisLoss, vars, reqVars, aggVars
<1>7. QED
  BY <1>1, <1>2, <1>3, <1>4, <1>5, <1>6 DEF Next

-----------------------------------------------------------------------------
(* What each step moves from one of the sums of ExactInv to another.           *)

(* Nothing moves, whatever tweets and calls on their way to a database do.     *)
LEMMA ExactSame ==
  ASSUME TypeOK, CounterInv, RowInv, ExactInv,
         tweets' \subseteq tweets,
         UNCHANGED <<likeCount, OnTheWay, Counted, byRow>>,
         \A r \in Requests : pc[r] # "idle" => call'[r] = call[r]
  PROVE  ExactInv'
<1>1. SUFFICES ASSUME NEW t \in tweets
               PROVE  likeCount[t] + Sum(call', t, OnTheWay)
                        = Sum(call', t, Counted) + HistorySum(call', t, byRow)
  BY DEF ExactInv
<1>2. /\ \A r \in OnTheWay : call'[r] = call[r]
      /\ \A r \in Counted : call'[r] = call[r]
  BY DEF CounterInv, Unsent, OnTheWay, Counted, TypeOK
<1>3. /\ Sum(call', t, OnTheWay) = Sum(call, t, OnTheWay)
      /\ Sum(call', t, Counted) = Sum(call, t, Counted)
      /\ HistorySum(call', t, byRow) = HistorySum(call, t, byRow)
  BY <1>2, SumSame, RowsSame
<1>4. QED
  BY <1>3 DEF ExactInv

(* The delta of t that a set of calls holds reaches the count of t.           *)
LEMMA BumpAdds ==
  ASSUME TypeOK, NEW S \in SUBSET Requests, NEW t, \A r \in S : call[r].tweet = t,
         likeCount' = Bump(t, Net(S))
  PROVE  \A v \in tweets : likeCount'[v] = likeCount[v] + Sum(call, v, S)
<1>1. SUFFICES ASSUME NEW v \in tweets
               PROVE  likeCount'[v] = likeCount[v] + Sum(call, v, S)
  OBVIOUS
<1>2. likeCount[v] \in Int /\ v \in Tweets
  BY DEF TypeOK
<1>3. CASE v = t
  <2>1. About(t, S) = S
    BY DEF About
  <2>2. Net(S) = Sum(call, t, S)
    BY <2>1, NetIsSum
  <2>3. QED
    BY <1>2, <1>3, <2>2 DEF Bump, TypeOK
<1>4. CASE v # t
  <2>1. Sum(call, v, S) = 0
    BY <1>4, SumNone
  <2>2. QED
    BY <1>2, <1>4, <2>1 DEF Bump, TypeOK
<1>5. QED
  BY <1>3, <1>4

LEMMA ExactHandle ==
  ASSUME TypeOK, CounterInv, RowInv, ExactInv, Faults = {}, NEW r \in Requests, Handle(r)
  PROVE  ExactInv'
<1>1. /\ call' = call /\ tweets' = tweets
      /\ OnTheWay \subseteq Requests /\ Counted \subseteq Requests
      /\ \A t \in tweets : likeCount[t] \in Int
  BY Sets DEF Handle, IncrLikeCount, RedisIncr, InsertLikePending, TrackTweet, dbVars, TypeOK
<1>2. CASE IncrLikeCount(r)
  <2>1. pc[r] = "count" /\ pc' = [pc EXCEPT ![r] = "ok"]
        /\ likeCount' = Bump(call[r].tweet, Net({r}))
        /\ UNCHANGED <<OnTheWay, byRow>>
    BY <1>2 DEF IncrLikeCount, OnTheWay, aggVars, history
  <2>2. Counted' = Counted \cup {r} /\ Counted \cap {r} = {}
    BY <2>1 DEF Counted, TypeOK
  <2>3. ASSUME NEW t \in tweets
        PROVE  likeCount'[t] + Sum(call, t, OnTheWay)
                 = Sum(call, t, Counted') + HistorySum(call, t, byRow)
    <3>1. likeCount'[t] = likeCount[t] + Sum(call, t, {r})
      BY <2>1, BumpAdds
    <3>2. Sum(call, t, Counted') = Sum(call, t, Counted) + Sum(call, t, {r})
      BY <1>1, <2>2, SumUnion
    <3>3. /\ Sum(call, t, OnTheWay) \in Int /\ Sum(call, t, Counted) \in Int
          /\ HistorySum(call, t, byRow) \in Int /\ Sum(call, t, {r}) \in Int
          /\ likeCount[t] \in Int
      BY <1>1, SumInt, RowsFinite
    <3>4. likeCount[t] + Sum(call, t, OnTheWay) = Sum(call, t, Counted) + HistorySum(call, t, byRow)
      BY DEF ExactInv
    <3>5. QED
      BY <3>1, <3>2, <3>3, <3>4
  <2>4. QED
    BY <1>1, <2>1, <2>3 DEF ExactInv
<1>3. CASE RedisIncr(r)
  <2>1. pc[r] = "redis" /\ pc' = [pc EXCEPT ![r] = "row"] /\ likeCount' = likeCount
        /\ counter' = counter \cup {r} /\ hand' = hand /\ byRow' = byRow
    BY <1>1, <1>3 DEF RedisIncr, aggVars, history
  <2>2. Counted' = Counted \cup {r} /\ Counted \cap {r} = {}
    BY <2>1 DEF Counted, TypeOK
  <2>3. OnTheWay' = OnTheWay \cup {r} /\ OnTheWay \cap {r} = {}
    BY <2>1 DEF OnTheWay, CounterInv, Unsent
  <2>4. ASSUME NEW t \in tweets
        PROVE  likeCount[t] + Sum(call, t, OnTheWay')
                 = Sum(call, t, Counted') + HistorySum(call, t, byRow)
    <3>1. /\ Sum(call, t, Counted') = Sum(call, t, Counted) + Sum(call, t, {r})
          /\ Sum(call, t, OnTheWay') = Sum(call, t, OnTheWay) + Sum(call, t, {r})
      BY <1>1, <2>2, <2>3, SumUnion
    <3>2. QED
      BY <1>1, <3>1, SumInt, RowsFinite DEF ExactInv
  <2>5. QED
    BY <1>1, <2>1, <2>4 DEF ExactInv
<1>4. CASE InsertLikePending(r) \/ TrackTweet(r)
  <2>1. UNCHANGED <<likeCount, OnTheWay, Counted, byRow>>
    BY <1>4 DEF InsertLikePending, TrackTweet, OnTheWay, Counted, TypeOK, aggVars,
      history
  <2>2. QED
    BY <1>1, <2>1, ExactSame
<1>5. QED
  BY <1>2, <1>3, <1>4 DEF Handle

LEMMA ExactGetDel ==
  ASSUME TypeOK, CounterInv, HandInv, RowInv, ExactInv, Faults = {},
         NEW i \in Instances, NEW t \in Tweets, GetDel(i, t)
  PROVE  ExactInv'
<1> DEFINE key == About(t, counter)
<1>1. /\ UNCHANGED <<call, tweets, likeCount, Counted, byRow>> /\ hand[i] = {}
      /\ counter' = counter \ key /\ key \subseteq counter
  BY DEF GetDel, AfterGetDel, About, At, HandInv, Counted, dbVars, reqVars, history
<1>2. CASE hand' = [hand EXCEPT ![i] = key]
  <2>1. /\ hand'[i] = key /\ \A j \in Instances \ {i} : hand'[j] = hand[j]
    BY <1>2 DEF TypeOK
  <2>2. OnTheWay' = OnTheWay
    BY <1>1, <2>1 DEF OnTheWay
  <2>3. QED
    BY <1>1, <2>2, ExactSame
<1>3. CASE hand' = hand /\ Net(key) = 0
  <2>1. /\ OnTheWay = OnTheWay' \cup key /\ OnTheWay' \cap key = {}
        /\ key \subseteq Requests /\ OnTheWay' \subseteq Requests
    BY <1>1, <1>3, Sets DEF OnTheWay, CounterInv, TypeOK
  <2>2. ASSUME NEW v \in tweets PROVE Sum(call, v, key) = 0
    <3>1. CASE v = t
      BY <1>3, <3>1, <2>1, NetIsSum, About(t, key) = key DEF About
    <3>2. CASE v # t
      BY <3>2, SumNone DEF About
    <3>3. QED
      BY <3>1, <3>2
  <2>3. ASSUME NEW v \in tweets PROVE Sum(call, v, OnTheWay') = Sum(call, v, OnTheWay)
    <3>1. Sum(call, v, OnTheWay) = Sum(call, v, OnTheWay') + Sum(call, v, key)
      BY <2>1, SumUnion
    <3>2. QED
      BY <2>1, <2>2, <3>1, SumInt
  <2>4. QED
    BY <1>1, <2>3 DEF ExactInv
<1>4. QED
  BY <1>2, <1>3 DEF GetDel

LEMMA ExactApplyCounter ==
  ASSUME TypeOK, CounterInv, HandInv, RowInv, ExactInv, Faults = {},
         NEW i \in Instances, NEW t \in Tweets, ApplyCounter(i, t)
  PROVE  ExactInv'
<1>1. /\ UNCHANGED <<call, tweets, counter, Counted, byRow>>
      /\ hand' = [hand EXCEPT ![i] = {}]
      /\ likeCount' = Bump(t, Net(hand[i]))
  BY DEF ApplyCounter, Counted, dbVars, reqVars
<1>2. hand[i] \in SUBSET Requests /\ \A r \in hand[i] : call[r].tweet = t
  BY DEF ApplyCounter, About, HandInv, TypeOK
<1>3. /\ OnTheWay = OnTheWay' \cup hand[i] /\ OnTheWay' \cap hand[i] = {}
      /\ OnTheWay' \subseteq Requests
  <2>1. hand'[i] = {} /\ \A j \in Instances \ {i} : hand'[j] = hand[j]
    BY <1>1 DEF TypeOK
  <2>2. QED
    BY <1>1, <2>1, Sets DEF OnTheWay, CounterInv
<1>4. ASSUME NEW v \in tweets
      PROVE  likeCount'[v] + Sum(call, v, OnTheWay')
               = Sum(call, v, Counted) + HistorySum(call, v, byRow)
  <2>1. likeCount'[v] = likeCount[v] + Sum(call, v, hand[i])
    BY <1>1, <1>2, BumpAdds
  <2>2. Sum(call, v, OnTheWay) = Sum(call, v, OnTheWay') + Sum(call, v, hand[i])
    BY <1>2, <1>3, SumUnion
  <2>3. likeCount[v] \in Int
    BY DEF TypeOK
  <2>4. QED
    BY <1>2, <1>3, <2>1, <2>2, <2>3, Sets, SumInt DEF ExactInv
<1>5. QED
  BY <1>1, <1>4 DEF ExactInv

LEMMA ExactApplySum ==
  ASSUME TypeOK, CounterInv, RowInv, ExactInv, Faults = {},
         NEW i \in Instances, NEW t \in Tweets, ApplySum(i, t)
  PROVE  ExactInv'
<1> DEFINE sum == About(t, sums[i])
<1>1. /\ UNCHANGED <<call, tweets, OnTheWay, Counted>>
      /\ likeCount' = Bump(t, Net(sum)) /\ byRow' = [byRow EXCEPT ![i] = Credit(byRow[i], t, sum)]
  BY DEF ApplySum, OnTheWay, Counted, dbVars, reqVars
<1>2. /\ sum \in SUBSET Requests /\ \A r \in sum : call[r].tweet = t
  BY DEF About, TypeOK
<1> HIDE DEF sum
<1>3. CASE t \in tweets
  <2>1. ASSUME NEW v \in tweets
        PROVE  likeCount'[v] + Sum(call, v, OnTheWay)
                 = Sum(call, v, Counted) + HistorySum(call, v, byRow')
    <3>1. likeCount'[v] = likeCount[v] + Sum(call, v, sum)
      BY <1>1, <1>2, BumpAdds
    <3>2. HistorySum(call, v, byRow') = HistorySum(call, v, byRow) + Sum(call, v, sum)
      BY <1>1, <1>2, <1>3, RowsFinite, HistoryGrows
    <3>3. likeCount[v] \in Int
      BY DEF TypeOK
    <3>4. QED
      BY <1>2, <3>1, <3>2, <3>3, Sets, SumInt, RowsFinite DEF ExactInv
  <2>2. QED
    BY <1>1, <2>1 DEF ExactInv
<1>4. CASE t \notin tweets
  <2>1. likeCount' = likeCount /\ byRow' = byRow
    BY <1>1, <1>4 DEF Bump, Credit, TypeOK
  <2>2. QED
    BY <1>1, <2>1, ExactSame
<1>5. QED
  BY <1>3, <1>4

LEMMA ExactStep ==
  ASSUME TypeOK, CounterInv, HandInv, RowInv, ExactInv, Faults = {}, [Next]_vars
  PROVE  ExactInv'
<1>1. ASSUME NEW r \in Requests, NEW i \in Instances, NEW u \in Users,
             NEW t \in Tweets, InsertLike(r, i, u, t) \/ DeleteLike(r, i, u, t)
      PROVE  ExactInv'
  <2>1. /\ UNCHANGED <<tweets, likeCount, OnTheWay, byRow>>
        /\ \A q \in Requests : pc[q] # "idle" => call'[q] = call[q]
    BY <1>1 DEF InsertLike, DeleteLike, Arrive, OnTheWay, TypeOK, aggVars, history
  <2>2. /\ pc[r] = "idle" 
        /\ pc' = [pc EXCEPT ![r] = AfterLikesTable(i)] \/ pc' = [pc EXCEPT ![r] = "failed"]
    BY <1>1 DEF InsertLike, DeleteLike, Arrive
  <2>3. Counted' = Counted
    BY <2>2 DEF Counted, AfterLikesTable, TypeOK
  <2>4. QED
    BY <2>1, <2>3, ExactSame
<1>2. ASSUME NEW r \in Requests, Handle(r) PROVE ExactInv'
  BY <1>2, ExactHandle
<1>3. ASSUME NEW i \in Instances, Aggregate(i) PROVE ExactInv'
  <2>1. ASSUME Receive(i) \/ FlushStart(i) \/ CleanPending(i) \/ FlushEnd(i)
                 \/ SelectSums(i) \/ DeleteRows(i) \/ FallbackReturn(i)
        PROVE  UNCHANGED <<tweets, likeCount, OnTheWay, Counted, byRow, call>>
    BY <2>1 DEF Receive, FlushStart, CleanPending, FlushEnd, SelectSums, DeleteRows,
      FallbackReturn, OnTheWay, Counted, dbVars, reqVars, history
  <2>2. QED
    BY <1>3, <2>1, ExactSame, ExactGetDel, ExactApplyCounter, ExactApplySum DEF Aggregate
<1>4. ASSUME NEW i \in Instances, Shutdown(i) \/ Restart(i) \/ RedisLoss PROVE FALSE
  BY <1>4 DEF Shutdown, Restart, RedisLoss
<1>5. ASSUME NEW t \in Tweets, DeleteTweet(t) PROVE ExactInv'
  <2>1. tweets' \subseteq tweets /\ UNCHANGED <<likeCount, OnTheWay, Counted, byRow, call>>
    BY <1>5 DEF DeleteTweet, OnTheWay, Counted, reqVars, aggVars, history
  <2>2. QED
    BY <2>1, ExactSame
<1>6. CASE UNCHANGED vars
  <2>1. UNCHANGED <<tweets, likeCount, OnTheWay, Counted, byRow, call>>
    BY <1>6 DEF vars, OnTheWay, Counted, dbVars, reqVars, aggVars, history
  <2>2. QED
    BY <2>1, ExactSame
<1>7. RedisLoss => FALSE
  BY DEF RedisLoss
<1>8. QED
  BY <1>1, <1>2, <1>3, <1>4, <1>5, <1>6, <1>7 DEF Next

(* Without faults, and with any number of instances in either mode, no delta   *)
(* is lost or counted twice on its way through Redis.                          *)
THEOREM Exact == Faults = {} /\ Spec => []CountExact
<1>1. SUFFICES ASSUME Faults = {} PROVE Spec => []CountExact
  OBVIOUS
<1> DEFINE Inv == TypeOK /\ CounterInv /\ StrongIdle /\ RowInv /\ HandInv /\ ExactInv
<1>2. ASSUME Init PROVE Inv
  <2>1. OnTheWay = {} /\ Counted = {}
    BY <1>2 DEF Init, OnTheWay, Counted
  <2>2. ASSUME NEW t \in tweets
        PROVE  likeCount[t] = 0 /\ Sum(call, t, {}) = 0 /\ HistorySum(call, t, byRow) = 0
    BY <1>2, SumNone, RowsInit DEF Init
  <2>3. ExactInv
    BY <2>1, <2>2 DEF ExactInv
  <2>4. QED
    BY <1>2, <2>3, TypeInit, CounterInit, RowInit DEF Init, HandInv
<1>3. Inv /\ [Next]_vars => Inv'
  BY <1>1, TypeStep, CounterStep, RowStep, StrongIdleStep, HandStep, ExactStep
<1>4. ASSUME Inv PROVE CountExact
  <2>1. SUFFICES ASSUME NEW t \in tweets
                 PROVE  likeCount[t] + Net(About(t, OnTheWay))
                          = Net(About(t, Counted)) + NetApplied(t)
    BY DEF CountExact, OnTheWay
  <2>2. QED
    BY <1>4, Sets, NetIsSum, NetAppliedIsSum, RowsFinite DEF ExactInv
<1>5. QED
  BY <1>2, <1>3, <1>4, PTL DEF Spec

-----------------------------------------------------------------------------
(* CountExplained, with any faults: a set of strong calls, grown by each whose  *)
(* UPDATE was done, accounts for what did not come out of Redis or             *)
(* like_count_pending.                                                         *)

ByRedis == {r \in Requests : byRedis[r] > 0}

Explains(S) ==
  /\ Settled({"ok"}) \subseteq S /\ S \subseteq Settled({"ok", "failed", "gone"})
  /\ \A t \in tweets :
       likeCount[t] = Sum(call, t, S) + Sum(call, t, ByRedis) + HistorySum(call, t, byRow)

CountsStrong == \A r \in Requests : pc[r] = "count" => call[r].inst \notin Eventual

LEMMA CountsStrongStep ==
  ASSUME TypeOK, CountsStrong, [Next]_vars
  PROVE  CountsStrong'
<1>1. ASSUME NEW r \in Requests, NEW i \in Instances, NEW u \in Users,
             NEW t \in Tweets, InsertLike(r, i, u, t) \/ DeleteLike(r, i, u, t)
      PROVE  CountsStrong'
  <2>1. /\ call'[r].inst = i /\ \A q \in Requests \ {r} : call'[q] = call[q]
        /\ pc' = [pc EXCEPT ![r] = AfterLikesTable(i)] \/ pc' = [pc EXCEPT ![r] = "failed"]
    BY <1>1 DEF InsertLike, DeleteLike, Arrive, TypeOK
  <2>2. pc'[r] = "count" => i \notin Eventual
    BY <2>1 DEF AfterLikesTable, TypeOK
  <2>3. \A q \in Requests \ {r} : pc'[q] = pc[q]
    BY <2>1 DEF TypeOK
  <2>4. QED
    BY <2>1, <2>2, <2>3 DEF CountsStrong
<1>2. ASSUME NEW r \in Requests, Handle(r) PROVE CountsStrong'
  BY <1>2 DEF Handle, IncrLikeCount, RedisIncr, InsertLikePending, TrackTweet,
              CountsStrong, TypeOK
<1>3. ASSUME NEW i \in Instances, Aggregate(i) PROVE CountsStrong'
  BY <1>3 DEF Aggregate, Receive, FlushStart, CleanPending, FlushEnd, SelectSums,
              DeleteRows, FallbackReturn, GetDel, ApplyCounter, ApplySum, CountsStrong,
              reqVars
<1>4. ASSUME NEW i \in Instances, Shutdown(i) \/ Restart(i) PROVE CountsStrong'
  BY <1>4 DEF Shutdown, Restart, CountsStrong, TypeOK, reqVars
<1>5. ASSUME NEW t \in Tweets, DeleteTweet(t) PROVE CountsStrong'
  BY <1>5 DEF DeleteTweet, CountsStrong, reqVars
<1>6. CASE RedisLoss \/ UNCHANGED vars
  BY <1>6 DEF RedisLoss, CountsStrong, vars, reqVars
<1>7. QED
  BY <1>1, <1>2, <1>3, <1>4, <1>5, <1>6 DEF Next

(* Nothing reaches like_count. *)
LEMMA LedgerSame ==
  ASSUME TypeOK, CounterInv, RowInv, NEW S \in SUBSET Requests, Explains(S),
         tweets' \subseteq tweets, UNCHANGED <<likeCount, byRedis, byRow>>,
         \A r \in Requests : pc[r] # "idle" => call'[r] = call[r],
         Settled({"ok"})' \subseteq Settled({"ok"}),
         Settled({"ok", "failed", "gone"}) \subseteq Settled({"ok", "failed", "gone"})'
  PROVE  Explains(S)'
<1>1. ByRedis' = ByRedis
  BY DEF ByRedis
<1>2. SUFFICES ASSUME NEW t \in tweets
               PROVE  likeCount[t] = Sum(call', t, S) + Sum(call', t, ByRedis)
                                       + HistorySum(call', t, byRow)
  BY <1>1 DEF Explains
<1>3. /\ \A r \in S : r \in Requests /\ pc[r] # "idle"
      /\ \A r \in ByRedis : r \in Requests /\ pc[r] # "idle"
  BY DEF Explains, Settled, CounterInv, Unsent, ByRedis
<1>4. /\ Sum(call', t, S) = Sum(call, t, S)
      /\ Sum(call', t, ByRedis) = Sum(call, t, ByRedis)
      /\ HistorySum(call', t, byRow) = HistorySum(call, t, byRow)
  BY <1>3, SumSame, RowsSame
<1>5. QED
  BY <1>4 DEF Explains

LEMMA LedgerSets ==
  ASSUME TypeOK
  PROVE  ByRedis \in SUBSET Requests /\ \A t \in tweets : likeCount[t] \in Int
BY DEF ByRedis, TypeOK

LEMMA LedgerStrong ==
  ASSUME TypeOK, CounterInv, RowInv, CountsStrong, NEW S \in SUBSET Requests, Explains(S),
         NEW r \in Requests, IncrLikeCount(r)
  PROVE  \E T \in SUBSET Requests : Explains(T)'
<1>1. /\ pc[r] = "count" /\ call[r].inst \notin Eventual
      /\ UNCHANGED <<call, tweets, byRedis, byRow, ByRedis>>
      /\ pc' = [pc EXCEPT ![r] = "ok"] \/ pc' = [pc EXCEPT ![r] = "failed"]
  BY DEF IncrLikeCount, CountsStrong, ByRedis, dbVars, history
<1>2. r \notin S
  BY <1>1 DEF Explains, Settled
<1>3. CASE likeCount' = Bump(call[r].tweet, Net({r}))
  <2> DEFINE T == S \cup {r}
  <2>1. Settled({"ok"})' \subseteq T /\ T \subseteq Settled({"ok", "failed", "gone"})'
    BY <1>1, <1>3 DEF Explains, Settled, TypeOK
  <2>2. ASSUME NEW t \in tweets
        PROVE  likeCount'[t] = Sum(call, t, T) + Sum(call, t, ByRedis) + HistorySum(call, t, byRow)
    <3>1. likeCount'[t] = likeCount[t] + Sum(call, t, {r})
      BY <1>3, BumpAdds
    <3>2. Sum(call, t, T) = Sum(call, t, S) + Sum(call, t, {r})
      BY <1>2, SumUnion
    <3>3. likeCount[t] = Sum(call, t, S) + Sum(call, t, ByRedis) + HistorySum(call, t, byRow)
      BY DEF Explains
    <3>4. QED
      BY <3>1, <3>2, <3>3, SumInt, LedgerSets, RowsFinite
  <2>3. T \in SUBSET Requests
    OBVIOUS
  <2> HIDE DEF T
  <2>4. Explains(T)'
    BY <1>1, <2>1, <2>2 DEF Explains
  <2>5. QED
    BY <2>3, <2>4
<1>4. CASE likeCount' = likeCount /\ pc' = [pc EXCEPT ![r] = "failed"]
  <2>1. /\ Settled({"ok"})' \subseteq Settled({"ok"})
        /\ Settled({"ok", "failed", "gone"}) \subseteq Settled({"ok", "failed", "gone"})'
    BY <1>1, <1>4 DEF Settled, TypeOK
  <2>2. QED
    BY <1>1, <1>4, <2>1, LedgerSame
<1>5. QED
  BY <1>3, <1>4 DEF IncrLikeCount

(* A delta out of Redis is one that has not come from there before. *)
LEMMA LedgerCounter ==
  ASSUME TypeOK, CounterInv, RowInv, HandInv, NEW S \in SUBSET Requests, Explains(S),
         NEW i \in Instances, NEW t \in Tweets, ApplyCounter(i, t)
  PROVE  Explains(S)'
<1>1. /\ UNCHANGED <<call, pc, tweets, byRow>>
      /\ \A ends : Settled(ends)' = Settled(ends)
  BY DEF ApplyCounter, Settled, dbVars, reqVars
<1>2. /\ hand[i] \in SUBSET Requests /\ \A r \in hand[i] : call[r].tweet = t
      /\ \A r \in hand[i] : byRedis[r] = 0
  BY DEF ApplyCounter, About, HandInv, CounterInv, TypeOK
<1>3. CASE UNCHANGED <<likeCount, byRedis>>
  BY <1>1, <1>3, LedgerSame
<1>4. CASE /\ likeCount' = Bump(t, Net(hand[i]))
           /\ byRedis' = Credit(byRedis, t, hand[i])
  <2>1. CASE t \in tweets
    <3>1. ByRedis' = ByRedis \cup hand[i] /\ ByRedis \cap hand[i] = {}
      BY <1>2, <1>4, <2>1 DEF ByRedis, Credit, TypeOK
    <3>2. ASSUME NEW v \in tweets
          PROVE  likeCount'[v] = Sum(call, v, S) + Sum(call, v, ByRedis') + HistorySum(call, v, byRow)
      <4>1. likeCount'[v] = likeCount[v] + Sum(call, v, hand[i])
        BY <1>2, <1>4, BumpAdds
      <4>2. Sum(call, v, ByRedis') = Sum(call, v, ByRedis) + Sum(call, v, hand[i])
        BY <1>2, <3>1, LedgerSets, SumUnion
      <4>3. likeCount[v] = Sum(call, v, S) + Sum(call, v, ByRedis) + HistorySum(call, v, byRow)
        BY DEF Explains
      <4>4. QED
        BY <1>2, <4>1, <4>2, <4>3, SumInt, LedgerSets, RowsFinite
    <3>3. QED
      BY <1>1, <3>2 DEF Explains
  <2>2. CASE t \notin tweets
    <3>1. likeCount' = likeCount /\ byRedis' = byRedis
      BY <1>4, <2>2 DEF Bump, Credit, TypeOK
    <3>2. QED
      BY <1>1, <3>1, LedgerSame
  <2>3. QED
    BY <2>1, <2>2
<1>5. QED
  BY <1>3, <1>4 DEF ApplyCounter

(* One out of like_count_pending is in the history once more.                  *)
LEMMA LedgerSum ==
  ASSUME TypeOK, CounterInv, RowInv, NEW S \in SUBSET Requests, Explains(S),
         NEW i \in Instances, NEW t \in Tweets, ApplySum(i, t)
  PROVE  Explains(S)'
<1> DEFINE sum == About(t, sums[i])
<1>1. /\ UNCHANGED <<call, pc, tweets, byRedis, ByRedis>>
      /\ \A ends : Settled(ends)' = Settled(ends)
  BY DEF ApplySum, ByRedis, Settled, dbVars, reqVars
<1>2. /\ sum \in SUBSET Requests /\ \A r \in sum : call[r].tweet = t
  BY DEF About, TypeOK
<1>3. CASE UNCHANGED <<likeCount, byRow>>
  BY <1>1, <1>3, LedgerSame
<1>4. CASE likeCount' = Bump(t, Net(sum)) /\ byRow' = [byRow EXCEPT ![i] = Credit(byRow[i], t, sum)]
  <2> HIDE DEF sum
  <2>1. CASE t \in tweets
    <3>1. ASSUME NEW v \in tweets
          PROVE  likeCount'[v] = Sum(call, v, S) + Sum(call, v, ByRedis) + HistorySum(call, v, byRow')
      <4>1. likeCount'[v] = likeCount[v] + Sum(call, v, sum)
        BY <1>2, <1>4, BumpAdds
      <4>2. HistorySum(call, v, byRow') = HistorySum(call, v, byRow) + Sum(call, v, sum)
        BY <1>2, <1>4, <2>1, RowsFinite, HistoryGrows
      <4>3. likeCount[v] = Sum(call, v, S) + Sum(call, v, ByRedis) + HistorySum(call, v, byRow)
        BY DEF Explains
      <4>4. QED
        BY <1>2, <4>1, <4>2, <4>3, SumInt, LedgerSets, RowsFinite
    <3>2. QED
      BY <1>1, <3>1 DEF Explains
  <2>2. CASE t \notin tweets
    <3>1. likeCount' = likeCount /\ byRow' = byRow
      BY <1>4, <2>2 DEF Bump, Credit, TypeOK
    <3>2. QED
      BY <1>1, <3>1, LedgerSame
  <2>3. QED
    BY <2>1, <2>2
<1>5. QED
  BY <1>3, <1>4 DEF ApplySum

LEMMA LedgerStep ==
  ASSUME TypeOK, CounterInv, HandInv, RowInv, StrongIdle, CountsStrong,
         NEW S \in SUBSET Requests, Explains(S), [Next]_vars
  PROVE  \E T \in SUBSET Requests : Explains(T)'
<1>1. ASSUME tweets' \subseteq tweets, UNCHANGED <<likeCount, byRedis, byRow, pc, call>>
      PROVE  Explains(S)'
  <2>1. \A ends : Settled(ends)' = Settled(ends)
    BY <1>1 DEF Settled
  <2>2. QED
    BY <1>1, <2>1, LedgerSame
<1>2. ASSUME NEW r \in Requests, NEW i \in Instances, NEW u \in Users,
             NEW t \in Tweets, InsertLike(r, i, u, t) \/ DeleteLike(r, i, u, t)
      PROVE  Explains(S)'
  <2>1. /\ UNCHANGED <<tweets, likeCount, byRedis, byRow>> /\ pc[r] = "idle"
        /\ \A q \in Requests \ {r} : pc'[q] = pc[q] /\ call'[q] = call[q]
        /\ pc'[r] # "ok"
    BY <1>2 DEF InsertLike, DeleteLike, Arrive, AfterLikesTable, TypeOK, history
  <2>2. /\ Settled({"ok"})' \subseteq Settled({"ok"})
        /\ Settled({"ok", "failed", "gone"}) \subseteq Settled({"ok", "failed", "gone"})'
    BY <2>1 DEF Settled
  <2>3. QED
    BY <2>1, <2>2, LedgerSame
<1>3. ASSUME NEW r \in Requests, RedisIncr(r) \/ InsertLikePending(r) \/ TrackTweet(r)
      PROVE  Explains(S)'
  <2>1. /\ UNCHANGED <<tweets, likeCount, byRedis, byRow, call>>
        /\ call[r].inst \in Eventual /\ pc[r] \notin {"ok", "failed", "gone"}
        /\ \A q \in Requests \ {r} : pc'[q] = pc[q]
    BY <1>3 DEF RedisIncr, InsertLikePending, TrackTweet, StrongIdle, TypeOK, dbVars, history
  <2>2. /\ Settled({"ok"})' \subseteq Settled({"ok"})
        /\ Settled({"ok", "failed", "gone"}) \subseteq Settled({"ok", "failed", "gone"})'
    BY <2>1 DEF Settled
  <2>3. QED
    BY <2>1, <2>2, LedgerSame
<1>4. ASSUME NEW r \in Requests, Handle(r) PROVE \E T \in SUBSET Requests : Explains(T)'
  BY <1>3, <1>4, LedgerStrong DEF Handle
<1>5. ASSUME NEW i \in Instances, Aggregate(i) PROVE Explains(S)'
  <2>1. CASE Receive(i) \/ FlushStart(i) \/ CleanPending(i) \/ FlushEnd(i)
               \/ SelectSums(i) \/ DeleteRows(i) \/ FallbackReturn(i)
    BY <1>1, <2>1 DEF Receive, FlushStart, CleanPending, FlushEnd, SelectSums, DeleteRows,
      FallbackReturn, dbVars, reqVars, history
  <2>2. ASSUME NEW t \in Tweets, GetDel(i, t) PROVE Explains(S)'
    BY <1>1, <2>2 DEF GetDel, dbVars, reqVars, history
  <2>3. QED
    BY <1>5, <2>1, <2>2, LedgerCounter, LedgerSum DEF Aggregate
<1>6. ASSUME NEW i \in Instances, Shutdown(i) PROVE Explains(S)'
  BY <1>1, <1>6 DEF Shutdown, dbVars, reqVars, history
<1>7. ASSUME NEW i \in Instances, Restart(i) PROVE Explains(S)'
  <2>1. /\ UNCHANGED <<tweets, likeCount, byRedis, byRow, call>>
        /\ \A q \in Requests : \/ pc'[q] = pc[q]
                               \/ pc[q] \notin {"ok", "failed", "gone"} /\ pc'[q] = "gone"
    BY <1>7 DEF Restart, TypeOK, dbVars, history
  <2>2. /\ Settled({"ok"})' \subseteq Settled({"ok"})
        /\ Settled({"ok", "failed", "gone"}) \subseteq Settled({"ok", "failed", "gone"})'
    BY <2>1 DEF Settled
  <2>3. QED
    BY <2>1, <2>2, LedgerSame
<1>8. ASSUME NEW t \in Tweets, DeleteTweet(t) PROVE Explains(S)'
  BY <1>1, <1>8 DEF DeleteTweet, reqVars, history
<1>9. CASE RedisLoss \/ UNCHANGED vars
  BY <1>1, <1>9 DEF RedisLoss, vars, dbVars, reqVars, history
<1>10. QED
  BY <1>2, <1>4, <1>5, <1>6, <1>7, <1>8, <1>9 DEF Next

(* With any number of instances in either mode, and whatever fails, is lost or *)
(* is restarted, like_count is the sum of whole calls: a strong one that was   *)
(* answered counts once, a delta out of Redis at most once.                    *)
THEOREM Explained == Spec => []CountExplained
<1> DEFINE Inv == /\ TypeOK /\ CounterInv /\ StrongIdle /\ RowInv /\ HandInv
                  /\ CountsStrong /\ \E S \in SUBSET Requests : Explains(S)
<1>1. ASSUME Init PROVE Inv
  <2>1. ByRedis = {} /\ \A ends \in SUBSET {"ok", "failed", "gone"} : Settled(ends) = {}
    BY <1>1 DEF Init, ByRedis, Settled
  <2>2. ASSUME NEW t \in tweets
        PROVE  likeCount[t] = 0 /\ Sum(call, t, {}) = 0 /\ HistorySum(call, t, byRow) = 0
    BY <1>1, SumNone, RowsInit DEF Init
  <2>3. Explains({})
    BY <2>1, <2>2 DEF Explains
  <2>4. QED
    BY <1>1, <2>3, TypeInit, CounterInit, RowInit DEF Init, HandInv, CountsStrong
<1>2. Inv /\ [Next]_vars => Inv'
  <2>1. SUFFICES ASSUME Inv, [Next]_vars PROVE Inv'
    OBVIOUS
  <2>2. TypeOK' /\ CounterInv' /\ StrongIdle' /\ RowInv' /\ HandInv' /\ CountsStrong'
    BY <2>1, TypeStep, CounterStep, RowStep, StrongIdleStep, HandStep, CountsStrongStep
  <2>3. \E T \in SUBSET Requests : Explains(T)'
    BY <2>1, LedgerStep
  <2>4. QED
    BY <2>2, <2>3
<1>3. ASSUME Inv PROVE CountExplained
  <2>1. PICK S \in SUBSET Requests : Explains(S)
    BY <1>3
  <2>2. ASSUME NEW t \in tweets
        PROVE  likeCount[t] = Net(About(t, S)) + Net(About(t, ByRedis)) + NetApplied(t)
    BY <1>3, <2>1, LedgerSets, NetIsSum, NetAppliedIsSum, RowsFinite DEF Explains
  <2>3. QED
    BY <2>1, <2>2 DEF Explains, CountExplained, ByRedis
<1>4. QED
  BY <1>1, <1>2, <1>3, PTL DEF Spec
=============================================================================
