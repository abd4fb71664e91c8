--------------------------- MODULE HomeFeedProofs ---------------------------
(* Proofs about HomeFeed, for any number of sessions, users and tweets and any *)
(* page size, on top of the proofs about Fanout.                               *)
EXTENDS HomeFeed, FanoutProofs

-----------------------------------------------------------------------------
(* What the feeds see of the fan-out.                                          *)

LEMMA StepAuthor == FanoutStep => UNCHANGED author
BY DEF FanoutStep, Follow, Unfollow, Expire, Enqueue, Work, Take, GetFollowerIDs,
       EndOfPage, PipelineFails, PipelineResent, Push, Restart, tables, queue, Finish

LEMMA FeedIsFanout == [FeedNext]_allVars => [FanoutNext]_vars
BY DEF FeedNext, Change, DeleteTweet, FanoutNext, allVars

(* Who wrote a tweet does not change.                                          *)
LEMMA AuthorKept ==
  ASSUME TypeOK, [FeedNext]_allVars
  PROVE  /\ DOMAIN author \subseteq DOMAIN author'
         /\ \A t \in DOMAIN author : author'[t] = author[t]
<1>1. ASSUME NEW u \in Authors, Create(u)
      PROVE  /\ DOMAIN author \subseteq DOMAIN author'
             /\ \A t \in DOMAIN author : author'[t] = author[t]
  <2>1. author \in Seq(Users) /\ author' = Append(author, u) /\ u \in Users
    BY <1>1, FanoutAssumption DEF Create, TypeOK
  <2>2. QED
    BY <2>1
<1>2. UNCHANGED author \/ \E u \in Authors : Create(u)
  BY StepAuthor DEF FeedNext, Change, CatchUp, DeleteTweet, allVars, vars, tables
<1>3. QED
  BY <1>1, <1>2

(* Numbers of tweets. *)
LEMMA TimeRange == ASSUME NEW t \in Tweets PROVE Time(t) \in 0 .. MaxTweets
<1> DEFINE S == {x \in Ties : x <= t}
<1>1. Ties \subseteq 1 .. MaxTweets /\ MaxTweets \in Nat /\ t \in 1 .. MaxTweets
  BY HomeFeedAssumption, FanoutAssumption DEF Tweets
<1>2. S \subseteq 1 .. t
  <2>1. ASSUME NEW x \in Ties, x <= t PROVE x \in 1 .. t
    BY <1>1, <2>1
  <2>2. QED
    BY <2>1
<1>3. IsFiniteSet(1 .. t) /\ Cardinality(1 .. t) = t
  BY <1>1, FS_Interval
<1>4. IsFiniteSet(S) /\ Cardinality(S) <= t
  BY <1>2, <1>3, FS_Subset
<1>5. Cardinality(S) \in Nat
  BY <1>4, FS_CardinalityType
<1>6. Time(t) = t - Cardinality(S)
  BY DEF Time
<1> HIDE DEF S
<1>7. QED
  BY <1>1, <1>4, <1>5, <1>6

LEMMA OldestOf ==
  ASSUME NEW S \in SUBSET Tweets, S # {}
  PROVE  /\ \E t \in S : Oldest(S) = Time(t)
         /\ \A t \in S : Oldest(S) <= Time(t)
<1> DEFINE T == {Time(t) : t \in S}
<1>1. T \in SUBSET Nat /\ T # {}
  BY TimeRange, FanoutAssumption
<1>2. \E c \in T : \A d \in T : c <= d
  BY <1>1, Least
<1>3. \E c \in T : \A t \in S : c <= Time(t)
  BY <1>2
<1>4. QED
  BY <1>3 DEF Oldest

(* A page has no more than Limit tweets. *)
LEMMA NewestSize ==
  ASSUME NEW S, NEW page \in Newest(S, Limit), IsFiniteSet(S)
  PROVE  page \subseteq S /\ Cardinality(page) <= Limit
<1>1. Cardinality(S) \in Nat /\ Limit \in Nat
  BY FS_CardinalityType, HomeFeedAssumption
<1>2. QED
  BY <1>1 DEF Newest

LEMMA FrontSize ==
  ASSUME NEW T, NEW list \in Seq(T)
  PROVE  Front(list) \subseteq T /\ Cardinality(Front(list)) <= Limit
<1> DEFINE I == {j \in DOMAIN list : j <= Limit}
<1>1. Limit \in Nat /\ DOMAIN list = 1 .. Len(list) /\ Len(list) \in Nat
  BY HomeFeedAssumption
<1>2. IsFiniteSet(1 .. Limit) /\ Cardinality(1 .. Limit) = Limit
  BY <1>1, FS_Interval
<1>3. IsFiniteSet(I) /\ Cardinality(I) <= Limit
  BY <1>1, <1>2, FS_Subset
<1> DEFINE f == [i \in I |-> list[i]]
<1>4. f \in Surjection(I, Front(list))
  BY DEF Front, Surjection
<1>5. IsFiniteSet(Front(list)) /\ Cardinality(Front(list)) <= Cardinality(I)
  BY <1>3, <1>4, FS_Surjection
<1>6. Cardinality(I) \in Nat /\ Cardinality(Front(list)) \in Nat
  BY <1>3, <1>5, FS_CardinalityType
<1>7. Front(list) \subseteq T
  BY DEF Front
<1>8. QED
  BY <1>1, <1>3, <1>5, <1>6, <1>7

-----------------------------------------------------------------------------
(* Types. *)

FeedInv == TypeOK /\ FeedTypeOK

(* Each database shows tweets that have been stored. *)
LEMMA ViewsKnown ==
  ASSUME FeedInv, NEW db \in Views
  PROVE  /\ db.rows \subseteq DOMAIN author /\ IsFiniteSet(db.rows)
         /\ \A u : Followees(db, u) \subseteq Users
<1>1. db.rows = rows \/ db.rows = replicaRows
  BY DEF Views
<1>2. db.rows \subseteq DOMAIN author
  BY <1>1 DEF FeedInv, FeedTypeOK
<1>3. DOMAIN author = 1 .. Len(author) /\ Len(author) \in Nat
  BY DEF FeedInv, TypeOK
<1>4. IsFiniteSet(1 .. Len(author))
  BY <1>3, FS_Interval
<1>5. IsFiniteSet(db.rows)
  BY <1>2, <1>3, <1>4, FS_Subset
<1>6. QED
  BY <1>2, <1>5 DEF Followees

LEMMA FeedTypeInit == FeedInit => FeedInv
<1>1. SUFFICES ASSUME FeedInit PROVE FeedInv
  OBVIOUS
<1>2. TypeOK
  BY <1>1, TypeInit DEF FeedInit
<1>3. NoBefore \in 0 .. NoBefore /\ Limit \in Nat
  BY HomeFeedAssumption, FanoutAssumption DEF NoBefore
<1>4. followed \subseteq Pairs
  BY <1>1, <1>2 DEF FeedInit, TypeOK
<1>5. QED
  BY <1>1, <1>2, <1>3, <1>4, FS_EmptySet DEF FeedInit, FeedInv, FeedTypeOK

(* A request changes one session only. *)
LEMMA ServeType ==
  ASSUME FeedInv, NEW s \in Sessions, Serve(s), UNCHANGED <<vars, rows, replicaRows, due, followed>>
  PROVE  FeedTypeOK'
<1> USE DEF FeedTypeOK, FeedInv
<1>1. /\ UNCHANGED <<author, feed>> /\ step[s] # "closed"
      /\ before' \in [Sessions -> 0 .. NoBefore]
      /\ shown' \in [Sessions -> SUBSET DOMAIN author]
  <2>1. CASE EnrichTweets(s)
    <3>1. PICK db \in Views :
            LET page == GetByIDs(db, ids[s]) IN
              /\ shown' = [shown EXCEPT ![s] = @ \cup page]
              /\ before' = [before EXCEPT ![s] = IF page = {} THEN @ ELSE Oldest(page)]
      BY <2>1 DEF EnrichTweets
    <3> DEFINE page == GetByIDs(db, ids[s])
    <3>2. page \subseteq DOMAIN author /\ page \subseteq Tweets
      BY Known DEF GetByIDs
    <3>3. page # {} => Oldest(page) \in 0 .. NoBefore
      BY <3>2, OldestOf, TimeRange, FanoutAssumption DEF NoBefore
    <3> HIDE DEF page
    <3>4. before' \in [Sessions -> 0 .. NoBefore]
      BY <3>1, <3>3 DEF page
    <3>5. shown' \in [Sessions -> SUBSET DOMAIN author]
      BY <3>1, <3>2 DEF page
    <3>6. QED
      BY <2>1, <3>4, <3>5 DEF EnrichTweets, vars, tables
  <2>2. CASE ~EnrichTweets(s)
    BY <2>2 DEF Serve, Hit, Miss, GetFolloweeIDs, GetTimelineFromDB, Fail, vars, tables
  <2>3. QED
    BY <2>1, <2>2
<1>2. \E p \in {"ask", "followees", "tweets", "enrich", "end"} : Goto(s, p)
  BY DEF Serve, Hit, Miss, GetFolloweeIDs, GetTimelineFromDB, EnrichTweets, Fail
<1>3. /\ step' \in [Sessions -> {"closed", "ask", "followees", "tweets", "enrich", "end"}]
      /\ \A q \in Sessions : feed'[q] = NoFeed <=> step'[q] = "closed"
  BY <1>1, <1>2 DEF Goto
<1>4. followees' \in [Sessions -> SUBSET Users]
  <2>1. CASE GetFolloweeIDs(s)
    BY <2>1, ViewsKnown DEF GetFolloweeIDs
  <2>2. CASE Miss(s)
    <3>1. feed[s].kind = "user" => feed[s].user \in Users
      <4>1. feed[s] \in Feeds
        BY <1>1
      <4>2. QED
        BY <4>1, HomeFeedAssumption DEF Feeds
    <3>2. QED
      BY <2>2, <3>1 DEF Miss
  <2>3. CASE Hit(s) \/ GetTimelineFromDB(s) \/ EnrichTweets(s) \/ Fail(s)
    BY <2>3 DEF Hit, GetTimelineFromDB, EnrichTweets, Fail
  <2>4. QED
    BY <2>1, <2>2, <2>3 DEF Serve
<1>5. \E page : /\ page \subseteq DOMAIN author /\ Cardinality(page) <= Limit
               /\ ids' = [ids EXCEPT ![s] = page]
  <2>1. CASE Hit(s)
    <3>1. feed[s] \in Feeds /\ feed[s].kind = "home"
      BY <1>1, <2>1 DEF Hit
    <3>2. feed[s].user \in Users
      BY <3>1, HomeFeedAssumption DEF Feeds
    <3>3. lists[feed[s].user] \in Seq(DOMAIN author)
      BY <3>2 DEF TypeOK
    <3>4. QED
      BY <2>1, <3>3, FrontSize DEF Hit
  <2>2. CASE GetTimelineFromDB(s)
    <3>1. PICK db \in Views : \E page \in Newest(Older(db, followees[s], before[s]), Limit) :
                                ids' = [ids EXCEPT ![s] = page]
      BY <2>2 DEF GetTimelineFromDB
    <3> DEFINE S == Older(db, followees[s], before[s])
    <3>2. S \subseteq db.rows /\ S \subseteq DOMAIN author
      BY ViewsKnown DEF Older
    <3>3. IsFiniteSet(S)
      BY <3>2, ViewsKnown, FS_Subset
    <3> HIDE DEF S
    <3>4. QED
      BY <3>1, <3>2, <3>3, NewestSize DEF S
  <2>3. CASE EnrichTweets(s) \/ Fail(s)
    <3>1. Cardinality({}) <= Limit
      BY FS_EmptySet, HomeFeedAssumption
    <3>2. QED
      BY <2>3, <3>1 DEF EnrichTweets, Fail
  <2>4. CASE Miss(s) \/ GetFolloweeIDs(s)
    <3>1. ids' = [ids EXCEPT ![s] = ids[s]]
      BY <2>4 DEF Miss, GetFolloweeIDs
    <3>2. QED
      BY <3>1
  <2>5. QED
    BY <2>1, <2>2, <2>3, <2>4 DEF Serve
<1>6. /\ ids' \in [Sessions -> SUBSET DOMAIN author]
      /\ \A q \in Sessions : Cardinality(ids'[q]) <= Limit
  BY <1>5
<1>7. cached' \in [Sessions -> BOOLEAN]
  BY DEF Serve, Hit, Miss, GetFolloweeIDs, GetTimelineFromDB, EnrichTweets, Fail
<1>8. QED
  BY <1>1, <1>3, <1>4, <1>6, <1>7

LEMMA FeedTypeStep == ASSUME FeedInv, [FeedNext]_allVars PROVE FeedInv'
<1>1. TypeOK'
  BY FeedIsFanout, TypeStep DEF FeedInv
<1>2. DOMAIN author \subseteq DOMAIN author'
  BY AuthorKept DEF FeedInv
<1>3. CASE Change
  <2>1. rows' \subseteq DOMAIN author' /\ replicaRows' \subseteq DOMAIN author'
    <3>1. ASSUME NEW u \in Authors, Create(u) PROVE Len(author') \in DOMAIN author'
      <4>1. author \in Seq(Users) /\ author' = Append(author, u) /\ u \in Users
        BY <3>1, FanoutAssumption DEF Create, FeedInv, TypeOK
      <4>2. QED
        BY <4>1
    <3>2. QED
      BY <1>2, <1>3, <3>1 DEF Change, DeleteTweet, FeedInv, FeedTypeOK
  <2>2. due' \in [Sessions -> SUBSET DOMAIN author']
    BY <1>2, <1>3 DEF Change, FeedInv, FeedTypeOK
  <2>3. UNCHANGED request
    BY <1>3 DEF Change
  <2>4. followed' \subseteq Pairs
    BY <1>1, <1>3 DEF Change, FeedInv, FeedTypeOK, TypeOK
  <2>5. QED
    BY <1>1, <1>2, <2>1, <2>2, <2>3, <2>4 DEF FeedInv, FeedTypeOK, request
<1>4. ASSUME NEW s \in Sessions, NEW f \in Feeds, OpenFeed(s, f), UNCHANGED <<vars, rows, replicaRows, followed>>
      PROVE  FeedTypeOK'
  <2>1. f # NoFeed
    BY DEF Feeds, NoFeed
  <2>2. author' = author
    BY <1>4 DEF vars, tables
  <2>3. QED
    BY <1>4, <2>1, <2>2 DEF OpenFeed, Goto, FeedInv, FeedTypeOK
<1>5. ASSUME NEW s \in Sessions, Serve(s), UNCHANGED due, UNCHANGED <<vars, rows, replicaRows, followed>>
      PROVE  FeedTypeOK'
  BY <1>5, ServeType
<1>6. CASE UNCHANGED allVars
  <2>1. /\ UNCHANGED <<author, rows, replicaRows, due, followed>>
        /\ UNCHANGED <<feed, step, before, followees, ids, shown, cached>>
    BY <1>6 DEF allVars, vars, tables, request
  <2>2. FeedTypeOK
    BY DEF FeedInv
  <2>3. QED
    BY <1>1, <2>1, <2>2 DEF FeedTypeOK, FeedInv
<1>7. QED
  BY <1>1, <1>3, <1>4, <1>5, <1>6 DEF FeedNext, FeedInv

(* Every variable of the timeline service and its clients keeps its type, and  *)
(* no page has more tweets than the limit.                                     *)
THEOREM FeedTypeCorrect == FeedSpec => []FeedTypeOK
<1>1. FeedInv => FeedTypeOK
  BY DEF FeedInv
<1>2. QED
  BY <1>1, FeedTypeInit, FeedTypeStep, PTL DEF FeedSpec

-----------------------------------------------------------------------------
(* No gaps.                                                                    *)

(* What a request has found so far leaves out nothing that is due: the authors *)
(* of due tweets are among the followees, and what the page leaves out is no   *)
(* newer than any tweet of the page.                                           *)
CoversDue(s) ==
  /\ step[s] = "tweets" => \A t \in due[s] : author[t] \in followees[s]
  /\ step[s] = "enrich" =>
       \A t \in due[s] :
         Time(t) < before[s] => t \in ids[s] \/ \A x \in ids[s] : Time(t) <= Time(x)

(* Nothing due above the cursor is missing, but for ties.                      *)
TiesOnly(s) ==
  \A t \in due[s] : Time(t) >= before[s] => \E x \in shown[s] : Time(x) = Time(t)

(* A due tweet is in the timeline in whichever database.                       *)
DueIn(s) == \A t \in due[s] : InFeed(feed[s], t)

GapInv ==
  \A s \in Sessions :
    /\ step[s] = "closed" => before[s] = NoBefore
    /\ step[s] = "followees" => feed[s].kind = "home"
    /\ DueIn(s)
    /\ ~cached[s] => TiesOnly(s) /\ CoversDue(s)

LEMMA GapInit == FeedInit => GapInv
BY DEF FeedInit, GapInv, DueIn, TiesOnly, CoversDue

LEMMA GapChange == ASSUME FeedInv, GapInv, [FeedNext]_allVars, Change PROVE GapInv'
<1> SUFFICES ASSUME NEW s \in Sessions
             PROVE  /\ step'[s] = "closed" => before'[s] = NoBefore
                    /\ step'[s] = "followees" => feed'[s].kind = "home"
                    /\ DueIn(s)'
                    /\ ~cached'[s] => TiesOnly(s)' /\ CoversDue(s)'
  BY DEF GapInv
<1>1. UNCHANGED <<feed, step, before, followees, ids, shown, cached>>
  BY DEF Change, request
<1>2. due'[s] = {t \in due[s] : InFeed(feed[s], t)'}
  BY DEF Change
<1>3. DueIn(s)'
  BY <1>2 DEF DueIn
<1>4. \A t \in due'[s] : t \in due[s] /\ author'[t] = author[t]
  BY <1>2, AuthorKept DEF FeedInv, FeedTypeOK
<1>5. TiesOnly(s) => TiesOnly(s)'
  BY <1>1, <1>4 DEF TiesOnly
<1>6. CoversDue(s) => CoversDue(s)'
  BY <1>1, <1>4 DEF CoversDue
<1>7. QED
  BY <1>1, <1>3, <1>5, <1>6 DEF GapInv

(* The databases stay as they are while a session takes a step.                *)
LEMMA FeedFrame ==
  ASSUME UNCHANGED <<vars, rows, replicaRows>>
  PROVE  /\ UNCHANGED author
         /\ \A f, t : InFeed(f, t)' = InFeed(f, t)
<1>1. UNCHANGED <<author, follows, replica, rows, replicaRows>>
  BY DEF vars, tables
<1>2. UNCHANGED Views
  BY <1>1 DEF Views
<1>3. QED
  BY <1>1, <1>2 DEF InFeed, Followees

(* A session's step leaves the other sessions as they are. *)
LEMMA OtherSessions ==
  ASSUME FeedInv, NEW s \in Sessions, Serve(s) \/ \E f \in Feeds : OpenFeed(s, f),
         NEW q \in Sessions \ {s}
  PROVE  /\ feed'[q] = feed[q] /\ step'[q] = step[q] /\ before'[q] = before[q]
         /\ followees'[q] = followees[q] /\ ids'[q] = ids[q] /\ shown'[q] = shown[q]
         /\ cached'[q] = cached[q]
<1> USE DEF Goto, FeedInv, FeedTypeOK
<1>1. CASE \E f \in Feeds : OpenFeed(s, f)
  BY <1>1 DEF OpenFeed
<1>2. CASE Hit(s) \/ Miss(s) \/ GetFolloweeIDs(s)
  BY <1>2 DEF Hit, Miss, GetFolloweeIDs
<1>3. CASE GetTimelineFromDB(s)
  BY <1>3 DEF GetTimelineFromDB
<1>4. CASE EnrichTweets(s)
  BY <1>4 DEF EnrichTweets
<1>5. CASE Fail(s)
  BY <1>5 DEF Fail
<1>6. QED
  BY <1>1, <1>2, <1>3, <1>4, <1>5 DEF Serve

LEMMA GapOpen ==
  ASSUME FeedInv, GapInv, NEW s \in Sessions, NEW f \in Feeds, OpenFeed(s, f),
         UNCHANGED <<vars, rows, replicaRows, followed>>
  PROVE  GapInv'
<1> SUFFICES ASSUME NEW q \in Sessions
             PROVE  /\ step'[q] = "closed" => before'[q] = NoBefore
                    /\ step'[q] = "followees" => feed'[q].kind = "home"
                    /\ DueIn(q)'
                    /\ ~cached'[q] => TiesOnly(q)' /\ CoversDue(q)'
  BY DEF GapInv
<1>1. CASE q # s
  <2>1. /\ feed'[q] = feed[q] /\ due'[q] = due[q] /\ step'[q] = step[q]
        /\ UNCHANGED <<before, followees, ids, shown, cached>>
    BY <1>1, OtherSessions DEF OpenFeed, FeedInv, FeedTypeOK
  <2>2. QED
    BY <2>1, FeedFrame DEF GapInv, DueIn, TiesOnly, CoversDue
<1>2. CASE q = s
  <2>1. /\ feed'[q] = f /\ step'[q] = "ask" /\ before'[q] = NoBefore
        /\ due'[q] = {t \in rows : InFeed(f, t)}
    BY <1>2 DEF OpenFeed, Goto, FeedInv, FeedTypeOK, GapInv
  <2>2. DueIn(q)'
    BY <2>1, FeedFrame DEF DueIn
  <2>3. \A t \in due'[q] : Time(t) \in 0 .. MaxTweets
    BY <2>1, Known, TimeRange DEF FeedInv, FeedTypeOK
  <2>4. \A t \in due'[q] : ~(Time(t) >= NoBefore)
    BY <2>3, FanoutAssumption DEF NoBefore
  <2>5. TiesOnly(q)' /\ CoversDue(q)'
    BY <2>1, <2>4 DEF TiesOnly, CoversDue
  <2>6. QED
    BY <2>1, <2>2, <2>5
<1>3. QED
  BY <1>1, <1>2

(* The main database is one of those a query may ask.                          *)
LEMMA DueFrom ==
  ASSUME NEW s \in Sessions, DueIn(s), NEW t \in due[s]
  PROVE  /\ \A db \in Views : t \in db.rows
         /\ feed[s].kind = "user" => author[t] = feed[s].user
         /\ feed[s].kind = "home" => \A db \in Views : author[t] \in Followees(db, feed[s].user)
<1>1. [follows |-> follows, rows |-> rows] \in Views
  BY DEF Views
<1>2. QED
  BY <1>1 DEF DueIn, InFeed

LEMMA GapFollowees ==
  ASSUME FeedInv, GapInv, NEW s \in Sessions, Miss(s) \/ GetFolloweeIDs(s),
         UNCHANGED <<vars, rows, replicaRows, due, followed>>
  PROVE  /\ step'[s] = "followees" => feed[s].kind = "home"
         /\ TiesOnly(s) => TiesOnly(s)' /\ CoversDue(s)'
<1>1. UNCHANGED <<author, due, feed, before, ids, shown>>
  BY FeedFrame DEF Miss, GetFolloweeIDs
<1>2. TiesOnly(s) => TiesOnly(s)'
  BY <1>1 DEF TiesOnly
<1>3. DueIn(s)
  BY DEF GapInv
<1>4. CASE Miss(s) /\ feed[s].kind = "home"
  BY <1>2, <1>4 DEF Miss, Goto, CoversDue, FeedInv, FeedTypeOK
<1>5. CASE Miss(s) /\ feed[s].kind # "home"
  <2>1. feed[s].kind = "user" /\ followees'[s] = {feed[s].user} /\ step'[s] = "tweets"
    BY <1>5 DEF Miss, Goto, FeedInv, FeedTypeOK
  <2>2. \A t \in due'[s] : author'[t] \in followees'[s]
    BY <1>1, <1>3, <2>1, DueFrom
  <2>3. QED
    BY <1>2, <2>1, <2>2 DEF CoversDue
<1>6. CASE GetFolloweeIDs(s)
  <2>1. feed[s].kind = "home" /\ step'[s] = "tweets"
    BY <1>6 DEF GetFolloweeIDs, Goto, GapInv, FeedInv, FeedTypeOK
  <2>2. PICK db \in Views : followees'[s] = Followees(db, feed[s].user)
    BY <1>6 DEF GetFolloweeIDs, FeedInv, FeedTypeOK
  <2>3. \A t \in due'[s] : author'[t] \in followees'[s]
    BY <1>1, <1>3, <2>1, <2>2, DueFrom
  <2>4. QED
    BY <1>2, <2>1, <2>3 DEF CoversDue
<1>7. QED
  BY <1>4, <1>5, <1>6

(* A page is the newest below the cursor: what it leaves out is older.         *)
LEMMA GapPage ==
  ASSUME FeedInv, GapInv, NEW s \in Sessions, GetTimelineFromDB(s), CoversDue(s),
         UNCHANGED <<vars, rows, replicaRows, due, followed>>
  PROVE  TiesOnly(s) => TiesOnly(s)' /\ CoversDue(s)'
<1>1. UNCHANGED <<author, due, before, shown>> /\ step[s] = "tweets" /\ step'[s] = "enrich"
  BY FeedFrame DEF GetTimelineFromDB, Goto, FeedInv, FeedTypeOK
<1>2. PICK db \in Views : \E page \in Newest(Older(db, followees[s], before[s]), Limit) :
                            ids' = [ids EXCEPT ![s] = page]
  BY DEF GetTimelineFromDB
<1> DEFINE S == Older(db, followees[s], before[s])
<1>3. ids'[s] \in Newest(S, Limit)
  BY <1>2 DEF FeedInv, FeedTypeOK
<1>4. ASSUME NEW t \in due[s], Time(t) < before[s], t \notin ids'[s], NEW x \in ids'[s]
      PROVE  Time(t) <= Time(x)
  <2>1. author[t] \in followees[s]
    BY <1>1 DEF CoversDue
  <2>2. t \in db.rows
    BY DueFrom DEF GapInv
  <2>3. t \in S
    BY <1>4, <2>1, <2>2 DEF Older
  <2>4. ids'[s] \subseteq S /\ Time(x) >= Time(t)
    BY <1>3, <1>4, <2>3 DEF Newest
  <2>5. S \subseteq Tweets
    BY Known, ViewsKnown DEF Older, FeedInv
  <2>6. Time(x) \in Int /\ Time(t) \in Int
    BY TimeRange, <2>3, <2>4, <2>5
  <2>7. QED
    BY <2>4, <2>6
<1>5. CoversDue(s)'
  BY <1>1, <1>4 DEF CoversDue
<1>6. QED
  BY <1>1, <1>5 DEF TiesOnly

(* The next cursor lies above everything that is due and was not shown.        *)
LEMMA GapShown ==
  ASSUME FeedInv, GapInv, NEW s \in Sessions, EnrichTweets(s), CoversDue(s), TiesOnly(s),
         UNCHANGED <<vars, rows, replicaRows, due, followed>>
  PROVE  TiesOnly(s)' /\ CoversDue(s)'
<1>1. PICK db \in Views :
        LET page == GetByIDs(db, ids[s]) IN
          /\ shown' = [shown EXCEPT ![s] = @ \cup page]
          /\ before' = [before EXCEPT ![s] = IF page = {} THEN @ ELSE Oldest(page)]
          /\ Goto(s, IF page = {} THEN "end" ELSE "ask")
  BY DEF EnrichTweets
<1> DEFINE page == GetByIDs(db, ids[s])
<1>2. page \in SUBSET Tweets
  BY Known DEF GetByIDs, FeedInv, FeedTypeOK
<1>3. /\ shown'[s] = shown[s] \cup page
      /\ before'[s] = IF page = {} THEN before[s] ELSE Oldest(page)
      /\ step[s] = "enrich" /\ step'[s] \in {"end", "ask"}
  BY <1>1 DEF Goto, EnrichTweets, FeedInv, FeedTypeOK
<1>4. ASSUME NEW t \in due[s], Time(t) >= before'[s]
      PROVE  \E x \in shown'[s] : Time(x) = Time(t)
  <2>1. t \in db.rows
    BY DueFrom DEF GapInv
  <2>2. t \in Tweets /\ Time(t) \in Int /\ before[s] \in Int
    BY Known, TimeRange DEF FeedInv, FeedTypeOK
  <2>3. CASE Time(t) >= before[s]
    BY <1>3, <2>3 DEF TiesOnly
  <2>4. CASE Time(t) < before[s]
    <3>1. page # {}
      BY <1>3, <1>4, <2>2, <2>4
    <3>2. PICK x \in page : Oldest(page) = Time(x)
      BY <1>2, <3>1, OldestOf
    <3>3. Time(x) \in Int
      BY <1>2, TimeRange
    <3>4. CASE t \in ids[s]
      BY <1>3, <2>1, <3>4 DEF GetByIDs
    <3>5. CASE t \notin ids[s]
      <4>1. Time(t) <= Time(x)
        BY <1>3, <2>4, <3>2, <3>5 DEF CoversDue, GetByIDs
      <4>2. Time(t) >= Time(x)
        BY <1>3, <1>4, <3>1, <3>2
      <4>3. QED
        BY <1>3, <2>2, <3>2, <3>3, <4>1, <4>2
    <3>6. QED
      BY <3>4, <3>5
  <2>5. QED
    BY <2>2, <2>3, <2>4
<1>5. TiesOnly(s)'
  BY <1>4 DEF TiesOnly
<1>6. QED
  BY <1>3, <1>5 DEF CoversDue

LEMMA GapServe ==
  ASSUME FeedInv, GapInv, NEW s \in Sessions, Serve(s),
         UNCHANGED <<vars, rows, replicaRows, due, followed>>
  PROVE  GapInv'
<1> SUFFICES ASSUME NEW q \in Sessions
             PROVE  /\ step'[q] = "closed" => before'[q] = NoBefore
                    /\ step'[q] = "followees" => feed'[q].kind = "home"
                    /\ DueIn(q)'
                    /\ ~cached'[q] => TiesOnly(q)' /\ CoversDue(q)'
  BY DEF GapInv
<1>1. feed' = feed /\ DueIn(q)'
  BY FeedFrame DEF Serve, Hit, Miss, GetFolloweeIDs, GetTimelineFromDB, EnrichTweets,
                   Fail, GapInv, DueIn
<1>2. CASE q # s
  <2>1. /\ step'[q] = step[q] /\ before'[q] = before[q] /\ followees'[q] = followees[q]
        /\ ids'[q] = ids[q] /\ shown'[q] = shown[q] /\ cached'[q] = cached[q]
    BY <1>2, OtherSessions
  <2>2. QED
    BY <1>1, <2>1, FeedFrame DEF GapInv, TiesOnly, CoversDue
<1>3. CASE q = s
  <2> DEFINE Goal == /\ step'[s] # "closed"
                     /\ step'[s] = "followees" => feed[s].kind = "home"
                     /\ ~cached'[s] => TiesOnly(s)' /\ CoversDue(s)'
  <2>1. ~cached[s] => TiesOnly(s) /\ CoversDue(s)
    BY DEF GapInv
  <2>2. ASSUME Hit(s) PROVE Goal
    BY <2>2 DEF Hit, Goto, FeedInv, FeedTypeOK
  <2>3. ASSUME Miss(s) \/ GetFolloweeIDs(s) PROVE Goal
    <3>1. cached' = cached /\ step'[s] # "closed"
      BY <2>3 DEF Miss, GetFolloweeIDs, Goto, FeedInv, FeedTypeOK
    <3>2. QED
      BY <2>1, <2>3, <3>1, GapFollowees
  <2>4. ASSUME GetTimelineFromDB(s) PROVE Goal
    <3>1. cached' = cached /\ step'[s] = "enrich"
      BY <2>4 DEF GetTimelineFromDB, Goto, FeedInv, FeedTypeOK
    <3>2. QED
      BY <2>1, <2>4, <3>1, GapPage
  <2>5. ASSUME EnrichTweets(s) PROVE Goal
    <3>1. cached' = cached /\ step'[s] \in {"ask", "end"}
      BY <2>5 DEF EnrichTweets, Goto, FeedInv, FeedTypeOK
    <3>2. QED
      BY <2>1, <2>5, <3>1, GapShown
  <2>6. ASSUME Fail(s) PROVE Goal
    <3>1. UNCHANGED <<cached, shown, before, due>> /\ step'[s] = "ask"
      BY <2>6 DEF Fail, Goto, FeedInv, FeedTypeOK
    <3>2. QED
      BY <2>1, <3>1 DEF TiesOnly, CoversDue
  <2>7. Goal
    BY <2>2, <2>3, <2>4, <2>5, <2>6 DEF Serve
  <2>8. QED
    BY <1>1, <1>3, <2>7
<1>4. QED
  BY <1>2, <1>3

LEMMA GapStep == ASSUME FeedInv, GapInv, [FeedNext]_allVars PROVE GapInv'
<1>1. CASE Change
  BY <1>1, GapChange
<1>2. CASE UNCHANGED allVars
  <2>1. /\ UNCHANGED <<vars, rows, replicaRows, followed>>
        /\ UNCHANGED <<due, feed, step, before, followees, ids, shown, cached>>
    BY <1>2 DEF allVars, request
  <2>2. QED
    BY <2>1, FeedFrame DEF GapInv, DueIn, TiesOnly, CoversDue
<1>3. QED
  BY <1>1, <1>2, GapOpen, GapServe DEF FeedNext

(* The pages of a timeline that come out of the database leave out nothing     *)
(* that has been in it all along but tweets created at the same moment as one  *)
(* that was shown, however old the replica of each read and whatever happens   *)
(* between the reads.                                                          *)
THEOREM SkipsTiesOnly == FeedSpec => []OnlyTiesSkipped
<1>1. FeedInit => FeedInv /\ GapInv
  BY FeedTypeInit, GapInit
<1>2. FeedInv /\ GapInv /\ [FeedNext]_allVars => FeedInv' /\ GapInv'
  BY FeedTypeStep, GapStep
<1>3. GapInv => OnlyTiesSkipped
  BY DEF GapInv, TiesOnly, OnlyTiesSkipped
<1>4. QED
  BY <1>1, <1>2, <1>3, PTL DEF FeedSpec

-----------------------------------------------------------------------------
(* No strangers.                                                               *)

(* Whatever a query may read has been followed, ...                            *)
TablesFollowed == follows \subseteq followed /\ replica \subseteq followed

(* ... so has what a job has read, ...                                         *)
JobsFollowed ==
  \A w \in Workers : Busy(w) =>
    \A u \in job[w].page : <<u, author[job[w].tweet]>> \in followed

(* ... what the jobs have pushed, ...                                          *)
ListsFollowed == \A u \in Users : \A t : In(t, lists[u]) => <<u, author[t]>> \in followed

(* ... and what a request has found so far.                                    *)
RequestKnows(s) ==
  /\ step[s] = "closed" => ids[s] = {} /\ shown[s] = {}
  /\ step[s] = "followees" => feed[s].kind = "home"
  /\ step[s] = "tweets" => \A a \in followees[s] :
       \/ feed[s].kind = "user" /\ a = feed[s].user
       \/ feed[s].kind = "home" /\ <<feed[s].user, a>> \in followed
  /\ \A t \in ids[s] \cup shown[s] : Belongs(feed[s], t)

StrangerInv ==
  TablesFollowed /\ JobsFollowed /\ ListsFollowed /\ \A s \in Sessions : RequestKnows(s)

LEMMA StrangerInit == FeedInit => StrangerInv
<1>1. SUFFICES ASSUME FeedInit PROVE StrangerInv
  OBVIOUS
<1>2. TablesFollowed /\ JobsFollowed
  BY <1>1 DEF FeedInit, Init, TablesFollowed, JobsFollowed, Busy
<1>3. ListsFollowed
  BY <1>1 DEF FeedInit, Init, ListsFollowed, In
<1>4. \A s \in Sessions : RequestKnows(s)
  BY <1>1 DEF FeedInit, RequestKnows
<1>5. QED
  BY <1>2, <1>3, <1>4 DEF StrangerInv

(* A worker's page holds what it held before or what the database showed.      *)
LEMMA PageFrom ==
  ASSUME TypeOK, NEW w \in Workers, Work(w), NEW v \in Workers, Busy(v)',
         NEW u \in job'[v].page
  PROVE  \/ Busy(v) /\ job'[v].tweet = job[v].tweet /\ u \in job[v].page
         \/ \E db \in Readable : <<u, author[job'[v].tweet]>> \in db
<1>1. CASE Take(w)
  BY <1>1, Taking DEF Taken, Busy
<1>2. CASE GetFollowerIDs(w)
  <2>1. Busy(w)
    BY <1>2 DEF GetFollowerIDs
  <2>2. CASE Return(w)
    BY <2>1, <2>2, Idling DEF Idle, Busy
  <2>3. CASE ~Return(w)
    <3>1. PICK db \in Readable :
            job' = [job EXCEPT ![w].page = Page(db, author[job[w].tweet], job[w].after),
                               ![w].left = Page(db, author[job[w].tweet], job[w].after)]
      BY <1>2, <2>3 DEF GetFollowerIDs, Finish
    <3> DEFINE found == Page(db, author[job[w].tweet], job[w].after)
    <3>2. found \in SUBSET Users /\ \A x \in found : <<x, author[job[w].tweet]>> \in db
      BY DEF Page, After
    <3>3. job' = [job EXCEPT ![w].page = found, ![w].left = found]
      BY <3>1
    <3> HIDE DEF found
    <3>4. Moved(w, job[w].after, found, found)
      BY <2>1, <3>2, <3>3, Paging
    <3>5. QED
      BY <3>2, <3>4 DEF Moved, Busy
  <2>4. QED
    BY <2>2, <2>3
<1>3. CASE EndOfPage(w)
  <2>1. Busy(w) /\ job[w].page \in SUBSET Users /\ job[w].page # {}
    BY <1>3, JobFields DEF EndOfPage
  <2>2. CASE Return(w)
    BY <2>1, <2>2, Idling DEF Idle, Busy
  <2>3. CASE ~Return(w)
    <3>1. job' = [job EXCEPT ![w].page = {}, ![w].after = Last(job[w].page, job[w].after)]
      BY <1>3, <2>3 DEF EndOfPage, Finish
    <3>2. Last(job[w].page, job[w].after) \in Users \cup {NoCursor}
      BY <2>1, LastOfPage
    <3>3. Moved(w, Last(job[w].page, job[w].after), {}, job[w].left)
      BY <2>1, <3>1, <3>2, Turning
    <3>4. QED
      BY <2>1, <3>3 DEF Moved, Busy
  <2>4. QED
    BY <2>2, <2>3
<1>4. CASE PipelineFails(w) \/ PipelineResent(w) \/ \E x \in Users : Push(w, x)
  <2>1. Busy(w) /\ job[w].page \in SUBSET Users /\ job[w].left \in SUBSET Users
        /\ \A x \in Users : job[w].left \ {x} \in SUBSET Users
    BY <1>4, JobFields DEF PipelineFails, PipelineResent, Push
  <2>2. \E l \in SUBSET Users : job' = [job EXCEPT ![w].left = l]
    BY <1>4, <2>1 DEF PipelineFails, PipelineResent, Push
  <2>3. \E l \in SUBSET Users : Moved(w, job[w].after, job[w].page, l)
    BY <2>1, <2>2, Leaving
  <2>4. QED
    BY <2>1, <2>3 DEF Moved, Busy
<1>5. QED
  BY <1>1, <1>2, <1>3, <1>4 DEF Work

(* A tweet on a list was there before or comes from the page of a worker.      *)
LEMMA ListFrom ==
  ASSUME TypeOK, NEW w \in Workers, Work(w), NEW x \in Users, NEW t, In(t, lists'[x])
  PROVE  In(t, lists[x]) \/ (Busy(w) /\ t = job[w].tweet /\ x \in job[w].page)
<1>1. CASE lists' = lists
  BY <1>1
<1>2. ASSUME NEW u \in Users, Push(w, u)
      PROVE  In(t, lists[x]) \/ (Busy(w) /\ t = job[w].tweet /\ x \in job[w].page)
  <2>1. /\ Busy(w) /\ u \in job[w].page /\ job[w].tweet \in DOMAIN author
        /\ lists' = [lists EXCEPT ![u] = Pushed(@, job[w].tweet)]
    BY <1>2, JobFields DEF Push
  <2>2. CASE x # u
    BY <2>1, <2>2, PushedIn
  <2>3. CASE x = u
    <3>1. PICK i \in DOMAIN lists'[u] : lists'[u][i] = t
      BY <2>3 DEF In
    <3>2. lists'[u][i] = job[w].tweet \/ In(lists'[u][i], lists[u])
      <4>1. /\ 1 \in DOMAIN lists'[u] => lists'[u][1] = job[w].tweet
            /\ \A j \in DOMAIN lists'[u] :
                 j # 1 => j - 1 \in DOMAIN lists[u] /\ lists'[u][j] = lists[u][j-1]
        BY <2>1, PushedIn
      <4>2. QED
        BY <3>1, <4>1 DEF In
    <3>3. QED
      BY <2>1, <2>3, <3>1, <3>2
  <2>4. QED
    BY <2>2, <2>3
<1>3. QED
  BY <1>1, <1>2 DEF Work, Take, GetFollowerIDs, EndOfPage, PipelineFails, PipelineResent

(* Pages and lists as the fan-out and the databases go on. *)
LEMMA StrangerChange ==
  ASSUME FeedInv, StrangerInv, [FeedNext]_allVars, Change
  PROVE  StrangerInv'
<1>1. followed \subseteq followed' /\ follows \subseteq followed /\ follows' \subseteq followed'
      /\ replica \subseteq followed
  BY DEF Change, StrangerInv, TablesFollowed
<1>2. TypeOK /\ \A t \in DOMAIN author : author'[t] = author[t]
  BY AuthorKept DEF FeedInv
<1>3. TablesFollowed'
  <2>1. replica' = replica \/ replica' = follows
    BY DEF Change, FanoutStep, Follow, Unfollow, Expire, Enqueue, Work, Take,
           GetFollowerIDs, EndOfPage, PipelineFails, PipelineResent, Push, Restart,
           CatchUp, Create, DeleteTweet, vars, tables
  <2>2. QED
    BY <1>1, <2>1 DEF TablesFollowed
<1>4. \A w \in Workers : Busy(w) =>
        \A u \in job[w].page : <<u, author'[job[w].tweet]>> \in followed'
  BY <1>1, <1>2, JobFields DEF StrangerInv, JobsFollowed
<1>5. \A x \in Users : \A t : In(t, lists[x]) => <<x, author'[t]>> \in followed'
  <2>1. \A x \in Users : \A t : In(t, lists[x]) => t \in DOMAIN author
    BY <1>2 DEF In, TypeOK
  <2>2. QED
    BY <1>1, <1>2, <2>1 DEF StrangerInv, ListsFollowed
<1>6. \A db \in Readable : db \subseteq followed'
  BY <1>1 DEF Readable
<1>7. JobsFollowed'
  <2>1. CASE job' = job
    BY <1>4, <2>1 DEF JobsFollowed, Busy
  <2>2. CASE Restart
    BY <2>2 DEF Restart, JobsFollowed, Busy
  <2>3. ASSUME NEW w \in Workers, Work(w) PROVE JobsFollowed'
    <3>1. SUFFICES ASSUME NEW v \in Workers, Busy(v)', NEW u \in job'[v].page
                   PROVE  <<u, author'[job'[v].tweet]>> \in followed'
      BY DEF JobsFollowed
    <3>2. author' = author
      BY <2>3, StepAuthor DEF FanoutStep
    <3>3. QED
      BY <1>2, <1>4, <1>6, <2>3, <3>1, <3>2, PageFrom
  <2>4. job' = job \/ Restart \/ \E w \in Workers : Work(w)
    BY DEF Change, FanoutStep, Follow, Unfollow, Expire, Enqueue, CatchUp, Create,
           DeleteTweet, vars
  <2>5. QED
    BY <2>1, <2>2, <2>3, <2>4
<1>8. ListsFollowed'
  <2>1. SUFFICES ASSUME NEW x \in Users, NEW t, In(t, lists'[x])
                 PROVE  <<x, author'[t]>> \in followed'
    BY DEF ListsFollowed, In
  <2>2. CASE lists' = lists
    BY <1>5, <2>1, <2>2
  <2>3. ASSUME NEW u \in Users, Expire(u) PROVE <<x, author'[t]>> \in followed'
    <3>1. lists'[x] = lists[x] \/ lists'[x] = <<>>
      BY <1>2, <2>3 DEF Expire, TypeOK
    <3>2. In(t, lists[x])
      BY <2>1, <3>1 DEF In
    <3>3. QED
      BY <1>5, <3>2
  <2>4. ASSUME NEW w \in Workers, Work(w) PROVE <<x, author'[t]>> \in followed'
    BY <1>2, <1>4, <1>5, <2>1, <2>4, ListFrom
  <2>5. lists' = lists \/ (\E u \in Users : Expire(u)) \/ \E w \in Workers : Work(w)
    BY DEF Change, FanoutStep, Follow, Unfollow, Enqueue, CatchUp, Create, Restart,
           DeleteTweet, vars
  <2>6. QED
    BY <2>2, <2>3, <2>4, <2>5
<1>9. ASSUME NEW s \in Sessions PROVE RequestKnows(s)'
  <2>1. UNCHANGED <<feed, step, followees, ids, shown>>
    BY DEF Change, request
  <2>2. ids[s] \cup shown[s] \subseteq DOMAIN author /\ RequestKnows(s)
    BY DEF StrangerInv, FeedInv, FeedTypeOK
  <2>3. \A t \in ids[s] \cup shown[s] : Belongs(feed[s], t)'
    BY <1>1, <1>2, <2>1, <2>2 DEF RequestKnows, Belongs
  <2>4. QED
    BY <1>1, <2>1, <2>2, <2>3 DEF RequestKnows
<1>10. QED
  BY <1>3, <1>7, <1>8, <1>9 DEF StrangerInv

(* What Reader() shows has been followed. *)
LEMMA ViewsFollowed ==
  ASSUME FeedInv, TablesFollowed, NEW db \in Views, NEW u, NEW a \in Followees(db, u)
  PROVE  <<u, a>> \in followed
BY DEF Views, Followees, TablesFollowed

LEMMA StrangerRequest ==
  ASSUME FeedInv, StrangerInv, NEW s \in Sessions, Serve(s),
         UNCHANGED <<vars, rows, replicaRows, due, followed>>
  PROVE  RequestKnows(s)'
<1>1. UNCHANGED <<author, feed, lists, followed>> /\ RequestKnows(s) /\ TablesFollowed
      /\ feed[s] \in Feeds \cup {NoFeed}
  BY DEF vars, tables, StrangerInv, FeedInv, FeedTypeOK, Serve, Hit, Miss, GetFolloweeIDs,
         GetTimelineFromDB, EnrichTweets, Fail
<1>2. \A t : Belongs(feed[s], t)' <=> Belongs(feed[s], t)
  BY <1>1 DEF Belongs
<1> USE DEF Goto, FeedInv, FeedTypeOK
<1>3. CASE Hit(s)
  <2>1. feed[s].kind = "home" /\ feed[s].user \in Users
    <3>1. feed[s] \in Feeds
      BY <1>1, <1>3 DEF Hit
    <3>2. QED
      BY <1>3, <3>1, HomeFeedAssumption DEF Hit, Feeds
  <2>2. \A t \in Front(lists[feed[s].user]) : Belongs(feed[s], t)
    BY <2>1 DEF Front, In, Belongs, StrangerInv, ListsFollowed
  <2>3. /\ ids'[s] = Front(lists[feed[s].user]) /\ shown'[s] = shown[s]
        /\ step'[s] = "enrich"
    BY <1>3 DEF Hit
  <2>4. QED
    BY <1>1, <1>2, <2>2, <2>3 DEF RequestKnows
<1>4. CASE Miss(s)
  <2>1. ids'[s] = ids[s] /\ shown'[s] = shown[s]
    BY <1>4 DEF Miss
  <2>2. \/ step'[s] = "followees" /\ feed[s].kind = "home"
        \/ /\ step'[s] = "tweets" /\ feed[s].kind = "user"
           /\ followees'[s] = {feed[s].user}
    BY <1>4 DEF Miss
  <2>3. QED
    BY <1>1, <1>2, <2>1, <2>2 DEF RequestKnows
<1>5. CASE GetFolloweeIDs(s)
  <2>1. PICK db \in Views : followees'[s] = Followees(db, feed[s].user)
    BY <1>5 DEF GetFolloweeIDs
  <2>2. /\ ids'[s] = ids[s] /\ shown'[s] = shown[s] /\ step'[s] = "tweets"
        /\ feed[s].kind = "home"
    BY <1>1, <1>5 DEF GetFolloweeIDs, RequestKnows
  <2>3. \A a \in followees'[s] : <<feed[s].user, a>> \in followed
    BY <1>1, <2>1, ViewsFollowed
  <2>4. QED
    BY <1>1, <1>2, <2>2, <2>3 DEF RequestKnows
<1>6. CASE GetTimelineFromDB(s)
  <2>1. PICK db \in Views : \E page \in Newest(Older(db, followees[s], before[s]), Limit) :
                              ids' = [ids EXCEPT ![s] = page]
    BY <1>6 DEF GetTimelineFromDB
  <2>2. ids'[s] \subseteq Older(db, followees[s], before[s])
    BY <2>1 DEF Newest
  <2>3. \A t \in ids'[s] : author[t] \in followees[s]
    BY <2>2 DEF Older
  <2>4. \A t \in ids'[s] : Belongs(feed[s], t)
    BY <1>1, <1>6, <2>3 DEF GetTimelineFromDB, RequestKnows, Belongs
  <2>5. shown'[s] = shown[s] /\ step'[s] = "enrich"
    BY <1>6 DEF GetTimelineFromDB
  <2>6. QED
    BY <1>1, <1>2, <2>4, <2>5 DEF RequestKnows
<1>7. CASE EnrichTweets(s)
  <2>1. shown'[s] \subseteq shown[s] \cup ids[s] /\ ids'[s] = {}
        /\ step'[s] \in {"ask", "end"}
    BY <1>7 DEF EnrichTweets, GetByIDs
  <2>2. QED
    BY <1>1, <1>2, <2>1 DEF RequestKnows
<1>8. CASE Fail(s)
  <2>1. shown'[s] = shown[s] /\ ids'[s] = {} /\ step'[s] = "ask"
    BY <1>8 DEF Fail
  <2>2. QED
    BY <1>1, <1>2, <2>1 DEF RequestKnows
<1>9. QED
  BY <1>3, <1>4, <1>5, <1>6, <1>7, <1>8 DEF Serve

LEMMA StrangerStep == ASSUME FeedInv, StrangerInv, [FeedNext]_allVars PROVE StrangerInv'
<1>1. CASE Change
  BY <1>1, StrangerChange
<1>2. ASSUME UNCHANGED <<vars, followed>>
      PROVE  /\ (TablesFollowed /\ JobsFollowed /\ ListsFollowed)'
             /\ UNCHANGED <<author, followed>>
  BY <1>2 DEF vars, tables, TablesFollowed, JobsFollowed, ListsFollowed, StrangerInv, In, Busy
<1>3. ASSUME NEW s \in Sessions, Serve(s) \/ \E f \in Feeds : OpenFeed(s, f),
             Serve(s) => UNCHANGED due,
             UNCHANGED <<vars, rows, replicaRows, followed>>
      PROVE  StrangerInv'
  <2>1. UNCHANGED <<author, followed>>
    BY <1>2, <1>3
  <2>2. ASSUME NEW q \in Sessions \ {s} PROVE RequestKnows(q)'
    BY <1>3, <2>1, OtherSessions DEF RequestKnows, Belongs, StrangerInv
  <2>3. RequestKnows(s)'
    <3>1. CASE Serve(s)
      BY <1>3, <3>1, StrangerRequest
    <3>2. ASSUME NEW f \in Feeds, OpenFeed(s, f) PROVE RequestKnows(s)'
      <4>1. /\ step[s] = "closed" /\ step'[s] = "ask"
            /\ ids'[s] = ids[s] /\ shown'[s] = shown[s]
        BY <3>2 DEF OpenFeed, Goto, FeedInv, FeedTypeOK
      <4>2. QED
        BY <4>1 DEF RequestKnows, StrangerInv
    <3>3. QED
      BY <1>3, <3>1, <3>2
  <2>4. QED
    BY <1>2, <1>3, <2>2, <2>3 DEF StrangerInv
<1>4. CASE UNCHANGED allVars
  BY <1>2, <1>4 DEF allVars, request, StrangerInv, RequestKnows, Belongs
<1>5. ASSUME NEW s \in Sessions, Serve(s), UNCHANGED due, UNCHANGED <<vars, rows, replicaRows, followed>>
      PROVE  StrangerInv'
  BY <1>3, <1>5
<1>6. ASSUME NEW s \in Sessions, NEW f \in Feeds, OpenFeed(s, f),
             UNCHANGED <<vars, rows, replicaRows, followed>>
      PROVE  StrangerInv'
  <2>1. ~Serve(s)
    BY <1>6 DEF OpenFeed, Serve, Hit, Miss, GetFolloweeIDs, GetTimelineFromDB, EnrichTweets, Fail
  <2>2. QED
    BY <1>3, <1>6, <2>1
<1>7. QED
  BY <1>1, <1>4, <1>5, <1>6 DEF FeedNext

(* Nobody is shown a tweet of somebody he has never followed, out of the lists *)
(* or out of the databases, however stale what a worker or a request has read. *)
THEOREM NobodyForeign == FeedSpec => []NoStrangers
<1>1. FeedInit => FeedInv /\ StrangerInv
  BY FeedTypeInit, StrangerInit
<1>2. FeedInv /\ StrangerInv /\ [FeedNext]_allVars => FeedInv' /\ StrangerInv'
  BY FeedTypeStep, StrangerStep
<1>3. StrangerInv => NoStrangers
  BY DEF StrangerInv, RequestKnows, NoStrangers
<1>4. QED
  BY <1>1, <1>2, <1>3, PTL DEF FeedSpec
=============================================================================
