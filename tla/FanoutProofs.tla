---------------------------- MODULE FanoutProofs ----------------------------
(* Proofs about Fanout, for any number of users, tweets and workers, any page  *)
(* size, any length of the lists and any faults.                               *)
EXTENDS FanoutDelivery, FiniteSetTheorems, SequenceTheorems,
        WellFoundedInduction, TLAPS

-----------------------------------------------------------------------------
(* Pages: the first PageSize followers after the cursor.                       *)

LEMMA Least ==
  ASSUME NEW S \in SUBSET Nat, S # {}
  PROVE  \E x \in S : \A y \in S : x <= y
<1>1. PICK x \in S : \A y \in S : ~(<<y, x>> \in OpToRel(<, Nat))
  BY NatLessThanWellFounded, WFMin
<1>2. \A y \in S : ~(y < x)
  BY <1>1 DEF OpToRel
<1>3. QED
  BY <1>2

(* The greatest of a finite set is the one with the fewest above it.           *)
LEMMA Greatest ==
  ASSUME NEW S \in SUBSET Nat, IsFiniteSet(S), S # {}
  PROVE  \E x \in S : \A y \in S : y <= x
<1> DEFINE Above(x) == {y \in S : y > x}
           Sizes == {Cardinality(Above(x)) : x \in S}
<1>1. \A x \in S : IsFiniteSet(Above(x)) /\ Cardinality(Above(x)) \in Nat
  <2>1. TAKE x \in S
  <2>2. IsFiniteSet(Above(x))
    BY FS_Subset
  <2>3. QED
    BY <2>2, FS_CardinalityType
<1>2. PICK x \in S : \A y \in S : Cardinality(Above(x)) <= Cardinality(Above(y))
  <2>1. Sizes \in SUBSET Nat /\ Sizes # {}
    BY <1>1
  <2>2. PICK n \in Sizes : \A m \in Sizes : n <= m
    BY <2>1, Least
  <2>3. QED
    BY <2>2
<1>3. ASSUME NEW y \in S, y > x PROVE FALSE
  <2>1. Above(y) \in SUBSET Above(x) /\ y \in Above(x) /\ y \notin Above(y)
    <3>1. \A z \in S : z \in Nat
      OBVIOUS
    <3>2. \A z \in S : z > y => z > x
      BY <1>3, <3>1
    <3>3. ~(y > y)
      BY <3>1
    <3>4. QED
      BY <1>3, <3>2, <3>3
  <2>2. Cardinality(Above(y)) <= Cardinality(Above(x))
    BY <1>1, <2>1, FS_Subset
  <2>3. Cardinality(Above(y)) # Cardinality(Above(x))
    BY <1>1, <2>1, FS_Subset
  <2>4. QED
    BY <1>1, <1>2, <2>2, <2>3
<1>4. QED
  BY <1>3

LEMMA LastOfPage ==
  ASSUME NEW page \in SUBSET Users, page # {}, NEW cursor
  PROVE  /\ Last(page, cursor) \in page
         /\ \A v \in page : v <= Last(page, cursor)
<1>1. IsFiniteSet(page) /\ page \in SUBSET Nat
  BY FanoutAssumption, FS_Subset
<1>2. \E x \in page : \A y \in page : y <= x
  BY <1>1, Greatest
<1>3. QED
  BY <1>2 DEF Last

(* A page leaves nobody out before its last follower, and a short page nobody  *)
(* at all.                                                                     *)
LEMMA PageComplete ==
  ASSUME NEW db, NEW a, NEW cursor \in Int
  PROVE  LET ids == Page(db, a, cursor) IN
         /\ ids \in SUBSET Users
         /\ \A u \in ids : u > cursor
         /\ \A u \in ids, v \in After(db, a, cursor) : v <= u => v \in ids
         /\ Cardinality(ids) < PageSize => ids = After(db, a, cursor)
<1> DEFINE S == After(db, a, cursor)
           Below(u) == {v \in S : v < u}
           ids == {u \in S : Cardinality(Below(u)) < PageSize}
<1>1. S \in SUBSET Users /\ S \in SUBSET Nat /\ IsFiniteSet(S) /\ PageSize \in Nat
  BY FanoutAssumption, FS_Subset DEF After
<1>2. \A u \in S : IsFiniteSet(Below(u)) /\ Cardinality(Below(u)) \in Nat
  <2>1. TAKE u \in S
  <2>2. IsFiniteSet(Below(u))
    BY <1>1, FS_Subset
  <2>3. QED
    BY <2>2, FS_CardinalityType
<1>3. ASSUME NEW u \in ids, NEW v \in S, v <= u PROVE v \in ids
  <2>1. Below(v) \in SUBSET Below(u)
    BY <1>1, <1>3
  <2>2. Cardinality(Below(v)) <= Cardinality(Below(u))
    BY <1>2, <2>1, FS_Subset
  <2>3. QED
    BY <1>1, <1>2, <2>2
<1>4. ASSUME Cardinality(ids) < PageSize PROVE ids = S
  <2>1. SUFFICES ASSUME S \ ids # {} PROVE FALSE
    OBVIOUS
  <2>2. PICK u \in S \ ids : \A v \in S \ ids : u <= v
    BY <1>1, <2>1, Least
  <2>3. Below(u) \in SUBSET ids
    BY <1>1, <2>2
  <2>4. IsFiniteSet(ids)
    BY <1>1, FS_Subset
  <2>5. Cardinality(Below(u)) <= Cardinality(ids) /\ Cardinality(ids) \in Nat
    BY <2>3, <2>4, FS_Subset, FS_CardinalityType
  <2>6. ~(Cardinality(Below(u)) < PageSize)
    BY <2>2
  <2>7. QED
    BY <1>1, <1>2, <1>4, <2>2, <2>5, <2>6
<1>5. Page(db, a, cursor) = ids
  BY DEF Page
<1>6. ids \in SUBSET Users /\ \A u \in ids : u > cursor
  BY <1>1 DEF After
<1> HIDE DEF ids, S
<1>7. QED
  BY <1>3, <1>4, <1>5, <1>6 DEF S

-----------------------------------------------------------------------------
(* Lists: LPUSH and LTRIM put t in front of what was there, as far as it fits. *)

LEMMA PushedList ==
  ASSUME NEW S, NEW list \in Seq(S), NEW t \in S
  PROVE  /\ Pushed(list, t) \in Seq(S)
         /\ Len(Pushed(list, t)) = IF Len(list) < MaxLen THEN Len(list) + 1 ELSE MaxLen
         /\ Pushed(list, t)[1] = t
         /\ \A i \in 2..Len(Pushed(list, t)) : Pushed(list, t)[i] = list[i-1]
<1> DEFINE s == <<t>> \o list
           n == IF Len(list) < MaxLen THEN Len(list) + 1 ELSE MaxLen
<1>1. /\ s \in Seq(S) /\ Len(s) = Len(list) + 1 /\ Len(list) \in Nat
      /\ s[1] = t /\ \A i \in 2..Len(s) : s[i] = list[i-1]
  <2>1. <<t>> \in Seq(S) /\ Len(<<t>>) = 1
    OBVIOUS
  <2>2. QED
    BY <2>1
<1>2. n \in Nat /\ n >= 1 /\ n <= Len(s)
  BY <1>1, FanoutAssumption
<1> HIDE DEF s, n
<1>3. SubSeq(s, 1, n) \in Seq(S) /\ Len(SubSeq(s, 1, n)) = n
      /\ \A i \in 1..n : SubSeq(s, 1, n)[i] = s[i]
  BY <1>1, <1>2
<1>4. Pushed(list, t) = SubSeq(s, 1, n)
  BY DEF Pushed, s, n
<1>5. QED
  BY <1>1, <1>2, <1>3, <1>4 DEF n

LEMMA PushedTail ==
  ASSUME NEW S, NEW list \in Seq(S), NEW t \in S, NEW i \in 2..Len(Pushed(list, t))
  PROVE  Pushed(list, t)[i] = list[i-1]
BY PushedList

-----------------------------------------------------------------------------
(* Jobs. *)

LEMMA Known == TypeOK => DOMAIN author = 1..Len(author) /\ DOMAIN author \subseteq Tweets
<1>1. SUFFICES ASSUME TypeOK PROVE DOMAIN author = 1..Len(author) /\ DOMAIN author \subseteq Tweets
  OBVIOUS
<1>2. author \in Seq(Users) /\ Len(author) \in Nat /\ Len(author) <= MaxTweets /\ MaxTweets \in Nat
  BY <1>1, FanoutAssumption DEF TypeOK
<1>3. QED
  BY <1>2 DEF Tweets

LEMMA JobFields ==
  ASSUME TypeOK, NEW w \in Workers, Busy(w)
  PROVE  /\ job[w] \in Jobs
         /\ job[w].tweet \in DOMAIN author /\ job[w].tweet \in Tweets
         /\ job[w].after \in Users \cup {NoCursor}
         /\ job[w].page \in SUBSET Users /\ job[w].left \in SUBSET job[w].page
BY DEF TypeOK, Busy, Jobs

(* A user is behind the cursor or ahead of it. *)
LEMMA CursorOrder ==
  ASSUME TypeOK, NEW w \in Workers, Busy(w)
  PROVE  /\ job[w].after \in Int
         /\ steady[w] \in SUBSET Users
         /\ \A u \in Users : u <= job[w].after \/ u > job[w].after
<1>1. job[w].after \in Users \cup {NoCursor}
  BY JobFields
<1>2. \A u \in Users : u \in Nat
  BY FanoutAssumption
<1>3. job[w].after \in Int
  <2>1. CASE job[w].after \in Users
    BY <1>2, <2>1
  <2>2. CASE job[w].after = -1
    BY <2>2
  <2>3. QED
    BY <1>1, <2>1, <2>2 DEF NoCursor
<1>4. \A u \in Users : u <= job[w].after \/ u > job[w].after
  BY <1>2, <1>3
<1>5. QED
  BY <1>3, <1>4 DEF TypeOK

(* What a worker that is not busy has in hand. *)
LEMMA NoJobFields ==
  ASSUME TypeOK, NEW w \in Workers, ~Busy(w)
  PROVE  job[w].tweet = 0 /\ job[w].tweet \notin DOMAIN author
BY DEF TypeOK, Busy, NoJob

(* Taken(w, t): w has begun with t.  Moved: w is further with the same tweet.  *)
(* Idle: w has returned.                                                       *)
Taken(w, t) ==
  /\ job' \in [Workers -> Jobs \cup {NoJob}]
  /\ \A v \in Workers \ {w} : job'[v] = job[v]
  /\ job'[w] \in Jobs /\ job'[w].tweet = t /\ job'[w].after = NoCursor
  /\ job'[w].page = {} /\ job'[w].left = {}

Moved(w, cursor, page, left) ==
  /\ job' \in [Workers -> Jobs \cup {NoJob}]
  /\ \A v \in Workers \ {w} : job'[v] = job[v]
  /\ job'[w] \in Jobs /\ job'[w].tweet = job[w].tweet /\ job'[w].after = cursor
  /\ job'[w].page = page /\ job'[w].left = left

Idle(w) ==
  /\ job' \in [Workers -> Jobs \cup {NoJob}]
  /\ \A v \in Workers \ {w} : job'[v] = job[v]
  /\ job'[w] = NoJob

LEMMA Taking ==
  ASSUME TypeOK, NEW w \in Workers, Take(w)
  PROVE  /\ Taken(w, Head(jobs)) /\ Head(jobs) \in DOMAIN author
         /\ jobs' \in Seq(DOMAIN author) /\ Len(jobs') = Len(jobs) - 1
         /\ \A i \in DOMAIN jobs' : /\ i \in Nat \ {0} /\ i + 1 \in DOMAIN jobs
                                   /\ jobs'[i] = jobs[i+1]
         /\ 1 \in DOMAIN jobs /\ Head(jobs) = jobs[1]
<1>1. jobs \in Seq(DOMAIN author) /\ jobs # <<>> /\ jobs' = Tail(jobs)
  BY DEF TypeOK, Take
<1>2. Head(jobs) \in DOMAIN author /\ DOMAIN author \subseteq Tweets
  BY <1>1, Known
<1>3. /\ jobs' \in Seq(DOMAIN author) /\ Len(jobs') = Len(jobs) - 1
      /\ \A i \in DOMAIN jobs' : /\ i \in Nat \ {0} /\ i + 1 \in DOMAIN jobs
                                /\ jobs'[i] = jobs[i+1]
      /\ 1 \in DOMAIN jobs /\ Head(jobs) = jobs[1]
  BY <1>1
<1> DEFINE j == [tweet |-> Head(jobs), after |-> NoCursor, page |-> {}, left |-> {}]
<1>4. /\ j \in Jobs /\ j.tweet = Head(jobs) /\ j.after = NoCursor
      /\ j.page = {} /\ j.left = {}
  BY <1>2 DEF Jobs
<1>5. job \in [Workers -> Jobs \cup {NoJob}]
  BY DEF TypeOK
<1>6. job' = [job EXCEPT ![w] = j]
  BY DEF Take
<1> HIDE DEF j
<1>7. Taken(w, Head(jobs))
  BY <1>4, <1>5, <1>6 DEF Taken
<1>8. QED
  BY <1>2, <1>3, <1>7

LEMMA Idling ==
  ASSUME TypeOK, NEW w \in Workers, Return(w)
  PROVE  Idle(w)
BY DEF TypeOK, Return, Idle

LEMMA Paging ==
  ASSUME TypeOK, NEW w \in Workers, Busy(w), NEW ids \in SUBSET Users,
         job' = [job EXCEPT ![w].page = ids, ![w].left = ids]
  PROVE  Moved(w, job[w].after, ids, ids)
<1> DEFINE j == [job[w] EXCEPT !.page = ids, !.left = ids]
<1>1. job \in [Workers -> Jobs \cup {NoJob}] /\ job[w] \in Jobs
  BY JobFields DEF TypeOK
<1>2. job' = [job EXCEPT ![w] = j]
  OBVIOUS
<1>3. j \in Jobs /\ j.tweet = job[w].tweet /\ j.after = job[w].after /\ j.page = ids /\ j.left = ids
  BY <1>1 DEF Jobs
<1> HIDE DEF j
<1>4. QED
  BY <1>1, <1>2, <1>3 DEF Moved

LEMMA Turning ==
  ASSUME TypeOK, NEW w \in Workers, Busy(w), NEW c \in Users \cup {NoCursor},
         job' = [job EXCEPT ![w].page = {}, ![w].after = c]
  PROVE  Moved(w, c, {}, job[w].left)
<1> DEFINE j == [job[w] EXCEPT !.page = {}, !.after = c]
<1>1. job \in [Workers -> Jobs \cup {NoJob}] /\ job[w] \in Jobs
  BY JobFields DEF TypeOK
<1>2. job' = [job EXCEPT ![w] = j]
  OBVIOUS
<1>3. j \in Jobs /\ j.tweet = job[w].tweet /\ j.after = c /\ j.page = {} /\ j.left = job[w].left
  BY <1>1 DEF Jobs
<1> HIDE DEF j
<1>4. QED
  BY <1>1, <1>2, <1>3 DEF Moved

LEMMA Leaving ==
  ASSUME TypeOK, NEW w \in Workers, Busy(w), NEW l \in SUBSET Users,
         job' = [job EXCEPT ![w].left = l]
  PROVE  Moved(w, job[w].after, job[w].page, l)
<1> DEFINE j == [job[w] EXCEPT !.left = l]
<1>1. job \in [Workers -> Jobs \cup {NoJob}] /\ job[w] \in Jobs
  BY JobFields DEF TypeOK
<1>2. job' = [job EXCEPT ![w] = j]
  OBVIOUS
<1>3. j \in Jobs /\ j.tweet = job[w].tweet /\ j.after = job[w].after /\ j.page = job[w].page /\ j.left = l
  BY <1>1 DEF Jobs
<1> HIDE DEF j
<1>4. QED
  BY <1>1, <1>2, <1>3 DEF Moved

-----------------------------------------------------------------------------
(* Types. *)

JobsOK ==
  /\ job \in [Workers -> Jobs \cup {NoJob}]
  /\ \A w \in Workers :
       Busy(w) => job[w].left \subseteq job[w].page /\ job[w].tweet \in DOMAIN author

LEMMA TypeInit == Init => TypeOK
<1>1. SUFFICES ASSUME Init PROVE TypeOK
  OBVIOUS
<1>2. author \in Seq(Users) /\ jobs \in Seq(DOMAIN author)
  BY <1>1 DEF Init
<1>3. Len(author) <= MaxTweets /\ Len(jobs) <= BufferSize
  BY <1>1, FanoutAssumption DEF Init
<1>4. lists \in [Users -> Seq(DOMAIN author)] /\ \A u \in Users : Len(lists[u]) <= MaxLen
  BY <1>1, FanoutAssumption DEF Init
<1>5. job \in [Workers -> Jobs \cup {NoJob}] /\ \A w \in Workers : ~Busy(w)
  BY <1>1 DEF Init, Busy
<1>6. follows \subseteq Pairs /\ replica \subseteq Pairs
  BY <1>1 DEF Init
<1>7. QED
  BY <1>1, <1>2, <1>3, <1>4, <1>5, <1>6 DEF Init, TypeOK

(* The part of TypeOK about jobs, whichever way a worker goes on. *)
LEMMA WorkJobs ==
  ASSUME TypeOK, NEW w \in Workers, author' = author,
         \/ \E t \in DOMAIN author : Taken(w, t)
         \/ \E c, p : \E l \in SUBSET p : Busy(w) /\ Moved(w, c, p, l)
         \/ Idle(w)
  PROVE  JobsOK'
<1>1. job' \in [Workers -> Jobs \cup {NoJob}] /\ \A v \in Workers \ {w} : job'[v] = job[v]
  BY DEF Taken, Moved, Idle
<1>2. Busy(w)' => job'[w].left \subseteq job'[w].page /\ job'[w].tweet \in DOMAIN author
  <2>1. CASE \E t \in DOMAIN author : Taken(w, t)
    BY <2>1 DEF Taken
  <2>2. CASE \E c, p : \E l \in SUBSET p : Busy(w) /\ Moved(w, c, p, l)
    BY <2>2, JobFields DEF Moved
  <2>3. CASE Idle(w)
    BY <2>3 DEF Idle, Busy
  <2>4. QED
    BY <2>1, <2>2, <2>3
<1>3. QED
  BY <1>1, <1>2 DEF TypeOK, JobsOK, Busy

LEMMA ReturnType ==
  ASSUME TypeOK, NEW w \in Workers, Return(w), author' = author
  PROVE  /\ JobsOK'
         /\ steady' \in [Workers -> SUBSET Users] /\ served' \in [Workers -> SUBSET Users]
<1>1. JobsOK'
  BY Idling, WorkJobs
<1>2. QED
  BY <1>1 DEF TypeOK, Return

LEMMA SteadyType ==
  ASSUME TypeOK, KeepSteady
  PROVE  /\ steady' \in [Workers -> SUBSET Users] /\ served' = served
         /\ missed' = missed /\ resent' = resent
BY DEF TypeOK, KeepSteady

LEMMA GetFollowerIDsType ==
  ASSUME TypeOK, NEW w \in Workers, GetFollowerIDs(w)
  PROVE  /\ JobsOK' /\ missed' \subseteq Users
         /\ steady' \in [Workers -> SUBSET Users] /\ served' \in [Workers -> SUBSET Users]
<1>1. Busy(w) /\ author' = author
  BY DEF GetFollowerIDs, tables
<1>2. CASE Finish(w)
  BY <1>1, <1>2, ReturnType DEF Finish, TypeOK
<1>3. CASE Return(w) /\ UNCHANGED missed
  BY <1>1, <1>3, ReturnType DEF TypeOK
<1>4. CASE \E ids \in SUBSET Users :
             /\ job' = [job EXCEPT ![w].page = ids, ![w].left = ids]
             /\ UNCHANGED <<steady, served, missed>>
  BY <1>1, <1>4, Paging, WorkJobs DEF TypeOK
<1>5. \A db \in Readable :
        Page(db, author[job[w].tweet], job[w].after) \in SUBSET Users
  BY DEF Page, After
<1>6. QED
  BY <1>2, <1>3, <1>4, <1>5 DEF GetFollowerIDs

LEMMA EndOfPageType ==
  ASSUME TypeOK, NEW w \in Workers, EndOfPage(w)
  PROVE  /\ JobsOK' /\ missed' \subseteq Users
         /\ steady' \in [Workers -> SUBSET Users] /\ served' \in [Workers -> SUBSET Users]
<1>1. Busy(w) /\ author' = author /\ job[w].left = {} /\ job[w].page # {}
  BY DEF EndOfPage, tables
<1>2. CASE Finish(w)
  BY <1>1, <1>2, ReturnType DEF Finish, TypeOK
<1>3. CASE /\ job' = [job EXCEPT ![w].page = {}, ![w].after = Last(job[w].page, job[w].after)]
           /\ UNCHANGED <<steady, served, missed>>
  <2>1. Last(job[w].page, job[w].after) \in Users \cup {NoCursor}
    BY <1>1, JobFields, LastOfPage
  <2>2. Moved(w, Last(job[w].page, job[w].after), {}, {})
    BY <1>1, <1>3, <2>1, Turning
  <2>3. QED
    BY <1>1, <1>3, <2>2, WorkJobs DEF TypeOK
<1>4. QED
  BY <1>2, <1>3 DEF EndOfPage

LEMMA ServedType ==
  ASSUME TypeOK, NEW w \in Workers, NEW S \in SUBSET Users,
         served' = [served EXCEPT ![w] = @ \cup S]
  PROVE  served' \in [Workers -> SUBSET Users]
BY DEF TypeOK

LEMMA ListType ==
  ASSUME TypeOK, NEW u \in Users, author' = author,
         \/ lists' = [lists EXCEPT ![u] = <<>>]
         \/ \E t \in DOMAIN author : lists' = [lists EXCEPT ![u] = Pushed(@, t)]
  PROVE  /\ lists' \in [Users -> Seq(DOMAIN author)]
         /\ \A x \in Users : Len(lists'[x]) <= MaxLen
<1>1. lists[u] \in Seq(DOMAIN author)
  BY DEF TypeOK
<1>2. <<>> \in Seq(DOMAIN author) /\ Len(<<>>) = 0
  OBVIOUS
<1>3. \A t \in DOMAIN author : /\ Pushed(lists[u], t) \in Seq(DOMAIN author)
                               /\ Len(Pushed(lists[u], t)) <= MaxLen
  <2>1. TAKE t \in DOMAIN author
  <2>2. Len(Pushed(lists[u], t)) = IF Len(lists[u]) < MaxLen THEN Len(lists[u]) + 1 ELSE MaxLen
    BY <1>1, PushedList
  <2>3. QED
    BY <1>1, <2>2, PushedList, FanoutAssumption
<1>4. PICK list \in Seq(DOMAIN author) :
           Len(list) <= MaxLen /\ lists' = [lists EXCEPT ![u] = list]
  <2>1. CASE lists' = [lists EXCEPT ![u] = <<>>]
    <3>1. Len(<<>>) <= MaxLen
      BY FanoutAssumption
    <3>2. QED
      BY <1>2, <2>1, <3>1, Zenon
  <2>2. CASE \E t \in DOMAIN author : lists' = [lists EXCEPT ![u] = Pushed(@, t)]
    BY <1>3, <2>2
  <2>3. QED
    BY <2>1, <2>2
<1>5. QED
  BY <1>4 DEF TypeOK

LEMMA WorkType ==
  ASSUME TypeOK, NEW w \in Workers, Work(w)
  PROVE  TypeOK'
<1>1. author' = author /\ follows' = follows /\ replica' = replica /\ posting' = posting
  BY DEF Work, Take, GetFollowerIDs, EndOfPage, PipelineFails, PipelineResent, Push,
         tables, queue
<1> USE <1>1
<1>2. CASE Take(w)
  <2>1. JobsOK' /\ jobs' \in Seq(DOMAIN author) /\ Len(jobs') <= BufferSize
    <3>1. Len(jobs') = Len(jobs) - 1 /\ Len(jobs) <= BufferSize /\ Len(jobs) \in Nat
      BY <1>2, Taking DEF TypeOK
    <3>2. QED
      BY <1>2, <3>1, Taking, WorkJobs, FanoutAssumption
  <2>2. Followers(author[Head(jobs)]) \in SUBSET Users
    BY DEF Followers
  <2>3. steady' \in [Workers -> SUBSET Users]
    BY <1>2, <2>2 DEF Take, TypeOK
  <2>4. QED
    BY <1>2, <2>1, <2>3 DEF Take, tables, TypeOK, JobsOK
<1>3. CASE GetFollowerIDs(w)
  BY <1>3, GetFollowerIDsType DEF GetFollowerIDs, queue, TypeOK, JobsOK
<1>4. CASE EndOfPage(w)
  BY <1>4, EndOfPageType DEF EndOfPage, queue, TypeOK, JobsOK
<1>5. CASE PipelineFails(w)
  <2>1. Busy(w) /\ job[w].left \in SUBSET Users
    BY <1>5, JobFields DEF PipelineFails
  <2>2. Moved(w, job[w].after, job[w].page, {})
    BY <1>5, <2>1, Leaving DEF PipelineFails
  <2>3. JobsOK' /\ served' \in [Workers -> SUBSET Users]
    BY <1>5, <2>1, <2>2, WorkJobs, ServedType DEF PipelineFails
  <2>4. QED
    BY <1>5, <2>3 DEF PipelineFails, queue, TypeOK, JobsOK
<1>6. CASE PipelineResent(w)
  <2>1. Busy(w) /\ job[w].page \in SUBSET Users /\ job[w].tweet \in DOMAIN author
    BY <1>6, JobFields DEF PipelineResent
  <2>2. Moved(w, job[w].after, job[w].page, job[w].page)
    BY <1>6, <2>1, Leaving DEF PipelineResent
  <2>3. JobsOK' /\ resent' \subseteq DOMAIN author
    BY <1>6, <2>1, <2>2, WorkJobs DEF PipelineResent, TypeOK
  <2>4. QED
    BY <1>6, <2>3 DEF PipelineResent, queue, TypeOK, JobsOK
<1>7. CASE \E u \in Users : Push(w, u)
  <2>1. PICK u \in Users : Push(w, u)
    BY <1>7
  <2>2. Busy(w) /\ job[w].left \in SUBSET job[w].page /\ job[w].page \in SUBSET Users
        /\ job[w].tweet \in DOMAIN author
    BY <2>1, JobFields DEF Push
  <2>3. job[w].left \ {u} \in SUBSET job[w].page /\ job[w].left \ {u} \in SUBSET Users
    BY <2>2
  <2>4. Moved(w, job[w].after, job[w].page, job[w].left \ {u})
    BY <2>1, <2>2, <2>3, Leaving DEF Push
  <2>5. JobsOK' /\ served' \in [Workers -> SUBSET Users]
    <3>1. JobsOK'
      BY <2>2, <2>3, <2>4, WorkJobs
    <3>2. {u} \in SUBSET Users /\ served' = [served EXCEPT ![w] = @ \cup {u}]
      BY <2>1 DEF Push
    <3>3. QED
      BY <3>1, <3>2, ServedType
  <2>6. /\ lists' \in [Users -> Seq(DOMAIN author)]
        /\ \A x \in Users : Len(lists'[x]) <= MaxLen
    BY <2>1, <2>2, ListType DEF Push
  <2>7. QED
    BY <2>1, <2>5, <2>6 DEF Push, queue, TypeOK, JobsOK
<1>8. QED
  BY <1>2, <1>3, <1>4, <1>5, <1>6, <1>7 DEF Work

LEMMA GrownType ==
  ASSUME TypeOK, NEW u \in Authors, Create(u)
  PROVE  TypeOK'
<1> DEFINE t == Len(author) + 1
<1>1. author \in Seq(Users) /\ u \in Users /\ Len(author) \in Nat
  BY FanoutAssumption DEF TypeOK
<1>2. /\ author' = Append(author, u) /\ t \in Tweets
      /\ posting' \subseteq posting \cup {t}
      /\ UNCHANGED <<follows, replica, jobs, job, lists, history>>
  BY DEF Create
<1>3. /\ author' \in Seq(Users) /\ Len(author') = t /\ DOMAIN author' = 1..t
      /\ DOMAIN author \subseteq DOMAIN author'
  BY <1>1, <1>2
<1>4. Len(author') <= MaxTweets
  BY <1>2, <1>3, FanoutAssumption DEF Tweets
<1>5. posting' \subseteq DOMAIN author'
  BY <1>1, <1>2, <1>3 DEF TypeOK
<1>6. jobs' \in Seq(DOMAIN author') /\ resent' \subseteq DOMAIN author'
  BY <1>2, <1>3, SeqMonotonic DEF TypeOK, history
<1>7. lists' \in [Users -> Seq(DOMAIN author')]
  <2>1. \A x \in Users : lists[x] \in Seq(DOMAIN author')
    BY <1>3, SeqMonotonic DEF TypeOK
  <2>2. QED
    BY <1>2, <2>1 DEF TypeOK
<1>8. JobsOK'
  BY <1>2, <1>3 DEF TypeOK, JobsOK, Busy
<1>9. QED
  BY <1>2, <1>3, <1>4, <1>5, <1>6, <1>7, <1>8 DEF TypeOK, JobsOK, history

LEMMA TypeStep == TypeOK /\ [FanoutNext]_vars => TypeOK'
<1>1. SUFFICES ASSUME TypeOK, [FanoutNext]_vars PROVE TypeOK'
  OBVIOUS
<1>2. ASSUME NEW p \in Pairs, Follow(p) PROVE TypeOK'
  BY <1>1, <1>2 DEF Follow, TypeOK, queue, history, Busy
<1>3. ASSUME NEW p \in Pairs, Unfollow(p) PROVE TypeOK'
  BY <1>1, <1>3, SteadyType DEF Unfollow, TypeOK, queue, Busy
<1>4. ASSUME NEW u \in Users, Expire(u) PROVE TypeOK'
  <2>1. author' = author /\ lists' = [lists EXCEPT ![u] = <<>>]
    BY <1>4 DEF Expire, tables
  <2>2. QED
    BY <1>1, <1>4, <2>1, ListType DEF Expire, TypeOK, tables, queue, history, Busy
<1>5. ASSUME NEW t \in Tweets, Enqueue(t) PROVE TypeOK'
  <2>1. t \in DOMAIN author /\ jobs \in Seq(DOMAIN author) /\ Len(jobs) <= BufferSize
    BY <1>1, <1>5 DEF Enqueue, TypeOK
  <2>2. jobs' \in Seq(DOMAIN author) /\ Len(jobs') <= BufferSize
    <3>1. Append(jobs, t) \in Seq(DOMAIN author) /\ Len(Append(jobs, t)) = Len(jobs) + 1
      BY <2>1
    <3>2. jobs' = IF Len(jobs) < BufferSize THEN Append(jobs, t) ELSE jobs
      BY <1>5 DEF Enqueue
    <3>3. Len(jobs) \in Nat /\ BufferSize \in Nat
      BY <2>1, FanoutAssumption
    <3>4. CASE Len(jobs) < BufferSize
      <4>1. jobs' = Append(jobs, t)
        BY <3>2, <3>4
      <4>2. Len(jobs) + 1 <= BufferSize
        BY <3>3, <3>4
      <4>3. QED
        BY <3>1, <4>1, <4>2, Zenon
    <3>5. CASE ~(Len(jobs) < BufferSize)
      BY <2>1, <3>2, <3>5
    <3>6. QED
      BY <3>4, <3>5
  <2>3. posting' \subseteq DOMAIN author
    BY <1>1, <1>5 DEF Enqueue, TypeOK
  <2>4. QED
    BY <1>1, <1>5, <2>2, <2>3 DEF Enqueue, TypeOK, tables, history, Busy
<1>6. ASSUME NEW w \in Workers, Work(w) PROVE TypeOK'
  BY <1>1, <1>6, WorkType
<1>7. CASE Restart
  <2>1. jobs' \in Seq(DOMAIN author) /\ Len(jobs') <= BufferSize
    BY <1>7, FanoutAssumption DEF Restart
  <2>2. JobsOK'
    BY <1>7 DEF Restart, JobsOK, Busy
  <2>3. /\ steady' \in [Workers -> SUBSET Users] /\ served' \in [Workers -> SUBSET Users]
        /\ posting' \subseteq DOMAIN author
    BY <1>7 DEF Restart
  <2>4. QED
    BY <1>1, <1>7, <2>1, <2>2, <2>3 DEF Restart, TypeOK, JobsOK, tables
<1>8. CASE CatchUp
  BY <1>1, <1>8, SteadyType DEF CatchUp, TypeOK, queue, Busy
<1>9. ASSUME NEW u \in Authors, Create(u) PROVE TypeOK'
  BY <1>1, <1>9, GrownType
<1>10. CASE UNCHANGED vars
  BY <1>1, <1>10 DEF TypeOK, vars, tables, queue, history, Busy
<1>11. QED
  BY <1>1, <1>2, <1>3, <1>4, <1>5, <1>6, <1>7, <1>8, <1>9, <1>10 DEF FanoutNext, FanoutStep

(* Every variable keeps its type, the channel its capacity and every list its  *)
(* length, whatever is pushed, resent, lost or restarted.                      *)
THEOREM TypeCorrect == Spec => []TypeOK
BY TypeInit, TypeStep, PTL DEF Spec

-----------------------------------------------------------------------------
(* Who has followed the author since the job was taken is served, or still to  *)
(* come: behind the cursor all are served, on the page all but those left, and *)
(* no page has skipped anybody.                                                *)
Covers(w) ==
  LET j == job[w] IN
  /\ \A u \in steady[w] : u <= j.after => u \in served[w]
  /\ \A u \in j.page : u \notin j.left => u \in served[w]
  /\ \A u \in steady[w], x \in j.page : u > j.after /\ u <= x => u \in j.page
  /\ j.page # {} /\ Cardinality(j.page) < PageSize =>
       \A u \in steady[w] : u > j.after => u \in j.page

StillFollow(w) == steady[w] \subseteq Followers(author[job[w].tweet])

SteadyInv ==
  /\ missed = {}
  /\ \A w \in Workers : Busy(w) => StillFollow(w) /\ Covers(w)

LEMMA SteadyInit == Init => SteadyInv
BY DEF Init, SteadyInv, Busy

(* A worker that takes no step, and whose tables stay.                         *)
LEMMA SteadyFrame ==
  ASSUME SteadyInv, NEW v \in Workers, job'[v] = job[v], steady'[v] = steady[v],
         served'[v] = served[v], UNCHANGED tables
  PROVE  Busy(v)' => StillFollow(v)' /\ Covers(v)'
<1>1. Busy(v)' => Busy(v)
  BY DEF Busy
<1>2. Covers(v) => Covers(v)'
  BY DEF Covers
<1>3. StillFollow(v) => StillFollow(v)'
  BY DEF StillFollow, Followers, Readable, tables
<1>4. QED
  BY <1>1, <1>2, <1>3 DEF SteadyInv

(* A step of w's: the others keep what they have. *)
LEMMA SteadyOthers ==
  ASSUME TypeOK, SteadyInv, NEW w \in Workers, UNCHANGED tables, missed' = {},
         \A v \in Workers \ {w} : /\ job'[v] = job[v] /\ steady'[v] = steady[v]
                                  /\ served'[v] = served[v],
         Busy(w)' => StillFollow(w)' /\ Covers(w)'
  PROVE  SteadyInv'
<1>1. \A v \in Workers \ {w} : Busy(v)' => StillFollow(v)' /\ Covers(v)'
  BY SteadyFrame
<1>2. QED
  BY <1>1 DEF SteadyInv

LEMMA SteadyReturn ==
  ASSUME TypeOK, SteadyInv, NEW w \in Workers, Return(w), missed' = {}, UNCHANGED tables
  PROVE  SteadyInv'
<1>1. ~Busy(w)'
  BY Idling DEF Idle, Busy
<1>2. \A v \in Workers \ {w} : /\ job'[v] = job[v] /\ steady'[v] = steady[v]
                               /\ served'[v] = served[v]
  BY DEF Return, TypeOK
<1>3. QED
  BY <1>1, <1>2, SteadyOthers

LEMMA SteadyTake ==
  ASSUME TypeOK, SteadyInv, NEW w \in Workers, Take(w)
  PROVE  SteadyInv'
<1>1. Taken(w, Head(jobs)) /\ UNCHANGED <<tables, served, missed>>
  BY Taking DEF Take
<1>2. /\ steady'[w] = Followers(author[Head(jobs)])
      /\ \A v \in Workers \ {w} : steady'[v] = steady[v]
  BY DEF Take, TypeOK
<1>3. StillFollow(w)'
  BY <1>1, <1>2 DEF StillFollow, Followers, Readable, Taken, tables
<1>4. Covers(w)'
  <2>1. \A u \in Users : ~(u <= NoCursor)
    BY FanoutAssumption DEF NoCursor
  <2>2. steady'[w] \subseteq Users
    BY <1>2 DEF Followers
  <2>3. job'[w].page = {} /\ job'[w].after = NoCursor
    BY <1>1 DEF Taken
  <2>4. QED
    BY <2>1, <2>2, <2>3 DEF Covers
<1>5. QED
  BY <1>1, <1>2, <1>3, <1>4, SteadyOthers DEF Taken, SteadyInv

LEMMA SteadyGet ==
  ASSUME TypeOK, SteadyInv, NEW w \in Workers, GetFollowerIDs(w)
  PROVE  SteadyInv'
<1>1. Busy(w) /\ job[w].page = {} /\ UNCHANGED tables
  BY DEF GetFollowerIDs
<1>2. StillFollow(w) /\ Covers(w) /\ missed = {}
  BY <1>1 DEF SteadyInv
<1>3. /\ steady[w] \in SUBSET Users /\ job[w].after \in Int
      /\ \A u \in Users : u <= job[w].after \/ u > job[w].after
  BY <1>1, CursorOrder
<1>4. \A db \in Readable, u \in steady[w] :
        u > job[w].after => u \in After(db, author[job[w].tweet], job[w].after)
  BY <1>2, <1>3 DEF StillFollow, Followers, After
<1>5. CASE Return(w) /\ UNCHANGED missed
  BY <1>1, <1>2, <1>5, SteadyReturn
<1>6. ASSUME NEW db \in Readable,
             Page(db, author[job[w].tweet], job[w].after) = {}, Finish(w)
      PROVE  SteadyInv'
  <2>1. Cardinality({}) < PageSize
    BY FS_EmptySet, FanoutAssumption
  <2>2. After(db, author[job[w].tweet], job[w].after) = {}
    BY <1>3, <1>6, <2>1, PageComplete
  <2>3. \A u \in steady[w] : u <= job[w].after
    BY <1>3, <1>4, <2>2
  <2>4. steady[w] \subseteq served[w]
    BY <1>2, <2>3 DEF Covers
  <2>5. QED
    BY <1>1, <1>2, <1>6, <2>4, SteadyReturn DEF Finish
<1>7. ASSUME NEW db \in Readable, NEW ids,
             ids = Page(db, author[job[w].tweet], job[w].after), ids # {},
             job' = [job EXCEPT ![w].page = ids, ![w].left = ids],
             UNCHANGED <<steady, served, missed>>
      PROVE  SteadyInv'
  <2>1. /\ ids \in SUBSET Users
        /\ \A u \in ids, v \in After(db, author[job[w].tweet], job[w].after) :
             v <= u => v \in ids
        /\ Cardinality(ids) < PageSize =>
             ids = After(db, author[job[w].tweet], job[w].after)
    BY <1>3, <1>7, PageComplete
  <2>2. Moved(w, job[w].after, ids, ids)
    BY <1>1, <1>7, <2>1, Paging
  <2>3. StillFollow(w)'
    BY <1>1, <1>2, <1>7, <2>2 DEF StillFollow, Moved, Followers, Readable, tables
  <2>4. Covers(w)'
    <3>1. /\ job'[w].after = job[w].after /\ job'[w].page = ids /\ job'[w].left = ids
          /\ steady'[w] = steady[w] /\ served'[w] = served[w]
      BY <1>7, <2>2 DEF Moved
    <3>2. \A u \in steady[w], x \in ids : u > job[w].after /\ u <= x => u \in ids
      BY <1>4, <2>1
    <3>3. Cardinality(ids) < PageSize => \A u \in steady[w] : u > job[w].after => u \in ids
      BY <1>4, <2>1
    <3>4. QED
      BY <1>2, <3>1, <3>2, <3>3 DEF Covers
  <2>5. QED
    BY <1>1, <1>2, <1>7, <2>2, <2>3, <2>4, SteadyOthers DEF Moved
<1>8. QED
  BY <1>5, <1>6, <1>7 DEF GetFollowerIDs

LEMMA SteadyEndOfPage ==
  ASSUME TypeOK, SteadyInv, NEW w \in Workers, EndOfPage(w)
  PROVE  SteadyInv'
<1>1. Busy(w) /\ job[w].page # {} /\ job[w].left = {} /\ UNCHANGED tables
  BY DEF EndOfPage
<1>2. StillFollow(w) /\ Covers(w) /\ missed = {}
  BY <1>1 DEF SteadyInv
<1>3. /\ steady[w] \in SUBSET Users /\ job[w].page \in SUBSET Users
      /\ \A u \in Users : u <= job[w].after \/ u > job[w].after
  BY <1>1, CursorOrder, JobFields
<1>4. CASE Cardinality(job[w].page) < PageSize /\ Finish(w)
  <2>1. \A u \in steady[w] : u \in served[w]
    <3>1. TAKE u \in steady[w]
    <3>2. CASE u <= job[w].after
      BY <1>2, <3>2 DEF Covers
    <3>3. CASE u > job[w].after
      BY <1>1, <1>2, <1>4, <3>3 DEF Covers
    <3>4. QED
      BY <1>3, <3>2, <3>3
  <2>2. QED
    BY <1>1, <1>2, <1>4, <2>1, SteadyReturn DEF Finish
<1>5. CASE /\ job' = [job EXCEPT ![w].page = {}, ![w].after = Last(job[w].page, job[w].after)]
           /\ UNCHANGED <<steady, served, missed>>
  <2> DEFINE c == Last(job[w].page, job[w].after)
  <2>1. c \in job[w].page
    BY <1>1, <1>3, LastOfPage
  <2>2. Moved(w, c, {}, {})
    BY <1>1, <1>3, <1>5, <2>1, Turning
  <2> HIDE DEF c
  <2>3. StillFollow(w)'
    BY <1>1, <1>2, <1>5, <2>2 DEF StillFollow, Moved, Followers, Readable, tables
  <2>4. ASSUME NEW u \in steady[w], u <= c PROVE u \in served[w]
    <3>1. CASE u <= job[w].after
      BY <1>2, <3>1 DEF Covers
    <3>2. CASE u > job[w].after
      BY <1>1, <1>2, <2>1, <2>4, <3>2 DEF Covers
    <3>3. QED
      BY <1>3, <3>1, <3>2
  <2>5. Covers(w)'
    BY <1>5, <2>2, <2>4 DEF Covers, Moved
  <2>6. QED
    BY <1>1, <1>2, <1>5, <2>2, <2>3, <2>5, SteadyOthers DEF Moved
<1>6. QED
  BY <1>4, <1>5 DEF EndOfPage

(* Commands sent, given up or sent again: the cursor and the page stay.        *)
LEMMA SteadyLeaving ==
  ASSUME TypeOK, SteadyInv, NEW w \in Workers, Busy(w), NEW l \in SUBSET Users,
         job' = [job EXCEPT ![w].left = l], UNCHANGED <<tables, steady, missed>>,
         \A v \in Workers : served[v] \subseteq served'[v],
         \A v \in Workers \ {w} : served'[v] = served[v],
         \A u \in job[w].left : u \notin l => u \in served'[w]
  PROVE  SteadyInv'
<1>1. Moved(w, job[w].after, job[w].page, l)
  BY Leaving
<1>2. StillFollow(w) /\ Covers(w) /\ missed = {}
  BY DEF SteadyInv
<1>3. StillFollow(w)'
  BY <1>1, <1>2 DEF StillFollow, Moved, Followers, Readable, tables
<1>4. Covers(w)'
  <2>1. /\ job'[w].after = job[w].after /\ job'[w].page = job[w].page /\ job'[w].left = l
        /\ steady'[w] = steady[w] /\ served[w] \subseteq served'[w]
    BY <1>1 DEF Moved
  <2>2. QED
    BY <1>2, <2>1 DEF Covers
<1>5. QED
  BY <1>1, <1>2, <1>3, <1>4, SteadyOthers DEF Moved

(* Follows, unfollows and replication: steady keeps to who is still there.     *)
LEMMA SteadyTables ==
  ASSUME TypeOK, SteadyInv, UNCHANGED <<author, job>>,
         \/ KeepSteady
         \/ follows \subseteq follows' /\ replica' = replica /\ UNCHANGED history
  PROVE  SteadyInv'
<1>1. missed' = {}
  BY DEF SteadyInv, KeepSteady, history
<1>2. ASSUME NEW w \in Workers, Busy(w) PROVE StillFollow(w)' /\ Covers(w)'
  <2>1. StillFollow(w) /\ Covers(w)
    BY <1>2 DEF SteadyInv
  <2>2. CASE KeepSteady
    <3>1. steady'[w] = steady[w] \cap Followers(author[job[w].tweet])' /\ served' = served
      BY <1>2, <2>2 DEF KeepSteady, Busy
    <3>2. StillFollow(w)'
      BY <3>1 DEF StillFollow, Followers, Readable
    <3>3. Covers(w)'
      BY <2>1, <3>1 DEF Covers
    <3>4. QED
      BY <3>2, <3>3
  <2>3. CASE follows \subseteq follows' /\ replica' = replica /\ UNCHANGED history
    <3>1. StillFollow(w)'
      BY <2>1, <2>3 DEF StillFollow, Followers, Readable, history
    <3>2. Covers(w)'
      BY <2>1, <2>3 DEF Covers, history
    <3>3. QED
      BY <3>1, <3>2
  <2>4. QED
    BY <2>2, <2>3
<1>3. QED
  BY <1>1, <1>2 DEF SteadyInv, Busy

LEMMA SteadyStep == TypeOK /\ SteadyInv /\ [FanoutNext]_vars => SteadyInv'
<1>1. SUFFICES ASSUME TypeOK, SteadyInv, [FanoutNext]_vars PROVE SteadyInv'
  OBVIOUS
<1>2. ASSUME UNCHANGED <<tables, job, steady, served, missed>> PROVE SteadyInv'
  <2>1. missed' = {}
    BY <1>1, <1>2 DEF SteadyInv
  <2>2. QED
    BY <1>1, <1>2, <2>1, SteadyFrame DEF SteadyInv
<1>3. ASSUME NEW p \in Pairs, Follow(p) PROVE SteadyInv'
  BY <1>1, <1>3, SteadyTables DEF Follow
<1>4. ASSUME NEW p \in Pairs, Unfollow(p) PROVE SteadyInv'
  BY <1>1, <1>4, SteadyTables DEF Unfollow
<1>5. CASE CatchUp
  BY <1>1, <1>5, SteadyTables DEF CatchUp
<1>6. ASSUME NEW u \in Users, Expire(u) PROVE SteadyInv'
  BY <1>2, <1>6 DEF Expire, history
<1>7. ASSUME NEW t \in Tweets, Enqueue(t) PROVE SteadyInv'
  BY <1>2, <1>7 DEF Enqueue, history
<1>8. ASSUME NEW w \in Workers, Work(w) PROVE SteadyInv'
  <2>1. CASE Take(w)
    BY <1>1, <2>1, SteadyTake
  <2>2. CASE GetFollowerIDs(w)
    BY <1>1, <2>2, SteadyGet
  <2>3. CASE EndOfPage(w)
    BY <1>1, <2>3, SteadyEndOfPage
  <2>4. CASE PipelineFails(w)
    <3>1. Busy(w) /\ {} \in SUBSET Users
      BY <2>4 DEF PipelineFails
    <3>2. served' = [served EXCEPT ![w] = @ \cup job[w].left] /\ DOMAIN served = Workers
      BY <1>1, <2>4 DEF PipelineFails, TypeOK
    <3>3. /\ job' = [job EXCEPT ![w].left = {}]
          /\ UNCHANGED <<tables, steady, missed>>
      BY <2>4 DEF PipelineFails
    <3>4. /\ \A v \in Workers : served[v] \subseteq served'[v]
          /\ \A v \in Workers \ {w} : served'[v] = served[v]
          /\ \A u \in job[w].left : u \in served'[w]
      BY <3>2
    <3>5. QED
      BY <1>1, <3>1, <3>3, <3>4, SteadyLeaving
  <2>5. CASE PipelineResent(w)
    <3>1. Busy(w) /\ job[w].page \in SUBSET Users /\ job[w].left \in SUBSET job[w].page
      BY <1>1, <2>5, JobFields DEF PipelineResent
    <3>2. /\ job' = [job EXCEPT ![w].left = job[w].page]
          /\ UNCHANGED <<tables, steady, served, missed>>
      BY <2>5 DEF PipelineResent
    <3>3. \A u \in job[w].left : u \notin job[w].page => u \in served'[w]
      BY <3>1
    <3>4. QED
      BY <1>1, <3>1, <3>2, <3>3, SteadyLeaving
  <2>6. ASSUME NEW u \in Users, Push(w, u) PROVE SteadyInv'
    <3>1. Busy(w) /\ job[w].left \ {u} \in SUBSET Users
      BY <1>1, <2>6, JobFields DEF Push
    <3>2. served' = [served EXCEPT ![w] = @ \cup {u}] /\ DOMAIN served = Workers
      BY <1>1, <2>6 DEF Push, TypeOK
    <3>3. /\ job' = [job EXCEPT ![w].left = job[w].left \ {u}]
          /\ UNCHANGED <<tables, steady, missed>>
      BY <2>6 DEF Push
    <3>4. /\ \A v \in Workers : served[v] \subseteq served'[v]
          /\ \A v \in Workers \ {w} : served'[v] = served[v]
          /\ \A x \in job[w].left : x \notin job[w].left \ {u} => x \in served'[w]
      BY <3>2
    <3>5. QED
      BY <1>1, <3>1, <3>3, <3>4, SteadyLeaving
  <2>7. QED
    BY <1>8, <2>1, <2>2, <2>3, <2>4, <2>5, <2>6 DEF Work
<1>9. CASE Restart
  BY <1>1, <1>9 DEF Restart, SteadyInv, Busy
<1>10. ASSUME NEW u \in Authors, Create(u) PROVE SteadyInv'
  <2>1. /\ author' = Append(author, u)
        /\ UNCHANGED <<follows, replica, job, steady, served, missed>>
    BY <1>10 DEF Create, history
  <2>2. \A t \in DOMAIN author : author'[t] = author[t]
    BY <1>1, <2>1 DEF TypeOK
  <2>3. ASSUME NEW w \in Workers, Busy(w) PROVE StillFollow(w)' /\ Covers(w)'
    <3>1. StillFollow(w) /\ Covers(w) /\ job[w].tweet \in DOMAIN author
      BY <1>1, <2>3, JobFields DEF SteadyInv
    <3>2. StillFollow(w)'
      BY <2>1, <2>2, <3>1 DEF StillFollow, Followers, Readable
    <3>3. Covers(w)'
      BY <2>1, <3>1 DEF Covers
    <3>4. QED
      BY <3>2, <3>3
  <2>4. missed' = {} /\ \A w \in Workers : Busy(w)' => Busy(w)
    BY <1>1, <2>1 DEF SteadyInv, Busy
  <2>5. QED
    BY <2>3, <2>4 DEF SteadyInv
<1>11. CASE UNCHANGED vars
  BY <1>2, <1>11 DEF vars, tables, history
<1>12. QED
  BY <1>1, <1>3, <1>4, <1>5, <1>6, <1>7, <1>8, <1>9, <1>10, <1>11
     DEF FanoutNext, FanoutStep

(* No page leaves a follower out, however followers come and go between pages  *)
(* and wherever each page is read: a job that has come to its end has sent its *)
(* tweet to everybody who followed the author all the while.                   *)
THEOREM NobodyMissed == Spec => []SteadyFollowersServed
<1>1. SteadyInv => SteadyFollowersServed
  BY DEF SteadyInv, SteadyFollowersServed
<1>2. QED
  BY <1>1, TypeInit, TypeStep, SteadyInit, SteadyStep, PTL DEF Spec

-----------------------------------------------------------------------------
(* A tweet is in one place on its way to the lists. *)
In(t, list) == \E i \in DOMAIN list : list[i] = t
Shown(t) == \E u \in Users : In(t, lists[u])
AtWorker(t) == \E w \in Workers : Busy(w) /\ job[w].tweet = t

PlacesInv ==
  /\ \A t \in posting : ~In(t, jobs) /\ ~AtWorker(t) /\ ~Shown(t)
  /\ \A i, j \in DOMAIN jobs : jobs[i] = jobs[j] => i = j
  /\ \A i \in DOMAIN jobs : ~AtWorker(jobs[i]) /\ ~Shown(jobs[i])
  /\ \A v, w \in Workers : Busy(v) /\ Busy(w) /\ job[v].tweet = job[w].tweet => v = w

(* Its worker has dealt with those behind the cursor and those of the page     *)
(* that are not left.                                                          *)
Done(w, u) == u <= job[w].after \/ (u \in job[w].page /\ u \notin job[w].left)

OnceInv ==
  /\ \A w \in Workers : Busy(w) => \A u \in job[w].page : u > job[w].after
  /\ \A w \in Workers : Busy(w) /\ job[w].tweet \notin resent =>
       \A u \in Users : In(job[w].tweet, lists[u]) => Done(w, u)
  /\ \A u \in Users : \A i, j \in DOMAIN lists[u] :
       lists[u][i] = lists[u][j] /\ lists[u][i] \notin resent => i = j

LEMMA PlacesInit == Init => PlacesInv /\ OnceInv
<1>1. SUFFICES ASSUME Init PROVE PlacesInv /\ OnceInv
  OBVIOUS
<1>2. \A w \in Workers : ~Busy(w)
  BY <1>1 DEF Init, Busy
<1>3. posting = {} /\ DOMAIN jobs = {} /\ \A u \in Users : DOMAIN lists[u] = {}
  BY <1>1 DEF Init
<1>4. QED
  BY <1>2, <1>3 DEF PlacesInv, OnceInv

LEMMA PushedIn ==
  ASSUME TypeOK, NEW u \in Users, NEW t \in DOMAIN author,
         lists' = [lists EXCEPT ![u] = Pushed(@, t)]
  PROVE  /\ \A i \in DOMAIN lists'[u] : i \in Nat \ {0}
         /\ 1 \in DOMAIN lists'[u] => lists'[u][1] = t
         /\ \A i \in DOMAIN lists'[u] :
              i # 1 => i - 1 \in DOMAIN lists[u] /\ lists'[u][i] = lists[u][i-1]
         /\ \A x \in Users \ {u} : lists'[x] = lists[x]
<1>1. lists[u] \in Seq(DOMAIN author) /\ Len(lists[u]) <= MaxLen
      /\ Len(lists[u]) \in Nat /\ DOMAIN lists[u] = 1..Len(lists[u])
  BY DEF TypeOK
<1>2. lists'[u] = Pushed(lists[u], t) /\ \A x \in Users \ {u} : lists'[x] = lists[x]
  BY DEF TypeOK
<1>3. /\ lists'[u] \in Seq(DOMAIN author)
      /\ Len(lists'[u]) = IF Len(lists[u]) < MaxLen THEN Len(lists[u]) + 1 ELSE MaxLen
      /\ lists'[u][1] = t
      /\ \A i \in 2..Len(lists'[u]) : lists'[u][i] = lists[u][i-1]
  <2> DEFINE S == DOMAIN author
             list == lists[u]
  <2>1. S = DOMAIN author /\ list = lists[u] /\ list \in Seq(S) /\ t \in S
    BY <1>1
  <2> HIDE DEF S, list
  <2>2. /\ Pushed(list, t) \in Seq(S)
        /\ Len(Pushed(list, t)) = IF Len(list) < MaxLen THEN Len(list) + 1 ELSE MaxLen
        /\ Pushed(list, t)[1] = t
        /\ \A i \in 2..Len(Pushed(list, t)) : Pushed(list, t)[i] = list[i-1]
    <3>1. \A i \in 2..Len(Pushed(list, t)) : Pushed(list, t)[i] = list[i-1]
      BY <2>1, PushedTail
    <3>2. QED
      BY <2>1, <3>1, PushedList
  <2>3. lists'[u] = Pushed(list, t)
    BY <1>2, <2>1
  <2>4. QED
    BY <2>1, <2>2, <2>3
<1>4. DOMAIN lists'[u] = 1..Len(lists'[u]) /\ Len(lists'[u]) \in Nat
      /\ Len(lists'[u]) <= Len(lists[u]) + 1
  BY <1>1, <1>3, FanoutAssumption
<1>5. \A i \in DOMAIN lists'[u] : i # 1 => i \in 2..Len(lists'[u]) /\ i - 1 \in DOMAIN lists[u]
  BY <1>1, <1>4
<1>6. QED
  BY <1>2, <1>3, <1>4, <1>5

(* Most steps bring a tweet to no new place but a list its worker pushes it on. *)
LEMMA PlacesShrink ==
  ASSUME TypeOK, PlacesInv, posting' \subseteq posting,
         jobs' = jobs \/ jobs' = <<>>,
         \A w \in Workers : Busy(w)' => Busy(w) /\ job'[w].tweet = job[w].tweet,
         \A u \in Users : \A t : In(t, lists'[u]) => In(t, lists[u]) \/ AtWorker(t)
  PROVE  PlacesInv'
<1>1. \A t : AtWorker(t)' => AtWorker(t)
  BY DEF AtWorker
<1>2. \A t : Shown(t)' => Shown(t) \/ AtWorker(t)
  BY DEF Shown
<1>3. \A i \in DOMAIN jobs' : jobs' = jobs
  OBVIOUS
<1>4. \A t \in posting' : ~In(t, jobs') /\ ~AtWorker(t)' /\ ~Shown(t)'
  <2>1. TAKE t \in posting'
  <2>2. ~In(t, jobs) /\ ~AtWorker(t) /\ ~Shown(t)
    BY DEF PlacesInv
  <2>3. ~In(t, jobs')
    BY <1>3, <2>2 DEF In
  <2>4. QED
    BY <1>1, <1>2, <2>2, <2>3
<1>5. \A i \in DOMAIN jobs' : (~AtWorker(jobs[i]) /\ ~Shown(jobs[i]))'
  <2>1. TAKE i \in DOMAIN jobs'
  <2>2. jobs' = jobs
    BY <1>3
  <2>3. ~AtWorker(jobs[i]) /\ ~Shown(jobs[i])
    BY <2>2 DEF PlacesInv
  <2>4. \A t : t = jobs[i] => ~AtWorker(t)' /\ ~Shown(t)'
    BY <1>1, <1>2, <2>3
  <2>5. QED
    BY <2>2, <2>4 DEF AtWorker, Shown
<1>6. \A i, j \in DOMAIN jobs' : jobs'[i] = jobs'[j] => i = j
  BY <1>3 DEF PlacesInv
<1>7. \A v, w \in Workers : Busy(v)' /\ Busy(w)' /\ job'[v].tweet = job'[w].tweet => v = w
  BY DEF PlacesInv
<1>8. QED
  BY <1>4, <1>5, <1>6, <1>7 DEF PlacesInv, In, AtWorker, Shown

LEMMA PlacesCreate ==
  ASSUME TypeOK, PlacesInv, NEW u \in Authors, Create(u)
  PROVE  PlacesInv'
<1> DEFINE t == Len(author) + 1
<1>1. /\ posting' \subseteq posting \cup {t}
      /\ UNCHANGED <<jobs, job, lists>>
  BY DEF Create
<1>2. t \notin DOMAIN author
  BY Known DEF TypeOK
<1> HIDE DEF t
<1>3. ~In(t, jobs) /\ ~Shown(t)
  <2>1. \A i \in DOMAIN jobs : jobs[i] \in DOMAIN author
    BY DEF TypeOK
  <2>2. \A x \in Users : \A i \in DOMAIN lists[x] : lists[x][i] \in DOMAIN author
    BY DEF TypeOK
  <2>3. QED
    BY <1>2, <2>1, <2>2 DEF In, Shown
<1>4. ~AtWorker(t)
  BY <1>2, JobFields DEF AtWorker
<1>5. \A x \in posting' : ~In(x, jobs) /\ ~AtWorker(x) /\ ~Shown(x)
  BY <1>1, <1>3, <1>4 DEF PlacesInv
<1>6. QED
  BY <1>1, <1>5 DEF PlacesInv, In, AtWorker, Shown, Busy

LEMMA PlacesEnqueue ==
  ASSUME TypeOK, PlacesInv, NEW t \in Tweets, Enqueue(t)
  PROVE  PlacesInv'
<1>1. /\ t \in posting /\ posting' = posting \ {t}
      /\ jobs' = jobs \/ jobs' = Append(jobs, t)
      /\ UNCHANGED <<job, lists>>
  BY DEF Enqueue
<1>2. ~In(t, jobs) /\ ~AtWorker(t) /\ ~Shown(t)
  BY <1>1 DEF PlacesInv
<1>3. CASE jobs' = jobs
  BY <1>1, <1>3 DEF PlacesInv, In, AtWorker, Shown, Busy
<1>4. CASE jobs' = Append(jobs, t)
  <2>1. /\ DOMAIN jobs' = 1..Len(jobs) + 1 /\ DOMAIN jobs = 1..Len(jobs) /\ Len(jobs) \in Nat
        /\ \A i \in DOMAIN jobs : jobs'[i] = jobs[i]
        /\ jobs'[Len(jobs) + 1] = t
    BY <1>4 DEF TypeOK
  <2>2. \A i \in DOMAIN jobs' : i \in DOMAIN jobs \/ i = Len(jobs) + 1
    BY <2>1
  <2>3. \A i, j \in DOMAIN jobs' : jobs'[i] = jobs'[j] => i = j
    BY <1>2, <2>1, <2>2 DEF PlacesInv, In
  <2>4. \A x \in posting' : \A i \in DOMAIN jobs' : jobs'[i] # x
    BY <1>1, <2>1, <2>2 DEF PlacesInv, In
  <2>5. \A i \in DOMAIN jobs' : ~AtWorker(jobs'[i]) /\ ~Shown(jobs'[i])
    <3>1. \A i \in DOMAIN jobs : ~AtWorker(jobs[i]) /\ ~Shown(jobs[i])
      BY DEF PlacesInv
    <3>2. QED
      BY <1>2, <2>1, <2>2, <3>1
  <2>6. QED
    BY <1>1, <2>3, <2>4, <2>5 DEF PlacesInv, In, AtWorker, Shown, Busy
<1>5. QED
  BY <1>1, <1>3, <1>4

LEMMA PlacesTake ==
  ASSUME TypeOK, PlacesInv, NEW w \in Workers, Take(w)
  PROVE  PlacesInv' /\ ~Shown(Head(jobs))
<1> DEFINE t == Head(jobs)
<1>1. /\ Taken(w, t) /\ ~Busy(w)
      /\ 1 \in DOMAIN jobs /\ t = jobs[1]
      /\ \A i \in DOMAIN jobs' : i + 1 \in DOMAIN jobs /\ jobs'[i] = jobs[i+1]
      /\ posting' = posting /\ lists' = lists
  BY Taking DEF Take
<1> HIDE DEF t
<1>2. ~AtWorker(t) /\ ~Shown(t) /\ t \notin posting
  BY <1>1 DEF PlacesInv, In
<1>3. \A x : AtWorker(x)' => AtWorker(x) \/ x = t
  BY <1>1 DEF AtWorker, Taken, Busy
<1>4. \A x : In(x, jobs') => In(x, jobs) /\ x # t
  <2>1. ASSUME NEW i \in DOMAIN jobs' PROVE In(jobs'[i], jobs) /\ jobs'[i] # t
    <3>1. i + 1 # 1 /\ i \in Int
      BY Taking
    <3>2. QED
      BY <1>1, <3>1 DEF PlacesInv, In
  <2>2. QED
    BY <2>1 DEF In
<1>5. \A i, j \in DOMAIN jobs' : jobs'[i] = jobs'[j] => i = j
  <2>1. TAKE i, j \in DOMAIN jobs'
  <2>2. i \in Nat /\ j \in Nat
    BY Taking
  <2>3. jobs'[i] = jobs'[j] => i + 1 = j + 1
    BY <1>1 DEF PlacesInv
  <2>4. QED
    BY <2>2, <2>3
<1>6. \A x \in posting' : ~In(x, jobs') /\ ~AtWorker(x)' /\ ~Shown(x)
  BY <1>1, <1>2, <1>3, <1>4 DEF PlacesInv
<1>7. \A x : In(x, jobs') => ~AtWorker(x)' /\ ~Shown(x)
  <2>1. \A x : In(x, jobs) => ~AtWorker(x) /\ ~Shown(x)
    BY DEF PlacesInv, In
  <2>2. QED
    BY <1>3, <1>4, <2>1
<1>8. \A v, x \in Workers : Busy(v)' /\ Busy(x)' /\ job'[v].tweet = job'[x].tweet => v = x
  <2>1. \A v \in Workers : Busy(v)' /\ v # w => Busy(v) /\ job'[v].tweet = job[v].tweet
    BY <1>1 DEF Taken, Busy
  <2>2. \A v \in Workers : Busy(v)' /\ v # w => job'[v].tweet # t
    BY <1>2, <2>1 DEF AtWorker
  <2>3. job'[w].tweet = t
    BY <1>1 DEF Taken
  <2>4. QED
    BY <2>1, <2>2, <2>3 DEF PlacesInv
<1>9. QED
  BY <1>1, <1>2, <1>5, <1>6, <1>7, <1>8 DEF PlacesInv, In, Shown, t

(* A worker at its job comes to its end or goes on with the same tweet. *)
LEMMA Going ==
  ASSUME TypeOK, NEW w \in Workers, Work(w), ~Take(w)
  PROVE  Busy(w) /\ (Idle(w) \/ \E c, p, l : Moved(w, c, p, l)) /\ UNCHANGED <<tables, queue>>
<1>1. Busy(w) /\ UNCHANGED <<tables, queue>>
  BY DEF Work, GetFollowerIDs, EndOfPage, PipelineFails, PipelineResent, Push
<1>2. /\ job[w].page \in SUBSET Users /\ job[w].left \in SUBSET Users
      /\ \A u \in Users : job[w].left \ {u} \in SUBSET Users
  BY <1>1, JobFields
<1>3. \A db : Page(db, author[job[w].tweet], job[w].after) \in SUBSET Users
  BY DEF Page, After
<1>4. CASE Return(w)
  BY <1>1, <1>4, Idling
<1>5. CASE \E ids \in SUBSET Users : job' = [job EXCEPT ![w].page = ids, ![w].left = ids]
  BY <1>1, <1>5, Paging
<1>6. CASE /\ job[w].page # {}
           /\ job' = [job EXCEPT ![w].page = {}, ![w].after = Last(job[w].page, job[w].after)]
  <2>1. Last(job[w].page, job[w].after) \in Users \cup {NoCursor}
    BY <1>2, <1>6, LastOfPage
  <2>2. QED
    BY <1>1, <1>6, <2>1, Turning
<1>7. CASE \E l \in SUBSET Users : job' = [job EXCEPT ![w].left = l]
  BY <1>1, <1>7, Leaving
<1>8. QED
  BY <1>1, <1>2, <1>3, <1>4, <1>5, <1>6, <1>7
     DEF Work, GetFollowerIDs, EndOfPage, PipelineFails, PipelineResent, Push, Finish

(* Only Push changes a list, by the tweet of its worker. *)
LEMMA WorkLists ==
  ASSUME TypeOK, NEW w \in Workers, Work(w), ~Take(w)
  PROVE  \A u \in Users : \A t : In(t, lists'[u]) => In(t, lists[u]) \/ t = job[w].tweet
<1>1. CASE lists' = lists
  BY <1>1
<1>2. ASSUME NEW u \in Users, Push(w, u)
      PROVE  \A x \in Users : \A t : In(t, lists'[x]) => In(t, lists[x]) \/ t = job[w].tweet
  <2>1. job[w].tweet \in DOMAIN author /\ lists' = [lists EXCEPT ![u] = Pushed(@, job[w].tweet)]
    BY <1>2, JobFields DEF Push
  <2>2. /\ \A x \in Users \ {u} : lists'[x] = lists[x]
        /\ \A i \in DOMAIN lists'[u] :
             lists'[u][i] = job[w].tweet \/ In(lists'[u][i], lists[u])
    <3>1. /\ 1 \in DOMAIN lists'[u] => lists'[u][1] = job[w].tweet
          /\ \A i \in DOMAIN lists'[u] :
               i # 1 => i - 1 \in DOMAIN lists[u] /\ lists'[u][i] = lists[u][i-1]
          /\ \A x \in Users \ {u} : lists'[x] = lists[x]
      BY <2>1, PushedIn
    <3>2. QED
      BY <3>1 DEF In
  <2>3. QED
    BY <2>2 DEF In
<1>3. QED
  BY <1>1, <1>2 DEF Work, GetFollowerIDs, EndOfPage, PipelineFails, PipelineResent

LEMMA PlacesStep == TypeOK /\ PlacesInv /\ [FanoutNext]_vars => PlacesInv'
<1>1. SUFFICES ASSUME TypeOK, PlacesInv, [FanoutNext]_vars PROVE PlacesInv'
  OBVIOUS
<1>2. ASSUME UNCHANGED <<queue, job, lists>> PROVE PlacesInv'
  BY <1>1, <1>2 DEF PlacesInv, In, AtWorker, Shown, Busy, queue
<1>3. ASSUME NEW p \in Pairs, Follow(p) \/ Unfollow(p) PROVE PlacesInv'
  BY <1>2, <1>3 DEF Follow, Unfollow
<1>4. CASE CatchUp
  BY <1>2, <1>4 DEF CatchUp
<1>5. ASSUME NEW u \in Users, Expire(u) PROVE PlacesInv'
  <2>1. /\ posting' = posting /\ jobs' = jobs /\ job' = job
        /\ \A x \in Users : lists'[x] = lists[x] \/ lists'[x] = <<>>
    BY <1>1, <1>5 DEF Expire, queue, TypeOK
  <2>2. \A x \in Users : \A t : In(t, lists'[x]) => In(t, lists[x])
    BY <2>1 DEF In
  <2>3. QED
    BY <1>1, <2>1, <2>2, PlacesShrink DEF Busy
<1>6. ASSUME NEW t \in Tweets, Enqueue(t) PROVE PlacesInv'
  BY <1>1, <1>6, PlacesEnqueue
<1>7. ASSUME NEW w \in Workers, Work(w), ~Take(w) PROVE PlacesInv'
  <2>1. Busy(w) /\ posting' = posting /\ jobs' = jobs
        /\ (Idle(w) \/ \E c, p, l : Moved(w, c, p, l))
    BY <1>1, <1>7, Going DEF queue
  <2>2. \A v \in Workers : Busy(v)' => Busy(v) /\ job'[v].tweet = job[v].tweet
    BY <2>1 DEF Idle, Moved, Busy
  <2>3. \A u \in Users : \A t : In(t, lists'[u]) => In(t, lists[u]) \/ AtWorker(t)
    BY <1>1, <1>7, <2>1, WorkLists DEF AtWorker
  <2>4. QED
    BY <1>1, <2>1, <2>2, <2>3, PlacesShrink
<1>8. ASSUME NEW w \in Workers, Take(w) PROVE PlacesInv'
  BY <1>1, <1>8, PlacesTake
<1>9. CASE Restart
  <2>1. /\ posting' = {} /\ jobs' = <<>> /\ lists' = lists
        /\ \A w \in Workers : ~Busy(w)'
    BY <1>9 DEF Restart, Busy
  <2>2. QED
    BY <1>1, <2>1, PlacesShrink
<1>10. ASSUME NEW u \in Authors, Create(u) PROVE PlacesInv'
  BY <1>1, <1>10, PlacesCreate
<1>11. CASE UNCHANGED vars
  BY <1>2, <1>11 DEF vars
<1>12. QED
  BY <1>1, <1>3, <1>4, <1>5, <1>6, <1>7, <1>8, <1>9, <1>10, <1>11
     DEF FanoutNext, FanoutStep

(* Lists that stay: only the worker that took a step has to be looked at.       *)
LEMMA OnceFrame ==
  ASSUME TypeOK, OnceInv, NEW w \in Workers, lists' = lists, resent \subseteq resent',
         \A v \in Workers \ {w} : job'[v] = job[v],
         Busy(w)' =>
           /\ \A u \in job'[w].page : u > job'[w].after
           /\ job'[w].tweet \notin resent' =>
                \A u \in Users : In(job'[w].tweet, lists[u]) => Done(w, u)'
  PROVE  OnceInv'
<1>1. \A v \in Workers : Busy(v)' => \A u \in job'[v].page : u > job'[v].after
  BY DEF OnceInv, Busy
<1>2. \A v \in Workers : Busy(v)' /\ job'[v].tweet \notin resent' =>
        \A u \in Users : In(job'[v].tweet, lists[u]) => Done(v, u)'
  BY DEF OnceInv, Busy, Done
<1>3. \A u \in Users : \A i, j \in DOMAIN lists'[u] :
        lists'[u][i] = lists'[u][j] /\ lists'[u][i] \notin resent' => i = j
  BY DEF OnceInv
<1>4. QED
  BY <1>1, <1>2, <1>3 DEF OnceInv, In

LEMMA OnceIdle ==
  ASSUME TypeOK, OnceInv, NEW w \in Workers, Return(w), UNCHANGED <<lists, resent>>
  PROVE  OnceInv'
BY Idling, OnceFrame DEF Idle, Busy

LEMMA OnceTake ==
  ASSUME TypeOK, PlacesInv, OnceInv, NEW w \in Workers, Take(w)
  PROVE  OnceInv'
<1>1. /\ Taken(w, Head(jobs)) /\ UNCHANGED <<lists, resent>>
      /\ \A u \in Users : ~In(Head(jobs), lists[u])
  BY Taking, PlacesTake DEF Take, Shown
<1>2. QED
  BY <1>1, OnceFrame DEF Taken

LEMMA OnceGet ==
  ASSUME TypeOK, OnceInv, NEW w \in Workers, GetFollowerIDs(w)
  PROVE  OnceInv'
<1>1. Busy(w) /\ job[w].page = {} /\ UNCHANGED <<lists, resent>>
  BY DEF GetFollowerIDs
<1>2. CASE Return(w)
  BY <1>1, <1>2, OnceIdle
<1>3. ASSUME NEW db, NEW ids, ids = Page(db, author[job[w].tweet], job[w].after),
             job' = [job EXCEPT ![w].page = ids, ![w].left = ids]
      PROVE  OnceInv'
  <2>1. ids \in SUBSET Users /\ \A u \in ids : u > job[w].after
    BY <1>1, <1>3, CursorOrder, PageComplete
  <2>2. Moved(w, job[w].after, ids, ids)
    BY <1>1, <1>3, <2>1, Paging
  <2>3. \A u \in Users : Done(w, u) => Done(w, u)'
    BY <1>1, <2>2 DEF Done, Moved
  <2>4. QED
    BY <1>1, <2>1, <2>2, <2>3, OnceFrame DEF Moved, OnceInv
<1>4. QED
  BY <1>2, <1>3 DEF GetFollowerIDs, Finish

LEMMA OnceEndOfPage ==
  ASSUME TypeOK, OnceInv, NEW w \in Workers, EndOfPage(w)
  PROVE  OnceInv'
<1>1. Busy(w) /\ job[w].page # {} /\ job[w].left = {} /\ UNCHANGED <<lists, resent>>
  BY DEF EndOfPage
<1>2. CASE Return(w)
  BY <1>1, <1>2, OnceIdle
<1>3. ASSUME NEW c, c = Last(job[w].page, job[w].after),
             job' = [job EXCEPT ![w].page = {}, ![w].after = c]
      PROVE  OnceInv'
  <2>1. job[w].page \in SUBSET Users /\ job[w].after \in Int
    BY <1>1, JobFields, CursorOrder
  <2>2. c \in job[w].page /\ \A u \in job[w].page : u <= c
    BY <1>1, <1>3, <2>1, LastOfPage
  <2>3. Moved(w, c, {}, {})
    BY <1>1, <1>3, <2>1, <2>2, Turning
  <2>4. c > job[w].after /\ c \in Nat /\ \A u \in Users : u \in Nat
    BY <1>1, <2>1, <2>2, FanoutAssumption DEF OnceInv
  <2>5. \A u \in Users : u <= job[w].after => u <= c
    BY <2>1, <2>4
  <2>6. \A u \in Users : Done(w, u) => Done(w, u)'
    BY <2>2, <2>3, <2>5 DEF Done, Moved
  <2>7. QED
    BY <1>1, <2>3, <2>6, OnceFrame DEF Moved, OnceInv
<1>4. QED
  BY <1>2, <1>3 DEF EndOfPage, Finish

(* The rest of a page is given up, or all of it sent again.                    *)
LEMMA OnceLeaving ==
  ASSUME TypeOK, OnceInv, NEW w \in Workers, Busy(w), NEW l \in SUBSET Users,
         job' = [job EXCEPT ![w].left = l], lists' = lists, resent \subseteq resent',
         l \subseteq job[w].left \/ job[w].tweet \in resent'
  PROVE  OnceInv'
<1>1. Moved(w, job[w].after, job[w].page, l)
  BY Leaving
<1>2. l \subseteq job[w].left => \A u \in Users : Done(w, u) => Done(w, u)'
  BY <1>1 DEF Done, Moved
<1>3. QED
  BY <1>1, <1>2, OnceFrame DEF Moved, OnceInv

LEMMA OncePush ==
  ASSUME TypeOK, PlacesInv, OnceInv, NEW w \in Workers, NEW u \in Users, Push(w, u)
  PROVE  OnceInv'
<1> DEFINE t == job[w].tweet
<1>1. /\ Busy(w) /\ u \in job[w].left /\ u \in job[w].page /\ t \in DOMAIN author
      /\ lists' = [lists EXCEPT ![u] = Pushed(@, t)] /\ resent' = resent
  BY JobFields DEF Push
<1>2. Moved(w, job[w].after, job[w].page, job[w].left \ {u})
  <2>1. job[w].left \ {u} \in SUBSET Users /\ job' = [job EXCEPT ![w].left = job[w].left \ {u}]
    BY <1>1, JobFields DEF Push
  <2>2. QED
    BY <1>1, <2>1, Leaving
<1>3. /\ 1 \in DOMAIN lists'[u] => lists'[u][1] = t
      /\ \A i \in DOMAIN lists'[u] :
           i # 1 => i - 1 \in DOMAIN lists[u] /\ lists'[u][i] = lists[u][i-1]
      /\ \A x \in Users \ {u} : lists'[x] = lists[x]
      /\ \A i \in DOMAIN lists'[u] : i \in Nat \ {0}
  BY <1>1, PushedIn
<1>4. t \notin resent => ~In(t, lists[u])
  <2>1. u > job[w].after /\ u \in Nat /\ job[w].after \in Int
    BY <1>1, FanoutAssumption, CursorOrder DEF OnceInv
  <2>2. ~Done(w, u)
    BY <1>1, <2>1 DEF Done
  <2>3. QED
    BY <1>1, <2>2 DEF OnceInv
<1> HIDE DEF t
<1>5. \A v \in Workers \ {w} : Busy(v) => job[v].tweet # t
  BY <1>1 DEF PlacesInv, t
<1>6. \A x \in Users : \A s : s # t /\ In(s, lists'[x]) => In(s, lists[x])
  BY <1>3 DEF In
<1>7. \A v \in Workers : Busy(v)' /\ v # w => Busy(v) /\ job'[v] = job[v]
  BY <1>2 DEF Moved, Busy
<1>8. \A v \in Workers : Busy(v)' => \A x \in job'[v].page : x > job'[v].after
  BY <1>1, <1>2, <1>7 DEF OnceInv, Moved
<1>9. ASSUME NEW v \in Workers, Busy(v)', job'[v].tweet \notin resent',
             NEW x \in Users, In(job'[v].tweet, lists'[x])
      PROVE  Done(v, x)'
  <2>1. CASE v # w
    <3>1. Done(v, x)
      BY <1>1, <1>5, <1>6, <1>7, <1>9, <2>1 DEF OnceInv
    <3>2. QED
      BY <1>7, <1>9, <2>1, <3>1 DEF Done
  <2>2. CASE v = w /\ x = u
    BY <1>1, <1>2, <2>2 DEF Done, Moved
  <2>3. CASE v = w /\ x # u
    <3>1. In(t, lists[x]) /\ t \notin resent
      BY <1>1, <1>2, <1>3, <1>9, <2>3 DEF Moved, t
    <3>2. Done(w, x)
      BY <1>1, <3>1 DEF OnceInv, t
    <3>3. QED
      BY <1>2, <2>3, <3>2 DEF Done, Moved
  <2>4. QED
    BY <2>1, <2>2, <2>3
<1>10. ASSUME NEW x \in Users, NEW i \in DOMAIN lists'[x], NEW j \in DOMAIN lists'[x],
              lists'[x][i] = lists'[x][j], lists'[x][i] \notin resent'
       PROVE  i = j
  <2>1. CASE x # u
    BY <1>1, <1>3, <1>10, <2>1 DEF OnceInv
  <2>2. CASE x = u /\ i # 1 /\ j # 1
    <3>1. i - 1 = j - 1
      BY <1>1, <1>3, <1>10, <2>2 DEF OnceInv
    <3>2. QED
      BY <1>3, <1>10, <2>2, <3>1
  <2>3. CASE x = u /\ (i = 1 \/ j = 1)
    <3>1. lists'[x][i] = t /\ t \notin resent
      BY <1>1, <1>3, <1>10, <2>3
    <3>2. i = 1
      BY <1>3, <1>4, <1>10, <2>3, <3>1 DEF In
    <3>3. j = 1
      BY <1>3, <1>4, <1>10, <2>3, <3>1 DEF In
    <3>4. QED
      BY <3>2, <3>3
  <2>4. QED
    BY <2>1, <2>2, <2>3
<1>11. QED
  BY <1>8, <1>9, <1>10 DEF OnceInv, In

LEMMA OnceStep == TypeOK /\ PlacesInv /\ OnceInv /\ [FanoutNext]_vars => OnceInv'
<1>1. SUFFICES ASSUME TypeOK, PlacesInv, OnceInv, [FanoutNext]_vars PROVE OnceInv'
  OBVIOUS
<1>2. ASSUME UNCHANGED <<job, lists, resent>> PROVE OnceInv'
  BY <1>1, <1>2 DEF OnceInv, In, Done, Busy
<1>3. ASSUME NEW p \in Pairs, Follow(p) \/ Unfollow(p) PROVE OnceInv'
  BY <1>2, <1>3 DEF Follow, Unfollow, KeepSteady, history
<1>4. CASE CatchUp
  BY <1>2, <1>4 DEF CatchUp, KeepSteady
<1>5. ASSUME NEW u \in Users, Expire(u) PROVE OnceInv'
  <2>1. /\ job' = job /\ resent' = resent
        /\ \A x \in Users : lists'[x] = lists[x] \/ lists'[x] = <<>>
    BY <1>1, <1>5 DEF Expire, history, TypeOK
  <2>2. \A x \in Users : \A i \in DOMAIN lists'[x] : lists'[x] = lists[x]
    BY <2>1
  <2>3. QED
    BY <1>1, <2>1, <2>2 DEF OnceInv, In, Done, Busy
<1>6. ASSUME NEW t \in Tweets, Enqueue(t) PROVE OnceInv'
  BY <1>2, <1>6 DEF Enqueue, history
<1>7. ASSUME NEW w \in Workers, Work(w) PROVE OnceInv'
  <2>1. CASE Take(w)
    BY <1>1, <2>1, OnceTake
  <2>2. CASE GetFollowerIDs(w)
    BY <1>1, <2>2, OnceGet
  <2>3. CASE EndOfPage(w)
    BY <1>1, <2>3, OnceEndOfPage
  <2>4. CASE PipelineFails(w)
    <3>1. /\ Busy(w) /\ {} \in SUBSET Users /\ {} \subseteq job[w].left
          /\ job' = [job EXCEPT ![w].left = {}] /\ UNCHANGED <<lists, resent>>
      BY <2>4 DEF PipelineFails
    <3>2. QED
      BY <1>1, <3>1, OnceLeaving
  <2>5. CASE PipelineResent(w)
    <3>1. /\ Busy(w) /\ job' = [job EXCEPT ![w].left = job[w].page] /\ lists' = lists
          /\ resent' = resent \cup {job[w].tweet}
      BY <2>5 DEF PipelineResent
    <3>2. job[w].page \in SUBSET Users
      BY <1>1, <3>1, JobFields
    <3>3. QED
      BY <1>1, <3>1, <3>2, OnceLeaving
  <2>6. ASSUME NEW u \in Users, Push(w, u) PROVE OnceInv'
    BY <1>1, <2>6, OncePush
  <2>7. QED
    BY <1>7, <2>1, <2>2, <2>3, <2>4, <2>5, <2>6 DEF Work
<1>8. CASE Restart
  <2>1. UNCHANGED <<lists, resent>> /\ \A w \in Workers : ~Busy(w)'
    BY <1>8 DEF Restart, Busy
  <2>2. QED
    BY <1>1, <2>1 DEF OnceInv
<1>9. ASSUME NEW u \in Authors, Create(u) PROVE OnceInv'
  BY <1>2, <1>9 DEF Create, history
<1>10. CASE UNCHANGED vars
  BY <1>2, <1>10 DEF vars, history
<1>11. QED
  BY <1>1, <1>3, <1>4, <1>5, <1>6, <1>7, <1>8, <1>9, <1>10 DEF FanoutNext, FanoutStep

(* However followers come and go between the pages of its job, a tweet is on a *)
(* list once, unless the Redis client sent a pipeline of it again.             *)
THEOREM NotTwice == Spec => []PushedOnce
<1>1. ASSUME OnceInv PROVE PushedOnce
  <2>1. SUFFICES ASSUME NEW u \in Users, NEW t \in Tweets \ resent
                 PROVE  Cardinality(Occurrences(t, lists[u])) <= 1
    BY DEF PushedOnce
  <2>2. CASE Occurrences(t, lists[u]) = {}
    BY <2>2, FS_EmptySet
  <2>3. CASE Occurrences(t, lists[u]) # {}
    <3>1. PICK i \in Occurrences(t, lists[u]) : TRUE
      BY <2>3
    <3>2. Occurrences(t, lists[u]) = {i}
      BY <1>1, <3>1 DEF OnceInv, Occurrences
    <3>3. QED
      BY <3>2, FS_Singleton
  <2>4. QED
    BY <2>2, <2>3
<1>2. QED
  BY <1>1, TypeInit, TypeStep, PlacesInit, PlacesStep, OnceStep, PTL DEF Spec

-----------------------------------------------------------------------------
(* Jobs go one way.  A page lies ahead of the cursor, so that its last follower *)
(* is a cursor further on.                                                     *)

LEMMA AdvanceGet ==
  ASSUME TypeOK, NEW w \in Workers, GetFollowerIDs(w)
  PROVE  Advances(w)
<1>1. Busy(w) /\ job[w].page = {}
  BY DEF GetFollowerIDs
<1>2. CASE Return(w)
  BY <1>2, Idling DEF Idle, Busy, Advances
<1>3. CASE ~Return(w)
  <2>1. PICK db \in Readable :
          LET ids == Page(db, author[job[w].tweet], job[w].after) IN
            ids # {} /\ job' = [job EXCEPT ![w].page = ids, ![w].left = ids]
    BY <1>3 DEF GetFollowerIDs, Finish
  <2> DEFINE ids == Page(db, author[job[w].tweet], job[w].after)
  <2>2. ids \in SUBSET Users
    BY DEF Page, After
  <2>3. ids # {} /\ job' = [job EXCEPT ![w].page = ids, ![w].left = ids]
    BY <2>1
  <2> HIDE DEF ids
  <2>4. Moved(w, job[w].after, ids, ids)
    BY <1>1, <2>2, <2>3, Paging
  <2>5. QED
    BY <1>1, <2>3, <2>4 DEF Moved, Advances
<1>4. QED
  BY <1>2, <1>3

LEMMA AdvanceEndOfPage ==
  ASSUME TypeOK, OnceInv, NEW w \in Workers, EndOfPage(w)
  PROVE  Advances(w)
<1>1. Busy(w) /\ job[w].page # {} /\ job[w].page \in SUBSET Users
  BY JobFields DEF EndOfPage
<1>2. CASE Return(w)
  BY <1>2, Idling DEF Idle, Busy, Advances
<1>3. CASE ~Return(w)
  <2> DEFINE last == Last(job[w].page, job[w].after)
  <2>1. job' = [job EXCEPT ![w].page = {}, ![w].after = last]
    BY <1>3 DEF EndOfPage, Finish
  <2>2. last \in job[w].page
    BY <1>1, LastOfPage
  <2>3. last \in Users \cup {NoCursor} /\ last > job[w].after
    BY <1>1, <2>2 DEF OnceInv
  <2> HIDE DEF last
  <2>4. Moved(w, last, {}, job[w].left)
    BY <1>1, <2>1, <2>3, Turning
  <2>5. QED
    BY <2>3, <2>4 DEF Moved, Advances
<1>4. QED
  BY <1>2, <1>3

LEMMA AdvanceLeaving ==
  ASSUME TypeOK, NEW w \in Workers, Busy(w), NEW l \in SUBSET job[w].left, l # job[w].left,
         job' = [job EXCEPT ![w].left = l]
  PROVE  Advances(w)
<1>1. l \in SUBSET Users
  BY JobFields
<1>2. Moved(w, job[w].after, job[w].page, l)
  BY <1>1, Leaving
<1>3. QED
  BY <1>2 DEF Moved, Advances

LEMMA AdvanceWork ==
  ASSUME TypeOK, OnceInv, NEW w \in Workers, Busy(w), Work(w), resent' = resent
  PROVE  Advances(w)
<1>1. CASE GetFollowerIDs(w) \/ EndOfPage(w)
  BY <1>1, AdvanceGet, AdvanceEndOfPage
<1>2. CASE PipelineFails(w)
  <2>1. /\ {} \in SUBSET job[w].left /\ {} # job[w].left
        /\ job' = [job EXCEPT ![w].left = {}]
    BY <1>2 DEF PipelineFails
  <2>2. QED
    BY <2>1, AdvanceLeaving
<1>3. ASSUME NEW u \in Users, Push(w, u) PROVE Advances(w)
  <2>1. job[w].left \ {u} \in SUBSET job[w].left /\ job[w].left \ {u} # job[w].left
    BY <1>3 DEF Push
  <2>2. QED
    BY <1>3, <2>1, AdvanceLeaving DEF Push
<1>4. ~Take(w) /\ ~PipelineResent(w)
  BY DEF Take, PipelineResent
<1>5. QED
  BY <1>1, <1>2, <1>3, <1>4 DEF Work

LEMMA AdvanceStep ==
  ASSUME TypeOK, OnceInv, [FanoutNext]_vars, NEW w \in Workers, Busy(w), job'[w] # job[w]
  PROVE  Advances(w) \/ resent' # resent
<1>1. CASE Work(w)
  BY <1>1, AdvanceWork
<1>2. CASE Restart
  BY <1>2 DEF Restart, Busy, Advances
<1>3. ASSUME NEW v \in Workers \ {w}, Work(v) PROVE FALSE
  <2>1. CASE Take(v)
    BY <2>1, Taking DEF Taken
  <2>2. CASE ~Take(v)
    BY <1>3, <2>2, Going DEF Idle, Moved
  <2>3. QED
    BY <2>1, <2>2
<1>4. job' = job \/ Restart \/ \E v \in Workers : Work(v)
  BY DEF FanoutNext, FanoutStep, Follow, Unfollow, Expire, Enqueue, CatchUp, Create, vars
<1>5. QED
  BY <1>1, <1>2, <1>3, <1>4

(* Each step of a worker at its job brings it nearer to the end, but for a      *)
(* pipeline sent again: the cursor grows from page to page, and in a page those *)
(* left become fewer, whoever follows and unfollows the author meanwhile.       *)
THEOREM OneWay == Spec => JobsAdvance
<1>1. TypeOK /\ OnceInv /\ [FanoutNext]_vars =>
        [\A w \in Workers :
           Busy(w) /\ job'[w] # job[w] => Advances(w) \/ resent' # resent]_vars
  <2>1. SUFFICES ASSUME TypeOK, OnceInv, [FanoutNext]_vars, NEW w \in Workers,
                        Busy(w), job'[w] # job[w]
                 PROVE  Advances(w) \/ resent' # resent
    OBVIOUS
  <2>2. QED
    BY <2>1, AdvanceStep
<1>2. QED
  BY <1>1, TypeInit, TypeStep, PlacesInit, PlacesStep, OnceStep, PTL DEF Spec, JobsAdvance

-----------------------------------------------------------------------------
(* The promise.  A step of Fanout creates a tweet, pushes one that is open,     *)
(* loses a list, or at most closes tweets.                                     *)

LEMMA PromiseInit == DeliveryInit => Promise!Init
<1>1. SUFFICES ASSUME DeliveryInit PROVE Promise!Init
  OBVIOUS
<1>2. author = <<>> /\ overlap = <<>> /\ lists = [u \in Users |-> <<>>]
  BY <1>1 DEF DeliveryInit, Init
<1>3. Open = {}
  BY <1>2 DEF Open
<1>4. QED
  BY <1>2, <1>3 DEF Promise!Init

(* Nothing comes into hand again. *)
LEMMA HandShrinks ==
  ASSUME TypeOK, author' = author, posting' \subseteq posting,
         \A t : In(t, jobs') => In(t, jobs) \/ t \in posting,
         \A w \in Workers : \/ job'[w].tweet = job[w].tweet \/ job'[w] = NoJob
                            \/ In(job'[w].tweet, jobs)
  PROVE  Open' \subseteq Open
<1>1. SUFFICES ASSUME NEW t \in DOMAIN author, InHand(t)' PROVE InHand(t)
  BY DEF Open
<1>2. t # 0
  BY Known DEF Tweets
<1>3. CASE t \in posting'
  BY <1>3 DEF InHand
<1>4. CASE In(t, jobs')
  BY <1>4 DEF InHand, In
<1>5. CASE \E w \in Workers : job'[w].tweet = t
  <2>1. PICK w \in Workers : job'[w].tweet = t
    BY <1>5
  <2>2. job'[w] # NoJob
    BY <1>2, <2>1 DEF NoJob
  <2>3. QED
    BY <2>1, <2>2 DEF InHand, In
<1>6. QED
  BY <1>1, <1>3, <1>4, <1>5 DEF InHand, In

LEMMA PromiseCreate ==
  ASSUME TypeOK, NEW u \in Authors, Create(u),
         overlap' = IF author' = author THEN overlap ELSE Append(overlap, Open)
  PROVE  Promise!Create(u)
<1> PICK t : t = Len(author) + 1
  OBVIOUS
<1>1. /\ author' = Append(author, u) /\ t \in Tweets /\ author \in Seq(Users) /\ u \in Users
      /\ posting' = posting \cup {t} \/ posting' = posting
      /\ UNCHANGED <<jobs, job, lists>>
  BY FanoutAssumption DEF Create, TypeOK
<1>2. author' # author /\ t <= MaxTweets /\ t \notin DOMAIN author /\ t # 0
      /\ DOMAIN author' = DOMAIN author \cup {t}
  BY <1>1, FanoutAssumption DEF Tweets
<1>3. (\A i \in DOMAIN jobs : jobs[i] # t) /\ t \notin posting
  BY <1>2 DEF TypeOK
<1>4. \A w \in Workers : job[w].tweet # t
  BY <1>2, JobFields, NoJobFields
<1>5. \A x \in DOMAIN author : InHand(x)' <=> InHand(x)
  <2>1. TAKE x \in DOMAIN author
  <2>2. x \in posting' <=> x \in posting
    BY <1>1, <1>2
  <2>3. jobs' = jobs /\ job' = job
    BY <1>1
  <2>4. QED
    BY <2>2, <2>3, Zenon DEF InHand
<1>6. InHand(t)' <=> t \in posting'
  BY <1>1, <1>3, <1>4 DEF InHand
<1>7. Open' = Open \/ Open' = Open \cup {t}
  BY <1>2, <1>5, <1>6 DEF Open
<1>8. QED
  BY <1>1, <1>2, <1>7 DEF Promise!Create

LEMMA PromisePush ==
  ASSUME TypeOK, NEW w \in Workers, NEW u \in Users, Push(w, u), overlap' = overlap
  PROVE  \E t \in Open : Promise!Push(u, t)
<1> DEFINE t == job[w].tweet
<1>1. /\ Busy(w) /\ t \in DOMAIN author /\ UNCHANGED <<author, posting, jobs>>
      /\ lists' = [lists EXCEPT ![u] = Pushed(@, t)]
  BY JobFields DEF Push, tables, queue
<1>2. \A v \in Workers : job'[v].tweet = job[v].tweet
  <2>1. job[w].left \ {u} \in SUBSET Users /\ job' = [job EXCEPT ![w].left = job[w].left \ {u}]
    BY <1>1, JobFields DEF Push
  <2>2. QED
    BY <1>1, <2>1, Leaving DEF Moved
<1>3. t \in Open /\ Open' = Open
  BY <1>1, <1>2 DEF Open, InHand
<1>4. Promise!Push(u, t)
  BY <1>1, <1>3 DEF Promise!Push, Pushed
<1>5. QED
  BY <1>3, <1>4

LEMMA PromiseStep ==
  TypeOK /\ [DeliveryNext]_<<vars, overlap>> => [Promise!Next]_(Promise!vars)
<1>1. SUFFICES ASSUME TypeOK, [DeliveryNext]_<<vars, overlap>>
               PROVE  Promise!Next \/ UNCHANGED Promise!vars
  OBVIOUS
<1>2. CASE UNCHANGED <<vars, overlap>>
  BY <1>2 DEF vars, tables, queue, Promise!vars, Open, InHand
<1>3. ASSUME UNCHANGED <<author, lists, overlap>>, Open' \subseteq Open PROVE Promise!Next
  BY <1>3 DEF Promise!Next, Promise!Close
<1>4. CASE DeliveryNext
  <2>1. overlap' = IF author' = author THEN overlap ELSE Append(overlap, Open)
    BY <1>4 DEF DeliveryNext
  <2>2. ASSUME UNCHANGED <<author, queue, job, lists>> PROVE Promise!Next
    BY <1>3, <2>1, <2>2 DEF Open, InHand, queue
  <2>3. ASSUME NEW p \in Pairs, Follow(p) \/ Unfollow(p) PROVE Promise!Next
    BY <2>2, <2>3 DEF Follow, Unfollow
  <2>4. CASE CatchUp
    BY <2>2, <2>4 DEF CatchUp
  <2>5. ASSUME NEW u \in Users, Expire(u) PROVE Promise!Next
    <3>1. Open' = Open
      BY <2>5 DEF Expire, Open, InHand, tables, queue
    <3>2. Promise!Expire(u)
      BY <2>1, <2>5, <3>1 DEF Expire, Promise!Expire, tables
    <3>3. QED
      BY <3>2 DEF Promise!Next
  <2>6. ASSUME NEW t \in Tweets, Enqueue(t) PROVE Promise!Next
    <3>1. /\ t \in posting /\ posting' \subseteq posting /\ author' = author
          /\ jobs' = jobs \/ jobs' = Append(jobs, t)
          /\ job' = job /\ lists' = lists
      BY <2>6 DEF Enqueue, tables
    <3>2. \A x : In(x, jobs') => In(x, jobs) \/ x \in posting
      <4>1. CASE jobs' = jobs
        BY <4>1
      <4>2. CASE jobs' = Append(jobs, t)
        <5>1. \A i \in DOMAIN jobs' :
                jobs'[i] = t \/ (i \in DOMAIN jobs /\ jobs'[i] = jobs[i])
          <6>1. /\ DOMAIN jobs' = 1..Len(jobs) + 1 /\ DOMAIN jobs = 1..Len(jobs)
                /\ \A i \in DOMAIN jobs : jobs'[i] = jobs[i]
                /\ jobs'[Len(jobs) + 1] = t /\ Len(jobs) \in Nat
            BY <1>1, <4>2 DEF TypeOK
          <6>2. QED
            BY <6>1
        <5>2. QED
          BY <3>1, <5>1 DEF In
      <4>3. QED
        BY <3>1, <4>1, <4>2
    <3>3. Open' \subseteq Open
      BY <1>1, <3>1, <3>2, HandShrinks
    <3>4. QED
      BY <1>3, <2>1, <3>1, <3>3
  <2>7. ASSUME NEW w \in Workers, Take(w) PROVE Promise!Next
    <3>1. /\ Taken(w, Head(jobs)) /\ In(Head(jobs), jobs)
          /\ \A x : In(x, jobs') => In(x, jobs)
          /\ UNCHANGED <<author, posting, lists>>
      BY <1>1, <2>7, Taking DEF Take, In, tables
    <3>2. Open' \subseteq Open
      BY <1>1, <3>1, HandShrinks DEF Taken
    <3>3. QED
      BY <1>3, <2>1, <3>1, <3>2
  <2>8. ASSUME NEW w \in Workers, NEW u \in Users, Push(w, u) PROVE Promise!Next
    <3>1. overlap' = overlap
      BY <2>1, <2>8 DEF Push, tables
    <3>2. QED
      BY <1>1, <2>8, <3>1, PromisePush DEF Promise!Next
  <2>9. ASSUME NEW w \in Workers, Work(w), ~Take(w), \A u \in Users : ~Push(w, u)
        PROVE  Promise!Next
    <3>1. /\ Idle(w) \/ \E c, p, l : Moved(w, c, p, l)
          /\ UNCHANGED <<author, posting, jobs>>
      BY <1>1, <2>9, Going DEF tables, queue
    <3>2. lists' = lists
      BY <2>9 DEF Work, GetFollowerIDs, EndOfPage, PipelineFails, PipelineResent
    <3>3. Open' \subseteq Open
      BY <1>1, <3>1, HandShrinks DEF Idle, Moved
    <3>4. QED
      BY <1>3, <2>1, <3>1, <3>2, <3>3
  <2>10. CASE Restart
    <3>1. /\ posting' = {} /\ jobs' = <<>> /\ UNCHANGED <<author, lists>>
          /\ \A w \in Workers : job'[w] = NoJob
      BY <2>10 DEF Restart, tables
    <3>2. \A t : ~In(t, jobs')
      BY <3>1 DEF In
    <3>3. Open' \subseteq Open
      BY <1>1, <3>1, <3>2, HandShrinks
    <3>4. QED
      BY <1>3, <2>1, <3>1, <3>3
  <2>11. ASSUME NEW u \in Authors, Create(u) PROVE Promise!Next
    BY <1>1, <2>1, <2>11, PromiseCreate DEF Promise!Next
  <2>12. QED
    BY <1>4, <2>3, <2>4, <2>5, <2>6, <2>7, <2>8, <2>9, <2>10, <2>11
       DEF DeliveryNext, FanoutNext, FanoutStep
<1>5. QED
  BY <1>1, <1>2, <1>4

(* Fan-out, however many workers and handlers take part in it and whatever     *)
(* fails, is one of the behaviours that Delivery promises.                     *)
THEOREM Delivers == DeliverySpec => KeepsPromise
<1>1. DeliveryInit => TypeOK
  BY TypeInit DEF DeliveryInit
<1>2. TypeOK /\ [DeliveryNext]_<<vars, overlap>> => TypeOK'
  BY TypeStep DEF DeliveryNext
<1>3. DeliveryInit /\ [][DeliveryNext]_<<vars, overlap>>
        => Promise!Init /\ [][Promise!Next]_(Promise!vars)
  BY <1>1, <1>2, PromiseInit, PromiseStep, PTL
<1>4. QED
  BY <1>3 DEF DeliverySpec, KeepsPromise, Promise!Spec

-----------------------------------------------------------------------------
(* The order follows from the promise alone: what is still open was open when   *)
(* each newer tweet was created.                                               *)
OrderInv ==
  /\ overlap \in Seq(SUBSET Int) /\ Len(overlap) = Len(author)
  /\ \A t \in Open, x \in DOMAIN author : t < x => t \in overlap[x]
  /\ InOrder

LEMMA OrderInit == DeliveryInit => OrderInv
<1>1. SUFFICES ASSUME DeliveryInit PROVE OrderInv
  OBVIOUS
<1>2. author = <<>> /\ overlap = <<>> /\ \A u \in Users : lists[u] = <<>>
  BY <1>1 DEF DeliveryInit, Init
<1>3. overlap \in Seq(SUBSET Int) /\ Len(overlap) = Len(author) /\ DOMAIN author = {}
  BY <1>2
<1>4. \A u \in Users : DOMAIN lists[u] = {}
  BY <1>2
<1>5. QED
  BY <1>3, <1>4 DEF OrderInv, InOrder, Promise!InOrder

LEMMA OrderPush ==
  ASSUME TypeOK, OrderInv, NEW u \in Users, NEW t \in Open, Promise!Push(u, t)
  PROVE  OrderInv'
<1>1. /\ t \in DOMAIN author /\ lists' = [lists EXCEPT ![u] = Pushed(@, t)]
      /\ UNCHANGED <<author, Open, overlap>>
  BY DEF Promise!Push, Pushed, Open
<1>2. /\ 1 \in DOMAIN lists'[u] => lists'[u][1] = t
      /\ \A i \in DOMAIN lists'[u] :
           i # 1 => i - 1 \in DOMAIN lists[u] /\ lists'[u][i] = lists[u][i-1]
      /\ \A x \in Users \ {u} : lists'[x] = lists[x]
      /\ \A i \in DOMAIN lists'[u] : i \in Nat \ {0}
  BY <1>1, PushedIn
<1>3. \A x \in Users : \A i \in DOMAIN lists[x] : lists[x][i] \in DOMAIN author
  BY DEF TypeOK
<1>4. ASSUME NEW x \in Users, NEW i \in DOMAIN lists'[x], NEW j \in DOMAIN lists'[x],
             i < j, lists'[x][i] < lists'[x][j]
      PROVE  lists'[x][i] \in overlap[lists'[x][j]]
  <2>1. CASE x # u
    BY <1>2, <1>4, <2>1 DEF OrderInv, InOrder, Promise!InOrder
  <2>2. CASE x = u /\ i = 1
    <3>1. j # 1 /\ lists'[x][i] = t
      BY <1>2, <1>4, <2>2
    <3>2. lists'[x][j] \in DOMAIN author
      BY <1>2, <1>3, <2>2, <3>1
    <3>3. QED
      BY <1>4, <3>1, <3>2 DEF OrderInv
  <2>3. CASE x = u /\ i # 1
    <3>1. i \in Nat /\ j \in Nat /\ i - 1 < j - 1
      BY <1>2, <1>4, <2>3
    <3>2. j # 1
      BY <1>2, <1>4, <2>3
    <3>3. QED
      BY <1>2, <1>4, <2>3, <3>1, <3>2 DEF OrderInv, InOrder, Promise!InOrder
  <2>4. QED
    BY <2>1, <2>2, <2>3
<1>5. InOrder'
  BY <1>1, <1>4 DEF InOrder, Promise!InOrder
<1>6. QED
  BY <1>1, <1>5 DEF OrderInv

LEMMA OrderCreate ==
  ASSUME TypeOK, OrderInv, NEW u \in Authors, Promise!Create(u)
  PROVE  OrderInv'
<1> PICK t : t = Len(author) + 1
  OBVIOUS
<1>1. /\ author' = Append(author, u) /\ overlap' = Append(overlap, Open) /\ lists' = lists
      /\ Open' = Open \/ Open' = Open \cup {t}
  BY DEF Promise!Create
<1>2. /\ Len(author) \in Nat /\ DOMAIN author = 1..Len(author) /\ Open \subseteq DOMAIN author
      /\ u \in Users /\ author \in Seq(Users)
  BY FanoutAssumption DEF TypeOK, Open
<1>3. Open \in SUBSET Int /\ overlap \in Seq(SUBSET Int) /\ Len(overlap) = Len(author)
  BY <1>2 DEF OrderInv
<1>4. /\ overlap' \in Seq(SUBSET Int) /\ Len(overlap') = Len(author')
      /\ DOMAIN author' = 1..t /\ t \in Nat
      /\ overlap'[t] = Open /\ \A x \in DOMAIN author : overlap'[x] = overlap[x]
  BY <1>1, <1>2, <1>3
<1>5. ASSUME NEW x \in Open', NEW y \in DOMAIN author', x < y PROVE x \in overlap'[y]
  <2>1. x \in Open \/ x = t
    BY <1>1, <1>5
  <2>2. x # t
    BY <1>4, <1>5
  <2>3. CASE y = t
    BY <1>4, <2>1, <2>2, <2>3
  <2>4. CASE y # t
    <3>1. y \in DOMAIN author
      BY <1>2, <1>4, <1>5, <2>4
    <3>2. QED
      BY <1>4, <1>5, <2>1, <2>2, <3>1 DEF OrderInv
  <2>5. QED
    BY <2>3, <2>4
<1>6. \A x \in Users : \A i \in DOMAIN lists[x] : lists[x][i] \in DOMAIN author
  BY DEF TypeOK
<1>7. InOrder'
  BY <1>1, <1>4, <1>6 DEF OrderInv, InOrder, Promise!InOrder
<1>8. \A x \in Open', y \in DOMAIN author' : x < y => x \in overlap'[y]
  BY <1>5
<1>9. QED
  BY <1>4, <1>7, <1>8, Zenon DEF OrderInv

LEMMA OrderStep == TypeOK /\ OrderInv /\ [Promise!Next]_(Promise!vars) => OrderInv'
<1>1. SUFFICES ASSUME TypeOK, OrderInv, [Promise!Next]_(Promise!vars) PROVE OrderInv'
  OBVIOUS
<1>2. ASSUME NEW u \in Authors, Promise!Create(u) PROVE OrderInv'
  BY <1>1, <1>2, OrderCreate
<1>3. ASSUME NEW u \in Users, NEW t \in Open, Promise!Push(u, t) PROVE OrderInv'
  BY <1>1, <1>3, OrderPush
<1>4. ASSUME NEW u \in Users, Promise!Expire(u) PROVE OrderInv'
  <2>1. /\ UNCHANGED <<author, Open, overlap>>
        /\ \A x \in Users : lists'[x] = lists[x] \/ lists'[x] = <<>>
    BY <1>1, <1>4 DEF Promise!Expire, TypeOK
  <2>2. \A x \in Users : \A i \in DOMAIN lists'[x] : lists'[x] = lists[x]
    BY <2>1
  <2>3. InOrder'
    BY <1>1, <2>1, <2>2 DEF OrderInv, InOrder, Promise!InOrder
  <2>4. QED
    BY <1>1, <2>1, <2>3 DEF OrderInv
<1>5. CASE Promise!Close \/ UNCHANGED Promise!vars
  <2>1. UNCHANGED <<author, lists, overlap>> /\ Open' \subseteq Open
    BY <1>5 DEF Promise!Close, Promise!vars
  <2>2. InOrder'
    BY <1>1, <2>1 DEF OrderInv, InOrder, Promise!InOrder
  <2>3. QED
    BY <1>1, <2>1, <2>2 DEF OrderInv
<1>6. QED
  BY <1>1, <1>2, <1>3, <1>4, <1>5 DEF Promise!Next

(* A list is newest first but for tweets whose fan-outs overlapped: an older   *)
(* tweet is above a newer one only if it was still on its way at the creation  *)
(* of the newer one.                                                           *)
THEOREM Ordered == DeliverySpec => []InOrder
<1>1. DeliveryInit => TypeOK /\ OrderInv
  BY TypeInit, OrderInit DEF DeliveryInit
<1>2. TypeOK /\ [DeliveryNext]_<<vars, overlap>> => TypeOK'
  BY TypeStep DEF DeliveryNext
<1>3. OrderInv => InOrder
  BY DEF OrderInv
<1>4. QED
  BY <1>1, <1>2, <1>3, PromiseStep, OrderStep, PTL DEF DeliverySpec
=============================================================================
