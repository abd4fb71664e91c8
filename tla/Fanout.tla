------------------------------- MODULE Fanout -------------------------------
(* Fan-out on write.  CreateTweet stores a tweet and hands it to the channel  *)
(* of the FanoutWorker; its goroutines page through the author's followers    *)
(* and push the tweet onto each follower's list in Redis.  Meanwhile users    *)
(* follow and unfollow, tweets are deleted, and the database a page is read   *)
(* from may lag.                                                              *)
EXTENDS Integers, Sequences, FiniteSets

CONSTANTS
  Users,       \* user ids, numbered in the order Postgres compares them
  Authors,     \* the users who tweet
  Pairs,       \* who may follow whom: pairs <<follower, followee>>
  Loyal,       \* bound: those of them that are never unfollowed
  MaxTweets,   \* bound: tweets created
  Workers,     \* goroutines of the pool
  BufferSize,  \* FanoutChanBuffer
  PageSize,    \* fanoutPageSize
  MaxLen,      \* timelineMaxLen
  UseRedis,    \* USE_REDIS
  Faults       \* what may go wrong, a subset of FaultKinds

(* "db", "redis": a call fails; "retry": the Redis client sends a pipeline    *)
(* again; "expire": a list is gone by its TTL, by eviction or with Redis;     *)
(* "lag": a replica is behind; "restart": the tweet service starts anew.      *)
FaultKinds == {"db", "redis", "retry", "expire", "lag", "restart"}

ASSUME FanoutAssumption ==
  /\ Users \subseteq Nat /\ IsFiniteSet(Users)
  /\ Authors \subseteq Users
  /\ Pairs \subseteq {p \in Users \X Users : p[1] # p[2]}
  /\ Loyal \subseteq Pairs
  /\ MaxTweets \in Nat /\ BufferSize \in Nat
  /\ PageSize \in Nat \ {0} /\ MaxLen \in Nat \ {0}
  /\ UseRedis \in BOOLEAN
  /\ Faults \subseteq FaultKinds

VARIABLES
  author,   \* who wrote tweet 1, 2, ...: tweets are numbered by created_at
  follows,  \* table follows
  replica,  \* what the replica has of it
  posting,  \* tweets stored whose CreateTweet has yet to call Enqueue
  jobs,     \* fw.jobs
  job,      \* per worker: the job it is at
  lists,    \* Redis: timeline:<user>
  steady,   \* history, per job: who has followed its author since it was taken
  served,   \* history, per job: for whom it has sent commands
  missed,   \* history: steady followers a job that came to its end left out
  resent    \* history: the tweets of which a pipeline was sent again

tables  == <<author, follows, replica>>
queue   == <<posting, jobs>>
history == <<steady, served, missed, resent>>
vars    == <<tables, queue, job, lists, history>>

Tweets == 1..MaxTweets
NoJob == [tweet |-> 0]
NoCursor == -1

(* The states of the table that Reader() may lead to. *)
Readable == {follows} \cup IF "lag" \in Faults THEN {replica} ELSE {}

(* Operators that end in "Mutant" are slips with which a property must fail.  *)

(* SELECT follower_id ... WHERE followee_id = $1 AND follower_id > $2         *)
(* ORDER BY follower_id LIMIT $3                                              *)
After(db, a, cursor) == {u \in Users : <<u, a>> \in db /\ u > cursor}
PageMutant(db, a, cursor) ==
  {u \in After(db, a, cursor) :
     Cardinality({v \in After(db, a, cursor) : v > u}) < PageSize}
Page(db, a, cursor) ==
  {u \in After(db, a, cursor) :
     Cardinality({v \in After(db, a, cursor) : v < u}) < PageSize}

(* ids[len(ids)-1] *)
LastMutant(page, cursor) == cursor
Last(page, cursor) == CHOOSE u \in page : \A v \in page : v <= u

(* LPUSH, then LTRIM 0 timelineMaxLen-1. *)
PushedMutant(list, t) == <<t>> \o list
PushedMutant2(list, t) == Append(IF Len(list) < MaxLen THEN list ELSE Tail(list), t)
PushedMutant3(list, t) ==
  <<t>> \o SubSeq(list, 1, IF Len(list) < MaxLen THEN Len(list) ELSE MaxLen)
Pushed(list, t) == SubSeq(<<t>> \o list, 1, IF Len(list) < MaxLen THEN Len(list) + 1 ELSE MaxLen)

(* Followers of a wherever they are read from. *)
Followers(a) == {u \in Users : \A db \in Readable : <<u, a>> \in db}

Init ==
  /\ author = <<>>
  /\ follows \in {F \in SUBSET Pairs : Loyal \subseteq F} /\ replica = follows
  /\ posting = {} /\ jobs = <<>>
  /\ job = [w \in Workers |-> NoJob]
  /\ lists = [u \in Users |-> <<>>]
  /\ steady = [w \in Workers |-> {}] /\ served = [w \in Workers |-> {}]
  /\ missed = {} /\ resent = {}

-----------------------------------------------------------------------------
(* The API.  Follow and Unfollow are one step each (see FollowGraph).         *)

(* A job's steady followers, after a change of what is read.                  *)
KeepSteady ==
  /\ steady' = [w \in Workers |->
                  IF job[w] = NoJob THEN {}
                  ELSE steady[w] \cap Followers(author[job[w].tweet])']
  /\ UNCHANGED <<served, missed, resent>>

Follow(p) ==
  /\ follows' = follows \cup {p}
  /\ UNCHANGED <<author, replica, queue, job, lists, history>>

Unfollow(p) ==
  /\ p \notin Loyal
  /\ follows' = follows \ {p}
  /\ UNCHANGED <<author, replica, queue, job, lists>>
  /\ KeepSteady

(* Replication: any state of the primary may be the next the replica shows.   *)
CatchUp ==
  /\ "lag" \in Faults
  /\ replica' = follows
  /\ UNCHANGED <<author, follows, queue, job, lists>>
  /\ KeepSteady

(* CreateTweet: the INSERT, whose answer may get lost. *)
Create(u) ==
  LET t == Len(author) + 1 IN
  /\ t \in Tweets
  /\ author' = Append(author, u)
  /\ \/ posting' = IF UseRedis THEN posting \cup {t} ELSE posting
     \/ "db" \in Faults /\ UNCHANGED posting
  /\ UNCHANGED <<follows, replica, jobs, job, lists, history>>

(* A full channel drops the job. *)
Enqueue(t) ==
  /\ t \in posting
  /\ posting' = posting \ {t}
  /\ jobs' = IF Len(jobs) < BufferSize THEN Append(jobs, t) ELSE jobs
  /\ UNCHANGED <<tables, job, lists, history>>

-----------------------------------------------------------------------------
(* A worker. *)

Busy(w) == job[w] # NoJob

Take(w) ==
  LET t == Head(jobs) IN
  /\ ~Busy(w) /\ jobs # <<>>
  /\ jobs' = Tail(jobs)
  /\ job' = [job EXCEPT ![w] = [tweet |-> t, after |-> NoCursor, page |-> {}, left |-> {}]]
  /\ steady' = [steady EXCEPT ![w] = Followers(author[t])]
  /\ UNCHANGED <<tables, posting, lists, served, missed, resent>>

(* fanout returns. *)
Return(w) ==
  /\ job' = [job EXCEPT ![w] = NoJob]
  /\ steady' = [steady EXCEPT ![w] = {}]
  /\ served' = [served EXCEPT ![w] = {}]

(* ... with no error: it has been through all pages. *)
Finish(w) == Return(w) /\ missed' = missed \cup (steady[w] \ served[w])

(* GetFollowerIDs; no followers or an error ends the job. *)
GetFollowerIDs(w) ==
  /\ Busy(w) /\ job[w].page = {}
  /\ \/ \E db \in Readable :
          LET ids == Page(db, author[job[w].tweet], job[w].after) IN
            \/ ids = {} /\ Finish(w)
            \/ /\ ids # {}
               /\ job' = [job EXCEPT ![w].page = ids, ![w].left = ids]
               /\ UNCHANGED <<steady, served, missed>>
     \/ "db" \in Faults /\ Return(w) /\ UNCHANGED missed
  /\ UNCHANGED <<tables, queue, lists, resent>>

(* Redis runs the commands for one follower of the page. *)
Push(w, u) ==
  /\ Busy(w) /\ u \in job[w].left
  /\ lists' = [lists EXCEPT ![u] = Pushed(@, job[w].tweet)]
  /\ job' = [job EXCEPT ![w].left = @ \ {u}]
  /\ served' = [served EXCEPT ![w] = @ \cup {u}]
  /\ UNCHANGED <<tables, queue, steady, missed, resent>>

(* Exec fails: logged, and the rest of the page is never pushed. *)
PipelineFails(w) ==
  /\ "redis" \in Faults
  /\ Busy(w) /\ job[w].left # {}
  /\ job' = [job EXCEPT ![w].left = {}]
  /\ served' = [served EXCEPT ![w] = @ \cup job[w].left]
  /\ UNCHANGED <<tables, queue, lists, steady, missed, resent>>

(* The Redis client answers a broken connection by sending all of it again.   *)
(* Bound: once per tweet.                                                     *)
PipelineResent(w) ==
  /\ "retry" \in Faults
  /\ Busy(w) /\ job[w].left # job[w].page /\ job[w].tweet \notin resent
  /\ job' = [job EXCEPT ![w].left = job[w].page]
  /\ resent' = resent \cup {job[w].tweet}
  /\ UNCHANGED <<tables, queue, lists, steady, served, missed>>

(* A short page was the last one. *)
EndOfPage(w) ==
  /\ Busy(w) /\ job[w].page # {} /\ job[w].left = {}
  /\ \/ Cardinality(job[w].page) < PageSize /\ Finish(w)
     \/ /\ Cardinality(job[w].page) >= PageSize
        /\ job' = [job EXCEPT ![w].page = {},
                              ![w].after = Last(job[w].page, job[w].after)]
        /\ UNCHANGED <<steady, served, missed>>
  /\ UNCHANGED <<tables, queue, lists, resent>>

Expire(u) ==
  /\ "expire" \in Faults
  /\ lists' = [lists EXCEPT ![u] = <<>>]
  /\ UNCHANGED <<tables, queue, job, history>>

(* Shutdown cancels the workers; a crash ends the handlers too.  What was in  *)
(* the channel is gone.                                                       *)
Restart ==
  /\ "restart" \in Faults
  /\ posting' = {} /\ jobs' = <<>>
  /\ job' = [w \in Workers |-> NoJob]
  /\ steady' = [w \in Workers |-> {}] /\ served' = [w \in Workers |-> {}]
  /\ UNCHANGED <<tables, lists, missed, resent>>

Work(w) ==
  \/ Take(w) \/ GetFollowerIDs(w) \/ EndOfPage(w)
  \/ PipelineFails(w) \/ PipelineResent(w) \/ \E u \in Users : Push(w, u)

(* All steps but those that concern the table tweets as well. *)
FanoutStep ==
  \/ \E p \in Pairs : Follow(p) \/ Unfollow(p)
  \/ \E u \in Users : Expire(u)
  \/ \E t \in Tweets : Enqueue(t)
  \/ \E w \in Workers : Work(w)
  \/ Restart

FanoutNext == FanoutStep \/ CatchUp \/ \E u \in Authors : Create(u)

Spec == Init /\ [][FanoutNext]_vars

(* Goroutines run: the workers', and those net/http gives each CreateTweet.   *)
Fairness ==
  /\ \A w \in Workers : WF_vars(Work(w))
  /\ \A t \in Tweets : WF_vars(Enqueue(t))

-----------------------------------------------------------------------------
(* Properties. *)

Jobs == [tweet : Tweets, after : Users \cup {NoCursor}, page : SUBSET Users,
         left : SUBSET Users]

TypeOK ==
  /\ author \in Seq(Users) /\ Len(author) <= MaxTweets
  /\ follows \subseteq Pairs /\ replica \subseteq Pairs
  /\ posting \subseteq DOMAIN author
  /\ jobs \in Seq(DOMAIN author) /\ Len(jobs) <= BufferSize
  /\ job \in [Workers -> Jobs \cup {NoJob}]
  /\ \A w \in Workers :
       Busy(w) => job[w].left \subseteq job[w].page /\ job[w].tweet \in DOMAIN author
  /\ lists \in [Users -> Seq(DOMAIN author)]
  /\ \A u \in Users : Len(lists[u]) <= MaxLen
  /\ steady \in [Workers -> SUBSET Users] /\ served \in [Workers -> SUBSET Users]
  /\ missed \subseteq Users /\ resent \subseteq DOMAIN author

Occurrences(t, list) == {i \in DOMAIN list : list[i] = t}

(* However followers come and go between its pages, a tweet is pushed onto a  *)
(* user's list once, unless the Redis client sent a pipeline of it again.     *)
PushedOnce ==
  \A u \in Users, t \in Tweets \ resent : Cardinality(Occurrences(t, lists[u])) <= 1

(* A job that has gone through all its pages has left out nobody who followed *)
(* the author from its start to its end, whoever else came or went and        *)
(* wherever each page was read.                                               *)
SteadyFollowersServed == missed = {}

(* w is through with its job, its page or some of its page, or has got a page.  *)
Advances(w) ==
  \/ ~Busy(w)'
  \/ job'[w].after > job[w].after
  \/ /\ job'[w].after = job[w].after
     /\ \/ job[w].page = {} /\ job'[w].page # {}
        \/ /\ job'[w].page = job[w].page
           /\ job'[w].left \subseteq job[w].left /\ job'[w].left # job[w].left

(* Whoever comes and goes among the followers and wherever a page is read, a   *)
(* worker's steps go one way only, in an order that comes to an end: nobody is *)
(* paged twice.  The one step back is a pipeline that is sent again.           *)
JobsAdvance ==
  [][\A w \in Workers :
       Busy(w) /\ job'[w] # job[w] => Advances(w) \/ resent' # resent]_vars

(* t waits for Enqueue, waits in the channel or is a worker's job.             *)
InHand(t) == t \in posting \/ (\E i \in DOMAIN jobs : jobs[i] = t)
               \/ \E w \in Workers : job[w].tweet = t

(* Paging comes to an end: every tweet handed over is done with some day.     *)
JobsEnd == \A t \in Tweets : InHand(t) ~> ~InHand(t)
=============================================================================
