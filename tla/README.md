# mini-twitter in TLA+

Specifications of the parts of mini-twitter whose behaviour depends on
concurrency and failure, configurations that model-check them with TLC, and
theorems about them that TLAPS proves. Source paths are relative to the
repository, TLA+ files to this directory.

    tlc -workers 2 -config likes_faults.cfg MCLikeCounts.tla    # one run
    tlapm LikeCountsProofs.tla                                  # one proof module

## The system

Four Go processes behind nginx: a gateway (reverse proxy with a rate limiter),
the user service, the tweet service and the timeline service. They share one
Postgres primary, its read replicas and one Redis without persistence.

| Component | Source | State | Operations |
|---|---|---|---|
| like counters | `internal/tweet/service.go`, `likeaggregator.go`, `repository.go` | tables `likes`, `like_count_pending`, column `tweets.like_count`; Redis `like_count:<tweet>`; per process the channel `tracked` and the map `pending` | `LikeTweet`, `UnlikeTweet`, `TrackTweet`, the loop `run`, `flush`, `FlushPendingLikes` |
| follow graph | `internal/user/repository.go`, `service.go` | table `follows`, columns `follower_count`, `following_count` | `Follow`, `Unfollow`, `GetFollowerIDs`, `GetFolloweeIDs` |
| tweets and fan-out | `internal/tweet/service.go`, `fanout.go` | table `tweets`; Redis lists `timeline:<user>`; per process the channel `jobs` | `CreateTweet`, `DeleteTweet`, `Enqueue`, `work`, `fanout` |
| timelines | `internal/timeline/*.go` | none | `GetHomeTimeline`, `GetUserTimeline`, `enrichTweets` |
| replica pool | `pkg/db/postgres.go` | health flag per replica, round-robin counter | `Reader`, `startHealthChecker` |
| rate limiter | `internal/gateway/middleware.go` | Redis `rate:<ip>:<minute>` | `Middleware` |
| accounts, authentication | `internal/user/*.go`, `pkg/auth` | table `users` | `Register`, `Login`, `GetUser`, `UpdateMe`, JWT middleware |
| gateway proxy, configuration, logging | `internal/gateway/handler.go`, `pkg/config`, `pkg/logger`, `cmd/*` | none | routing, wiring |

How they interact. An HTTP handler is a goroutine of its own; every statement
and Redis command it sends is a step others may come between. `CreateTweet`
hands jobs to the fan-out workers through the channel `jobs`, likes reach the
aggregator through `tracked`; both channels drop what does not fit. The fan-out
reads the user service's table `follows` directly, from `Reader()`, which is the
primary or a replica that lags. The timeline service reads the lists the fan-out
writes, or the tables, and gets the tweets from the tweet service over HTTP.

What is hard, and hence what the properties are about:

- a like leaves its delta in two places, of which one is to be used and the
  other thrown away, by a goroutine that is not synchronised with the likes, by
  several instances, across failed calls, loss of Redis and restarts;
- a follow is three statements that lock rows in an order that can deadlock, on
  a pool that can be exhausted by calls that wait for each other;
- a fan-out pages through a table that changes under it, read from databases of
  different age, and pushes through a client library that repeats commands;
- the health flags of the replicas are set by one goroutine and read by all
  others without a lock, while replicas fail and recover;
- a page of a timeline is three reads of different age; the next page starts
  from a cursor;
- the rate limiter reads the clock, counts and sets a TTL in three steps, through
  a client library that repeats the last two;
- a profile is read, perhaps from a replica that lags, and written afterwards,
  while other columns of the row change.

`PROJECT.json` lists these hazards one by one at the lines where they bite,
with the properties that would show them.

## The modules

| Module | Models | Checked by | Proved in |
|---|---|---|---|
| `LikeCounts` | the like counters | `likes_*` | `LikeCountsProofs`, `LikeExactProofs` |
| `AtomicFollows` | what `Follow` and `Unfollow` promise: each takes effect in one step or not at all | refined by `FollowGraph` | |
| `FollowGraph` | `Follow` and `Unfollow` statement by statement | `follows_*` | `FollowGraphProofs` |
| `Fanout` | `CreateTweet`, the channel, the workers, the Redis lists | `fanout` | `FanoutProofs` |
| `Delivery` | what fan-out on write promises of the lists | refined by `FanoutDelivery` | |
| `FanoutDelivery` | extends `Fanout` by the mapping to `Delivery` | `fanout` | `FanoutProofs` |
| `HomeFeed` | extends `Fanout` by the timeline service and clients that page | `feed*` | `HomeFeedProofs` |
| `ReplicaPool` | `Reader()` and the health checker | `replicas` | `ReplicaPoolProofs` |
| `RateLimiter` | the gateway's `Middleware` | `limiter` | `RateLimiterProofs` |
| `Accounts` | registration, login and profiles | `accounts` | `AccountsProofs` |
| `MCLikeCounts`, `MCFollowGraph`, `MCFanout`, `MCHomeFeed`, `MCReplicaPool`, `MCRateLimiter`, `MCAccounts` | constants for TLC | | |

An operator whose name ends in `Mutant` is never used by a specification. It is
a slip the code could have; put in the place of the operator it is named after,
it makes one of the properties fail.

### LikeCounts

The value of a counter does not tell where it came from, so a delta is a
*request*: `counter` is the set of requests summed up in the Redis keys, `rows`
those that have a row in `like_count_pending`, and the number in a key or in
`SUM(delta)` is `Net` of the set (likes minus unlikes). `like_count` stays a
number. Two history variables, `byRedis` and, per instance, `byRow`, count how often a
request's delta has been added to `like_count` from either place.

`InsertLike`/`DeleteLike`, then `IncrLikeCount` (strong mode) or `RedisIncr`,
`InsertLikePending`, `TrackTweet` (eventual mode) are the calls of one request in
the order of the code. A database call may fail with or without having taken
effect; failures after the `likes` table are only logged, so the request goes on.
The aggregator of an instance is `Receive` and `FlushStart` (the two cases of its
`select`) and, inside `flush`, `GetDel`, `ApplyCounter`, `CleanPending` for a key
with a delta, or `SelectSums`, `DeleteRows`, `ApplySum`, `FallbackReturn` for the
fallback, after which `flush` returns whatever tweets are left. `before` is the
set of rows with `created_at < flushTime`; a row whose INSERT is under way when
the flush starts may fall on either side. The branch at `likeaggregator.go:102-105`
is unreachable, since go-redis returns 0 with every error and 0 takes the
fallback; the model has it so.

Several instances may run, each with its own `CONSISTENCY_MODE`; every one of them
has an aggregator, and those in eventual mode share the keys and the pending table.

### FollowGraph and AtomicFollows

A transaction's position `pc` says which locks it holds: the index entry of the
pair once it has inserted or deleted it, the row of a user once it has updated
it. `Blockers(r)` are the transactions r waits for at READ COMMITTED;
`Deadlocked(r)` is a cycle of waiters, and Postgres fails one of them
(`DeadlockVictim`). `Begin` needs a connection of the pool. `UpdateFollowing` and
`UpdateFollowers` compute from the last committed value; `Commit` makes all
three writes visible; `Rollback` is the deferred one.

`AtomicFollows` is what a caller sees: a call takes effect in one step or not at
all, "ok" means that it has (or that the pair was already as wanted at some time
during the call), an error leaves it open. `AddAgain` is there because the code
counts a repeated follow again. The refinement maps the tables to the tables and
`pc` to the answer. `held` and `repeats` are history variables: which calls had
their pair in the table at some time, which committed follows found theirs there.

### Fanout

Tweets are numbered in the order of `created_at`. `Create` and `Enqueue` are the
two steps of `CreateTweet`. A worker takes a job, reads a page of followers
(`GetFollowerIDs`, `follower_id > cursor ORDER BY follower_id LIMIT n`, from any
readable state of the table), pushes it follower by follower as Redis executes
the pipeline (`Push` is LPUSH and LTRIM of one list), and goes on (`EndOfPage`).
`PipelineFails` is an `Exec` that is only logged; `PipelineResent` is go-redis
sending a pipeline again after a broken connection. `Expire` is the TTL, eviction
or loss of a list. `Follow` and `Unfollow` are one step here, which is what
`FollowGraph` is proved to implement.

### Delivery and FanoutDelivery

`Delivery` says of the lists what does not depend on how the fan-out is done: a
tweet is *open* from its creation until its fan-out is over, it is put in front
of lists only while it is open, and what is pushed off the end of a list is its
oldest push. It says nothing of channels, workers, pages or pipelines, and
allows a fan-out that serves nobody (a full channel). `overlap` records which
tweets were open when a tweet was created; `InOrder` is a consequence.
`FanoutDelivery` maps `open` to the tweets that wait for `Enqueue`, are in the
channel or are some worker's job.

### HomeFeed

A session is a client that asks for page after page of one timeline with the
`created_at` of the last tweet it got as the cursor. `Hit`, `Miss`,
`GetFolloweeIDs`, `GetTimelineFromDB` and `EnrichTweets` are the calls of the
timeline service; each reads the primary or the replica. `Miss` covers an empty
or absent list, an error of Redis and `USE_REDIS=false`, which all take the same
three reads. `due` is a history variable: the tweets that have been in the
timeline, wherever it is read, ever since the session began. `followed`, another
one, are the pairs that have ever been in `follows`.

### ReplicaPool

`Call` is the atomic increment of the round-robin counter at the start of
`Reader()`, `Probe` the load of one flag in its loop, which ends with a replica
flagged healthy or, after the last, with the primary. The health checker waits
for its ticker (`Tick`), pings the replica it is at (`Ping`) and sets its flag
(`Mark`), then goes on with the next. `Change` makes a replica answer pings or
stop answering, at any time, also between `Ping` and `Mark`. History variables:
`fit` and `unfit` are the replicas flagged healthy and unhealthy at some time
during a reader's call, `settled` tells how much of a round of pings has gone by
since a replica changed. The counter is kept modulo `N`: the wrap of a 64-bit
counter, at which the round-robin makes one jump, is not modelled, nor are the
pings that fail because `Close()` has cancelled the context.

### RateLimiter

A request reads the clock (`Arrive`), sends INCR and EXPIRE in one pipeline
(`Incr`, `Expire`), and is let through or refused by its count (`Answer`). A
pipeline is no transaction: other requests and the clock come between the
commands, and the connection may break before, between or after them (`BreakOff`,
`Break`); go-redis then sends the whole pipeline again, up to `MaxResends` times,
or the request is let through uncounted ("open"). `Tick` moves the clock and
expires keys, `Lose` is eviction or a restart of Redis. `counted` is the history
of whom a key counts; `late` are the requests whose INCR ran more than `Slack`
after the minute they had read, when their key may have expired already; `lost`
are the keys Redis lost.

### Accounts

`users` is the table on the primary, `replica` what a replica shows; a row's id
is the request that inserted it. `InsertUser` is `Register`: hashing the
password, which bcrypt refuses to do with one that is too long (`Hashable`), and the
INSERT with its UNIQUE columns, `QueryOne` the SELECT of `Login`, `GetUser` and `UpdateMe` in any
database of `Views`, `Update` the UPDATE of `UpdateMe`. `loaded` is the row that
`UpdateMe` read, and `Follow` and `Unfollow`, which `FollowGraph` is proved to
run as if in one step, change the row between the read and the write. `tokens`
are the users for whom a token has been signed; `Authenticated` is the JWT
middleware. Histories: `counted` is what the follows alone make of a counter,
`stored` the calls whose profile was written, `before` which calls had been
answered when a call was made, `visible` the calls whose user all databases
showed from the start, `failed` the calls of which a statement failed.

## The runs

| Run | Checks | Distinct states | Bounds |
|---|---|---|---|
| `likes_faults` | `TypeOK`, `CounterAppliedOnce`, `RowAppliedOnce`, `NoOrphans`, `CountExplained` | 349,792 | 2 requests, 2 tweets (one deletable), a strong and an eventual instance, channel of 1, all faults |
| `likes_counted` | `CountExact`, `RowAppliedPerAggregator`, `LikeIsCounted` (liveness) | 130,645 | 3 likes of 1 tweet, a strong and two eventual instances, no faults |
| `likes_skipped` | `LikeIsCounted` is violated | | 3 likes, 2 tweets, no faults |
| `likes_rows` | `RowAppliedOnce` is violated | | 3 likes of 1 tweet, two eventual instances, no faults |
| `follows_atomic` | `TypeOK`, `CountsDrift`, `NeverStuck`, `AtomicSpec` (refinement), `CallsAnswered` (liveness) | 136,155 | 3 calls of 2 users and an unknown id, 2 connections, aborts and lost answers |
| `follows_repeated` | `FollowIdempotent` is violated | | 2 calls, no faults |
| `fanout` | `TypeOK`, `PushedOnce`, `SteadyFollowersServed`, `InOrder`, `JobsAdvance` (of steps), `KeepsPromise` (refinement), `JobsEnd` (liveness) | 450,496 | 3 followers (two of them loyal) in pages of 2, 2 tweets, 2 workers, lists of 2, all faults |
| `feed` | `FeedTypeOK`, `OnlyTiesSkipped`, `NoStrangers` | 3,350,294 | 3 tweets (two with the same `created_at`, one deletable) in pages of 1, 1 session on a home or user timeline, failed calls, lag, expiry |
| `replicas` | `TypeOK`, `ReaderJustified`, `FlagsOneRoundBehind`, `FlagsFollow` (liveness) | 1,174,988 | 3 replicas that change at any time, 1 reader |
| `feed_gaps` | `StoredPagesHaveNoGaps` is violated | | 2 tweets with the same `created_at` in pages of 1, no Redis, no faults |
| `limiter` | `TypeOK`, `AtMostRpm`, `RefusedJustified`, `KeysAutoClean` | 3,263,191 | 3 requests of 2 clients, 1 a minute let through, 2 minutes of 2 ticks, 1 resent pipeline each, all faults |
| `accounts` | `TypeOK`, `CountersKept`, `OneOwner`, `ProfileWhole`, `UpdatesKept`, `ErrorsJustified` | 533,043 | 3 calls on 2 names, emails and texts, 2 passwords and one that bcrypt refuses, 1 follower, failed statements, lag |

Why these bounds are enough to be interesting. Double application of a delta
takes two requests (one leaves something behind that a flush for the other
finds), two tweets (the fallback handles all of them) and a restart or failure
between two steps of a flush. Two users who follow each other are enough for a
deadlock; a third call makes the pool, smaller than the calls, matter. Three
followers in pages of two give a full page, a short one and, when one leaves, a
full last page followed by an empty one. Three tweets in pages of one give a
first, a middle and a last page, with a deletion in the middle; as the first two have
the same `created_at`, the page of the second ends between them. Two aggregators that
share the pending table suffice for both to read a row before either deletes it:
`likes_rows` ends where both have applied it, and `likes_counted`, with a strong
instance beside them, goes through such states. Three replicas
give a round a first, a middle and a last one; readers do not influence each
other but through the counter, whose every value a single reader reaches. Two
workers are enough for two fan-outs to overlap, which is when lists get out of
order. Two requests of one client pass a limit of one; the third belongs to
another client or another minute. A tick of half a minute, with no slack in the
TTL, lets a key expire while a request counted in it is still under way, and a
request be late; more ticks only move the same cases. Three calls are a
registration and two updates of the user that overlap, or two registrations and
a login.

What the passing runs say:

- `CounterAppliedOnce`, `RowAppliedOnce`: no failure or crash makes a delta count twice
  out of the same place. For Redis keys this holds with any number of instances
  (GETDEL), for the pending table with one eventual instance.
- `RowAppliedPerAggregator`: with several, each may sum up a row before one of them
  deletes it, but none adds it twice: an instance starts its next flush only after it
  has deleted, or somebody else has, what it applied in the last.
- `CountExplained`: whatever goes wrong, `like_count` stays a sum of whole calls. A strong
  call that was answered is in it once, one that failed or whose process died is in
  it or not, a delta out of Redis is in it at most once, one out of the pending table as
  often as `RowAppliedPerAggregator` allows. What a loss of Redis or a crash takes away
  are so the deltas of some calls as a whole.
- `NoOrphans`: nothing refers to a deleted tweet.
- `CountExact`: without faults, what is in `like_count` and on its way out of
  Redis is every call made, plus what the fallbacks applied from the pending table.
  What is counted too often (see `likes_rows`) is hence counted by the fallback, also
  with several instances. It does not speak of rows deleted unused, which
  `LikeIsCounted` is about, and the run issues likes only: that a like and an unlike
  cancel in a key is in `CountExplained`, and in the theorem. The run has one tweet, since `LikeIsCounted` needs that, and
  no deletion; with any number of tweets, deletable or not, it is a theorem.
- `LikeIsCounted`: with one tweet an answered like is counted in the end.
- `CountsDrift`: the counters drift from the rows by repeated follows, and by
  nothing else; `GREATEST` never acts.
- `AtomicSpec`: nobody sees a follow half done.
- `NeverStuck`: a call waits for a row, for an index entry or for a connection, and those
  who have what it waits for may wait themselves; but never do all of them at once,
  unless Postgres has a deadlock to break.
- `CallsAnswered`: neither deadlocks nor the pool leave a call without answer.
- `SteadyFollowersServed`: keyset paging leaves out nobody who stays, although
  pages come from databases of different age. A follower whose pipeline failed
  counts as served (`fanout.go:111` only logs it).
- `PushedOnce`: nobody's list gets a tweet twice unless a pipeline was resent.
- `JobsEnd`: the paging loop ends, also after a full last page.
- `JobsAdvance`: why it does: whoever follows or leaves and whichever database a page
  comes from, each step of a worker ends its job, moves its cursor up, reads the
  page behind it or makes what is left of a page smaller. Only a pipeline that is sent
  again goes back, within its page.
- `KeepsPromise`: whatever the channel, the workers and Redis do, a list changes
  only in ways that `Delivery` allows: no push before the tweet is stored or
  after its fan-out is over, and the cut takes the oldest push.
- `InOrder`: an older tweet is above a newer one only if it was still waiting or
  being pushed when the newer one was created. With several workers such lists
  do occur, and the timeline shows them so.
- `OnlyTiesSkipped`: pages read from the database leave out nothing that was there all
  along but tweets with the `created_at` of one that was shown. It is what is left of
  `StoredPagesHaveNoGaps` (see `feed_gaps`).
- `NoStrangers`: a home page, out of a list that a job wrote from followers read earlier or
  out of three reads of different age, has only tweets of authors the user
  follows or has followed; a user's page only that user's. The run has one author, so
  it tells only the home pages apart; with any number of them it is a theorem.
- `ReaderJustified`: `Reader()` returns a replica that was flagged healthy while
  it ran, and the primary only if each replica was flagged unhealthy at some
  time of the call (not necessarily all at once: a replica may recover behind
  the loop).
- `FlagsOneRoundBehind`: a flag is wrong only about a replica that has changed
  since before the last complete round.
- `FlagsFollow`: a replica that stays up is used again, one that stays down is
  skipped, whatever the others do.
- `AtMostRpm`: of the requests that read the clock in the same minute no more than
  the limit are let through by their count. It does not speak of requests let
  through because Redis failed, nor of keys that Redis lost, nor of a request
  that was stuck between the clock and its INCR until the key had expired and
  found a new one. Two minutes that follow each other have a limit each, so a
  client may send twice the limit around the turn of a minute.
- `RefusedJustified`: a 429 needs more than the limit of pipelines for that very
  client and minute. A resent pipeline counts twice, so a client may be refused
  with fewer requests than the limit; the property says no more than holds.
- `KeysAutoClean`: a key without TTL counts only requests that have not been told
  a count, although INCR and EXPIRE are two commands. Should the connection
  break after INCR and every retry fail, the key of that minute stays without
  one: the "atomically" of `middleware.go:36` is more than a pipeline gives.
- `CountersKept`: a profile written from a stale row does not take follower counts
  back, because the UPDATE names two columns.
- `ProfileWhole`, `UpdatesKept`: of overlapping updates one wins as a whole, and an
  update that was answered gives way only to one that overlapped or came later.
- `OneOwner`: concurrent registrations do not share a name or an email.
- `ErrorsJustified`: what was answered with an error has a reason the caller could
  be told: also after a registration whose answer was lost, which leaves the
  user registered. A user who registered and asks a lagging replica is refused, and
  so is a registration with more than the 72 bytes that bcrypt hashes. It is about
  calls the handlers pass on: what they refuse themselves (400, 401) is left out, a text
  too long for its column is a failed statement, and signing a token with HMAC and
  a key of bytes (`pkg/auth/jwt.go`) does not fail.

Where the code does something else than its comments say (each found in a run
without any fault):

- `likes_skipped`: `flush` returns after the fallback for one tweet and `run`
  drops the others. A tweet left out keeps its delta in Redis until somebody
  likes it again, its row having been deleted by an earlier clean-up.
- `likes_rows`: SELECT and DELETE of the pending rows are two statements outside a
  transaction. Two instances that fall back at the same time both read a row
  before either deletes it, and both add it. In the trace that row belongs to a like
  whose delta the key had already given to `like_count`: the row was inserted after
  that flush began, so its clean-up left it, and the like tracked its tweet again. The
  first step to it, a row applied besides the delta in Redis, needs one instance only.
- `follows_repeated`: a repeated follow adds no row and still increments both
  counters.
- `feed_gaps`: when a page ends between two tweets with the same `created_at`, the
  next one, `created_at < cursor`, does not have the second; clients do not page "without
  gaps".

The comment of `FlushPendingLikes` ("so they are only applied once") holds for one
eventual instance: for it `RowAppliedOnce` is checked and proved, with all faults.
`RowAppliedPerAggregator` says what is left of it with several, which
`terraform/variables.tf` allows for (`ecs_count`, `enable_autoscaling`).

One more is modelled but not a run of its own: with a list in Redis `GetHomeTimeline`
does not use the cursor (`timeline/service.go:64`), so every page of the home timeline is
the first one (`Hit`). Hence nothing is claimed of gaps or order in pages out of Redis.

### Fairness

`LikeCounts!FairSpec`: weak fairness of the calls of each accepted request and
of the aggregator's steps inside `flush`, since goroutines run; of `Receive` and
of `FlushStart` each, since Go's `select` picks at random among ready cases and
the ticker keeps firing. No fairness for clients, faults, restarts or deletions.

`FollowGraph!FairSpec`: weak fairness of each call's next step; a victim of a
deadlock is found after `deadlock_timeout`. A call waiting for a connection or a
lock is not enabled, so it is promised one only if others let go for good. They
do: a request is one call, so a connection or lock given back often enough stays
free, and weak fairness suffices where endless traffic would need the first-come
order that pgxpool and Postgres keep.

`Fanout!Fairness`, part of `DeliverySpec`: weak fairness of each worker and of the `Enqueue` of each
stored tweet. Follows are not fair and may go on for ever; the loop ends
nevertheless because the cursor only grows and there are finitely many users.

`ReplicaPool!FairSpec`: weak fairness of the health checker: its goroutine runs,
its ticker fires, and every ping ends after two seconds at most (`pingCtx`). No
fairness for readers, and none for replicas, which may change for ever.

`RateLimiter` and `Accounts` have no fairness: what is said of them is safety.

## The proofs

Constants are arbitrary under the named assumptions of the modules
(`LikeAssumption`, `FollowAssumption`, `FanoutAssumption`, `HomeFeedAssumption`,
`ReplicaAssumption`, `RateAssumption`, `AccountsAssumption`), which TLC evaluates in every run.
Sets that are counted (requests, instances) are assumed to be finite, their size is not bounded.

`LikeCountsProofs` (no instance, request, tweet or capacity is bounded):

- `TypeCorrect`: `Spec => []TypeOK`, action by action; the type invariant alone
  is inductive.
- `CounterOnce`: `CounterAppliedOnce` is not inductive, because nothing in it
  says that a delta which is still in a key has not been applied. The
  strengthening says where a delta out of Redis can be: in a key, in exactly one
  instance's `hand`, or applied; and a request that has not sent its INCR is in
  none of them. GETDEL moves it from the key to one hand, `ApplyCounter` from the
  hand to `like_count`; every other step keeps or loses it.
- `RowPerAggregator`: `RowAppliedPerAggregator`, for any number of instances. A row may be
  in the `sums` of several flushes at once, so `RowInv` speaks of each instance alone:
  what it holds in `sums` it has not applied yet, and neither has it a row that is still
  in the table, since it applies its sums only after its own DELETE, which takes all of
  them out. So a row that SELECT finds is new to the instance, `ApplySum` applies
  it and lets go of it, and a row once out of the table never comes back.
- `RowOnce`: `RowAppliedOnce`, the case of one eventual instance (`OneEventual`).
- `OrphanFree`: a like or a row of tweet t exists only if t does.

`LikeExactProofs` (any number of instances in either mode):

- `Exact`: `CountExact` without faults. The strengthening (`ExactInv`) sums up every delta:
  what is in `like_count` and in the keys and hands is what the calls counted so far and
  the rows applied make. A GETDEL moves a sum from a key to a hand, which holds one
  tweet's deltas at a time (`HandInv`); `ApplyCounter` moves it to `like_count`. Several
  aggregators may apply a row, so the sum over rows is one over applications: an
  instance, a request and a number (`Applied`). It is finite as `byRow` is a number, and
  `Credit` adds one application per request summed up (`HistoryGrows`, by a bijection).
- `Explained`: `CountExplained` with all faults. What the property asserts to exist, the set S
  of the strong calls that are in `like_count`, is carried through the steps (`Explains`):
  a strong UPDATE that takes effect adds its request to S, whether or not the caller is
  told; `ApplyCounter` adds a whole hand to what came out of Redis, which `CounterInv`
  shows not to be in there yet, and `ApplySum` an application per row. Since no request leaves
  its last position, S stays valid under every restart.

`FollowGraphProofs`:

- `TypeCorrect`: `Spec => []TypeOK`, which includes that no more transactions run
  than the pool has connections (by the cardinality lemmas of the library). It
  needs `TxShape`, since `follows` has pairs of registered users only if what a
  transaction inserted was one.
- `CountsOnlyDrift`: `Spec => []CountsDrift`. The inductive invariant has, besides
  the type, the shape of a transaction (`TxShape`: its arguments name two
  different users once it has written), `KeyInv` (at most one transaction has an
  uncommitted change of a pair, and the table is as it found it), `RowInv` (at
  most one transaction has updated a user's row, and the value it wrote is still
  one step from the committed one), `DriftInv` (the property) and `HeldInv` (a
  follow that inserted nothing found its pair during the call). `RowInv` is what
  makes the counters right: without the row lock two updates would start from the
  same value.
- `NobodyStuck`: `Spec => []NeverStuck`, from the type invariant and a fact about waiting: in
  a finite set of transactions each of which waits for another one of the set, a smallest
  subset with that property is a cycle that Postgres detects (`WaitersDeadlock`). So if
  every open transaction waits, one is a victim; if none is open, the pool has room.
- `Refinement`: `Spec => AtomicSpec`. Each action maps to a step of
  `AtomicFollows` or to a stutter; only `Commit` changes the tables, and `HeldInv`
  justifies `AddAgain`.

`ReplicaPoolProofs` (any number of replicas and readers):

- `TypeCorrect`: `Spec => []TypeOK`; every index is one of a replica.
- `FlagsCurrent`: `Spec => []FlagsOneRoundBehind`. The property says nothing of a
  round that is under way; `FlagInv` adds that in it the flags of the replicas
  already passed are right, and so is a ping's result that is not stored yet,
  unless the replica has changed since.
- `ReaderCorrect`: `Spec => []ReaderJustified`. `ReaderInv` adds that during a call
  each flag is in `fit` or `unfit` as it stands, and that what the loop has passed
  is in `unfit`. That the loop has then passed every replica needs `Covers`:
  counting N steps from any start, modulo N, reaches every index.

`FanoutProofs` (any number of users, workers and tweets, any page size and buffer):

- `TypeCorrect`: the type invariant, inductive by itself.
- `NobodyMissed`: `SteadyFollowersServed`. `SteadyInv` says of a busy worker that the
  steady followers still follow in every readable state of the table, and that
  those up to the cursor, or on the page already pushed, are served. That a short
  page is the last one is `PageComplete`, about pages alone: a follower behind the
  cursor who is not on the page is behind its last user, and the page is full.
- `NotTwice`: `PushedOnce`. A tweet is in one place (`PlacesInv`): not yet handed
  over, in the channel once, or with one worker; and the lists that hold it are
  of users the worker has passed (`OnceInv`), unless a pipeline was resent.
- `OneWay`: `Spec => JobsAdvance`, the measure behind `JobsEnd`: that a page read after a
  full one lies behind the cursor is what makes it go up, for any page size and any
  number of users. `JobsEnd` itself is liveness and stays with TLC.
- `Delivers`: `DeliverySpec => Promise!Spec`, action by action. `Take`, `Return` and
  the other steps of a worker leave the set of open tweets or make it smaller.
- `Ordered`: `InOrder`, from the steps of `Delivery` alone and so for any fan-out
  that implements it.

`HomeFeedProofs` (any number of sessions, users and tweets, any page size):

- `FeedTypeCorrect`: `FeedSpec => []FeedTypeOK`, on top of the type of `Fanout`: each
  step of `HomeFeed` is one of `Fanout` or leaves its variables alone.
- `SkipsTiesOnly`: `FeedSpec => []OnlyTiesSkipped`, for any pattern of equal `created_at`. The
  property says nothing of a request that is under way. `GapInv` adds what each of
  its three reads leaves for the next: the authors of due tweets are among the
  followees, and what the page leaves out below the cursor is no younger than any of
  the page (`CoversDue`); and that a due tweet is in every database that may be read
  (`DueIn`), hence not lost when the page is enriched. A step that changes the tables
  keeps this, as it only makes less due.
- `NobodyForeign`: `FeedSpec => []NoStrangers`. `StrangerInv` follows the pairs from the tables
  (`TablesFollowed`) to the pages of the workers (`JobsFollowed`), to the lists
  (`ListsFollowed`) and to what a request has read so far (`RequestKnows`). It needs
  that the author of a tweet number never changes, so that a list read before a deletion
  means the same after it.

`RateLimiterProofs` (any limit, number of requests, clients, ticks and retries):

- `KeysClean`: the property is inductive once it is known that a key that is not
  there has no TTL and counts nobody, and whom a key counts (`KeyInv`).
- `Limited`: the punctual requests of a key that was not lost got different numbers,
  those let through numbers from 1 to rpm. That the next number is a new one needs
  that the key is still there as long as a punctual request may come: every
  deadline lies at or behind the end of the minute and `Slack`, since an EXPIRE is
  run no earlier than the minute began (`Lasting`).
- `RefusalsJustified`: a key's value never exceeds the pipelines that have run their
  INCR for it (`CountInv`).

`AccountsProofs` (any number of requests, names and texts): one inductive invariant
per property, over the type invariant and `OpsInv` (what call a position belongs
to). `RegisteredInv` ties rows to the calls that inserted them, so that who is refused a taken
name or email, or for another's password, is so by the call that has it, `ProfileInv`
profiles to the calls that wrote them, `ShownInv` the replica to what the primary
had.

Only model-checked: liveness (`LikeIsCounted`, `CallsAnswered`, `JobsEnd`,
`FlagsFollow`), which is outside what the prover does.

## What is abstracted

- Content, names, times of day and limits of text are left out. Ids of users are
  numbers where their order matters (paging), names elsewhere.
- In `LikeCounts` one INCR counts at most once: go-redis may send a command
  again whose answer was lost, which would count it twice.
- `flushTime` is the service's clock and `created_at` the database's; they are
  taken to agree but for the inserts under way.
- `NOW()` of an INSERT is taken to be strictly increasing, in the order in which
  tweets become visible. The constant `Ties` of `HomeFeed` gives chosen tweets the
  `created_at` of their predecessor; with it pages skip tweets, since
  `created_at < cursor` leaves out the second of two equals. The run `feed` has such a pair,
  and the theorems allow any.
- A request that arrives between the aggregator's cancellation
  (`cmd/tweet/main.go:84`) and `srv.Shutdown` is one accepted before both: it does
  not touch what the shutdown changes.
- `Fanout` has one instance of the tweet service and one replica that shows the
  primary's tables as of some earlier moment.
- A pipeline is executed follower by follower; for one follower LPUSH and LTRIM
  are one step: LRANGE reads at most the first 100 entries and never reaches the
  end of the list, which LTRIM cuts.
- The gateways' clocks agree and never go back. Ticks are halves of a minute in the
  run; the TTL of a minute and a second is `Minute + Slack`.
- `Accounts` keeps one of the two counters of a user, and no counts in answers: the
  row `UpdateMe` answers with has those of its read. A password stands for its
  hash, and those in `TooLong` do not share their first 72 bytes, all that a comparison with a
  hash looks at, with another one; tokens do not expire, requests that miss a field
  are left out.
- Every request is one call; the numbers of requests (`Requests`) and of tweets
  (`MaxTweets`, and one resent pipeline per tweet) bound all counters.

## Not modelled

The gateway's proxy, configuration, logging, deployment and scripts have no
state and no behaviour of their own. bcrypt, JWT, pgx and go-redis are libraries.
The timeline service's `CacheHomeTimeline` has no caller.

## Plan

Done, in this order: `LikeCounts` and its proofs, `AtomicFollows`, `FollowGraph`
and its proofs, `Fanout`, `HomeFeed`, `ReplicaPool` and its proofs, `RateLimiter`
and its proofs, `Accounts` and its proofs, `CountExact` for every number of
requests, `Delivery`, `FanoutDelivery`, the proofs about the fan-out and those
about `HomeFeed`; then several aggregators, counts under faults, equal `created_at`,
pages without strangers, and that nobody is stuck, each with its theorem. Next:

1. The retries of go-redis for the INCR of `LikeTweet` (`service.go:86`), with what then
   remains true of the counts.
2. Lists that start anew after they expired (`timeline/service.go:68`): what a client
   that pages is still promised.
3. What repeated likes and unlikes add to `like_count` over the rows of `likes`, as
   `CountsDrift` says it of follows.
