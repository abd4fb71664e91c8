------------------------------ MODULE HomeFeed ------------------------------
(* The timeline service on top of Fanout: home and user timelines, page by    *)
(* page, out of the Redis list or out of the database.  A session is a client *)
(* that asks for page after page, with the created_at of the last tweet of    *)
(* one page as the cursor for the next (query parameter before).              *)
EXTENDS Fanout

CONSTANTS
  Sessions,   \* clients, each paging through one timeline
  HomeUsers,  \* users who read their home timeline
  Profiles,   \* users whose own timeline is read
  Deletable,  \* tweets whose author may delete them
  Limit,      \* tweets per page, as clamped by the service
  Ties        \* tweets with the same created_at as the one before

ASSUME HomeFeedAssumption ==
  /\ HomeUsers \subseteq Users /\ Profiles \subseteq Users
  /\ Deletable \subseteq Tweets
  /\ Limit \in Nat \ {0}
  /\ Ties \subseteq Tweets

VARIABLES
  rows,         \* table tweets: those stored and not deleted
  replicaRows,  \* what the replica has of it
  feed,         \* per session: the timeline it reads
  step,         \* per session: the next call of its request
  before,       \* per session: cursor of its request
  followees,    \* per session: result of GetFolloweeIDs
  ids,          \* per session: the page, before it is enriched
  shown,        \* per session: the tweets it has got
  due,          \* history, per session: what has been in its timeline all along
  followed,     \* history: the pairs that have ever been in follows
  cached        \* history, per session: some page came out of Redis

request  == <<feed, step, before, followees, ids, shown, cached>>
allVars  == <<vars, rows, replicaRows, request, due, followed>>

NoFeed == [kind |-> "none"]
Feeds == [kind : {"home"}, user : HomeUsers] \cup [kind : {"user"}, user : Profiles]

Time(t) == t - Cardinality({x \in Ties : x <= t})
NoBefore == MaxTweets + 1

(* Operators that end in "Mutant" are slips with which a property must fail.  *)

(* What Reader() may read from: both tables, as of one moment. *)
Views ==
  {[follows |-> follows, rows |-> rows]}
    \cup IF "lag" \in Faults THEN {[follows |-> replica, rows |-> replicaRows]} ELSE {}

Followees(db, u) == {a \in Users : <<u, a>> \in db.follows}

(* WHERE user_id = ANY($1) AND created_at < $2 *)
OlderMutant(db, authors, cursor) == {t \in db.rows : Time(t) < cursor}
Older(db, authors, cursor) == {t \in db.rows : author[t] \in authors /\ Time(t) < cursor}

(* WHERE id = ANY($1) *)
GetByIDs(db, S) == S \cap db.rows

(* ORDER BY created_at DESC LIMIT n, which leaves ties open.                  *)
NewestMutant(S, n) ==
  {T \in SUBSET S :
     /\ Cardinality(T) = IF Cardinality(S) < n THEN Cardinality(S) ELSE n
     /\ \A x \in T, y \in S \ T : Time(x) <= Time(y)}
Newest(S, n) ==
  {T \in SUBSET S :
     /\ Cardinality(T) = IF Cardinality(S) < n THEN Cardinality(S) ELSE n
     /\ \A x \in T, y \in S \ T : Time(x) >= Time(y)}

(* LRANGE 0 limit-1 *)
FrontMutant(list) == {list[i] : i \in DOMAIN list}
Front(list) == {list[i] : i \in {j \in DOMAIN list : j <= Limit}}

Oldest(S) == CHOOSE c \in {Time(t) : t \in S} : \A t \in S : c <= Time(t)

(* t is in the timeline f, wherever it is read from. *)
InFeed(f, t) ==
  \A db \in Views :
    /\ t \in db.rows
    /\ \/ f.kind = "user" /\ author[t] = f.user
       \/ f.kind = "home" /\ author[t] \in Followees(db, f.user)

FeedInit ==
  /\ Init
  /\ rows = {} /\ replicaRows = {}
  /\ feed = [s \in Sessions |-> NoFeed]
  /\ step = [s \in Sessions |-> "closed"]
  /\ before = [s \in Sessions |-> NoBefore]
  /\ followees = [s \in Sessions |-> {}] /\ ids = [s \in Sessions |-> {}]
  /\ shown = [s \in Sessions |-> {}] /\ due = [s \in Sessions |-> {}]
  /\ cached = [s \in Sessions |-> FALSE]
  /\ followed = follows

-----------------------------------------------------------------------------
(* Requests of session s. *)

Goto(s, p) == step' = [step EXCEPT ![s] = p]

OpenFeed(s, f) ==
  /\ step[s] = "closed"
  /\ feed' = [feed EXCEPT ![s] = f]
  /\ due' = [due EXCEPT ![s] = {t \in rows : InFeed(f, t)}]
  /\ Goto(s, "ask")
  /\ UNCHANGED <<before, followees, ids, shown, cached>>

(* Redis has the list: its front is the page, whatever the cursor.            *)
Hit(s) ==
  /\ step[s] = "ask" /\ feed[s].kind = "home"
  /\ UseRedis /\ lists[feed[s].user] # <<>>
  /\ ids' = [ids EXCEPT ![s] = Front(lists[feed[s].user])]
  /\ cached' = [cached EXCEPT ![s] = TRUE]
  /\ Goto(s, "enrich")
  /\ UNCHANGED <<feed, before, followees, shown>>

(* Redis is not used, has no list or cannot be read; a user timeline never    *)
(* asks it.                                                                   *)
Miss(s) ==
  /\ step[s] = "ask"
  /\ \/ /\ feed[s].kind = "home"
        /\ ~UseRedis \/ lists[feed[s].user] = <<>> \/ "redis" \in Faults
        /\ Goto(s, "followees")
        /\ UNCHANGED followees
     \/ /\ feed[s].kind = "user"
        /\ followees' = [followees EXCEPT ![s] = {feed[s].user}]
        /\ Goto(s, "tweets")
  /\ UNCHANGED <<feed, before, ids, shown, cached>>

GetFolloweeIDs(s) ==
  /\ step[s] = "followees"
  /\ \E db \in Views :
       followees' = [followees EXCEPT ![s] = Followees(db, feed[s].user)]
  /\ Goto(s, "tweets")
  /\ UNCHANGED <<feed, before, ids, shown, cached>>

GetTimelineFromDB(s) ==
  /\ step[s] = "tweets"
  /\ \E db \in Views : \E page \in Newest(Older(db, followees[s], before[s]), Limit) :
       ids' = [ids EXCEPT ![s] = page]
  /\ Goto(s, "enrich")
  /\ followees' = [followees EXCEPT ![s] = {}]
  /\ UNCHANGED <<feed, before, shown, cached>>

(* POST /v1/tweets/batch: the tweets of the page that are stored.             *)
EnrichTweets(s) ==
  /\ step[s] = "enrich"
  /\ \E db \in Views :
       LET page == GetByIDs(db, ids[s]) IN
         /\ shown' = [shown EXCEPT ![s] = @ \cup page]
         /\ before' = [before EXCEPT ![s] = IF page = {} THEN @ ELSE Oldest(page)]
         /\ Goto(s, IF page = {} THEN "end" ELSE "ask")
  /\ ids' = [ids EXCEPT ![s] = {}]
  /\ UNCHANGED <<feed, followees, cached>>

(* A query or the call of the tweet service fails: the client asks again.     *)
Fail(s) ==
  /\ "db" \in Faults
  /\ step[s] \in {"followees", "tweets", "enrich"}
  /\ Goto(s, "ask")
  /\ ids' = [ids EXCEPT ![s] = {}]
  /\ followees' = [followees EXCEPT ![s] = {}]
  /\ UNCHANGED <<feed, before, shown, cached>>

Serve(s) ==
  \/ Hit(s) \/ Miss(s) \/ GetFolloweeIDs(s) \/ GetTimelineFromDB(s)
  \/ EnrichTweets(s) \/ Fail(s)

-----------------------------------------------------------------------------
(* DELETE FROM tweets; the lists keep the id. *)
DeleteTweet(t) ==
  t \in rows \cap Deletable /\ rows' = rows \ {t} /\ UNCHANGED <<vars, replicaRows>>

(* The tables change: what stays in a timeline stays due.                     *)
Change ==
  /\ \/ FanoutStep /\ UNCHANGED <<rows, replicaRows>>
     \/ CatchUp /\ replicaRows' = rows /\ UNCHANGED rows
     \/ \E u \in Authors :
          Create(u) /\ rows' = rows \cup {Len(author')} /\ UNCHANGED replicaRows
     \/ \E t \in Tweets : DeleteTweet(t)
  /\ UNCHANGED request
  /\ due' = [s \in Sessions |-> {t \in due[s] : InFeed(feed[s], t)'}]
  /\ followed' = followed \cup follows'

FeedNext ==
  \/ Change
  \/ /\ \E s \in Sessions : \/ \E f \in Feeds : OpenFeed(s, f)
                            \/ Serve(s) /\ UNCHANGED due
     /\ UNCHANGED <<vars, rows, replicaRows, followed>>

FeedSpec == FeedInit /\ [][FeedNext]_allVars

-----------------------------------------------------------------------------
(* Properties. *)

FeedTypeOK ==
  /\ rows \subseteq DOMAIN author /\ replicaRows \subseteq DOMAIN author
  /\ feed \in [Sessions -> Feeds \cup {NoFeed}]
  /\ step \in [Sessions -> {"closed", "ask", "followees", "tweets", "enrich", "end"}]
  /\ \A s \in Sessions : feed[s] = NoFeed <=> step[s] = "closed"
  /\ before \in [Sessions -> 0..NoBefore]
  /\ followees \in [Sessions -> SUBSET Users]
  /\ ids \in [Sessions -> SUBSET DOMAIN author]
  /\ \A s \in Sessions : Cardinality(ids[s]) <= Limit
  /\ shown \in [Sessions -> SUBSET DOMAIN author]
  /\ due \in [Sessions -> SUBSET DOMAIN author]
  /\ cached \in [Sessions -> BOOLEAN]
  /\ followed \subseteq Pairs

(* Nothing that has been in the timeline all along lies above the cursor       *)
(* without having been shown.                                                  *)
NoGap(s) == \A t \in due[s] : Time(t) >= before[s] => t \in shown[s]

(* parsePaginationParams: the cursor is in nanoseconds "so we can page through *)
(* tweets without gaps": a client that pages through what the database returns *)
(* does not pass over a tweet that has been in the timeline all along.         *)
StoredPagesHaveNoGaps == \A s \in Sessions : ~cached[s] => NoGap(s)

(* What is left of it when tweets have the same created_at: a tweet passed over *)
(* has that of one that was shown, although each page is three reads, from      *)
(* databases of different age, while authors tweet, delete, are followed and    *)
(* unfollowed.                                                                  *)
OnlyTiesSkipped ==
  \A s \in Sessions : ~cached[s] =>
    \A t \in due[s] : Time(t) >= before[s] => \E x \in shown[s] : Time(x) = Time(t)

(* t is in the timeline f, or has been while its author was followed.          *)
Belongs(f, t) ==
  \/ f.kind = "user" /\ author[t] = f.user
  \/ f.kind = "home" /\ <<f.user, author[t]>> \in followed

(* Whether a page comes out of the lists, which jobs wrote from pages of       *)
(* followers read long ago, or out of databases of different age: nobody is    *)
(* shown a tweet of somebody he has never followed.                            *)
NoStrangers == \A s \in Sessions : \A t \in shown[s] : Belongs(feed[s], t)
=============================================================================
