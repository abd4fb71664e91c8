----------------------------- MODULE RateLimiter ----------------------------
(* The gateway's rate limiter.  A request reads the clock, counts itself in    *)
(* the Redis key of its client and minute with a pipeline of INCR and EXPIRE,  *)
(* and is let through or refused by the count it gets back.  A pipeline is no  *)
(* transaction: other requests, the clock and failures come between.           *)
EXTENDS Integers, FiniteSets

CONSTANTS
  Requests,    \* requests that reach the gateway, each once
  Ips,         \* what realIP makes of them
  Rpm,         \* RATE_LIMIT_RPM
  Minute,      \* ticks of a minute: 60 at one tick a second
  Slack,       \* ticks the TTL is longer than a minute
  MaxTime,     \* bound: ticks
  MaxResends,  \* MaxRetries of the Redis client
  Faults       \* what may go wrong, a subset of FaultKinds

(* "break": the connection breaks before, between or after the two commands;  *)
(* "loss": a key is evicted, or Redis restarts without its keys.               *)
FaultKinds == {"break", "loss"}

ASSUME RateAssumption ==
  /\ IsFiniteSet(Requests)
  /\ Rpm \in Nat /\ Minute \in Nat \ {0} /\ Slack \in Nat
  /\ MaxTime \in Nat /\ MaxResends \in Nat
  /\ Faults \subseteq FaultKinds

VARIABLES
  now,       \* the clock
  count,     \* Redis: rate:<ip>:<minute>, 0 when there is no such key
  deadline,  \* Redis: the last tick of a key, or NoDeadline
  pc,        \* per request: the command it runs next, or what became of it
  client,    \* per request: <<ip, minute>>
  got,       \* per request: the result of its INCR
  resends,   \* per request: pipelines sent again
  counted,   \* history, per key: the requests its value counts
  late,      \* history: the requests whose last INCR was run late
  lost       \* history: the keys that were lost

redis   == <<count, deadline>>
request == <<pc, client, got, resends>>
history == <<counted, late, lost>>
vars    == <<now, redis, request, history>>

(* time.Now().Unix() / 60 *)
MinuteOf(t) == t \div Minute

Minutes == 0 .. MinuteOf(MaxTime)
Keys == Ips \X Minutes
NoClient == <<>>
NoDeadline == -1

(* Operators that end in "Mutant" are slips with which a property must fail.  *)

(* cache.RateKey(ip, minute) *)
RateKeyMutant(c) == <<c[1], 0>>
RateKey(c) == c
Key(r) == RateKey(client[r])

TTLMutant == Slack
TTL == Minute + Slack

(* EXPIRE *)
DeadlineMutant(r) == now + TTL * Minute
DeadlineMutant2(r) == IF got[r] = 1 THEN now + TTL ELSE deadline[Key(r)]
Deadline(r) == now + TTL

(* int(count) > rl.rpm *)
OverLimit(r) == got[r] > Rpm

Init ==
  /\ now = 0
  /\ count = [k \in Keys |-> 0] /\ deadline = [k \in Keys |-> NoDeadline]
  /\ pc = [r \in Requests |-> "new"] /\ client = [r \in Requests |-> NoClient]
  /\ got = [r \in Requests |-> 0] /\ resends = [r \in Requests |-> 0]
  /\ counted = [k \in Keys |-> {}] /\ late = {} /\ lost = {}

-----------------------------------------------------------------------------
Goto(r, p) == pc' = [pc EXCEPT ![r] = p]

Arrive(r, ip) ==
  /\ pc[r] = "new"
  /\ client' = [client EXCEPT ![r] = <<ip, MinuteOf(now)>>]
  /\ Goto(r, "incr")
  /\ UNCHANGED <<now, redis, got, resends, history>>

(* No more than Slack has passed since the minute r asked in. *)
Punctual(r) == now <= (client[r][2] + 1) * Minute + Slack

(* INCR starts a key that is not there, without a TTL, at 1. *)
Incr(r) ==
  /\ pc[r] = "incr"
  /\ count' = [count EXCEPT ![Key(r)] = @ + 1]
  /\ got' = [got EXCEPT ![r] = count[Key(r)] + 1]
  /\ Goto(r, "expire")
  /\ counted' = [counted EXCEPT ![Key(r)] = @ \cup {r}]
  /\ late' = IF Punctual(r) THEN late \ {r} ELSE late \cup {r}
  /\ UNCHANGED <<now, deadline, client, resends, lost>>

(* The results arrive: next.ServeHTTP or 429. *)
Answer(r) ==
  /\ Goto(r, IF OverLimit(r) THEN "refused" ELSE "passed")
  /\ UNCHANGED <<got, resends>>

(* The connection breaks.  The client sends the pipeline again, the part that  *)
(* was run included, or reports an error: the request is let through uncounted. *)
Break(r) ==
  /\ "break" \in Faults
  /\ got' = [got EXCEPT ![r] = 0]
  /\ \/ /\ resends[r] < MaxResends
        /\ resends' = [resends EXCEPT ![r] = @ + 1]
        /\ Goto(r, "incr")
     \/ Goto(r, "open") /\ UNCHANGED resends

(* EXPIRE does nothing to a key that is not there. *)
Expire(r) ==
  /\ pc[r] = "expire"
  /\ deadline' = IF count[Key(r)] > 0
                 THEN [deadline EXCEPT ![Key(r)] = Deadline(r)] ELSE deadline
  /\ Answer(r) \/ Break(r)
  /\ UNCHANGED <<now, count, client, history>>

(* What is left of the pipeline is not run. *)
BreakOff(r) ==
  /\ pc[r] \in {"incr", "expire"}
  /\ Break(r)
  /\ UNCHANGED <<now, redis, client, history>>

(* Redis drops the keys S. *)
Drop(S) ==
  /\ count' = [k \in Keys |-> IF k \in S THEN 0 ELSE count[k]]
  /\ deadline' = [k \in Keys |-> IF k \in S THEN NoDeadline ELSE deadline[k]]
  /\ counted' = [k \in Keys |-> IF k \in S THEN {} ELSE counted[k]]

Overdue == {k \in Keys : deadline[k] # NoDeadline /\ deadline[k] <= now}

Tick ==
  /\ now < MaxTime
  /\ now' = now + 1
  /\ Drop(Overdue)
  /\ UNCHANGED <<request, late, lost>>

Lose(k) ==
  /\ "loss" \in Faults /\ count[k] > 0
  /\ Drop({k})
  /\ lost' = lost \cup {k}
  /\ UNCHANGED <<now, request, late>>

Handle(r) ==
  \/ \E ip \in Ips : Arrive(r, ip)
  \/ Incr(r) \/ Expire(r) \/ BreakOff(r)

Next ==
  \/ \E r \in Requests : Handle(r)
  \/ Tick
  \/ \E k \in Keys : Lose(k)

Spec == Init /\ [][Next]_vars

-----------------------------------------------------------------------------
(* Properties. *)

TypeOK ==
  /\ now \in 0 .. MaxTime
  /\ count \in [Keys -> Nat]
  /\ deadline \in [Keys -> {NoDeadline} \cup 0 .. now + TTL]
  /\ pc \in [Requests -> {"new", "incr", "expire", "passed", "refused", "open"}]
  /\ client \in [Requests -> Keys \cup {NoClient}]
  /\ \A r \in Requests : pc[r] # "new" => client[r] \in Keys
  /\ got \in [Requests -> Nat] /\ resends \in [Requests -> 0 .. MaxResends]
  /\ counted \in [Keys -> SUBSET Requests]
  /\ late \subseteq Requests /\ lost \subseteq Keys

Through(k) == {r \in Requests \ late : pc[r] = "passed" /\ client[r] = k}

(* RateLimiter.rpm, "max requests per minute per IP": of the requests that     *)
(* read the clock in the same minute no more than rpm are let through by their *)
(* count, whatever is resent, fails open or comes in between, unless Redis     *)
(* lost the key or a request was stuck until the key had expired.              *)
AtMostRpm == \A k \in Keys \ lost : Cardinality(Through(k)) <= Rpm

(* The pipelines sent for a client in a minute. *)
Sent(k) ==
  {p \in Requests \X (0 .. MaxResends) : client[p[1]] = k /\ p[2] <= resends[p[1]]}

(* A client that gets 429 has sent, or the Redis client for it, more than rpm  *)
(* pipelines in the minute it asked in: neither another client nor another     *)
(* minute is held against it, nor a key that should have expired.              *)
RefusedJustified ==
  \A r \in Requests : pc[r] = "refused" => Cardinality(Sent(client[r])) > Rpm

(* "expire after 61s so the key auto-cleans": no key stays without a TTL if a  *)
(* request that counted in it has been told its count.                         *)
KeysAutoClean ==
  \A k \in Keys :
    count[k] > 0 /\ deadline[k] = NoDeadline
      => \A r \in counted[k] : pc[r] \notin {"passed", "refused"}
=============================================================================
