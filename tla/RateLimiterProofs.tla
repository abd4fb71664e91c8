-------------------------- MODULE RateLimiterProofs -------------------------
(* Proofs about RateLimiter, for any clients, limit, clock and TTL.           *)
EXTENDS RateLimiter, FiniteSetTheorems, FunctionTheorems, TLAPS

(* The minute that t belongs to began no later than t. *)
LEMMA MinuteBegun ==
  ASSUME NEW t \in Nat
  PROVE  MinuteOf(t) \in Nat /\ MinuteOf(t) * Minute <= t
BY RateAssumption DEF MinuteOf

LEMMA MinuteOfBound ==
  ASSUME NEW t \in 0 .. MaxTime
  PROVE  MinuteOf(t) \in Minutes
<1>1. /\ MinuteOf(t) \in Nat /\ MinuteOf(MaxTime) \in Nat
      /\ MinuteOf(t) * Minute <= t
  BY MinuteBegun, RateAssumption
<1>2. MaxTime < (MinuteOf(MaxTime) + 1) * Minute
  BY RateAssumption DEF MinuteOf
<1>3. MinuteOf(t) <= MinuteOf(MaxTime)
  <2>1. SUFFICES ASSUME MinuteOf(t) >= MinuteOf(MaxTime) + 1 PROVE FALSE
    BY <1>1
  <2>2. MinuteOf(t) * Minute >= (MinuteOf(MaxTime) + 1) * Minute
    BY <1>1, <2>1, RateAssumption
  <2>3. QED
    BY <1>1, <1>2, <2>2, RateAssumption
<1>4. QED
  BY <1>1, <1>3 DEF Minutes

LEMMA TTLType == TTL \in Nat
BY RateAssumption DEF TTL

LEMMA DropType ==
  ASSUME TypeOK, NEW S, Drop(S)
  PROVE  /\ count' \in [Keys -> Nat]
         /\ deadline' \in [Keys -> {NoDeadline} \cup 0 .. now + TTL]
         /\ counted' \in [Keys -> SUBSET Requests]
BY DEF TypeOK, Drop

LEMMA TypeInit == Init => TypeOK
BY RateAssumption, TTLType DEF Init, TypeOK, NoDeadline

LEMMA BreakType ==
  ASSUME TypeOK, NEW r \in Requests, pc[r] # "new", Break(r), UNCHANGED client
  PROVE  /\ pc' \in [Requests -> {"new", "incr", "expire", "passed", "refused", "open"}]
         /\ \A q \in Requests : pc'[q] # "new" => client'[q] \in Keys
         /\ got' \in [Requests -> Nat] /\ resends' \in [Requests -> 0 .. MaxResends]
BY RateAssumption DEF TypeOK, Break, Goto

LEMMA TypeStep == ASSUME TypeOK, [Next]_vars PROVE TypeOK'
<1>1. ASSUME NEW r \in Requests, NEW ip \in Ips, Arrive(r, ip) PROVE TypeOK'
  <2>1. <<ip, MinuteOf(now)>> \in Keys
    BY MinuteOfBound DEF TypeOK, Keys
  <2>2. QED
    BY <1>1, <2>1 DEF TypeOK, Arrive, Goto, redis, history
<1>2. ASSUME NEW r \in Requests, Incr(r) PROVE TypeOK'
  <2>1. Key(r) \in Keys
    BY <1>2 DEF TypeOK, Incr, Key, RateKey
  <2>2. count[Key(r)] + 1 \in Nat
    BY <2>1 DEF TypeOK
  <2>3. count' \in [Keys -> Nat] /\ got' \in [Requests -> Nat]
    BY <1>2, <2>1, <2>2 DEF TypeOK, Incr
  <2>4. counted' \in [Keys -> SUBSET Requests] /\ late' \subseteq Requests
    BY <1>2, <2>1 DEF TypeOK, Incr
  <2>5. QED
    BY <1>2, <2>3, <2>4 DEF TypeOK, Incr, Goto
<1>3. ASSUME NEW r \in Requests, Expire(r) PROVE TypeOK'
  <2>1. now + TTL \in 0 .. now + TTL
    BY TTLType DEF TypeOK
  <2>2. deadline' \in [Keys -> {NoDeadline} \cup 0 .. now + TTL]
    BY <1>3, <2>1 DEF TypeOK, Expire, Deadline
  <2>3. CASE Answer(r)
    BY <1>3, <2>2, <2>3 DEF TypeOK, Expire, Answer, Goto, history
  <2>4. CASE Break(r)
    <3>1. pc[r] # "new" /\ UNCHANGED client
      BY <1>3 DEF Expire
    <3>2. QED
      BY <1>3, <2>2, <2>4, <3>1, BreakType DEF TypeOK, Expire, history
  <2>5. QED
    BY <1>3, <2>3, <2>4 DEF Expire
<1>4. ASSUME NEW r \in Requests, BreakOff(r) PROVE TypeOK'
  <2>1. pc[r] # "new" /\ UNCHANGED client
    BY <1>4 DEF BreakOff
  <2>2. QED
    BY <1>4, <2>1, BreakType DEF TypeOK, BreakOff, redis, history
<1>5. CASE Tick
  <2>1. now' \in 0 .. MaxTime
    BY <1>5, RateAssumption DEF TypeOK, Tick
  <2>2. 0 .. now + TTL \subseteq 0 .. now' + TTL
    BY <1>5, TTLType DEF TypeOK, Tick
  <2>3. /\ count' \in [Keys -> Nat]
        /\ deadline' \in [Keys -> {NoDeadline} \cup 0 .. now + TTL]
        /\ counted' \in [Keys -> SUBSET Requests]
    BY <1>5, DropType DEF Tick
  <2>4. QED
    BY <1>5, <2>1, <2>2, <2>3 DEF TypeOK, Tick, request
<1>6. ASSUME NEW k \in Keys, Lose(k) PROVE TypeOK'
  <2>1. /\ count' \in [Keys -> Nat]
        /\ deadline' \in [Keys -> {NoDeadline} \cup 0 .. now + TTL]
        /\ counted' \in [Keys -> SUBSET Requests]
    BY <1>6, DropType DEF Lose
  <2>2. QED
    BY <1>6, <2>1 DEF TypeOK, Lose, request
<1>7. CASE UNCHANGED vars
  BY <1>7 DEF TypeOK, vars, redis, request, history
<1>8. QED
  BY <1>1, <1>2, <1>3, <1>4, <1>5, <1>6, <1>7 DEF Next, Handle

(* Every value has its type, and no key outlives its TTL. *)
THEOREM TypeCorrect == Spec => []TypeOK
BY TypeInit, TypeStep, PTL DEF Spec

-----------------------------------------------------------------------------
(* Keys and their TTL. *)

(* A key that is not there has no TTL and counts nobody; what a key counts     *)
(* are requests for it.                                                        *)
KeyInv ==
  \A k \in Keys :
    /\ count[k] = 0 => deadline[k] = NoDeadline /\ counted[k] = {}
    /\ \A r \in counted[k] : client[r] = k /\ pc[r] # "new"

CleanInv == KeyInv /\ KeysAutoClean

LEMMA CleanStep == ASSUME TypeOK, CleanInv, [Next]_vars PROVE CleanInv'
<1> USE DEF KeyInv, CleanInv, KeysAutoClean, TypeOK
<1>1. ASSUME NEW r \in Requests, NEW ip \in Ips, Arrive(r, ip) PROVE CleanInv'
  BY <1>1 DEF Arrive, Goto, redis, history
<1>2. ASSUME NEW r \in Requests, Incr(r) PROVE CleanInv'
  <2>1. Key(r) \in Keys /\ Key(r) = client[r] /\ count[Key(r)] \in Nat
    BY <1>2 DEF Incr, Key, RateKey
  <2>2. ASSUME NEW k \in Keys, k # Key(r)
        PROVE  count'[k] = count[k] /\ deadline'[k] = deadline[k] /\ counted'[k] = counted[k]
    BY <1>2, <2>2 DEF Incr
  <2>3. /\ count'[Key(r)] > 0
        /\ counted'[Key(r)] = counted[Key(r)] \cup {r} /\ deadline' = deadline
    BY <1>2, <2>1 DEF Incr
  <2>4. /\ client' = client /\ pc'[r] = "expire"
        /\ \A q \in Requests : q # r => pc'[q] = pc[q]
    BY <1>2 DEF Incr, Goto
  <2>5. count[Key(r)] = 0 \/ count[Key(r)] > 0
    BY <2>1
  <2>6. KeyInv'
    BY <2>1, <2>2, <2>3, <2>4
  <2>7. KeysAutoClean'
    BY <2>1, <2>2, <2>3, <2>4, <2>5
  <2>8. QED
    BY <2>6, <2>7
<1>3. ASSUME NEW r \in Requests, Expire(r) PROVE CleanInv'
  <2>1. Key(r) \in Keys /\ Key(r) = client[r] /\ count[Key(r)] \in Nat
    BY <1>3 DEF Expire, Key, RateKey
  <2>2. UNCHANGED <<count, client, counted>>
    BY <1>3 DEF Expire, history
  <2>3. pc'[r] # "new" /\ \A q \in Requests : q # r => pc'[q] = pc[q]
    BY <1>3 DEF Expire, Answer, Break, Goto
  <2>4. deadline'[Key(r)] # NoDeadline \/ count[Key(r)] = 0
    BY <1>3, <2>1, TTLType DEF Expire, Deadline, NoDeadline
  <2>5. \A k \in Keys : k # Key(r) => deadline'[k] = deadline[k]
    BY <1>3 DEF Expire
  <2>6. count[Key(r)] = 0 => deadline' = deadline
    BY <1>3, <2>1 DEF Expire
  <2>7. QED
    BY <2>1, <2>2, <2>3, <2>4, <2>5, <2>6
<1>4. ASSUME NEW r \in Requests, BreakOff(r) PROVE CleanInv'
  <2>1. UNCHANGED <<redis, client, counted>>
    BY <1>4 DEF BreakOff, history
  <2>2. pc'[r] \in {"incr", "open"} /\ \A q \in Requests : q # r => pc'[q] = pc[q]
    BY <1>4 DEF BreakOff, Break, Goto
  <2>3. QED
    BY <2>1, <2>2 DEF redis
<1>5. ASSUME NEW S, Drop(S), UNCHANGED request PROVE CleanInv'
  BY <1>5 DEF Drop, request
<1>6. CASE UNCHANGED vars
  BY <1>6 DEF vars, redis, request, history
<1>7. QED
  BY <1>1, <1>2, <1>3, <1>4, <1>5, <1>6 DEF Next, Handle, Tick, Lose

(* A key without a TTL is the doing of pipelines that broke off: it never     *)
(* counts a request that has been answered by it.                             *)
THEOREM KeysClean == Spec => []KeysAutoClean
<1>1. Init => CleanInv
  BY DEF Init, CleanInv, KeyInv, KeysAutoClean
<1>2. QED
  BY <1>1, TypeInit, TypeStep, CleanStep, PTL DEF Spec, CleanInv

-----------------------------------------------------------------------------
(* Refusals. *)

(* The pipelines of k whose INCR may have been run. *)
Run(k) ==
  {p \in Sent(k) : p[2] < resends[p[1]] \/ pc[p[1]] \notin {"new", "incr"}}

(* Neither a key nor the count of a request is ahead of them. *)
CountInv ==
  /\ \A k \in Keys : count[k] <= Cardinality(Run(k))
  /\ \A r \in Requests :
       /\ pc[r] = "new" => client[r] = NoClient
       /\ pc[r] \notin {"new", "incr"} => got[r] <= Cardinality(Run(client[r]))
       /\ pc[r] = "refused" => got[r] > Rpm

LEMMA RunFinite ==
  ASSUME NEW k
  PROVE  /\ IsFiniteSet(Sent(k)) /\ IsFiniteSet(Run(k))
         /\ Cardinality(Run(k)) \in Nat /\ Cardinality(Run(k)) <= Cardinality(Sent(k))
<1>1. IsFiniteSet(0 .. MaxResends)
  BY FS_Interval, RateAssumption
<1>2. IsFiniteSet(Requests \X (0 .. MaxResends))
  BY <1>1, FS_Product, RateAssumption
<1>3. Sent(k) \subseteq Requests \X (0 .. MaxResends) /\ Run(k) \subseteq Sent(k)
  BY DEF Sent, Run
<1>4. IsFiniteSet(Sent(k)) /\ IsFiniteSet(Run(k))
  BY <1>2, <1>3, FS_Subset
<1>5. QED
  BY <1>3, <1>4, FS_Subset, FS_CardinalityType

(* What has been run stays run. *)
LEMMA RunGrows ==
  ASSUME TypeOK, NEW k,
         IsFiniteSet(Run(k)'), Run(k) \subseteq Run(k)'
  PROVE  Cardinality(Run(k)) <= Cardinality(Run(k)')
BY FS_Subset

LEMMA CountStep == ASSUME TypeOK, TypeOK', CountInv, [Next]_vars PROVE CountInv'
<1>0. ASSUME NEW k PROVE IsFiniteSet(Run(k)') /\ Cardinality(Run(k)') \in Nat
  <2>1. IsFiniteSet(0 .. MaxResends)
    BY FS_Interval, RateAssumption
  <2>2. IsFiniteSet(Requests \X (0 .. MaxResends))
    BY <2>1, FS_Product, RateAssumption
  <2>3. Run(k)' \subseteq Requests \X (0 .. MaxResends)
    BY DEF Sent, Run
  <2>4. QED
    BY <2>2, <2>3, FS_Subset, FS_CardinalityType
(* Steps that neither run an INCR nor take back one. *)
<1>1. ASSUME \A k \in Keys : Run(k) \subseteq Run(k)',
             \A k \in Keys : count'[k] = count[k] \/ count'[k] = 0,
             \A r \in Requests :
               /\ client'[r] = client[r] \/ pc'[r] = "incr"
               /\ pc'[r] = "new" => client'[r] = NoClient
               /\ pc'[r] \notin {"new", "incr"} =>
                    /\ client[r] \in Keys
                    /\ \/ got'[r] = 0
                       \/ got'[r] = got[r] /\ pc[r] \notin {"new", "incr"}
               /\ pc'[r] = "refused" => got'[r] > Rpm
      PROVE  CountInv'
  <2>1. \A k \in Keys : /\ Cardinality(Run(k)) <= Cardinality(Run(k)')
                        /\ Cardinality(Run(k)) \in Nat /\ Cardinality(Run(k)') \in Nat
    BY <1>0, <1>1, RunGrows, RunFinite
  <2>2. \A k \in Keys : count'[k] <= Cardinality(Run(k)')
    BY <1>1, <2>1 DEF CountInv, TypeOK
  <2>3. ASSUME NEW r \in Requests, pc'[r] \notin {"new", "incr"}
        PROVE  got'[r] <= Cardinality(Run(client[r])') /\ client'[r] = client[r]
    BY <1>1, <2>1, <2>3 DEF CountInv, TypeOK
  <2>4. QED
    BY <1>1, <2>2, <2>3 DEF CountInv
<1>2. ASSUME NEW r \in Requests, NEW ip \in Ips, Arrive(r, ip) PROVE CountInv'
  <2>1. client[r] = NoClient /\ NoClient \notin Keys
    BY <1>2 DEF CountInv, Arrive, NoClient, Keys
  <2>2. /\ pc'[r] = "incr"
        /\ \A q \in Requests : q # r => client'[q] = client[q] /\ pc'[q] = pc[q]
        /\ UNCHANGED <<got, resends, count>>
    BY <1>2 DEF Arrive, Goto, redis, TypeOK
  <2>3. \A k \in Keys : Run(k) \subseteq Run(k)'
    BY <2>1, <2>2 DEF Run, Sent
  <2>4. QED
    BY <1>1, <2>2, <2>3 DEF CountInv, TypeOK
<1>3. ASSUME NEW r \in Requests, Incr(r) PROVE CountInv'
  <2> DEFINE k == client[r]
             p == <<r, resends[r]>>
  <2>1. /\ pc[r] = "incr" /\ pc'[r] = "expire" /\ k \in Keys /\ Key(r) = k
        /\ \A q \in Requests : q # r => pc'[q] = pc[q]
        /\ UNCHANGED <<client, resends>>
    BY <1>3 DEF Incr, Goto, TypeOK, Key, RateKey
  <2>2. /\ count'[k] = count[k] + 1 /\ got'[r] = count[k] + 1
        /\ \A c \in Keys : c # k => count'[c] = count[c]
        /\ \A q \in Requests : q # r => got'[q] = got[q]
    BY <1>3, <2>1 DEF Incr, TypeOK
  <2>3. Sent(k)' = Sent(k) /\ p \in Sent(k)
    BY <2>1 DEF Sent, TypeOK
  <2>4. p \notin Run(k)
    BY <2>1 DEF Run, TypeOK
  <2>5. Run(k)' = Run(k) \cup {p}
    <3>1. ASSUME NEW x \in Sent(k)
          PROVE  (x[2] < resends[x[1]] \/ pc'[x[1]] \notin {"new", "incr"})
                   <=> (x[2] < resends[x[1]] \/ pc[x[1]] \notin {"new", "incr"}) \/ x = p
      <4>1. x = <<x[1], x[2]>> /\ x[1] \in Requests /\ x[2] \in 0 .. MaxResends
              /\ x[2] <= resends[x[1]] /\ resends[x[1]] \in 0 .. MaxResends
        BY DEF Sent, TypeOK
      <4>2. CASE x[1] # r
        BY <2>1, <4>1, <4>2
      <4>3. CASE x[1] = r
        <5>1. x[2] < resends[r] \/ x[2] = resends[r]
          BY <4>1, <4>3, RateAssumption
        <5>2. QED
          BY <2>1, <4>1, <4>3, <5>1
      <4>4. QED
        BY <4>2, <4>3
    <3>2. Run(k)' = {x \in Sent(k) : x[2] < resends[x[1]] \/ pc'[x[1]] \notin {"new", "incr"}}
      BY <2>1, <2>3 DEF Run
    <3>3. QED
      BY <2>3, <3>1, <3>2 DEF Run
  <2>6. Cardinality(Run(k)') = Cardinality(Run(k)) + 1
    BY <2>4, <2>5, RunFinite, FS_AddElement
  <2>7. \A c \in Keys : Cardinality(Run(c)) <= Cardinality(Run(c)')
    <3>1. \A c \in Keys : Run(c) \subseteq Run(c)'
      BY <2>1 DEF Run, Sent
    <3>2. QED
      BY <3>1, <1>0, RunGrows
  <2>8. \A c \in Keys : Cardinality(Run(c)) \in Nat /\ Cardinality(Run(c)') \in Nat
    BY <1>0, RunFinite
  <2>9. ASSUME NEW c \in Keys PROVE count'[c] <= Cardinality(Run(c)')
    <3>1. count[c] <= Cardinality(Run(c)) /\ count[c] \in Nat
      BY DEF CountInv, TypeOK
    <3>2. CASE c = k
      BY <2>1, <2>2, <2>6, <2>8, <3>1, <3>2
    <3>3. CASE c # k
      BY <2>2, <2>7, <2>8, <3>1, <3>3
    <3>4. QED
      BY <3>2, <3>3
  <2>10. ASSUME NEW q \in Requests
         PROVE  /\ pc'[q] = "new" => client'[q] = NoClient
                /\ pc'[q] \notin {"new", "incr"} => got'[q] <= Cardinality(Run(client[q])')
                /\ pc'[q] = "refused" => got'[q] > Rpm
    <3>1. CASE q = r
      <4>1. got'[r] <= Cardinality(Run(client[r])')
        BY <2>1, <2>2, <2>9
      <4>2. QED
        BY <2>1, <3>1, <4>1
    <3>2. CASE q # r
      <4>1. client'[q] = client[q] /\ got'[q] = got[q] /\ pc'[q] = pc[q]
        BY <2>1, <2>2, <3>2
      <4>2. CASE pc[q] = "new"
        BY <4>1, <4>2 DEF CountInv
      <4>3. CASE pc[q] # "new"
        <5>1. client[q] \in Keys
          BY <4>3 DEF TypeOK
        <5>2. Cardinality(Run(client[q])) <= Cardinality(Run(client[q])')
          BY <2>1, <2>7, <5>1
        <5>3. Cardinality(Run(client[q])) \in Nat /\ Cardinality(Run(client[q])') \in Nat
          BY <2>1, <2>8, <5>1
        <5>4. QED
          BY <4>1, <4>3, <5>2, <5>3 DEF CountInv, TypeOK
      <4>4. QED
        BY <4>2, <4>3
    <3>3. QED
      BY <3>1, <3>2
  <2>11. (\A c \in Keys : count[c] <= Cardinality(Run(c)))'
    BY <2>9
  <2>12. QED
    BY <2>10, <2>11 DEF CountInv
<1>4. ASSUME NEW r \in Requests, pc[r] \in {"incr", "expire"}, Break(r),
             UNCHANGED <<count, client>>
      PROVE  CountInv'
  <2>1. /\ pc'[r] \in {"incr", "open"} /\ got'[r] = 0
        /\ \A q \in Requests : q # r =>
             pc'[q] = pc[q] /\ got'[q] = got[q] /\ resends'[q] = resends[q]
    BY <1>4 DEF Break, Goto, TypeOK
  <2>2. resends'[r] = resends[r] + 1 \/ (pc'[r] = "open" /\ resends'[r] = resends[r])
    BY <1>4 DEF Break, Goto, TypeOK
  <2>3. \A k \in Keys : Run(k) \subseteq Run(k)'
    <3>1. ASSUME NEW k \in Keys, NEW x \in Run(k) PROVE x \in Run(k)'
      <4>1. /\ x \in Requests \X (0 .. MaxResends) /\ client[x[1]] = k
            /\ x[1] \in Requests /\ x[2] \in Nat /\ resends[x[1]] \in Nat
            /\ x[2] <= resends[x[1]]
            /\ x[2] < resends[x[1]] \/ pc[x[1]] \notin {"new", "incr"}
        BY RateAssumption DEF Run, Sent, TypeOK
      <4>2. CASE x[1] # r
        BY <1>4, <2>1, <4>1, <4>2 DEF Run, Sent
      <4>3. CASE x[1] = r
        <5>1. /\ x[2] <= resends'[r]
              /\ x[2] < resends'[r] \/ pc'[r] \notin {"new", "incr"}
          BY <2>2, <4>1, <4>3
        <5>2. QED
          BY <1>4, <4>1, <4>3, <5>1 DEF Run, Sent
      <4>4. QED
        BY <4>2, <4>3
    <3>2. QED
      BY <3>1
  <2>4. QED
    BY <1>1, <1>4, <2>1, <2>3 DEF CountInv, TypeOK
<1>5. ASSUME NEW r \in Requests, Expire(r) PROVE CountInv'
  <2>1. CASE Answer(r)
    <3>1. /\ pc[r] = "expire" /\ pc'[r] \in {"passed", "refused"}
          /\ pc'[r] = "refused" => got[r] > Rpm
          /\ \A q \in Requests : q # r => pc'[q] = pc[q]
          /\ UNCHANGED <<count, client, got, resends>>
      BY <1>5, <2>1 DEF Expire, Answer, Goto, OverLimit, TypeOK
    <3>2. \A k \in Keys : Run(k) \subseteq Run(k)'
      BY <3>1 DEF Run, Sent
    <3>3. QED
      BY <1>1, <3>1, <3>2 DEF CountInv, TypeOK
  <2>2. CASE Break(r)
    BY <1>4, <1>5, <2>2 DEF Expire
  <2>3. QED
    BY <1>5, <2>1, <2>2 DEF Expire
<1>6. ASSUME NEW r \in Requests, BreakOff(r) PROVE CountInv'
  BY <1>4, <1>6 DEF BreakOff, redis
<1>7. ASSUME NEW S, Drop(S), UNCHANGED request PROVE CountInv'
  <2>1. \A k \in Keys : Run(k) \subseteq Run(k)'
    BY <1>7 DEF Run, Sent, request
  <2>2. \A k \in Keys : count'[k] = count[k] \/ count'[k] = 0
    BY <1>7 DEF Drop
  <2>3. QED
    BY <1>1, <1>7, <2>1, <2>2 DEF CountInv, TypeOK, request
<1>8. CASE UNCHANGED vars
  <2>1. \A k \in Keys : Run(k) \subseteq Run(k)'
    BY <1>8 DEF Run, Sent, vars, request
  <2>2. QED
    BY <1>1, <1>8, <2>1 DEF CountInv, TypeOK, vars, redis, request
<1>9. QED
  BY <1>2, <1>3, <1>5, <1>6, <1>7, <1>8 DEF Next, Handle, Tick, Lose

(* Who is refused has had more than rpm pipelines sent for him in the minute. *)
THEOREM RefusalsJustified == Spec => []RefusedJustified
<1>1. Init => CountInv
  <2>1. ASSUME Init, NEW k \in Keys PROVE count[k] <= Cardinality(Run(k))
    BY <2>1, RunFinite DEF Init
  <2>2. QED
    BY <2>1 DEF Init, CountInv
<1>2. TypeOK /\ CountInv => RefusedJustified
  <2>1. ASSUME TypeOK, CountInv, NEW r \in Requests, pc[r] = "refused"
        PROVE  Cardinality(Sent(client[r])) > Rpm
    <3>1. /\ got[r] <= Cardinality(Run(client[r])) /\ got[r] > Rpm
          /\ got[r] \in Nat
      BY <2>1 DEF CountInv, TypeOK
    <3>2. Cardinality(Sent(client[r])) \in Nat
      BY RunFinite, FS_CardinalityType
    <3>3. QED
      BY <3>1, <3>2, RunFinite, RateAssumption
  <2>2. QED
    BY <2>1 DEF RefusedJustified
<1>3. QED
  BY <1>1, <1>2, TypeInit, TypeStep, CountStep, PTL DEF Spec

-----------------------------------------------------------------------------
(* The limit. *)

(* The last tick at which an INCR for key k is punctual. *)
End(k) == (k[2] + 1) * Minute + Slack

(* The requests that a key which was not lost has counted in time. *)
InTime(k) == {r \in Requests \ late : client[r] = k /\ got[r] > 0}

(* While punctual requests may come, a key is there and is ahead of all it has *)
(* counted; each of them has got a number of its own.                          *)
LimitInv ==
  /\ \A r \in Requests : pc[r] = "new" => client[r] = NoClient /\ got[r] = 0
  /\ \A r \in Requests : pc[r] = "incr" => got[r] = 0
  /\ \A r \in Requests : pc[r] \in {"expire", "passed"} => got[r] > 0
  /\ \A r \in Requests : pc[r] = "passed" => got[r] <= Rpm
  /\ \A r \in Requests : pc[r] # "new" => client[r][2] * Minute <= now
  /\ \A k \in Keys : deadline[k] # NoDeadline => deadline[k] >= End(k)
  /\ \A k \in Keys \ lost : \A r \in InTime(k) : now <= End(k) => got[r] <= count[k]
  /\ \A k \in Keys \ lost : \A q, r \in InTime(k) : q # r => got[q] # got[r]

(* TTL is long enough. *)
LEMMA Lasting ==
  ASSUME TypeOK, NEW r \in Requests, client[r] \in Keys,
         client[r][2] * Minute <= now
  PROVE  now + TTL >= End(client[r])
<1>1. client[r][2] \in Nat /\ now \in Nat
  BY RateAssumption DEF TypeOK, Keys, Minutes
<1>2. End(client[r]) = client[r][2] * Minute + Minute + Slack
  BY <1>1, RateAssumption DEF End
<1>3. client[r][2] * Minute \in Nat
  BY <1>1, RateAssumption
<1>4. QED
  BY <1>1, <1>2, <1>3, RateAssumption DEF TTL

LEMMA EndType == ASSUME NEW k \in Keys PROVE End(k) \in Nat
<1>1. k[2] \in Nat
  BY DEF Keys, Minutes
<1>2. QED
  BY <1>1, RateAssumption DEF End

(* Steps that take numbers away, or none. *)
LEMMA LimitKept ==
  ASSUME TypeOK, TypeOK', LimitInv, UNCHANGED <<now, count, late, lost>>,
         \A r \in Requests :
           /\ client'[r] = client[r] \/ got'[r] = 0
           /\ got'[r] = got[r] \/ got'[r] = 0
  PROVE  /\ \A k \in Keys \ lost' : \A r \in InTime(k)' : now' <= End(k) => got'[r] <= count'[k]
         /\ \A k \in Keys \ lost' : \A q, r \in InTime(k)' : q # r => got'[q] # got'[r]
<1>1. \A k \in Keys : \A r \in InTime(k)' : r \in InTime(k) /\ got'[r] = got[r]
  BY DEF InTime
<1>2. QED
  BY <1>1 DEF LimitInv

LEMMA LimitBreak ==
  ASSUME TypeOK, TypeOK', LimitInv, NEW r \in Requests, pc[r] # "new", Break(r),
         UNCHANGED <<now, count, client, late, lost>>,
         \A k \in Keys : deadline'[k] # NoDeadline => deadline'[k] >= End(k)
  PROVE  LimitInv'
<1>1. /\ pc'[r] \in {"incr", "open"} /\ got'[r] = 0
      /\ \A q \in Requests : q # r => pc'[q] = pc[q] /\ got'[q] = got[q]
  BY DEF Break, Goto, TypeOK
<1>2. /\ \A k \in Keys \ lost' : \A q \in InTime(k)' : now' <= End(k) => got'[q] <= count'[k]
      /\ \A k \in Keys \ lost' : \A p, q \in InTime(k)' : p # q => got'[p] # got'[q]
  BY <1>1, LimitKept
<1>3. \A q \in Requests : pc'[q] # "new" => client'[q][2] * Minute <= now'
  BY <1>1 DEF LimitInv
<1>4. QED
  BY <1>1, <1>2, <1>3 DEF LimitInv, End

LEMMA LimitStep == ASSUME TypeOK, TypeOK', LimitInv, [Next]_vars PROVE LimitInv'
<1>1. ASSUME NEW r \in Requests, NEW ip \in Ips, Arrive(r, ip) PROVE LimitInv'
  <2>1. /\ client' = [client EXCEPT ![r] = <<ip, MinuteOf(now)>>]
        /\ pc'[r] = "incr" /\ \A q \in Requests : q # r => pc'[q] = pc[q]
        /\ UNCHANGED <<now, count, deadline, got, late, lost>>
    BY <1>1 DEF Arrive, Goto, TypeOK, redis, history
  <2>2. got[r] = 0
    BY <1>1 DEF Arrive, LimitInv
  <2>3. /\ \A k \in Keys \ lost' : \A q \in InTime(k)' : now' <= End(k) => got'[q] <= count'[k]
        /\ \A k \in Keys \ lost' : \A p, q \in InTime(k)' : p # q => got'[p] # got'[q]
    BY <2>1, <2>2, LimitKept DEF TypeOK
  <2>4. client'[r][2] = MinuteOf(now) /\ now \in Nat
    BY <2>1, RateAssumption DEF TypeOK
  <2>5. client'[r][2] * Minute <= now'
    BY <2>1, <2>4, MinuteBegun
  <2>6. \A q \in Requests : q # r => client'[q] = client[q]
    BY <2>1 DEF TypeOK
  <2>7. QED
    BY <2>1, <2>2, <2>3, <2>5, <2>6 DEF LimitInv, End
<1>2. ASSUME NEW r \in Requests, NEW k \in Keys, client[r] = k, Incr(r) PROVE LimitInv'
  <2>1. /\ pc[r] = "incr" /\ pc'[r] = "expire" /\ Key(r) = k
        /\ \A q \in Requests : q # r => pc'[q] = pc[q] /\ got'[q] = got[q]
        /\ UNCHANGED <<now, client, deadline, lost>>
    BY <1>2 DEF Incr, Goto, TypeOK, Key, RateKey
  <2>2. /\ count'[k] = count[k] + 1 /\ got'[r] = count[k] + 1 /\ count[k] \in Nat
        /\ \A c \in Keys : c # k => count'[c] = count[c]
    BY <1>2, <2>1 DEF Incr, TypeOK
  <2>3. /\ r \notin late' => now <= End(k)
        /\ \A q \in Requests : q # r => (q \in late' <=> q \in late)
    BY <1>2 DEF Incr, Punctual, End
  <2>4. \A c \in Keys : \A q \in InTime(c)' : q = r \/ q \in InTime(c)
    BY <2>1, <2>3 DEF InTime
  <2>5. r \in Requests /\ \A c \in Keys : r \in InTime(c)' => c = k /\ now <= End(k)
    BY <1>2, <2>1, <2>3 DEF InTime
  <2>6. ASSUME NEW c \in Keys \ lost', NEW q \in InTime(c)', now' <= End(c)
        PROVE  got'[q] <= count'[c]
    <3>1. CASE q = r
      BY <2>2, <2>5, <3>1
    <3>2. CASE q # r
      <4>1. q \in Requests /\ q \in InTime(c) /\ got'[q] = got[q] /\ now <= End(c)
        BY <2>1, <2>4, <2>6, <3>2 DEF InTime
      <4>2. got[q] <= count[c] /\ got[q] \in Nat /\ count[c] \in Nat
        BY <2>1, <4>1 DEF LimitInv, TypeOK
      <4>3. QED
        BY <2>2, <4>1, <4>2
    <3>3. QED
      BY <3>1, <3>2
  <2>7. ASSUME NEW c \in Keys \ lost', NEW q \in InTime(c)', r \in InTime(c)', q # r
        PROVE  got'[q] # got'[r]
    <3>1. q \in Requests /\ q \in InTime(c) /\ got'[q] = got[q] /\ c = k /\ now <= End(c)
      BY <2>1, <2>4, <2>5, <2>7 DEF InTime
    <3>2. got[q] <= count[k] /\ got[q] \in Nat
      BY <2>1, <3>1 DEF LimitInv, TypeOK
    <3>3. QED
      BY <2>2, <3>1, <3>2
  <2>8. ASSUME NEW c \in Keys \ lost', NEW p \in InTime(c)', NEW q \in InTime(c)', p # q
        PROVE  got'[p] # got'[q]
    <3>1. CASE p # r /\ q # r
      <4>1. /\ p \in InTime(c) /\ q \in InTime(c)
            /\ got'[p] = got[p] /\ got'[q] = got[q] /\ c \in Keys \ lost
        BY <2>1, <2>4, <3>1 DEF InTime
      <4>2. QED
        BY <2>8, <4>1 DEF LimitInv
    <3>2. QED
      BY <2>7, <2>8, <3>1
  <2>9. \A q \in Requests : pc'[q] # "new" => client'[q][2] * Minute <= now'
    BY <2>1 DEF LimitInv
  <2>10. got'[r] > 0
    BY <2>2
  <2>11. QED
    BY <2>1, <2>6, <2>8, <2>9, <2>10 DEF LimitInv, End
<1>3. ASSUME NEW r \in Requests, Expire(r) PROVE LimitInv'
  <2>1. pc[r] = "expire" /\ client[r] \in Keys /\ Key(r) = client[r]
    BY <1>3 DEF Expire, TypeOK, Key, RateKey
  <2>2. now + TTL >= End(client[r])
    BY <2>1, Lasting DEF LimitInv
  <2>3. \A k \in Keys : deadline'[k] # NoDeadline => deadline'[k] >= End(k)
    <3>1. ASSUME NEW k \in Keys PROVE deadline'[k] = deadline[k] \/ (k = client[r] /\ deadline'[k] = now + TTL)
      BY <1>3, <2>1 DEF Expire, Deadline, TypeOK
    <3>2. QED
      BY <2>2, <3>1 DEF LimitInv
  <2>4. UNCHANGED <<now, count, client, late, lost>>
    BY <1>3 DEF Expire, history
  <2>5. CASE Answer(r)
    <3>1. /\ pc'[r] \in {"passed", "refused"}
          /\ pc'[r] = "passed" => ~(got[r] > Rpm)
          /\ \A q \in Requests : q # r => pc'[q] = pc[q]
          /\ got' = got
      BY <2>5 DEF Answer, Goto, OverLimit, TypeOK
    <3>2. got[r] > 0 /\ (pc'[r] = "passed" => got[r] <= Rpm)
      BY <2>1, <3>1, RateAssumption DEF LimitInv, TypeOK
    <3>3. /\ \A k \in Keys \ lost' : \A q \in InTime(k)' : now' <= End(k) => got'[q] <= count'[k]
          /\ \A k \in Keys \ lost' : \A p, q \in InTime(k)' : p # q => got'[p] # got'[q]
      BY <2>4, <3>1, LimitKept
    <3>4. \A q \in Requests : pc'[q] # "new" => client'[q][2] * Minute <= now'
      BY <2>1, <2>4, <3>1 DEF LimitInv
    <3>5. QED
      BY <2>3, <2>4, <3>1, <3>2, <3>3, <3>4 DEF LimitInv, End
  <2>6. CASE Break(r)
    BY <2>1, <2>3, <2>4, <2>6, LimitBreak
  <2>7. QED
    BY <1>3, <2>5, <2>6 DEF Expire
<1>4. ASSUME NEW r \in Requests, BreakOff(r) PROVE LimitInv'
  <2>1. UNCHANGED <<now, count, deadline, client, late, lost>> /\ pc[r] # "new"
    BY <1>4 DEF BreakOff, redis, history
  <2>2. \A k \in Keys : deadline'[k] # NoDeadline => deadline'[k] >= End(k)
    BY <2>1 DEF LimitInv
  <2>3. QED
    BY <1>4, <2>1, <2>2, LimitBreak DEF BreakOff
<1>5. CASE Tick
  <2>1. UNCHANGED <<pc, client, got, late, lost>> /\ now' = now + 1 /\ now \in Nat
    BY <1>5, RateAssumption DEF Tick, request, TypeOK
  <2>2. \A k \in Keys : InTime(k)' = InTime(k)
    BY <2>1 DEF InTime
  <2>3. ASSUME NEW k \in Keys, now' <= End(k)
        PROVE  k \notin Overdue /\ count'[k] = count[k] /\ now <= End(k)
    <3>1. End(k) \in Nat /\ (deadline[k] # NoDeadline => deadline[k] >= End(k))
      BY EndType DEF LimitInv
    <3>2. deadline[k] \in {NoDeadline} \cup 0 .. now + TTL
      BY DEF TypeOK
    <3>3. k \notin Overdue /\ now <= End(k)
      BY <2>1, <2>3, <3>1, <3>2, TTLType DEF Overdue
    <3>4. QED
      BY <1>5, <3>3 DEF Tick, Drop
  <2>4. \A k \in Keys : deadline'[k] # NoDeadline => deadline'[k] >= End(k)
    BY <1>5 DEF Tick, Drop, LimitInv
  <2>5. ASSUME NEW q \in Requests, pc'[q] # "new" PROVE client'[q][2] * Minute <= now'
    <3>1. client[q] \in Keys /\ client[q][2] * Minute <= now
      BY <2>1, <2>5 DEF LimitInv, TypeOK
    <3>2. client[q][2] * Minute \in Nat
      BY <3>1, RateAssumption DEF Keys, Minutes
    <3>3. QED
      BY <2>1, <3>1, <3>2
  <2>6. \A k \in Keys \ lost' : \A q \in InTime(k)' : now' <= End(k) => got'[q] <= count'[k]
    BY <2>1, <2>2, <2>3 DEF LimitInv
  <2>7. QED
    BY <2>1, <2>2, <2>4, <2>5, <2>6 DEF LimitInv, End
<1>6. ASSUME NEW k \in Keys, Lose(k) PROVE LimitInv'
  <2>1. UNCHANGED <<now, pc, client, got, late>> /\ lost' = lost \cup {k}
    BY <1>6 DEF Lose, request
  <2>2. \A c \in Keys : InTime(c)' = InTime(c)
    BY <2>1 DEF InTime
  <2>3. \A c \in Keys \ lost' : c \in Keys \ lost /\ count'[c] = count[c]
    BY <1>6, <2>1 DEF Lose, Drop
  <2>4. \A c \in Keys : deadline'[c] # NoDeadline => deadline'[c] >= End(c)
    BY <1>6 DEF Lose, Drop, LimitInv
  <2>5. \A q \in Requests : pc'[q] # "new" => client'[q][2] * Minute <= now'
    BY <2>1 DEF LimitInv
  <2>6. QED
    BY <2>1, <2>2, <2>3, <2>4, <2>5 DEF LimitInv, End
<1>7. CASE UNCHANGED vars
  <2>1. UNCHANGED <<now, count, deadline, pc, client, got, late, lost>>
    BY <1>7 DEF vars, redis, request, history
  <2>2. \A k \in Keys : InTime(k)' = InTime(k)
    BY <2>1 DEF InTime
  <2>3. QED
    BY <2>1, <2>2 DEF LimitInv, End
<1>8. QED
  <2>1. ASSUME NEW r \in Requests, Incr(r) PROVE LimitInv'
    <3>1. client[r] \in Keys
      BY <2>1 DEF Incr, TypeOK
    <3>2. QED
      BY <1>2, <2>1, <3>1
  <2>2. QED
    BY <1>1, <1>3, <1>4, <1>5, <1>6, <1>7, <2>1 DEF Next, Handle

(* As many requests cannot have numbers of their own from 1 to Rpm.           *)
LEMMA LimitHolds == ASSUME TypeOK, LimitInv PROVE AtMostRpm
<1>1. SUFFICES ASSUME NEW k \in Keys \ lost
               PROVE  Cardinality(Through(k)) <= Rpm
  BY DEF AtMostRpm
<1> DEFINE number == [r \in Through(k) |-> got[r]]
<1>2. \A r \in Through(k) : r \in InTime(k) /\ got[r] \in 1 .. Rpm
  BY RateAssumption DEF Through, InTime, LimitInv, TypeOK
<1>3. number \in Injection(Through(k), 1 .. Rpm)
  <2>1. number \in [Through(k) -> 1 .. Rpm]
    BY <1>2
  <2>2. \A q, r \in Through(k) : number[q] = number[r] => q = r
    BY <1>2 DEF LimitInv
  <2>3. QED
    BY <2>1, <2>2 DEF Injection, IsInjective
<1>4. IsFiniteSet(1 .. Rpm) /\ Cardinality(1 .. Rpm) = Rpm
  BY FS_Interval, RateAssumption
<1> HIDE DEF number
<1>5. QED
  BY <1>3, <1>4, FS_Injection

(* Of the requests of one client and minute no more than rpm get through by   *)
(* their count, unless Redis lost the key or they were stuck in between.      *)
THEOREM Limited == Spec => []AtMostRpm
<1>1. Init => LimitInv
  BY DEF Init, LimitInv, InTime
<1>2. QED
  BY <1>1, TypeInit, TypeStep, LimitStep, LimitHolds, PTL DEF Spec
=============================================================================
