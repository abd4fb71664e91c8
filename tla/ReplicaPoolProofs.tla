-------------------------- MODULE ReplicaPoolProofs --------------------------
(* Proofs about ReplicaPool, for any number of replicas and readers.          *)
EXTENDS ReplicaPool, TLAPS

(* The remainder of a number below 2 * N. *)
LEMMA Wrap ==
  ASSUME NEW k \in 0..(2 * N - 1)
  PROVE  k % N = IF k < N THEN k ELSE k - N
BY ReplicaAssumption

LEMMA ProbedType ==
  ASSUME TypeOK, NEW r \in Readers
  PROVE  Probed(r) \in Replicas
<1>1. start[r] \in 0..(N - 1) /\ tried[r] \in 0..(N - 1)
  BY DEF TypeOK, Replicas
<1>2. start[r] + tried[r] \in 0..(2 * N - 1)
  BY <1>1, ReplicaAssumption
<1>3. QED
  BY <1>1, <1>2, Wrap, ReplicaAssumption DEF Probed, Replicas

LEMMA TypeInit == Init => TypeOK
<1>1. 0 \in Replicas
  BY ReplicaAssumption DEF Replicas
<1>2. ASSUME Init PROVE TypeOK
  <2>1. /\ settled \in [Replicas -> 0..2] /\ healthy \in [Replicas -> BOOLEAN]
        /\ up \in [Replicas -> BOOLEAN]
    BY <1>2 DEF Init
  <2>2. start \in [Readers -> Replicas] /\ tried \in [Readers -> Replicas]
    BY <1>1, <1>2 DEF Init
  <2>3. /\ got \in [Readers -> Replicas \cup {Primary, Nowhere}]
        /\ fit \in [Readers -> SUBSET Replicas] /\ unfit \in [Readers -> SUBSET Replicas]
    BY <1>2 DEF Init
  <2>4. counter \in Replicas /\ phase = "wait" /\ at \in Replicas /\ ok \in BOOLEAN
    BY <1>1, <1>2 DEF Init
  <2>5. QED
    BY <2>1, <2>2, <2>3, <2>4 DEF TypeOK
<1>3. QED
  BY <1>2

LEMMA TypeCheck == ASSUME TypeOK, Check PROVE TypeOK'
<1>1. CASE Tick
  <2>1. 0 \in Replicas
    BY ReplicaAssumption DEF Replicas
  <2>2. QED
    BY <1>1, <2>1 DEF Tick, TypeOK, reader
<1>2. CASE Ping
  BY <1>2 DEF Ping, TypeOK, reader, history
<1>3. CASE Mark
  <2>1. at' \in Replicas
    BY <1>3, ReplicaAssumption DEF Mark, LastOfRound, TypeOK, Replicas
  <2>2. healthy' \in [Replicas -> BOOLEAN]
    BY <1>3 DEF Mark, Revived, TypeOK
  <2>3. fit' \in [Readers -> SUBSET Replicas] /\ unfit' \in [Readers -> SUBSET Replicas]
    BY <1>3 DEF Mark, TypeOK
  <2>4. settled' \in [Replicas -> 0..2] /\ phase' \in {"wait", "ping", "mark"}
    BY <1>3 DEF Mark, TypeOK
  <2>5. QED
    BY <1>3, <2>1, <2>2, <2>3, <2>4 DEF Mark, TypeOK, reader
<1>4. QED
  BY <1>1, <1>2, <1>3 DEF Check

LEMMA TypeCall == ASSUME TypeOK, NEW r \in Readers, Call(r) PROVE TypeOK'
<1>1. counter' \in Replicas
  <2>1. counter + 1 \in 0..(2 * N - 1)
    BY ReplicaAssumption DEF TypeOK, Replicas
  <2>2. (counter + 1) % N \in Replicas
    BY <2>1, Wrap, ReplicaAssumption DEF Replicas
  <2>3. QED
    BY <2>2 DEF Call
<1>2. 0 \in Replicas
  BY ReplicaAssumption DEF Replicas
<1>3. QED
  BY <1>1, <1>2 DEF Call, TypeOK, checker

LEMMA TypeProbe == ASSUME TypeOK, NEW r \in Readers, Probe(r) PROVE TypeOK'
<1>1. 0 \in Replicas /\ Probed(r) \in Replicas
  BY ProbedType, ReplicaAssumption DEF Replicas
<1>2. ASSUME ~Exhausted(r) PROVE tried[r] + 1 \in Replicas
  BY <1>2, ReplicaAssumption DEF Exhausted, TypeOK, Replicas
<1>3. /\ start' \in [Readers -> Replicas] /\ tried' \in [Readers -> Replicas]
      /\ got' \in [Readers -> Replicas \cup {Primary, Nowhere}]
  BY <1>1, <1>2 DEF Probe, Return, TypeOK
<1>4. QED
  BY <1>3 DEF Probe, TypeOK, checker, history

LEMMA TypeStep == TypeOK /\ [Next]_vars => TypeOK'
<1> SUFFICES ASSUME TypeOK, [Next]_vars PROVE TypeOK'
  OBVIOUS
<1>1. ASSUME NEW i \in Replicas, Change(i) PROVE TypeOK'
  BY <1>1 DEF Change, TypeOK, checker, reader
<1>2. CASE Check
  BY <1>2, TypeCheck
<1>3. ASSUME NEW r \in Readers, Call(r) \/ Probe(r) PROVE TypeOK'
  BY <1>3, TypeCall, TypeProbe
<1>4. CASE UNCHANGED vars
  BY <1>4 DEF vars, checker, reader, history, TypeOK
<1>5. QED
  BY <1>1, <1>2, <1>3, <1>4 DEF Next

(* Every variable keeps its type: no index ever leaves the slice of replicas,  *)
(* neither Reader()'s nor the health checker's.                                *)
THEOREM TypeCorrect == Spec => []TypeOK
<1>1. QED
  BY TypeInit, TypeStep, PTL DEF Spec

-----------------------------------------------------------------------------
(* FlagsOneRoundBehind.  In the first round after a change, the flags of the   *)
(* replicas already passed are right, and so is a ping's result.               *)

FlagInv ==
  \A i \in Replicas :
    /\ settled[i] = 2 => healthy[i] = up[i]
    /\ settled[i] = 1 => phase # "wait"
    /\ settled[i] = 1 /\ i < at => healthy[i] = up[i]
    /\ settled[i] # 0 /\ phase = "mark" /\ i = at => ok = up[i]

LEMMA FlagMark == ASSUME TypeOK, FlagInv, Mark PROVE FlagInv'
<1>1. at \in Replicas /\ phase = "mark" /\ UNCHANGED up
  BY DEF Mark, TypeOK
<1>2. healthy'[at] = ok
  BY DEF Mark, Revived, TypeOK
<1>3. \A i \in Replicas \ {at} : healthy'[i] = healthy[i]
  BY DEF Mark, TypeOK
<1>4. settled[at] # 0 => healthy'[at] = up[at]
  BY <1>1, <1>2 DEF FlagInv
<1>5. \A i \in Replicas : settled[i] = 2 => healthy'[i] = up[i]
  BY <1>3, <1>4 DEF FlagInv
<1>6. \A i \in Replicas : settled[i] = 1 /\ i <= at => healthy'[i] = up[i]
  BY <1>1, <1>3, <1>4 DEF FlagInv, Replicas
<1>7. CASE LastOfRound
  <2>1. /\ phase' = "wait"
        /\ \A i \in Replicas : settled'[i] = IF settled[i] = 1 THEN 2 ELSE settled[i]
    BY <1>7 DEF Mark
  <2>2. \A i \in Replicas : i <= at
    BY <1>7, ReplicaAssumption DEF LastOfRound, Replicas
  <2>3. QED
    BY <1>1, <1>5, <1>6, <2>1, <2>2 DEF FlagInv
<1>8. CASE ~LastOfRound
  <2>1. phase' = "ping" /\ at' = at + 1 /\ UNCHANGED settled
    BY <1>8 DEF Mark
  <2>2. \A i \in Replicas : i < at' => i <= at
    BY <1>1, <2>1 DEF Replicas
  <2>3. QED
    BY <1>1, <1>5, <1>6, <2>1, <2>2 DEF FlagInv
<1>9. QED
  BY <1>7, <1>8

LEMMA FlagStep == TypeOK /\ FlagInv /\ [Next]_vars => FlagInv'
<1> SUFFICES ASSUME TypeOK, FlagInv, [Next]_vars PROVE FlagInv'
  OBVIOUS
<1>1. ASSUME NEW i \in Replicas, Change(i) PROVE FlagInv'
  BY <1>1 DEF Change, FlagInv, TypeOK, checker
<1>2. CASE Tick
  BY <1>2 DEF Tick, FlagInv, TypeOK, Replicas
<1>3. CASE Ping
  BY <1>3 DEF Ping, FlagInv, TypeOK, history
<1>4. CASE Mark
  BY <1>4, FlagMark
<1>5. ASSUME NEW r \in Readers, Call(r) \/ Probe(r) PROVE FlagInv'
  BY <1>5 DEF Call, Probe, FlagInv, checker, history
<1>6. CASE UNCHANGED vars
  BY <1>6 DEF vars, checker, history, FlagInv
<1>7. QED
  BY <1>1, <1>2, <1>3, <1>4, <1>5, <1>6 DEF Next, Check

(* A flag is at most one round of pings behind the replica it is about.        *)
THEOREM FlagsCurrent == Spec => []FlagsOneRoundBehind
<1>1. Init => FlagInv
  BY DEF Init, FlagInv
<1>2. FlagInv => FlagsOneRoundBehind
  BY DEF FlagInv, FlagsOneRoundBehind
<1>3. QED
  BY <1>1, <1>2, TypeInit, TypeStep, FlagStep, PTL DEF Spec

-----------------------------------------------------------------------------
(* ReaderJustified.  During a call every flag that is up has been seen in fit,  *)
(* every flag that is down in unfit, and what the loop has passed is in unfit.  *)

ReaderInv ==
  /\ ReaderJustified
  /\ \A r \in Readers : Calling(r) =>
       /\ \A i \in Replicas : IF healthy[i] THEN i \in fit[r] ELSE i \in unfit[r]
       /\ \A k \in 0..(tried[r] - 1) : (start[r] + k) % N \in unfit[r]

(* Counting up from start, modulo N, reaches every replica. *)
LEMMA Covers ==
  ASSUME NEW s \in Replicas, NEW i \in Replicas
  PROVE  \E k \in Replicas : (s + k) % N = i
<1>1. CASE i >= s
  <2>1. i - s \in Replicas /\ s + (i - s) \in 0..(2 * N - 1) /\ s + (i - s) < N
    BY <1>1, ReplicaAssumption DEF Replicas
  <2>2. (s + (i - s)) % N = i
    BY <2>1, Wrap DEF Replicas
  <2>3. QED
    BY <2>1, <2>2
<1>2. CASE i < s
  <2>1. i - s + N \in Replicas /\ s + (i - s + N) \in 0..(2 * N - 1)
        /\ s + (i - s + N) >= N
    BY <1>2, ReplicaAssumption DEF Replicas
  <2>2. (s + (i - s + N)) % N = i
    BY <2>1, Wrap, ReplicaAssumption DEF Replicas
  <2>3. QED
    BY <2>1, <2>2
<1>3. QED
  BY <1>1, <1>2 DEF Replicas

LEMMA ReaderProbe ==
  ASSUME TypeOK, ReaderInv, NEW r \in Readers, Probe(r)
  PROVE  ReaderInv'
<1>1. /\ UNCHANGED <<healthy, fit, unfit>>
      /\ \A q \in Readers \ {r} : /\ got'[q] = got[q] /\ start'[q] = start[q]
                                  /\ tried'[q] = tried[q]
  BY DEF Probe, Return, TypeOK, history
<1>2. Calling(r) /\ Probed(r) \in Replicas
  BY ProbedType DEF Probe
<1>3. start[r] \in Replicas /\ tried[r] \in Replicas /\ unfit[r] \subseteq Replicas
  BY DEF TypeOK
<1>4. ASSUME ~healthy[Probed(r)]
      PROVE  \A k \in 0..tried[r] : (start[r] + k) % N \in unfit[r]
  <2>1. Probed(r) \in unfit[r]
    BY <1>2, <1>4 DEF ReaderInv
  <2>2. \A k \in 0..tried[r] : k = tried[r] \/ k \in 0..(tried[r] - 1)
    BY <1>3 DEF Replicas
  <2>3. QED
    BY <1>2, <2>1, <2>2 DEF ReaderInv, Probed
<1>5. CASE healthy[Probed(r)] /\ Return(r, Probed(r))
  <2>1. got'[r] = Probed(r) /\ Probed(r) \in fit[r]
    BY <1>2, <1>5 DEF Return, TypeOK, ReaderInv
  <2>2. got'[r] # Nowhere /\ got'[r] # Primary
    BY <1>2, <2>1, ReplicaAssumption DEF Nowhere, Primary, Replicas
  <2>3. QED
    BY <1>1, <2>1, <2>2 DEF ReaderInv, ReaderJustified, Calling
<1>6. CASE ~healthy[Probed(r)] /\ Exhausted(r) /\ Return(r, Primary)
  <2>1. got'[r] = Primary /\ Primary # Nowhere /\ Primary \notin Replicas
    BY <1>6, ReplicaAssumption DEF Return, TypeOK, Primary, Nowhere, Replicas
  <2>2. \A k \in Replicas : k \in 0..tried[r]
    BY <1>3, <1>6, ReplicaAssumption DEF Exhausted, Replicas
  <2>3. \A i \in Replicas : i \in unfit[r]
    BY <1>3, <1>4, <1>6, <2>2, Covers
  <2>4. unfit[r] = Replicas
    BY <1>3, <2>3
  <2>5. QED
    BY <1>1, <2>1, <2>4 DEF ReaderInv, ReaderJustified, Calling
<1>7. CASE ~healthy[Probed(r)] /\ tried' = [tried EXCEPT ![r] = @ + 1]
             /\ UNCHANGED <<got, start>>
  <2>1. tried'[r] = tried[r] + 1 /\ UNCHANGED <<got, start>>
    BY <1>7 DEF TypeOK
  <2>2. 0..(tried'[r] - 1) = 0..tried[r]
    BY <1>3, <2>1 DEF Replicas
  <2>3. \A k \in 0..(tried'[r] - 1) : (start'[r] + k) % N \in unfit'[r]
    BY <1>1, <1>4, <1>7, <2>1, <2>2
  <2>4. QED
    BY <1>1, <2>1, <2>3 DEF ReaderInv, ReaderJustified, Calling
<1>8. QED
  BY <1>5, <1>6, <1>7 DEF Probe

LEMMA ReaderStep == TypeOK /\ ReaderInv /\ [Next]_vars => ReaderInv'
<1> SUFFICES ASSUME TypeOK, ReaderInv, [Next]_vars PROVE ReaderInv'
  OBVIOUS
<1>1. CASE Mark
  <2>1. \A r \in Readers : /\ fit[r] \subseteq fit'[r] /\ unfit[r] \subseteq unfit'[r]
                           /\ ~Calling(r) => UNCHANGED <<fit[r], unfit[r]>>
    BY <1>1 DEF Mark, TypeOK
  <2>2. \A r \in Readers : Calling(r) =>
          IF healthy'[at] THEN at \in fit'[r] ELSE at \in unfit'[r]
    BY <1>1 DEF Mark, TypeOK
  <2>3. \A i \in Replicas \ {at} : healthy'[i] = healthy[i]
    BY <1>1 DEF Mark, TypeOK
  <2>4. UNCHANGED <<start, tried, got>>
    BY <1>1 DEF Mark, reader
  <2>5. ReaderJustified'
    BY <2>1, <2>4, ReplicaAssumption
    DEF ReaderInv, ReaderJustified, Calling, Primary, Nowhere, Replicas
  <2>6. \A r \in Readers : Calling(r) =>
          \A i \in Replicas : IF healthy'[i] THEN i \in fit'[r] ELSE i \in unfit'[r]
    <3> SUFFICES ASSUME NEW r \in Readers, Calling(r), NEW i \in Replicas
                 PROVE  IF healthy'[i] THEN i \in fit'[r] ELSE i \in unfit'[r]
      OBVIOUS
    <3>1. CASE i = at
      BY <3>1, <2>2
    <3>2. CASE i # at
      BY <3>2, <2>1, <2>3 DEF ReaderInv
    <3>3. QED
      BY <3>1, <3>2
  <2>7. \A r \in Readers : Calling(r) =>
          \A k \in 0..(tried[r] - 1) : (start[r] + k) % N \in unfit'[r]
    BY <2>1 DEF ReaderInv
  <2>8. QED
    BY <2>4, <2>5, <2>6, <2>7 DEF ReaderInv, Calling
<1>2. ASSUME NEW r \in Readers, Call(r) PROVE ReaderInv'
  <2>1. /\ tried'[r] = 0 /\ got'[r] = Nowhere /\ UNCHANGED healthy
        /\ fit'[r] = {i \in Replicas : healthy[i]}
        /\ unfit'[r] = {i \in Replicas : ~healthy[i]}
    BY <1>2 DEF Call, TypeOK
  <2>2. \A q \in Readers \ {r} : /\ got'[q] = got[q] /\ start'[q] = start[q]
                                 /\ tried'[q] = tried[q] /\ fit'[q] = fit[q]
                                 /\ unfit'[q] = unfit[q]
    BY <1>2 DEF Call, TypeOK
  <2>3. 0..(tried'[r] - 1) = {} /\ got'[r] \notin Replicas /\ got'[r] # Primary
    BY <2>1, ReplicaAssumption DEF Nowhere, Primary, Replicas
  <2>4. QED
    BY <2>1, <2>2, <2>3 DEF ReaderInv, ReaderJustified, Calling
<1>3. ASSUME NEW r \in Readers, Probe(r) PROVE ReaderInv'
  BY <1>3, ReaderProbe
<1>4. ASSUME UNCHANGED <<healthy, reader, fit, unfit>> PROVE ReaderInv'
  BY <1>4 DEF ReaderInv, ReaderJustified, Calling, reader
<1>5. QED
  BY <1>1, <1>2, <1>3, <1>4 DEF Next, Check, Change, Tick, Ping, vars, history

(* What Reader() returns was flagged so at some time during the call: it falls  *)
(* back to the primary only after it has found every replica unhealthy.         *)
THEOREM ReaderCorrect == Spec => []ReaderJustified
<1>1. Init => ReaderInv
  <2>1. ASSUME Init, NEW r \in Readers
        PROVE  got[r] = Primary /\ unfit[r] = Replicas /\ ~Calling(r) /\ got[r] \notin Replicas
    BY <2>1, ReplicaAssumption DEF Init, Calling, Nowhere, Primary, Replicas
  <2>2. QED
    BY <2>1 DEF ReaderInv, ReaderJustified
<1>2. ReaderInv => ReaderJustified
  BY DEF ReaderInv
<1>3. QED
  BY <1>1, <1>2, TypeInit, TypeStep, ReaderStep, PTL DEF Spec
=============================================================================
