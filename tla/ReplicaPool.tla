----------------------------- MODULE ReplicaPool -----------------------------
(* The read side of pkg/db: Reader(), which picks a replica by its health     *)
(* flag, and the health checker, which pings one replica after the other and  *)
(* sets the flags.  Neither waits for the other, and replicas fail and        *)
(* recover at any time.                                                       *)
EXTENDS Integers

CONSTANTS
  N,        \* replicas that answered when the pool was opened
  Readers   \* goroutines that call Reader(), again and again

ASSUME ReplicaAssumption == N \in Nat \ {0}

Replicas == 0..(N - 1)
Primary == -1
Nowhere == -2

VARIABLES
  up,       \* per replica: it answers a ping within pingCtx
  healthy,  \* replicaEntry.healthy
  counter,  \* DB.counter, modulo N
  phase,    \* the health checker: waiting for its ticker, pinging or marking
  at,       \* ... the replica it is at
  ok,       \* ... what the ping returned
  start,    \* per reader: start
  tried,    \* per reader: i, the flags it has found down
  got,      \* per reader: the pool it was given, Nowhere during the call
  settled,  \* history, per replica: 0 since up changed, 1 in the first round
            \* that began afterwards, 2 when that round is over
  fit,      \* history, per reader: replicas flagged healthy during its call
  unfit     \* history, per reader: replicas flagged unhealthy during its call

checker == <<phase, at, ok>>
reader  == <<start, tried, got>>
history == <<settled, fit, unfit>>
vars    == <<up, healthy, counter, checker, reader, history>>

Init ==
  /\ up \in [Replicas -> BOOLEAN]
  /\ healthy = [i \in Replicas |-> TRUE]
  /\ counter = 0
  /\ phase = "wait" /\ at = 0 /\ ok = FALSE
  /\ start = [r \in Readers |-> 0] /\ tried = [r \in Readers |-> 0]
  /\ got = [r \in Readers |-> Primary]
  /\ settled = [i \in Replicas |-> 0]
  /\ fit = [r \in Readers |-> {}] /\ unfit = [r \in Readers |-> Replicas]

Calling(r) == got[r] = Nowhere

(* (start + i) % n *)
Probed(r) == (start[r] + tried[r]) % N

(* Operators whose names have "Mutant" are slips with which a property must   *)
(* fail.                                                                      *)

(* The loop over i has seen every replica. *)
ExhaustedMutant(r) == tried[r] + 2 >= N
ExhaustedMutant2(r) == tried[r] = N
Exhausted(r) == tried[r] + 1 = N

(* The range over d.replicas ends with this one. *)
LastOfRoundMutant == at >= N - 2
LastOfRound == at = N - 1

(* What Mark stores for a replica that is not healthy. *)
RevivedMutant == FALSE
Revived == ok

-----------------------------------------------------------------------------
(* A replica goes down, comes back, or gets too slow or fast enough again.    *)
Change(i) ==
  /\ up' = [up EXCEPT ![i] = ~@]
  /\ settled' = [settled EXCEPT ![i] = 0]
  /\ UNCHANGED <<healthy, counter, checker, reader, fit, unfit>>

(* The ticker fires: a round begins. *)
Tick ==
  /\ phase = "wait"
  /\ phase' = "ping" /\ at' = 0
  /\ settled' = [i \in Replicas |-> IF settled[i] = 0 THEN 1 ELSE settled[i]]
  /\ UNCHANGED <<up, healthy, counter, ok, reader, fit, unfit>>

(* The ping answers or times out; the replica may change before Mark.         *)
Ping ==
  /\ phase = "ping"
  /\ phase' = "mark" /\ ok' = up[at]
  /\ UNCHANGED <<up, healthy, counter, at, reader, history>>

(* The flag is loaded, and stored if it has to change.                        *)
Mark ==
  /\ phase = "mark"
  /\ healthy' = [healthy EXCEPT ![at] = IF @ THEN ok ELSE Revived]
  /\ fit' = [r \in Readers |->
               IF Calling(r) /\ healthy'[at] THEN fit[r] \cup {at} ELSE fit[r]]
  /\ unfit' = [r \in Readers |->
                 IF Calling(r) /\ ~healthy'[at] THEN unfit[r] \cup {at} ELSE unfit[r]]
  /\ IF LastOfRound
     THEN /\ phase' = "wait" /\ UNCHANGED at
          /\ settled' = [i \in Replicas |-> IF settled[i] = 1 THEN 2 ELSE settled[i]]
     ELSE /\ phase' = "ping" /\ at' = at + 1
          /\ UNCHANGED settled
  /\ ok' = FALSE
  /\ UNCHANGED <<up, counter, reader>>

-----------------------------------------------------------------------------
(* Reader() is called: the atomic increment. *)
Call(r) ==
  /\ ~Calling(r)
  /\ counter' = (counter + 1) % N
  /\ start' = [start EXCEPT ![r] = counter']
  /\ tried' = [tried EXCEPT ![r] = 0]
  /\ got' = [got EXCEPT ![r] = Nowhere]
  /\ fit' = [fit EXCEPT ![r] = {i \in Replicas : healthy[i]}]
  /\ unfit' = [unfit EXCEPT ![r] = {i \in Replicas : ~healthy[i]}]
  /\ UNCHANGED <<up, healthy, checker, settled>>

(* It returns; its local variables are gone. *)
Return(r, pool) ==
  /\ got' = [got EXCEPT ![r] = pool]
  /\ start' = [start EXCEPT ![r] = 0] /\ tried' = [tried EXCEPT ![r] = 0]

(* One flag is loaded. *)
Probe(r) ==
  /\ Calling(r)
  /\ \/ healthy[Probed(r)] /\ Return(r, Probed(r))
     \/ ~healthy[Probed(r)] /\ Exhausted(r) /\ Return(r, Primary)
     \/ /\ ~healthy[Probed(r)] /\ ~Exhausted(r)
        /\ tried' = [tried EXCEPT ![r] = @ + 1]
        /\ UNCHANGED <<got, start>>
  /\ UNCHANGED <<up, healthy, counter, checker, history>>

Check == Tick \/ Ping \/ Mark

Next ==
  \/ \E i \in Replicas : Change(i)
  \/ Check
  \/ \E r \in Readers : Call(r) \/ Probe(r)

Spec == Init /\ [][Next]_vars

(* The checker's goroutine runs, its ticker fires and every ping returns      *)
(* within two seconds.                                                        *)
FairSpec == Spec /\ WF_vars(Check)

-----------------------------------------------------------------------------
(* Properties. *)

TypeOK ==
  /\ up \in [Replicas -> BOOLEAN] /\ healthy \in [Replicas -> BOOLEAN]
  /\ counter \in Replicas
  /\ phase \in {"wait", "ping", "mark"} /\ at \in Replicas /\ ok \in BOOLEAN
  /\ start \in [Readers -> Replicas] /\ tried \in [Readers -> Replicas]
  /\ got \in [Readers -> Replicas \cup {Primary, Nowhere}]
  /\ settled \in [Replicas -> 0..2]
  /\ fit \in [Readers -> SUBSET Replicas] /\ unfit \in [Readers -> SUBSET Replicas]

(* Reader: "unhealthy replicas are skipped", "falling back to primary if no    *)
(* healthy replicas are available".  The flags change while it looks at them   *)
(* one by one: the replica it returns was flagged healthy at some time during  *)
(* the call, and each was flagged unhealthy at some time if it returns none.   *)
ReaderJustified ==
  \A r \in Readers :
    /\ got[r] \in Replicas => got[r] \in fit[r]
    /\ got[r] = Primary => unfit[r] = Replicas

(* A flag is never more than one round of pings behind: it is right for every  *)
(* replica that has not changed since before that round.                       *)
FlagsOneRoundBehind == \A i \in Replicas : settled[i] = 2 => healthy[i] = up[i]

(* A replica that stays down is skipped in the end, and one that stays up is   *)
(* used again, however the others behave.                                      *)
FlagsFollow ==
  \A i \in Replicas : /\ <>[]up[i] => <>[]healthy[i]
                      /\ <>[]~up[i] => <>[]~healthy[i]
=============================================================================
