\* Calls that cross and lock each other out, under every fault, with fewer
\* connections than calls.
SPECIFICATION FairSpec
CONSTANTS
  r1 = r1  r2 = r2  r3 = r3
  u1 = u1  u2 = u2
  nobody = nobody
  Requests = {r1, r2, r3}
  Users = {u1, u2}
  Ids = {u1, u2, nobody}
  PoolSize = 2
  Faults = {"abort", "lost_ack"}
INVARIANTS
  TypeOK
  CountsDrift
  NeverStuck
PROPERTIES
  AtomicSpec
  CallsAnswered
\* Requests are one call each: the system stops when all are answered.
CHECK_DEADLOCK FALSE
