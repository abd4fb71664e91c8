\* Two requests under every fault, one instance strong and one eventual.
SPECIFICATION Spec
CONSTANTS
  r1 = r1  r2 = r2  r3 = r3
  u1 = u1  u2 = u2
  t1 = t1  t2 = t2
  i1 = i1  i2 = i2  i3 = i3
  Requests = {r1, r2}
  Users = {u1}
  Tweets = {t1, t2}
  Deletable = {t1}
  Instances = {i1, i2}
  Ops = {"like", "unlike"}
  ConsistencyMode <- OneStrong
  TrackedCap = 1
  Faults = {"db", "redis", "redis_loss", "restart"}
INVARIANTS
  TypeOK
  CounterAppliedOnce
  RowAppliedOnce
  NoOrphans
  CountExplained
\* Requests are one call each: the system stops when all have been made.
CHECK_DEADLOCK FALSE
