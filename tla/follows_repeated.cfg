\* Two calls: what a repeated follow does to the counters.
SPECIFICATION Spec
CONSTANTS
  r1 = r1  r2 = r2  r3 = r3
  u1 = u1  u2 = u2
  nobody = nobody
  Requests = {r1, r2}
  Users = {u1, u2}
  Ids = {u1, u2, nobody}
  PoolSize = 2
  Faults = {}
INVARIANTS
  FollowIdempotent
\* Requests are one call each: the system stops when all are answered.
CHECK_DEADLOCK FALSE
