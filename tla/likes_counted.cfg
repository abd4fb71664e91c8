\* No faults, liveness: three likes of a tweet, one instance strong and two eventual.
SPECIFICATION FairSpec
CONSTANTS
  r1 = r1  r2 = r2  r3 = r3
  u1 = u1  u2 = u2
  t1 = t1  t2 = t2
  i1 = i1  i2 = i2  i3 = i3
  Requests = {r1, r2, r3}
  Users = {u1}
  Tweets = {t1}
  Deletable = {}
  Instances = {i1, i2, i3}
  Ops = {"like"}
  ConsistencyMode <- OneStrong
  TrackedCap = 3
  Faults = {}
INVARIANTS
  CountExact
  RowAppliedPerAggregator
PROPERTIES
  LikeIsCounted
\* Requests are one call each: the system stops when all have been made.
CHECK_DEADLOCK FALSE
