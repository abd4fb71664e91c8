\* Up to three followers in pages of two, two tweets, two workers.
SPECIFICATION DeliverySpec
CONSTANTS
  Users = {1, 2, 3, 9}
  Authors = {9}
  Pairs <- OneAuthor
  Loyal <- TwoLoyal
  MaxTweets = 2
  Workers = {w1, w2}
  BufferSize = 1
  PageSize = 2
  MaxLen = 2
  UseRedis = TRUE
  Faults = {"db", "redis", "retry", "expire", "lag", "restart"}
INVARIANTS
  TypeOK
  PushedOnce
  SteadyFollowersServed
  InOrder
PROPERTIES
  JobsEnd
  JobsAdvance
  KeepsPromise
\* The channel may be empty for ever.
CHECK_DEADLOCK FALSE
