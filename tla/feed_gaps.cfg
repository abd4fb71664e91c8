\* No faults and no Redis: two tweets with the same created_at, in pages of one.
SPECIFICATION FeedSpec
CONSTANTS
  Users = {1, 2}
  Authors = {1}
  Pairs <- OneFollowee
  Loyal = {}
  MaxTweets = 2
  Workers = {w1}
  BufferSize = 1
  PageSize = 1
  MaxLen = 2
  UseRedis = FALSE
  Faults = {}
  Sessions = {s1}
  HomeUsers = {2}
  Profiles = {}
  Deletable = {}
  Limit = 1
  Ties = {2}
INVARIANTS
  StoredPagesHaveNoGaps
\* A session ends, and the channel may be empty for ever.
CHECK_DEADLOCK FALSE
