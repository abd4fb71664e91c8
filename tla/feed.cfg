\* One session, one author, three tweets in pages of one, the first two with the same
\* created_at.
SPECIFICATION FeedSpec
CONSTANTS
  Users = {1, 2}
  Authors = {1}
  Pairs <- OneFollowee
  Loyal = {}
  MaxTweets = 3
  Workers = {w1}
  BufferSize = 1
  PageSize = 1
  MaxLen = 2
  UseRedis = TRUE
  Faults = {"db", "redis", "lag", "expire"}
  Sessions = {s1}
  HomeUsers = {2}
  Profiles = {1}
  Deletable = {2}
  Limit = 1
  Ties = {2}
INVARIANTS
  FeedTypeOK
  OnlyTiesSkipped
  NoStrangers
\* A session ends, and the channel may be empty for ever.
CHECK_DEADLOCK FALSE
