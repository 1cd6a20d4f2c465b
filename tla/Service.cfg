CONSTANTS
  Slots = {1, 2, 3}
  Requests <- MCRequests
  Clients = {"a", "b"}
  Burst = 1
  Rate = 2
  MaxBuckets = 1
  MaxTicks = 1
  CacheAdmin = TRUE
  Cors = TRUE
  AllowWrites = FALSE
  Default <- MCDefault
SPECIFICATION FairSpec
INVARIANTS
  RateBounded
  NothingWithoutToken
  OwnOptions
PROPERTY EveryRequestEnds
CHECK_DEADLOCK FALSE
