SPECIFICATION FairSpec
CONSTANTS
  p1 = p1
  p2 = p2
  c1 = c1
  Posts <- Requests
  Size <- Sizes
  Clients <- Browsers
  PoolMax = 2
  Limit = 1
  MaxQueued = 2
  MaxReads <- Reads3
  MaxFaults <- Faults2
INVARIANTS
  TypeOK
  LiveIsExact
PROPERTIES
  IsFeed
  CatchesUp
CHECK_DEADLOCK FALSE
