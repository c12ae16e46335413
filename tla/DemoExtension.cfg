SPECIFICATION FairSpec
CONSTANTS
  a = a
  b = b
  x = x
  y = y
  Settings <- TwoSettings
  Contexts <- TwoContexts
  MaxRequests = 3
  LogRows = 2
  MaxRows = 5
  Chains = {1, 2, 3}
  MaxProbes = 3
  MaxAsks = 4
CHECK_DEADLOCK FALSE
INVARIANTS
  OneWorkerUnlessOverlap
  LogKept
  LostRaceIsNoFailure
  WatchInForce
PROPERTIES
  FieldHonest
  EventuallyAnswered
