SPECIFICATION FairSpec
CONSTANTS
  k1 = k1
  k2 = k2
  k3 = k3
  w1 = w1
  w2 = w2
  key1 = key1
  Conns <- ThreeConns
  Workers <- TwoWorkers
  Keys <- OneKey
  MaxLogs = 1
CHECK_DEADLOCK FALSE
INVARIANTS
  RefsExact
  RunningIsCached
  RetryIsReal
PROPERTY
  BootIsAnswered
