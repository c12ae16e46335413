SPECIFICATION PlatformSpec
CONSTANTS
  s1 = s1
  s2 = s2
  r1 = r1
  r2 = r2
  Socks <- TwoSocks
  Main = s1
  Readers <- TwoReaders
  MaxConcurrent = 1
  MaxFetches = 1
  Addresses <- Edges
  Allow <- AllowTen
  Exceptions <- TenExcepted
  Pieces = 4
  MaxAsked = 3
  MaxReads = 3
  MaxPulls = 4
  Texts <- SampleTexts
  Heaps <- SampleHeaps
CHECK_DEADLOCK FALSE
INVARIANTS
  StreamIntact
  SocketsBounded
  PolicyIsExact
  TimersAndHandles
  FetchesBounded
  StreamDelivers
  ValuesCross
PROPERTY
  ClosingSettles
