SPECIFICATION HarnessSpec
CONSTANTS
  c1 = c1
  r1 = r1
  r2 = r2
  Calls <- OneCall
  Signalled <- OneCall
  Piece = {1, 2, 3}
  Source <- SmallBodies
  Readers <- TwoReaders
  MaxEntries = 2
  Retention = 1
  MaxFetches = 2
  Options <- SomeOptions
CHECK_DEADLOCK FALSE
INVARIANTS
  BodiesWhole
  AbortsArrive
  CallsAsMade
PROPERTIES
  NoHalfOpenBody
  ImplementsService
  LogsKept
