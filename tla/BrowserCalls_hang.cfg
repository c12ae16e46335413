SPECIFICATION FairSpec
CONSTANTS
  c1 = c1
  c2 = c2
  a1 = a1
  a2 = a2
  Calls <- OneCall
  Accepts <- OneAccept
  Signalled <- NoCall
  Bodied <- NoCall
  Signals <- NoSignal
  MaxAborts = 0
PROPERTY
  NothingHangs
