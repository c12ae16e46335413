SPECIFICATION FairSpec
CONSTANTS
  c1 = c1
  c2 = c2
  a1 = a1
  a2 = a2
  Calls <- TwoCalls
  Accepts <- TwoAccepts
  Signalled <- NoCall
  Signals <- OnlyReady
  MaxAborts = 0
  Twice <- OneCall
PROPERTY EventuallySettled
