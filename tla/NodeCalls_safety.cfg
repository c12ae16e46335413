SPECIFICATION Spec
CONSTANTS
  c1 = c1
  c2 = c2
  a1 = a1
  a2 = a2
  Calls <- TwoCalls
  Accepts <- TwoAccepts
  Signalled <- OneCall
  Signals <- OnlyFailed
  MaxAborts = 1
  Twice <- NoCall
SYMMETRY Symmetry
INVARIANT CallsKept
PROPERTY SettlesOnce
