SPECIFICATION FairSpec
CONSTANTS
  c1 = c1
  c2 = c2
  a1 = a1
  a2 = a2
  Calls <- TwoCalls
  Accepts <- TwoAccepts
  Signalled <- OneCall
  Bodied <- OtherCall
  Signals <- OnlyFailed
  MaxAborts = 1
INVARIANTS
  TypeOK
  NoForgottenPromise
  FailureSettles
  CallsKept
PROPERTIES
  ImplementsService
  EventuallySettled
