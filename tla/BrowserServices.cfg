SPECIFICATION Spec
CONSTANTS
  theirs = theirs
  MaxCalls = 3
  Own = 2
  Others <- Neighbours
  Keys <- FewKeys
  Services <- BothServices
CHECK_DEADLOCK FALSE
INVARIANTS
  RegistryExact
  HandlesAreShared
  BackendsAgree
