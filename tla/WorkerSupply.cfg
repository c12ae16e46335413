SPECIFICATION Spec
CONSTANTS
  p1 = p1
  p2 = p2
  Publishers <- MCPublishers
  Addresses <- MCPublishers
  Accounts <- MCPublishers
  Hashes <- MCHashes
  Bundles <- MCBundles
  DirOf <- Dirs
  SizeOf <- Sizes
  MaxBytes = 2
  Headroom = 2
  Ambient <- Codings
  WordSize = 2
  ByteValues = 4
  MaxSafe = 14
  MaxRuns = 3
  MaxUpdates = 1
  ResolverUrls <- Urls
  OtherPairs <- Pairs
  Lists <- SomeLists
  Answers <- SomeAnswers
SYMMETRY Clones
CHECK_DEADLOCK FALSE
INVARIANTS
  PublishedBoots
  BootsPinned
  OnlyRacesLose
  AnswerIntact
