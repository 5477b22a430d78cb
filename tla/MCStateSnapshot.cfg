SPECIFICATION FairSpec
CONSTANTS
  Objects <- Large
  PageLimit = 1
  FlushEvery = 2
  FlushPages = 2
  MayPrune = TRUE
  MaxCrashes = 2
  Null = Null
INVARIANTS MarkerIsBehind UnkilledIsComplete
PROPERTIES Progress EventuallyDone
CHECK_DEADLOCK FALSE
