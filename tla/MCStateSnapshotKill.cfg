SPECIFICATION Spec
CONSTANTS
  Objects <- Small
  PageLimit = 1
  FlushEvery = 1
  FlushPages = 2
  MayPrune = FALSE
  MaxCrashes = 1
  Null = Null
INVARIANTS KillIsSafe
CHECK_DEADLOCK FALSE
