SPECIFICATION Spec
CONSTANTS
  k1 = k1
  c1 = c1
  c2 = c2
  Keys = {k1}
  Calls = {c1, c2}
  Requests <- Asked
  Contents <- Ledgers3
  KeyRows <- Rows2
  Window = 2
  Sec = 2
  Ttl = 1
  HoldersTtl = 1
  MaxEntries = 2
  MaxQuery = 1
  MaxTime = 3
  MaxCalls = 3
  MaxAdmin = 1
SYMMETRY Symmetry
INVARIANTS RateHeld AnswersFresh PagesTile SeriesIsHistory
CHECK_DEADLOCK FALSE
