SPECIFICATION Spec
CONSTANTS
  Worlds <- AllWorlds
  Amounts <- Signed
  MaxHead = 4
  MaxChanges = 2
  MaxSkips = 1
  Absent = Absent
INVARIANTS RowsExact AsOfCorrect MetricsCorrect SparsePoints
CHECK_DEADLOCK FALSE
