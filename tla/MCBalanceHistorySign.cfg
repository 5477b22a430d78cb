SPECIFICATION Spec
CONSTANTS
  Worlds <- LineWorlds
  Amounts <- Signed
  MaxHead = 2
  MaxChanges = 3
  MaxSkips = 0
  Absent = Absent
INVARIANTS DeletedLineIsZero
CHECK_DEADLOCK FALSE
