SPECIFICATION Spec
CONSTANTS
  d1 = d1
  d2 = d2
  Domains <- OneDomain
  MaxHead = 3
  MaxTx = 2
  Null = Null
INVARIANTS RowCurrent
PROPERTIES LiveCorrects
CHECK_DEADLOCK FALSE
