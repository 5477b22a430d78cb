SPECIFICATION PoolSpec
CONSTANTS
  Pool = 7
  Drops <- OneOrTwo
  MaxLedgers = 3
  MaxRestarts = 2
  NoXrp = NoXrp
INVARIANTS ReserveExact
PROPERTIES RowsKept
CHECK_DEADLOCK FALSE
