SPECIFICATION FairSpec
CONSTANTS
  FirstHead = 2
  MaxHead = 4
  Window = 1
  StartLedger = 1
  Floors = {1, 2}
  Concurrency = 1
  Chunk = 2
  MaxFaults = 1
INVARIANTS SnapshotNotReplayed NoUnexplainedHole CursorTruthful WritersApart CheckpointIsTip
PROPERTIES ImplementsIndex ImplementsOrder LiveCatchesUp BackfillFinishes
