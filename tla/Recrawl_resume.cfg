SPECIFICATION Spec
CONSTANTS
  N = 4
  Owned <- AllRows
  Host <- SortedHosts
  Refills = {}
  Workers = {w1, w2}
  Batch = 1
  CapBatches = 3
  Writers = 1
  ShardRows = 2
  MaxPages = 3
  Faults = {"cancel", "crash", "emit"}
  MaxRuns = 2
  None = None
SYMMETRY PoolSymmetry
INVARIANTS
  PageInv
  NoRowSkipped
  DoneIsFinal
  CleanStopKeepsPages
  PageLimitIsExact
PROPERTIES
  CheckpointNeverRetreats
