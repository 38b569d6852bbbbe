SPECIFICATION Spec
CONSTANTS
  N = 3
  Owned <- EvenRows
  Host <- SortedHosts
  Refills = {2}
  Workers = {w1, w2}
  Batch = 2
  CapBatches = 2
  Writers = 1
  ShardRows = 2
  MaxPages = 0
  Faults = {"cancel"}
  MaxRuns = 2
  None = None
SYMMETRY PoolSymmetry
INVARIANTS
  NoRowSkipped
