SPECIFICATION FairSpec
CONSTANTS
  N = 3
  Owned <- AllRows
  Host <- SortedHosts
  Refills = {}
  Workers = {w1, w2}
  Batch = 2
  CapBatches = 2
  Writers = 1
  ShardRows = 2
  MaxPages = 0
  Faults = {"cancel", "crash", "read", "seal", "save", "write"}
  MaxRuns = 2
  None = None
PROPERTIES
  RunEnds
  ListIsFinished
