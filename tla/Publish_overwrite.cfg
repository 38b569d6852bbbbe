SPECIFICATION Spec
CONSTANTS
  N = 3
  Prefix <- SamePrefix
  CommitEvery = 2
  Keep = FALSE
  MaxRuns = 2
  MaxTroubles = 2
  NoFile = NoFile
INVARIANTS
  NoPageLost
