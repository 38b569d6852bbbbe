SPECIFICATION FairSpec
CONSTANTS
  N = 3
  Prefix <- OwnPrefix
  CommitEvery = 2
  Keep = FALSE
  MaxRuns = 2
  MaxTroubles = 2
  NoFile = NoFile
INVARIANTS
  NoPageLost
  PathsNameTheirContent
  LedgerCountsHub
  HandoffInv
PROPERTIES
  NothingLeavesUnpublished
  ImplementsLowWaterMark
  AllPublished
