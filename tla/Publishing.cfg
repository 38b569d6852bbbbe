SPECIFICATION PublishingSpec
CONSTANTS
  w1 = w1
  w2 = w2
  fa = fa
  fb = fb
  s1 = s1
  s2 = s2
  Kinds = {"urls", "news", "domains"}
  Parts <- MCParts
  Projectors = {w1, w2}
  CommitEvery = 2
  Attempts = 2
  Capacity = 2
  MaxStall = 1
  UnitRuns = 2
  UnitFaults <- MCUnitFaults
  UpFiles = {fa, fb}
  Pieces <- MCPieces
  Slots = 2
  SendRetries = 2
  CommitTries = 2
  UpFaults = 2
  Servers = {s1, s2}
  Ledgers <- MCLedgers
  FleetBatch = 1
  FleetCommits = 3
  FleetFaults = 1
  NewsFiles <- MCNewsFiles
  BlockRows = 2
  NewsAttempts = 3
  NewsFaults = 3
INVARIANTS
  UnitIsHonest
  CommitIsWhole
  BreaksDoNotShow
PROPERTIES
  ExitIsHonest
  LedgersHold
  RunEnds
CHECK_DEADLOCK FALSE
