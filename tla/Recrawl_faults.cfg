SPECIFICATION ReadingSpec
CONSTANTS
  N = 3
  Owned <- AllRows
  Host <- SortedHosts
  Refills = {1, 2}
  Workers = {w1, w2}
  Batch = 2
  CapBatches = 2
  Writers = 2
  ShardRows = 1
  MaxPages = 0
  Faults = {"cancel", "crash", "read", "write", "seal", "save", "emit"}
  MaxRuns = 2
  None = None
  RobotsToken <- MCToken
  RobotsLines <- MCLines
  MaxLines = 4
  RobotsPaths <- MCPaths
  RobotsPatterns <- MCPatterns
  Indexes <- MCIndexes
  QueryModes = {"latest", "dedup", "both", "at"}
  MaxBuffers = {1, 3}
  AtTime = 5
  PageRetries = 1
  QueryFaults = 2
  Callers = {1, 2}
  Processes = {1, 2}
  NoCaller = NoCaller
  Homes <- MCHomes
  Interval = 2
  OwnDelay = 1
  HttpRetries = 2
  Backoff = 2
  BackoffMax = 2
  Advice = {0}
  HttpFaults = 1
  LastTick = 2
  Dialers = {1, 2, 3}
  Names = {"a", "b"}
  Resolvers = {1, 2}
  KnownBy <- MCKnownBy
  MaxLookups = 2
  Dials = 1
  Archives = {"x", "y"}
  Downloaders = {1}
  Lists <- MCLists
  Collected = {"x"}
  DownloadWorkers = 1
  NoProcess = 0
  Scanner = 2
  Collector = 3
  LibraryRuns <- MCLibraryRuns
  LibraryFaults = 1
  ScanFiles <- MCScanFiles
  ScanQueries <- MCScanQueries
  Asked <- MCAsked
  PageRows <- MCPageRows
  PrefixCap = 3
  ScanWorkers = {1, 2}
  ScanFaults = 1
  NullValue = NullValue
SYMMETRY PoolSymmetry
INVARIANTS
  Inv
  OnlyDroppedRowsSkipped
  RulesAreFollowed
  AnswerIsAsked
  RequestsArePolite
  ManifestIsTrue
  ScanIsWhole
PROPERTIES
  ImplementsLowWaterMark
  LookupsAreSound
