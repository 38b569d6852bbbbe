SPECIFICATION FetchingSpec
CONSTANTS
  h1 = h1
  h2 = h2
  h3 = h3
  w1 = w1
  w2 = w2
  NoSite = NoSite
  NoVisitor = NoVisitor
  Sites = {h1, h2, h3}
  Visitors = {w1, w2}
  MaxEntries = 2
  MaxBytes = 3
  CacheTTL = 1
  ErrorTTL = 1
  Sizes = {1, 2}
  Visits = 2
  Shards <- MCShards
  Packers = {w1, w2}
  PackBatch = 2
  PackModes = {"export", "refetch"}
  PackPush = {TRUE, FALSE}
  PackPast <- MCPast
  PackRuns = 2
  PackFaults = 1
  Sources <- MCSources
  BlankBodies = {2}
  OtherLang = {3}
  Converters = {w1, w2}
  QueueRoom = 1
  RecordLimits = {0, 2}
  ShardFaults = 1
  Inputs <- MCInputs
  Gap = 1
  MaxSpan = 5
  Fetchers = {w1, w2}
  Window = 2
  BatchRuns = 2
  BatchFaults = 1
  Archivers = {w1, w2}
  CaptureSizes = {1, 4}
  InfoSize = 1
  WARCMaxSize = 4
  CapturesMax = 3
  ArchiveFaults = 2
INVARIANTS
  LookupsShare
  NoShardPassedOver
  ShardIsWhole
PROPERTIES
  KeepsRecent
  BatchIsWhole
  ArchiveIsKept
  RunEnds
CHECK_DEADLOCK FALSE
