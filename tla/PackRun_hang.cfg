SPECIFICATION PackFairSpec
CONSTANTS
  w1 = w1
  Shards <- MCShards
  Packers = {w1}
  PackBatch = 1
  PackModes = {"export"}
  PackPush = {TRUE}
  PackPast <- MCPast
  PackRuns = 1
  PackFaults = 2
PROPERTIES
  SplitReported
CHECK_DEADLOCK FALSE
