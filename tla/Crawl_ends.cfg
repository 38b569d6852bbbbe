SPECIFICATION Spec
CONSTANTS
  u1 = u1
  u2 = u2
  u3 = u3
  a = a
  b = b
  Urls = {u1, u2, u3}
  Hosts = {a, b}
  HostOf <- MCHostOf
  Rank <- MCRank
  Delay = 1
  BatchSize = 2
  MergeSize = 2
  ClaimSize = 2
  SyncEvery = 2
  SeenURLs = 1
  HotHosts = 1
  None = None
  w1 = w1
  w2 = w2
  Workers = {w1, w2}
  Links <- MCLinks
  Seeds <- MCSeeds
  Robots <- AllOpen
  SlowDelay = 2
  PageLimits = {0}
  Retries = 0
  RetryDelay = 1
  MaxRuns = 1
  MaxFaults = 0
INVARIANTS
  EndsEmpty
CHECK_DEADLOCK FALSE
SYMMETRY TwoWorkers
