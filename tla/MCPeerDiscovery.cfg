SPECIFICATION DiscoveryFairSpec
CONSTANTS
  Identity = {1, 2}
  Score <- MCScore
  MaxCandidates = 2
  Sequence = {1}
  Block <- MCBlock
  LogIndex = {0}
  Ttls = {2}
  MaxTtl = 2
  Unusable = Unusable
  Delays = {1}
  DeploymentBlock = 0
  InitialChunk = 3
  MinimumChunk = 1
  MaxLogs = 4
  Confirmations = 1
  UseFinalityTags = FALSE
  LogsPerBlock = 1
  MaxHeight = 4
  MaxReorgs = 1
  MaxScans = 2
  Lookbacks = {0, 1, 2}
  Unparsed = {2}
CHECK_DEADLOCK FALSE
INVARIANTS
  BrowserScanComplete
  FeedsSample
PROPERTY
  KeepsScanning
