SPECIFICATION FairSpec
CONSTANTS
  Identity = {1}
  Score <- MCScore
  MaxCandidates = 1
  Sequence = {1}
  Block <- MCBlock
  LogIndex = {0}
  Ttls = {3}
  MaxTtl = 3
  Unusable = Unusable
  Delays = {1}
  DeploymentBlock = 0
  InitialChunk = 4
  MinimumChunk = 1
  MaxLogs = 2
  Confirmations = 1
  UseFinalityTags = TRUE
  LogsPerBlock = 1
  MaxHeight = 5
  MaxReorgs = 1
  MaxScans = 2
CHECK_DEADLOCK FALSE
INVARIANTS
  ScanComplete
  NoFalseReorg
PROPERTY
  ScanEnds
