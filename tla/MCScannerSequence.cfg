SPECIFICATION ScannerSpec
CONSTANTS
  Identity = {1}
  Score <- MCScore
  MaxCandidates = 1
  Sequence = {1, 2}
  Block <- MCBlock
  LogIndex = {0}
  Ttls = {1, 3}
  MaxTtl = 3
  Unusable = Unusable
  Delays = {1}
  DeploymentBlock = 0
  InitialChunk = 4
  MinimumChunk = 1
  MaxLogs = 2
  Confirmations = 1
  UseFinalityTags = FALSE
  LogsPerBlock = 1
  MaxHeight = 4
  MaxReorgs = 0
  MaxScans = 2
CHECK_DEADLOCK FALSE
INVARIANT
  SequenceNotOlder
