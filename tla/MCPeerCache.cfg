SPECIFICATION CacheSpec
CONSTANTS
  Identity = {1, 2}
  Score <- MCScore
  MaxCandidates = 1
  Sequence = {1, 2, 3}
  Block = {1, 2}
  LogIndex = {0}
  LongestTtl = 2
  MaxInteger = 2
  MaxTime = 3
INVARIANTS
  KeepsFreshest
  LoadsSample
