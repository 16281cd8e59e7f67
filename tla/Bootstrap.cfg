SPECIFICATION BootstrapFairSpec
CONSTANTS
  Peers = {p1, p2}
  Strangers = {s1}
  MinimumPeers = 2
  MaximumDials = 1
  IsSeed = TRUE
  None = None
INVARIANTS
  BootstrapTypeOK
  IdleOnceSatisfied
  IsolatedAfterTryingAll
PROPERTIES
  CycleEnds
