SPECIFICATION RegistrySpec
CONSTANTS
  Reachable = p1
  Peers = {p1}
  Strangers = {s1}
  MinimumPeers = 1
  MaximumDials = 1
  IsSeed = TRUE
  None = None
  ShiftCap = 2
  InitialBackoff = 2
  MaximumBackoff = 4
CHECK_DEADLOCK FALSE
INVARIANTS
  DelayGrows
PROPERTIES
  NoRepeatedFailedScan
  Recovers
  ShutdownStops
