SPECIFICATION FairSpec
CONSTANTS
  Peer = {p1, p2}
  Caller = {c1, c2}
  Unsupported = {p2}
  Capacity = 2
  MaxLinks = 2
  Dropped = Dropped
INVARIANTS
  WaitersBounded
  SnapshotAccurate
PROPERTIES
  ImplementsConnector
  ConnectReturns
