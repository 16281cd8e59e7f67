SPECIFICATION Spec
CONSTANTS
  Peer = {p1, p2}
  Caller = {c1, c2}
  QueueDepth = 1
  MaxLinks = 2
  Dropped = Dropped
INVARIANTS
  WaitersServed
  CountAccurate
PROPERTY
  ImplementsConnector
