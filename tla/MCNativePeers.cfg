SPECIFICATION FairSpec
CONSTANTS
  a = a
  b = b
  x = x
  y = y
  NoPeer = NoPeer
  Peer = {a, b}
  Address = {x, y}
  Listener = {x}
  Configured <- MCConfigured
  Capacity = 2
INVARIANTS
  StatusCurrent
  CandidatesDialable
PROPERTIES
  ListenerNoticed
  CallsReturn
