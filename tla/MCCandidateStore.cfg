SPECIFICATION Spec
CONSTANTS
  Identity <- MCIdentity
  Score <- MCScore
  MaxCandidates = 2
  Sequence = {1, 2}
  Block = {1, 2}
  LogIndex = {0}
INVARIANTS
  TypeOK
  Bounded
  OrderIndependent
PROPERTY
  NeverReadmitted
