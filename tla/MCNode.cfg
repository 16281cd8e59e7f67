SPECIFICATION FairSpec
CONSTANTS
  p = p
  q = q
  f = f
  g = g
  Process = {p, q}
  Path = {f, g}
  Key = {1, 2, 3, 4, 5}
  Absent = Absent
  Torn = Torn
  MaxEndpoints = 2
  MaxParts = 5
  MaxTtl = 3
  MaxLive = 1
  Outages = {g}
  Options <- MCOptions
  Fresh <- MCFresh
  Foreign <- MCForeign
INVARIANTS
  IdentityKept
  AnnouncedAccepted
  AcceptedSound
PROPERTIES
  Resurrects
