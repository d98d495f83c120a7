SPECIFICATION RestartSpec
CONSTANTS
  z1 = z1  z2 = z2  p1 = p1  p2 = p2  m1 = m1
  Zones = {z1}
  Unknown = Unknown
  Ids = {1, 2}
  Players = {p1, p2}
  Mobs = {}
  NoName = NoName
  MaxDead = 1
  MaxGroup = 2
  NoMember = NoMember
  Width = 3
  MaxLost = 0
  Lossy <- Nothing
  LateUpdates = TRUE
  MaxRestarts = 0
SYMMETRY Symmetric
INVARIANTS MembersCounted PointersFit
