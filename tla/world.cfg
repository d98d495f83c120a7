SPECIFICATION RestartSpec
CONSTANTS
  z1 = z1  z2 = z2  p1 = p1  p2 = p2  m1 = m1
  Zones = {z1, z2}
  Unknown = Unknown
  Ids = {1, 2}
  Players = {}
  Mobs = {m1, p1}
  NoName = NoName
  MaxDead = 1
  MaxGroup = 1
  NoMember = NoMember
  Width = 4
  MaxLost = 1
  Lossy <- ZoneLossy
  LateUpdates = FALSE
  MaxRestarts = 2
SYMMETRY Symmetric
INVARIANTS NoGhosts LoadedZoneIsCurrent MirrorIsExact PlayerIdIsOwn CheckpointFits
