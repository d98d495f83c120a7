SPECIFICATION Spec
CONSTANTS
  z1 = z1  z2 = z2  s1 = s1  i1 = i1  l1 = l1
  Zones = {z1, z2}
  Spots = {s1}
  Ids = {i1}
  Labels = {l1}
  NoLabel = NoLabel
  NoZone = NoZone
  NoId = NoId
  NoFile = NoFile
  Partial = Partial
  MaxRefused = 0
INVARIANT RenameSurvives
