SPECIFICATION Spec
CONSTANTS
  plain = plain  named = named  fixedNamed = fixedNamed  twiceFixed = twiceFixed
  elf = elf  z1 = z1 
  NType = 1
  MaxLevel = 1
  Pattern = {plain, named, fixedNamed}
  Fixed <- MCFixed
  Markup = {plain}
  Look = {elf, Unknown, Dying, Corpse}
  Living = {elf}
  Unknown = Unknown  Dying = Dying  Corpse = Corpse
  Hits <- MCHits
  Ids = {i1}
  Zones = {z1}
  Texts = {z1}
  NoZone = NoZone
  Global = Global
  NoZoneFile = NoZoneFile
  File = {z1, Global, NoZoneFile}
  Shipped <- MCShipped
  MaxRules = 2
  MaxWrites = 1
INVARIANTS FlagsAreOfTheRules ClientShowsTheMarks SavedIsReadBack FilesKeepToTheirZone
