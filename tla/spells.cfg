SPECIFICATION FairSpec
CONSTANTS
  self = self  other = other  i1 = i1  n1 = n1  o1 = o1  o2 = o2  o3 = o3
  SelfSpells = {self}
  OtherSpells = {other}
  Permanent = {self}
  Ids = {i1}
  Names = {n1}
  Me = Me
  Ticks = {0, 2}
  Obj = {o1, o2, o3}
  NoObj = NoObj
  NoId = NoId
  NA = NA
  MaxPackets = 3
INVARIANTS LastIsListed TimerRunsWhileListed ListedIsShown
PROPERTY ListDrains
