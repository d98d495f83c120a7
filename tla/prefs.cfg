SPECIFICATION Spec
CONSTANTS
  Device = Device  IP = IP  Filename = Filename
  eth0 = eth0  eth1 = eth1  bogus = bogus  host = host  vpk = vpk
  arrow = arrow  arrowBreak = arrowBreak
  Empty = Empty  Detect = Detect  Absent = Absent  Away = Away
  Key = {Device, IP, Filename}
  Value = {eth0, eth1, bogus, host, vpk, arrow, arrowBreak, Empty, Detect}
  Usable = {eth0, eth1}
  Hosts = {host, Detect}
  Packaged <- MCPackaged
  Typed <- MCTyped
  Rewritten <- MCRewritten
  Client = {c1, c2}
  c1 = c1  c2 = c2
SYMMETRY Symmetric
INVARIANTS FileHoldsThePrefs ClientsShowThePrefs CaptureFollowsThePrefs
PROPERTIES StoreSpec
