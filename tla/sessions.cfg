SPECIFICATION Spec
CONSTANTS
  Sock = {k1, k2}
  SessionId = {s1, s2}
  NoSock = NoSock
  NoId = NoId
  PruneAfter = 2
  Item = {x}
  RingCap = 2
  RingWindow = 1
  Client = {c}
  MaxSeq = 3
SYMMETRY Symmetric
INVARIANTS TablesAgree FullGrace Unbroken NoRepeat ResumedViewIsCurrent
