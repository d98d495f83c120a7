SPECIFICATION FairSpec
CONSTANTS
  c1 = c1  c2 = c2  d1 = d1  d2 = d2
  Devices = {d1, d2}
  Clients = {c1, c2}
  AutoIP = AutoIP
  MaxPackets = 2
  InitialHost = AutoIP
  Hosts <- AnyHost
INVARIANTS TailIsLive CaptureGoesOn OneDevice ClientStreamsAreTheClients
PROPERTIES QueueIsFifo QueuedIsServed StopReturns
CHECK_DEADLOCK FALSE
