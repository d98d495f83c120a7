SPECIFICATION Spec
CONSTANTS
  Flow = {f1}
  ArqMod = 8
  Window = 4
  NPackets = 9
  Stream <- MCStream
  Obfuscated = {1}
  MaxDatagrams = 1
INVARIANTS BodyIntact CompleteIfCaptured
PROPERTIES AtMostOnceInOrder
