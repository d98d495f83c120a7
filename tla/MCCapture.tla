----------------------------- MODULE MCCapture -----------------------------
EXTENDS EQPacket
CONSTANTS c1, c2, d1, d2
AnyHost == {c1, c2, AutoIP}
=============================================================================
