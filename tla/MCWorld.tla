------------------------------ MODULE MCWorld ------------------------------
EXTENDS WorldRestart, TLC
CONSTANTS z1, z2, p1, p2, m1
ZoneLossy == {"ask", "grant", "entry"}
ProfileLossy == {"profile"}
Nothing == {}
Symmetric == Permutations(Zones) \cup Permutations(Players) \cup Permutations(Mobs)
=============================================================================
