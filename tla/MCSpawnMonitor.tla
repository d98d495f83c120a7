--------------------------- MODULE MCSpawnMonitor ---------------------------
EXTENDS SpawnMonitor, TLC
CONSTANTS z1, z2, s1, i1, l1
Symmetric == Permutations(Zones) \cup Permutations(Ids)
=============================================================================
