------------------------------ MODULE MCSpells ------------------------------
EXTENDS SpellShell
CONSTANTS self, other, i1, n1, o1, o2, o3
=============================================================================
