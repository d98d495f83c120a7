------------------------------ MODULE Checkpoint ------------------------------
(***************************************************************************)
(* The identity checkpoint: the player's id and zone in a file that is     *)
(* truncated and written in place, every five minutes and when the daemon  *)
(* quits, and read once, by the next start, if it is not too old.  The     *)
(* name, class, level and experience go the same way and are left out.     *)
(***************************************************************************)
EXTENDS SpawnShell

VARIABLE checkpoint   \* the file; stay is history: "this" if it was written in the
                      \*   zone the player is in, once the daemon knew id and zone

Files == [is: {"none", "half", "whole"}, id: Ids \cup {0},
          zone: Zones \cup {Unknown}, stay: {"this", "other"}]
NoFile == [is |-> "none", id |-> 0, zone |-> Unknown, stay |-> "other"]
HalfFile == [NoFile EXCEPT !.is = "half"]
Whole(id, z, stay) == [is |-> "whole", id |-> id, zone |-> z, stay |-> stay]
OfOther(f) == [f EXCEPT !.stay = "other"]

\* Mutant: what is not known is saved, too.
SavesAlways(id) == TRUE
Saves(id) == id # 0

saved(id, z, stay) == IF Saves(id) THEN Whole(id, z, stay) ELSE checkpoint

\* What the end of the daemon leaves: it quits and saves, crashes, or crashes between
\* the truncation and the end of a write.
Left(id, z, stay) == {saved(id, z, stay), checkpoint}
                     \cup (IF Saves(id) THEN {HalfFile} ELSE {})

\* Checkpoint::load finds something.
Loads(f, young) == young /\ f.is = "whole"
=============================================================================
