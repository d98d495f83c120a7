---------------------------- MODULE XMLPreferences ----------------------------
(***************************************************************************)
(* The preferences store: the user's values over the packaged defaults,    *)
(* and the file the user's values are kept in.  Nothing in the daemon sets *)
(* a value for this run only (Runtime) or a packaged default, so these two *)
(* dictionaries do not change; every save follows a change of a user value,*)
(* so m_modified, which is never cleared, asks for it.                     *)
(* A value is one that XML can carry: a control character would leave a    *)
(* file that does not parse.                                               *)
(***************************************************************************)
CONSTANTS Key, Value, Absent,
          Packaged,   \* seqdef.xml, and where it has nothing, the reader's default
          Rewritten   \* what a load finds where the value was saved
ASSUME PrefsAssumption ==
    /\ Absent \notin Value /\ Packaged \in [Key -> Value]
    /\ Rewritten \in [Value -> Value]
    /\ \A k \in Key: Rewritten[Packaged[k]] = Packaged[k]

VARIABLES user,       \* m_userSections
          file, bak,  \* showeq-daemon.xml and its .bak
          saved       \* history: no save of this run, or the last one was whole
storeVars == <<user, file, bak, saved>>
diskVars == <<file, bak>>

Dict == [Key -> Value \cup {Absent}]
NoPrefs == [k \in Key |-> Absent]
File == [is: {"none", "half", "whole"}, prefs: Dict]
NoFile == [is |-> "none", prefs |-> NoPrefs]
HalfFile == [is |-> "half", prefs |-> NoPrefs]
Whole(dict) == [is |-> "whole", prefs |-> dict]

StoreTypeOK == user \in Dict /\ file \in File /\ bak \in File /\ saved \in BOOLEAN

\* A file that does not parse loads as nothing.
load(f) == IF f.is = "whole" THEN f.prefs ELSE NoPrefs

getPref(dict, k) == IF dict[k] # Absent THEN dict[k] ELSE Packaged[k]
setPref(dict, k, v) == [dict EXCEPT ![k] = v]

\* The document the file holds, with the values in memory put into it, as it can be
\* read again: "-->" is followed by a line break wherever it stands in the text, in
\* values too.
Put(f, dict, k) == IF dict[k] # Absent THEN dict[k] ELSE load(f)[k]
Document(f, dict) ==
    [k \in Key |-> IF Put(f, dict, k) = Absent THEN Absent ELSE Rewritten[Put(f, dict, k)]]

\* QDir::rename fails if there is a backup already.
Renames == file.is # "none" /\ bak.is = "none"
Renamed == bak' = IF Renames THEN file ELSE bak

\* Mutant: the file is written before the value is set.
WholeSaveEarly(dict) == Renamed /\ file' = Whole(Document(file, user))
WholeSave(dict) == Renamed /\ file' = Whole(Document(file, dict))

\* A save that stops, or fails and goes on with a warning or none: before the rename
\* or where it is refused, once the file is renamed and cannot be opened, or in the
\* writing of a file that is open.
FallsShort ==
    \/ UNCHANGED diskVars
    \/ Renames /\ Renamed /\ file' = NoFile
    \/ Renamed /\ file' = HalfFile

\* The caller is not told which it was.
savePreferences(dict) == \/ WholeSave(dict) /\ saved' = TRUE
                         \/ FallsShort /\ saved' = FALSE

\* A save in which, or right after which, the daemon ends.
LastSave(dict) == WholeSave(dict) \/ FallsShort
=============================================================================
