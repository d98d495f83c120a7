----------------------------- MODULE PrefsProofs -----------------------------
(***************************************************************************)
(* What holds of PrefsBroker for every set of settings, values, devices,   *)
(* addresses and clients, every packaged file, and whatever the file makes *)
(* of a value.  Any save may fail.  Beside the properties the invariant    *)
(* says that memory lacks nothing the file has, so that a whole save       *)
(* brings all of the file to what is in memory, however many saves failed  *)
(* before; from it follows that the store of SettingsStore is implemented. *)
(***************************************************************************)
EXTENDS PrefsBroker, TLAPS

\* What is not there while the daemon is down.
DownIsEmpty == ~Up => shown = Nobody

\* The file has no setting that is not in memory too.
MemoryHasAll == Up => \A k \in Key: user[k] = Absent => load(file)[k] = Absent

PrefsInv ==
    /\ TypeOK
    /\ DownIsEmpty
    /\ MemoryHasAll
    /\ FileHoldsThePrefs
    /\ ClientsShowThePrefs
    /\ CaptureFollowsThePrefs

\* Dictionaries: what is loaded, set and written is a dictionary again.
LEMMA LoadedIsDict == ASSUME NEW f \in File PROVE load(f) \in Dict
  BY DEF load, File, NoPrefs, Dict

LEMMA SetIsDict ==
  ASSUME NEW d \in Dict, NEW k \in Key, NEW v \in Value
  PROVE  /\ setPref(d, k, v) \in Dict
         /\ getPref(setPref(d, k, v), k) = v
         /\ \A j \in Key \ {k}: getPref(setPref(d, k, v), j) = getPref(d, j)
  BY PrefsAssumption DEF setPref, Dict, getPref

LEMMA ValueOfPref == ASSUME NEW d \in Dict, NEW k \in Key PROVE getPref(d, k) \in Value
  BY PrefsAssumption DEF getPref, Dict

LEMMA WholeIsFile == ASSUME NEW d \in Dict PROVE Whole(d) \in File /\ load(Whole(d)) = d
  BY DEF Whole, File, load

LEMMA CutFiles == NoFile \in File /\ HalfFile \in File
                  /\ load(NoFile) = NoPrefs /\ load(HalfFile) = NoPrefs
  BY DEF NoFile, HalfFile, File, load, NoPrefs, Dict

LEMMA DocumentIsDict ==
  ASSUME NEW f \in File, NEW d \in Dict
  PROVE  Document(f, d) \in Dict
  BY LoadedIsDict, PrefsAssumption DEF Document, Put, Dict

LEMMA SaveStep ==
  ASSUME StoreTypeOK, NEW d \in Dict, WholeSave(d)
  PROVE  file' \in File /\ bak' \in File /\ load(file') = Document(file, d)
<1>1. file' \in File /\ load(file') = Document(file, d)
  BY DocumentIsDict, WholeIsFile DEF WholeSave, StoreTypeOK
<1>2. bak' \in File
  BY DEF WholeSave, Renamed, StoreTypeOK
<1>. QED BY <1>1, <1>2

LEMMA ShortStep ==
  ASSUME StoreTypeOK, FallsShort
  PROVE  /\ file' \in File /\ bak' \in File
         /\ load(file') = load(file) \/ load(file') = NoPrefs
<1>1. CASE UNCHANGED diskVars
  BY <1>1 DEF diskVars, StoreTypeOK
<1>2. CASE Renames /\ Renamed /\ file' = NoFile
  BY <1>2, CutFiles DEF Renamed, StoreTypeOK
<1>3. CASE Renamed /\ file' = HalfFile
  BY <1>3, CutFiles DEF Renamed, StoreTypeOK
<1>. QED BY <1>1, <1>2, <1>3 DEF FallsShort

LEMMA SnapshotType == ASSUME NEW d \in Dict PROVE Snapshot(d) \in [Published -> Value]
  BY ValueOfPref DEF Snapshot, Published

\* A change of one setting is a change of one value of the snapshot.
LEMMA SnapshotSet ==
  ASSUME NEW d \in Dict, NEW k \in Published, NEW v \in Value
  PROVE  Snapshot(setPref(d, k, v)) = [Snapshot(d) EXCEPT ![k] = v]
<1>1. k \in Key
  BY DEF Published
<1>2. \A j \in Published: getPref(setPref(d, k, v), j) = IF j = k THEN v ELSE getPref(d, j)
  BY <1>1, SetIsDict DEF Published
<1>. QED BY <1>2 DEF Snapshot

\* Where two dictionaries agree on what is published, so do the snapshots.
LEMMA SnapshotEqual ==
  ASSUME NEW d, NEW e, \A k \in Published: d[k] = e[k]
  PROVE  Snapshot(d) = Snapshot(e)
  BY DEF Snapshot, getPref

\* What a start finds where a dictionary was saved: the values rewritten.
AsSaved(d) == [k \in Key |-> IF d[k] = Absent THEN Absent ELSE Rewritten[d[k]]]

LEMMA SavedValues ==
  ASSUME NEW d \in Dict
  PROVE  /\ \A k \in Key: ReadsAs(AsSaved(d)[k], d[k])
         /\ \A k \in Key: d[k] = Absent => AsSaved(d)[k] = Absent
         /\ Snapshot(AsSaved(d)) = Store!AsKept(Snapshot(d))
<1>1. \A k \in Key: ReadsAs(AsSaved(d)[k], d[k]) /\ (d[k] = Absent => AsSaved(d)[k] = Absent)
  BY DEF AsSaved, ReadsAs
<1>2. ASSUME NEW k \in Published PROVE getPref(AsSaved(d), k) = Rewritten[getPref(d, k)]
  <2>1. k \in Key /\ AsSaved(d)[k] = IF d[k] = Absent THEN Absent ELSE Rewritten[d[k]]
    BY DEF AsSaved, Published
  <2>2. CASE d[k] = Absent
    BY <2>1, <2>2, PrefsAssumption DEF getPref
  <2>3. CASE d[k] # Absent
    <3>1. Rewritten[d[k]] \in Value
      BY <2>1, <2>3, PrefsAssumption DEF Dict
    <3>. QED BY <2>1, <2>3, <3>1, PrefsAssumption DEF getPref
  <2>. QED BY <2>2, <2>3
<1>. QED BY <1>1, <1>2 DEF Snapshot, Store!AsKept

LEMMA Initially == Init => PrefsInv
<1> SUFFICES ASSUME Init PROVE PrefsInv
  OBVIOUS
<1>1. NoPrefs \in Dict
  BY DEF NoPrefs, Dict
<1>2. TypeOK
  BY <1>1, CutFiles, WholeIsFile, BrokerAssumption DEF Init, TypeOK, StoreTypeOK, Nobody
<1>. QED BY <1>2 DEF Init, PrefsInv, DownIsEmpty, Up, FileHoldsThePrefs, ClientsShowThePrefs,
             CaptureFollowsThePrefs, MemoryHasAll, Nobody

-----------------------------------------------------------------------------
\* A start.
LEMMA BeginStep ==
  ASSUME PrefsInv, NEW name \in Typed[Filename], Begin(name)
  PROVE  /\ user' \in Dict /\ ip' \in Hosts
         /\ \A k \in Published: user'[k] = load(file)[k]
         /\ \A k \in Key: user'[k] = Absent => load(file)[k] = Absent
         /\ ip' = validIP(getPref(user', IP))
<1>1. name \in Value /\ Filename \in Key
  BY BrokerAssumption
<1>2. load(file) \in Dict
  BY LoadedIsDict DEF PrefsInv, TypeOK, StoreTypeOK
<1>3. /\ user' \in Dict /\ \A k \in Published: user'[k] = load(file)[k]
      /\ \A k \in Key: user'[k] = Absent => load(file)[k] = Absent
  BY <1>1, <1>2, SetIsDict, PrefsAssumption DEF Begin, Loaded, setPref, Published, Dict
<1>4. ip' \in Hosts
  BY BrokerAssumption DEF Begin, validIP
<1>. QED BY <1>3, <1>4 DEF Begin

LEMMA StartStep == ASSUME PrefsInv, Start PROVE PrefsInv'
<1>1. PICK name \in Typed[Filename]:
        StartReplay(name) \/ \E dev \in Typed[Device]: StartCapture(name, dev)
  BY DEF Start
<1>2. Begin(name) /\ ~Up /\ UNCHANGED <<diskVars, saved, shown>>
  BY <1>1 DEF StartReplay, StartCapture, Begin
<1>3. shown' = Nobody
  BY <1>2 DEF PrefsInv, DownIsEmpty
<1>4. /\ cli' \in Value /\ device' \in Value /\ mode' \in {"idle", "live", "replay"}
      /\ mode' = "live" => device' \in Usable /\ device' \in {cli', getPref(user', Device)}
  <2>1. CASE StartReplay(name)
    BY <2>1, BrokerAssumption DEF StartReplay
  <2>2. CASE \E dev \in Typed[Device]: StartCapture(name, dev)
    BY <2>2, BrokerAssumption DEF StartCapture, DeviceFor
  <2>. QED BY <1>1, <2>1, <2>2
<1>5. TypeOK'
  BY <1>2, <1>3, <1>4, BeginStep DEF PrefsInv, TypeOK, StoreTypeOK, diskVars, Nobody
<1>6. FileHoldsThePrefs' /\ MemoryHasAll'
  BY <1>2, BeginStep DEF FileHoldsThePrefs, MemoryHasAll, ReadsAs, diskVars
<1>. QED BY <1>2, <1>3, <1>4, <1>5, <1>6, BeginStep
         DEF PrefsInv, DownIsEmpty, ClientsShowThePrefs, CaptureFollowsThePrefs, Nobody

\* An end.
LEMMA EndStep ==
  ASSUME Ended, file' \in File, bak' \in File
  PROVE  PrefsInv'
<1>1. NoPrefs \in Dict
  BY DEF NoPrefs, Dict
<1>2. TypeOK'
  BY <1>1, BrokerAssumption DEF Ended, TypeOK, StoreTypeOK, Nobody
<1>. QED BY <1>2 DEF Ended, PrefsInv, DownIsEmpty, Up, FileHoldsThePrefs, ClientsShowThePrefs,
             CaptureFollowsThePrefs, MemoryHasAll, Nobody

\* A change, and what it leaves in the file.
LEMMA AskedFacts ==
  ASSUME PrefsInv, NEW c, NEW k, NEW v, c \in Client, Asked(c, k, v)
  PROVE  /\ Up /\ k \in Published /\ k \in Key /\ v \in Value
         /\ StoreTypeOK /\ user \in Dict /\ setPref(user, k, v) \in Dict
<1>1. Up /\ k \in Published /\ k \in Key /\ v \in Value
  BY BrokerAssumption DEF PrefsInv, ClientsShowThePrefs, Asked, Published
<1>2. StoreTypeOK /\ user \in Dict
  BY DEF PrefsInv, TypeOK, StoreTypeOK
<1>. QED BY <1>1, <1>2, SetIsDict

\* A whole save leaves in the file what is in memory and nothing else.
LEMMA SavedStep ==
  ASSUME PrefsInv, NEW c \in Client, NEW k, NEW v, Asked(c, k, v), WholeSave(setPref(user, k, v))
  PROVE  /\ file' \in File /\ bak' \in File
         /\ load(file') = AsSaved(setPref(user, k, v))
<1> DEFINE d == setPref(user, k, v)
<1>1. \A j \in Key: user[j] = Absent => load(file)[j] = Absent
  BY AskedFacts DEF PrefsInv, MemoryHasAll
<1>2. \A j \in Key: d[j] = IF j = k THEN v ELSE user[j]
  BY AskedFacts DEF setPref, Dict
<1>3. v # Absent /\ d \in Dict
  BY AskedFacts, PrefsAssumption
<1>4. /\ file' \in File /\ bak' \in File /\ load(file') = Document(file, d)
  BY <1>3, AskedFacts, SaveStep
<1>5. \A j \in Key: d[j] = Absent => load(file)[j] = Absent
  BY <1>1, <1>2, <1>3
<1> HIDE DEF d
<1>6. Document(file, d) = AsSaved(d)
  BY <1>5 DEF Document, Put, AsSaved
<1>. QED BY <1>4, <1>6 DEF d

LEMMA ApplyStep ==
  ASSUME PrefsInv, NEW c \in Client, NEW k, NEW v, apply(c, k, v)
  PROVE  PrefsInv'
<1>1. Asked(c, k, v) /\ user' = setPref(user, k, v) /\ savePreferences(setPref(user, k, v))
  BY DEF apply, SetAndSave
<1>2. /\ Up /\ k \in Published /\ k \in Key /\ v \in Value
      /\ user \in Dict /\ user' \in Dict
  BY <1>1, AskedFacts
<1>3. /\ file' \in File /\ bak' \in File /\ saved' \in BOOLEAN
      /\ \A j \in Key: user'[j] = Absent => load(file')[j] = Absent
      /\ saved' => \A j \in Published: ReadsAs(load(file')[j], user'[j])
  <2>1. CASE WholeSave(user') /\ saved' = TRUE
    BY <1>1, <1>2, <2>1, SavedStep, SavedValues DEF Published
  <2>2. CASE FallsShort /\ saved' = FALSE
    <3>1. /\ file' \in File /\ bak' \in File
          /\ load(file') = load(file) \/ load(file') = NoPrefs
      BY <1>1, <2>2, AskedFacts, ShortStep
    <3>2. \A j \in Key: user'[j] = Absent => user[j] = Absent
      BY <1>1, <1>2, PrefsAssumption DEF setPref, Dict
    <3>. QED BY <1>2, <2>2, <3>1, <3>2 DEF PrefsInv, MemoryHasAll, NoPrefs
  <2>. QED BY <1>1, <2>1, <2>2 DEF savePreferences
<1>4. mode' = mode /\ cli' = cli
  BY DEF apply
<1>5. shown' = [d \in Client |-> IF shown[d] = Away THEN Away ELSE Snapshot(user')]
  <2>1. Snapshot(user') = [Snapshot(user) EXCEPT ![k] = v]
    BY <1>1, <1>2, SnapshotSet
  <2>. QED BY <2>1 DEF apply, Told, PrefsInv, ClientsShowThePrefs
<1>6. TypeOK'
  <2>1. device' \in Value /\ ip' \in Hosts
    BY <1>2, BrokerAssumption DEF apply, PrefsInv, TypeOK, validIP
  <2>2. shown' \in [Client -> [Published -> Value] \cup {Away}]
    BY <1>2, <1>5, SnapshotType
  <2>. QED BY <1>2, <1>3, <1>4, <2>1, <2>2 DEF PrefsInv, TypeOK, StoreTypeOK
<1>7. CaptureFollowsThePrefs'
  <2>1. getPref(user', k) = v /\ \A j \in Key \ {k}: getPref(user', j) = getPref(user, j)
    BY <1>1, <1>2, SetIsDict
  <2>2. Device \in Key /\ IP \in Key
    BY BrokerAssumption
  <2>3. mode \in {"live", "replay"} => ip' = validIP(getPref(user', IP))
    BY <2>1, <2>2 DEF apply, Follows, PrefsInv, CaptureFollowsThePrefs
  <2>4. CASE k = Device
    BY <1>4, <2>1, <2>3, <2>4 DEF apply, Reopens, PrefsInv, CaptureFollowsThePrefs
  <2>5. CASE k # Device
    BY <1>4, <2>1, <2>2, <2>3, <2>5 DEF apply, Reopens, PrefsInv, CaptureFollowsThePrefs
  <2>. QED BY <2>4, <2>5
<1>. QED BY <1>2, <1>3, <1>4, <1>5, <1>6, <1>7
         DEF PrefsInv, DownIsEmpty, Up, FileHoldsThePrefs, ClientsShowThePrefs, MemoryHasAll

LEMMA EditStep ==
  ASSUME PrefsInv, NEW k \in Published, NEW v \in Typed[k], Edit(k, v)
  PROVE  PrefsInv'
<1>1. k \in Key /\ v \in Value
  BY BrokerAssumption DEF Published
<1>2. load(file) \in Dict
  BY LoadedIsDict DEF PrefsInv, TypeOK, StoreTypeOK
<1>3. file' \in File
  BY <1>1, <1>2, SetIsDict, WholeIsFile DEF Edit
<1>. QED BY <1>3 DEF Edit, PrefsInv, TypeOK, StoreTypeOK, captureVars, DownIsEmpty, Up,
             FileHoldsThePrefs, ClientsShowThePrefs, CaptureFollowsThePrefs, MemoryHasAll

LEMMA ClientStep ==
  ASSUME PrefsInv, NEW c \in Client, Subscribe(c) \/ Leave(c)
  PROVE  PrefsInv'
<1>1. UNCHANGED <<user, file, bak, saved, mode, cli, device, ip>>
  BY DEF Subscribe, Leave, storeVars, captureVars
<1>2. \/ shown' = [shown EXCEPT ![c] = Snapshot(user)] /\ Up
      \/ shown' = [shown EXCEPT ![c] = Away]
  BY DEF Subscribe, Leave
<1>3. shown' \in [Client -> [Published -> Value] \cup {Away}]
  BY <1>2, SnapshotType DEF PrefsInv, TypeOK, StoreTypeOK
<1>4. ~Up => shown' = Nobody
  BY <1>2 DEF PrefsInv, DownIsEmpty, Nobody
<1>5. ClientsShowThePrefs'
  BY <1>1, <1>2 DEF PrefsInv, ClientsShowThePrefs, TypeOK, Up, Snapshot, getPref
<1>. QED BY <1>1, <1>3, <1>4, <1>5 DEF PrefsInv, TypeOK, StoreTypeOK, DownIsEmpty, Up,
             FileHoldsThePrefs, CaptureFollowsThePrefs, MemoryHasAll

LEMMA CrashStep ==
  ASSUME PrefsInv, NEW c \in Client, NEW k, NEW v, CrashInSave(c, k, v) \/ applyAndExit(c, k, v)
  PROVE  PrefsInv'
<1>1. Asked(c, k, v) /\ Ended /\ LastSave(setPref(user, k, v))
  BY DEF CrashInSave, applyAndExit
<1>2. file' \in File /\ bak' \in File
  BY <1>1, AskedFacts, SavedStep, ShortStep DEF LastSave
<1>. QED BY <1>1, <1>2, EndStep

LEMMA PrefsStep == ASSUME PrefsInv, [Next]_vars PROVE PrefsInv'
<1>1. CASE Start
  BY <1>1, StartStep
<1>2. CASE Requests
  BY <1>2, ApplyStep, CrashStep DEF Requests
<1>3. CASE Quit
  BY <1>3, EndStep DEF Quit, diskVars, PrefsInv, TypeOK, StoreTypeOK
<1>4. CASE \E c \in Client: Subscribe(c) \/ Leave(c)
  BY <1>4, ClientStep
<1>5. CASE \E k \in Published: \E v \in Typed[k]: Edit(k, v)
  BY <1>5, EditStep
<1>6. CASE UNCHANGED vars
  BY <1>6 DEF vars, storeVars, captureVars, PrefsInv, TypeOK, StoreTypeOK, DownIsEmpty, Up,
     FileHoldsThePrefs, ClientsShowThePrefs, CaptureFollowsThePrefs, MemoryHasAll
<1>. QED BY <1>1, <1>2, <1>3, <1>4, <1>5, <1>6 DEF Next

LEMMA PrefsInvariant == Spec => []PrefsInv
<1>1. PrefsInv /\ [Next]_vars => PrefsInv'
  BY PrefsStep
<1>. QED BY Initially, <1>1, PTL DEF Spec

(* While the daemon runs and unless the last save has failed, the file     *)
(* holds what a client may set, up to what it makes of a value: every      *)
(* change is saved before anything acts on it, and one whole save makes    *)
(* good for all that failed before it (PrefsBroker::apply,                 *)
(* XMLPreferences::savePreferences).                                       *)
THEOREM PrefsAreKept == Spec => []FileHoldsThePrefs
  BY PrefsInvariant, PTL DEF PrefsInv

(* Every client shows the preferences as they are, whoever set them last   *)
(* (SessionAdapter::sendPrefsSnapshot, onPrefChanged).                     *)
THEOREM ClientsAreTold == Spec => []ClientsShowThePrefs
  BY PrefsInvariant, PTL DEF PrefsInv

(* The capture runs on the device and for the address that are stored      *)
(* (DaemonApp::start, EQPacket::monitorDevice and monitorIPClient).        *)
THEOREM CaptureIsAsStored == Spec => []CaptureFollowsThePrefs
  BY PrefsInvariant, PTL DEF PrefsInv

-----------------------------------------------------------------------------
\* The refinement: each step of the store is one of SettingsStore, or a stutter.

LEMMA SettingsType == ASSUME PrefsInv PROVE Settings \in [Published -> Value]
<1>1. load(file) \in Dict /\ user \in Dict
  BY LoadedIsDict DEF PrefsInv, TypeOK, StoreTypeOK
<1>. QED BY <1>1, SnapshotType DEF Settings

LEMMA StoreInitially == Init => Store!Init
<1> SUFFICES ASSUME Init PROVE Store!Init
  OBVIOUS
<1>1. Settings \in [Published -> Value]
  BY Initially, SettingsType
<1>2. Settings = Snapshot(load(file))
  BY DEF Init, Up, Settings
<1>. QED BY <1>1, <1>2 DEF Init, Up, Store!Init, Store!Nobody, Nobody

LEMMA StartRefines == ASSUME PrefsInv, Start PROVE Store!Start
<1>1. PICK name \in Typed[Filename]: Begin(name) /\ mode' # "down"
  BY DEF Start, StartReplay, StartCapture
<1>2. ~Up /\ Up' /\ UNCHANGED <<shown, file>>
  BY <1>1 DEF Begin, Up, diskVars
<1>3. Snapshot(user') = Snapshot(load(file))
  BY <1>1, BeginStep, SnapshotEqual
<1>. QED BY <1>2, <1>3 DEF Store!Start, Settings, Snapshot

\* Whatever becomes of a save, the next start finds the new settings as they were
\* saved, what it found before, or none.
LEMMA KeepStep ==
  ASSUME PrefsInv, NEW c \in Client, NEW k, NEW v, Asked(c, k, v),
         WholeSave(setPref(user, k, v)) \/ FallsShort
  PROVE  Store!Keep(Snapshot(setPref(user, k, v)))
<1> DEFINE d == setPref(user, k, v)
<1>1. CASE WholeSave(d)
  <2>1. load(file') = AsSaved(d) /\ d \in Dict
    BY <1>1, SavedStep, AskedFacts
  <2> HIDE DEF d
  <2>2. Snapshot(load(file')) = Store!AsKept(Snapshot(d))
    BY <2>1, SavedValues
  <2>. QED BY <2>2 DEF Store!Keep, Snapshot, d
<1>2. CASE FallsShort
  <2>1. load(file') = load(file) \/ load(file') = NoPrefs
    BY <1>2, AskedFacts, ShortStep
  <2>2. Snapshot(load(file'))  \in {Snapshot(load(file)), Snapshot(NoPrefs)}
    BY <2>1
  <2>. QED BY <2>2 DEF Store!Keep, Snapshot
<1>. QED BY <1>1, <1>2

LEMMA ApplyRefines ==
  ASSUME PrefsInv, NEW c \in Client, NEW k, NEW v, apply(c, k, v)
  PROVE  Store!Set(k, v)
<1>1. Asked(c, k, v) /\ user' = setPref(user, k, v) /\ UNCHANGED mode
  BY DEF apply, SetAndSave
<1>2. Up /\ Up' /\ k \in Published /\ v \in Value /\ user \in Dict
  BY <1>1, AskedFacts DEF Up
<1>3. Settings = Snapshot(user) /\ Settings' = Snapshot(user')
  BY <1>2 DEF Settings, Snapshot
<1>4. Settings' = [Settings EXCEPT ![k] = v]
  BY <1>1, <1>2, <1>3, SnapshotSet
<1>5. shown' = [d \in Client |-> IF shown[d] = Away THEN Away ELSE Settings']
  BY <1>3, <1>4 DEF apply, Told, PrefsInv, ClientsShowThePrefs
<1>6. Store!Keep(Settings')
  <2>1. WholeSave(user') \/ FallsShort
    BY DEF apply, SetAndSave, savePreferences
  <2>. QED BY <1>1, <1>3, <2>1, KeepStep
<1>. QED BY <1>2, <1>4, <1>5, <1>6 DEF Store!Set, Store!With, Store!Told

\* An end: what the next start finds is what there is.
LEMMA EndRefines ==
  ASSUME PrefsInv, Up, Ended, NEW k \in Published, NEW v \in Value,
         Store!Keep(Snapshot(setPref(user, k, v)))
  PROVE  Store!End(k, v)
<1>1. ~Up' /\ shown' = Nobody
  BY DEF Ended, Up
<1>2. Settings' = Snapshot(load(file'))
  BY <1>1 DEF Settings, Snapshot
<1>3. user \in Dict /\ Settings = Snapshot(user)
  BY DEF PrefsInv, TypeOK, StoreTypeOK, Settings
<1>4. Snapshot(setPref(user, k, v)) = [Settings EXCEPT ![k] = v]
  BY <1>3, SnapshotSet
<1>5. Store!Keep([Settings EXCEPT ![k] = v])
  BY <1>4
<1>6. Settings' = Snapshot(load(file))'
  BY <1>2 DEF Snapshot
<1>. QED BY <1>1, <1>5, <1>6 DEF Store!End, Store!With, Store!Nobody, Nobody

LEMMA CutRefines ==
  ASSUME PrefsInv, NEW c \in Client, NEW k, NEW v, CrashInSave(c, k, v) \/ applyAndExit(c, k, v)
  PROVE  Store!End(k, v)
<1>1. Asked(c, k, v) /\ Ended /\ LastSave(setPref(user, k, v))
  BY DEF CrashInSave, applyAndExit
<1>2. Up /\ k \in Published /\ v \in Value
  BY <1>1, AskedFacts
<1>3. Store!Keep(Snapshot(setPref(user, k, v)))
  BY <1>1, KeepStep DEF LastSave
<1>. QED BY <1>1, <1>2, <1>3, EndRefines

LEMMA EditRefines ==
  ASSUME PrefsInv, NEW k \in Published, NEW v \in Typed[k], Edit(k, v)
  PROVE  Store!Edit(k, v)
<1>1. v \in Value
  BY BrokerAssumption DEF Published
<1>2. load(file) \in Dict
  BY LoadedIsDict DEF PrefsInv, TypeOK, StoreTypeOK
<1>3. load(file') = setPref(load(file), k, v)
  BY DEF Edit, Whole, load
<1>4. ~Up /\ ~Up' /\ UNCHANGED shown
  BY DEF Edit, Up
<1>5. Settings' = [Settings EXCEPT ![k] = v]
  <2>1. Settings = Snapshot(load(file)) /\ Settings' = Snapshot(load(file'))
    BY <1>4 DEF Settings, Snapshot
  <2>. QED BY <1>1, <1>2, <1>3, <2>1, SnapshotSet
<1>6. Settings' = Snapshot(load(file))'
  BY <1>4 DEF Settings
<1>. QED BY <1>4, <1>5, <1>6 DEF Store!Edit, Store!With, Up

LEMMA ClientRefines ==
  ASSUME PrefsInv, NEW c \in Client, Subscribe(c) \/ Leave(c)
  PROVE  Store!Subscribe(c) \/ Store!Leave(c)
<1>1. UNCHANGED <<user, file, mode>>
  BY DEF Subscribe, Leave, storeVars
<1>2. Settings' = Settings /\ Up' = Up /\ Snapshot(load(file))' = Snapshot(load(file))
  BY <1>1 DEF Settings, Up, Snapshot
<1>3. CASE Subscribe(c)
  <2>1. Settings = Snapshot(user)
    BY <1>3 DEF Subscribe, Settings
  <2>. QED BY <1>2, <1>3, <2>1 DEF Subscribe, Store!Subscribe
<1>4. CASE Leave(c)
  BY <1>2, <1>4 DEF Leave, Store!Leave
<1>. QED BY <1>3, <1>4

LEMMA StoreStep == ASSUME PrefsInv, [Next]_vars PROVE [Store!Next]_(Store!vars)
<1>1. CASE Start
  BY <1>1, StartRefines DEF Store!Next
<1>2. CASE Requests
  <2>1. PICK c \in Client, k \in Published: \E v \in Typed[k]:
          apply(c, k, v) \/ applyAndExit(c, k, v) \/ CrashInSave(c, k, v)
    BY <1>2 DEF Requests
  <2>2. PICK v \in Typed[k]: apply(c, k, v) \/ applyAndExit(c, k, v) \/ CrashInSave(c, k, v)
    BY <2>1
  <2>3. v \in Value
    BY BrokerAssumption DEF Published
  <2>. QED BY <2>2, <2>3, ApplyRefines, CutRefines DEF Store!Next
<1>3. CASE Quit
  <2>1. Up /\ Ended /\ file' = file
    BY <1>3 DEF Quit, diskVars
  <2>2. Device \in Published /\ Detect \in Value
    BY BrokerAssumption DEF Published
  <2>3. Store!Keep(Snapshot(setPref(user, Device, Detect)))
    BY <2>1 DEF Store!Keep, Snapshot
  <2>4. Store!End(Device, Detect)
    BY <2>1, <2>2, <2>3, EndRefines
  <2>. QED BY <2>2, <2>4 DEF Store!Next
<1>4. CASE \E c \in Client: Subscribe(c) \/ Leave(c)
  BY <1>4, ClientRefines DEF Store!Next
<1>5. CASE \E k \in Published: \E v \in Typed[k]: Edit(k, v)
  <2>1. PICK k \in Published: \E v \in Typed[k]: Edit(k, v)
    BY <1>5
  <2>2. Typed[k] \subseteq Value
    BY BrokerAssumption DEF Published
  <2>. QED BY <2>1, <2>2, EditRefines DEF Store!Next
<1>6. CASE UNCHANGED vars
  BY <1>6 DEF vars, storeVars, Store!vars, Settings, Up, Snapshot
<1>. QED BY <1>1, <1>2, <1>3, <1>4, <1>5, <1>6 DEF Next

(* The preferences, with their file and its backup, the starts, the ends, *)
(* the failed saves and the crashes in one, are the store of              *)
(* SettingsStore: one value per setting, the same for all clients, and    *)
(* for the next start all of them as they were saved, or what it would    *)
(* have found before, or none (XMLPreferences::savePreferences).          *)
THEOREM PrefsImplementStore == Spec => StoreSpec
<1>1. PrefsInv /\ [Next]_vars => PrefsInv' /\ [Store!Next]_(Store!vars)
  BY PrefsStep, StoreStep
<1>. QED BY Initially, StoreInitially, <1>1, PTL DEF Spec, StoreSpec, Store!Spec
=============================================================================
