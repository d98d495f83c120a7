----------------------------- MODULE PrefsBroker -----------------------------
(***************************************************************************)
(* The preferences a web client may see and set, what the capture makes of *)
(* them, and the daemon's start, end and crashes around them: PrefsBroker  *)
(* over XMLPreferences, with the parts of DaemonApp::start and EQPacket    *)
(* that read a preference or act on a change.  A slot runs to its end, so  *)
(* only a crash comes between the steps of a save.                         *)
(***************************************************************************)
EXTENDS XMLPreferences

CONSTANTS Device, IP,       \* the two settings the capture follows
          Filename,         \* [VPacket] Filename, which no client sees
          Empty, Detect,    \* the empty value, and the address that asks for detection
          Usable,           \* devices that open
          Hosts,            \* addresses that resolve
          Typed,            \* the values each setting is given
          Client, Away
ASSUME BrokerAssumption ==
    /\ {Device, IP, Filename} \subseteq Key
    /\ Filename \notin {Device, IP} /\ Device # IP
    /\ {Empty, Detect} \cup Usable \cup Hosts \subseteq Value
    /\ Empty \notin Usable \cup Hosts /\ Detect \in Hosts
    /\ Typed \in [Key -> SUBSET Value]

Published == Key \ {Filename}

VARIABLES mode,           \* "down", or how the daemon runs
          cli,            \* --device
          device, ip,     \* what EQPacket is set to
          shown           \* shown[c]: the preferences a client shows, or Away
captureVars == <<cli, device, ip>>
vars == <<storeVars, mode, captureVars, shown>>

Up == mode # "down"
Snapshot(dict) == [k \in Published |-> getPref(dict, k)]

TypeOK ==
    /\ StoreTypeOK
    /\ mode \in {"down", "idle", "live", "replay"}
    /\ cli \in Value /\ device \in Value /\ ip \in Hosts
    /\ shown \in [Client -> [Published -> Value] \cup {Away}]

Nobody == [c \in Client |-> Away]

Init ==
    /\ user = NoPrefs /\ bak = NoFile /\ saved = TRUE
    /\ file \in {NoFile, Whole(NoPrefs)}
    /\ mode = "down" /\ cli = Empty /\ device = Empty /\ ip = Detect
    /\ shown = Nobody

\* validateIP: no address, or one that does not resolve, is automatic detection.
validIP(a) == IF a \in Hosts THEN a ELSE Detect

-----------------------------------------------------------------------------
\* The daemon starts.  The command line's file name is stored as the user's.

DeviceFor(dict) == IF cli' # Empty THEN cli' ELSE getPref(dict, Device)

\* Mutant: a file name on the command line stands in for the file.
LoadedUnlessNamed(name) == setPref(IF name = Empty THEN load(file) ELSE NoPrefs, Filename, name)
Loaded(name) == IF name = Empty THEN load(file) ELSE setPref(load(file), Filename, name)

Begin(name) ==
    /\ ~Up
    /\ user' = Loaded(name)
    /\ ip' = validIP(getPref(user', IP))
    /\ UNCHANGED <<diskVars, saved, shown>>

StartReplay(name) ==
    /\ name # Empty
    /\ Begin(name)
    /\ cli' = Empty /\ device' = Empty /\ mode' = "replay"

\* With a device that does not open the process ends, as if not started.
StartCapture(name, dev) ==
    /\ Begin(name)
    /\ cli' = dev
    /\ device' = DeviceFor(user')
    /\ device' \in Usable \cup {Empty}
    /\ mode' = IF device' = Empty THEN "idle" ELSE "live"

-----------------------------------------------------------------------------
\* PrefsBroker::apply, from the slot of a client's message.  The value is stored
\* and saved before the capture tries it, and a save that fails stops nothing.

\* Mutant: prefChanged is not emitted for the device.
ToldUnlessDevice(k, v) ==
    [c \in Client |-> IF shown[c] = Away \/ k = Device THEN shown[c] ELSE [shown[c] EXCEPT ![k] = v]]
Told(k, v) == [c \in Client |-> IF shown[c] = Away THEN Away ELSE [shown[c] EXCEPT ![k] = v]]

SetAndSave(k, v) == user' = setPref(user, k, v) /\ savePreferences(user')

Ended == /\ user' = NoPrefs /\ saved' = TRUE /\ mode' = "down"
         /\ cli' = Empty /\ device' = Empty /\ ip' = Detect /\ shown' = Nobody

Asked(c, k, v) == shown[c] # Away /\ k \in Published /\ v \in Typed[k]

\* monitorDevice opens another device, in a live capture only.
Reopens(k, v) == k = Device /\ v # Empty /\ mode = "live"
\* Mutant: a replay keeps its address.
FollowsLive(k) == k = IP /\ mode = "live"
Follows(k) == k = IP /\ mode # "idle"

apply(c, k, v) ==
    /\ Asked(c, k, v)
    /\ Reopens(k, v) => v \in Usable
    /\ SetAndSave(k, v)
    /\ device' = IF Reopens(k, v) THEN v ELSE device
    /\ ip' = IF Follows(k) THEN validIP(v) ELSE ip
    /\ shown' = Told(k, v)
    /\ UNCHANGED <<mode, cli>>

\* PacketCaptureThread::start ends the process.
applyAndExit(c, k, v) ==
    /\ Asked(c, k, v)
    /\ Reopens(k, v) /\ v \notin Usable
    /\ LastSave(setPref(user, k, v))
    /\ Ended

Subscribe(c) ==
    /\ Up /\ shown[c] = Away
    /\ shown' = [shown EXCEPT ![c] = Snapshot(user)]
    /\ UNCHANGED <<storeVars, mode, captureVars>>

Leave(c) ==
    /\ shown[c] # Away
    /\ shown' = [shown EXCEPT ![c] = Away]
    /\ UNCHANGED <<storeVars, mode, captureVars>>

\* Quitting saves nothing of the preferences, so it is like a crash.
Quit == Up /\ Ended /\ UNCHANGED diskVars

CrashInSave(c, k, v) ==
    /\ Asked(c, k, v)
    /\ LastSave(setPref(user, k, v))
    /\ Ended

\* The operator edits the file, or writes it anew, while the daemon is down.
Edit(k, v) ==
    /\ ~Up /\ k \in Published /\ v \in Typed[k]
    /\ file' = Whole(setPref(load(file), k, v))
    /\ UNCHANGED <<user, bak, saved, mode, captureVars, shown>>

Start == \E name \in Typed[Filename]: \/ StartReplay(name)
                                      \/ \E dev \in Typed[Device]: StartCapture(name, dev)
Requests == \E c \in Client, k \in Published: \E v \in Typed[k]:
                apply(c, k, v) \/ applyAndExit(c, k, v) \/ CrashInSave(c, k, v)
Next == \/ Start \/ Requests \/ Quit
        \/ \E c \in Client: Subscribe(c) \/ Leave(c)
        \/ \E k \in Published: \E v \in Typed[k]: Edit(k, v)
Spec == Init /\ [][Next]_vars

-----------------------------------------------------------------------------
\* What the preferences are: those in memory, or those the next start finds.
Settings == Snapshot(IF Up THEN user ELSE load(file))
Store == INSTANCE SettingsStore WITH
            Setting <- Published, Factory <- Snapshot(NoPrefs),
            settings <- Settings, kept <- Snapshot(load(file)), running <- Up

\* However the daemon is started, ended, or stopped in a save, and whatever clients
\* set meanwhile: a running daemon has what was last set, and what the next start
\* finds is that, as it can be read again, or what the start found before a save
\* that failed or was cut (savePreferences opens the file itself for writing, and
\* goes on where that fails), or nothing of all that was ever set.
StoreSpec == Store!Spec

\* What is read where v was saved, once or not yet.
ReadsAs(w, v) == w = v \/ (v # Absent /\ w = Rewritten[v])

\* While the daemon runs, and unless the last save has failed, what a client may set
\* is on disk as it is in memory, up to what the file makes of a value: apply saves
\* every change at once, and a whole save makes good for those that failed before.
FileHoldsThePrefs == Up /\ saved => \A k \in Published: ReadsAs(load(file)[k], user[k])

\* Every client shows the preferences as they are, whoever set them, as long as the
\* daemon runs (fillSnapshot, prefChanged).
ClientsShowThePrefs == \A c \in Client: shown[c] # Away => Up /\ shown[c] = Snapshot(user)

\* The capture is set to what the preferences say, from the start and after every
\* change; only the command line, or an emptied device, makes a difference.
CaptureFollowsThePrefs ==
    /\ mode \in {"live", "replay"} => ip = validIP(getPref(user, IP))
    /\ mode = "live" => \/ device \in Usable \cap {cli, getPref(user, Device)}
                        \/ device \in Usable /\ getPref(user, Device) = Empty

\* Not so today: a save puts a line break behind every "-->", in values too.
\* "flush so the change survives a daemon restart" (prefsbroker.cpp:71-72): after a
\* save that did not fail, a start finds every setting as the client set it.
ChangeSurvives == Up /\ saved => \A k \in Published: load(file)[k] = user[k]

\* Not so today: the backup is made once, of whatever the file was then.
\* Once there was a whole file there is one, or a whole backup.
WholeCopyStays == file.is = "half" => bak.is = "whole"

\* Not so today: --record-vpk and --replay are stored as the user's.
\* xmlpreferences.h:52-54: "command line args which should override config file
\* prefs but not overwrite them".
CommandLineStaysOut == ~Up => load(file)[Filename] = Absent

\* Not so today: the packaged default names a device.
\* daemonapp.cpp:168: without --device and --replay "the daemon then serves clients
\* with an empty state".
IdleWithoutDevice == Up /\ cli = Empty /\ user[Device] = Absent => mode # "live"

\* Not so today: a device is saved before it is tried, and the trial ends the process.
\* What a client sets does not keep the daemon from starting again.
StartsAgain == getPref(load(file), Device) \in Usable \cup {Empty}
=============================================================================
