# Verification of showeq-daemon-quarm

TLA+ models of the daemon's own logic, TLC runs over small instances of them,
and TLAPS proofs of what matters most. Every definition is translated from the
C++ under `src/src/`; `PROJECT.json` maps each one to its lines.

Read `EQMacDecoder.tla` first for the style, then `WorldState.tla` for how
managers are composed.

## The system

The daemon watches the network traffic of an EverQuest client (EQMac/Quarm
protocol), rebuilds the state of the game from it and streams that state to web
clients over WebSockets. It is one Qt event loop and one capture thread:

    libpcap thread --list+mutex--> EQPacket (10 ms timer)
        --> 4 EQPacketStreams --> EQMacDecoder per port pair
        --> slots of ZoneMgr, Player, SpawnShell, GroupMgr, SpawnMonitor, SpellShell, ...
        --> direct signals --> SessionAdapter per session --> WebSocket
    web client --> WsServer --> SessionAdapter --> FilterMgr / PrefsBroker / SpawnMonitor

Everything but the capture thread runs on the event loop, and every
connection between managers is direct: a slot runs to its end inside the emit.
So one action of a model is one slot with everything it calls; only
`PacketCapture` has steps of two threads, and only the file operations of a
save and the browser's connection can be cut between two steps.

| Component | State | Operations | What makes it hard | Correct when |
|---|---|---|---|---|
| Capture thread | pcap handle, list, closed flag | receive, start, stop, setFilter, getPacket | two threads, join, freed nodes | the list is a queue; stop returns; no use after close |
| Packet routing | client address, detection, four streams | timer, dispatch, change of device or client | packets queued across a switch | a stream holds only its client's, its device's packets |
| Wire decoder | ARQ mark and fragment groups per flow | process, reset | loss, repetition, wrap-around | messages once, in order, intact |
| Zone manager | zone name, zoning flag | four packets of a zone change | refused or half-seen changes | the loaded zone is the player's |
| Spawn list, player | spawns by id, ring of deleted ids, player id | new, update, delete, kill, own entry | ids reused, late updates | no ghosts, one player |
| Group | six slots with pointers | follow, leave, disband, spawn signals | pointers into the spawn list | counts and pointers fit |
| Spawn points | candidates, points, a file per zone | pop, kill, name, zone change, save, load | crash in a save, order of save and switch, refused changes | each point under its zone, once |
| Spell shell | list of items, one timer, last cast | cast, land, load, fade, kill, timer | seven places that start or stop the timer | timer runs while needed; clients miss nothing |
| Session broker | pending, sessions, prune timers | connect, subscribe, resume, drop, prune | reconnect races, timers | tables agree; a full grace period |
| Session adapter | sequence number, tail, resume buffer | snapshot, envelope, replay | loss, buffer limits | a client without a gap shows the daemon's state |
| Checkpoint | one JSON file | save by timer and at quit, restore | crash while writing; the game goes on while the daemon is down | what is restored in the same stay in a zone is right |
| Filters | global and zone rules, a file each, marks in the spawns | add, remove, edit, save, reload; mark on seven packets | stored marks, two lists, files named by zone | marks are of the present rules; a client shows them; files read back |
| Categories | a list | load | none at run time | not modelled: never changes |
| Preferences store | user values, packaged defaults, a file and its backup | get, set, save, publish, apply to the capture | a save has four steps and may fail unnoticed; a value is saved before it is tried | clients and capture have the present values, the file those of the last save that did not fail |
| Playback | a file and a clock | next packet, speed | time arithmetic | not modelled yet |
| Others | tables, text, maps, logs | conversions | none | see "Not modelled" |

## The modules

- `AppStream`: the abstract channel of the decoder. Messages of one flow are
  handed on in order, each at most once.
- `EQMacDecoder`: the sender with its window of unacknowledged packets, a
  network that loses, repeats and reorders, and the decoder: high-water mark,
  fragment groups, decryption outcome. One variable per member of the C++
  class, indexed by flow. `EQMacDecoderProofs` proves about it;
  `EQMacRestart` adds a peer that starts a second session.
- `WsServer`: `m_pending`, `m_sessions`, `m_socketToSession` and the prune
  timers. One action per slot.
- `Selection`: what a loop leaves of a list when it keeps the elements at some
  positions, stated by the positions and not by a recursion.
- `SessionAdapter`: operators for one session's numbering, tail and resume
  buffer. `WsSessions` composes it with `WsServer`, the connections and web
  clients, end to end. `WsSessionsProofs` proves about the broker and about the
  whole.
- `ZoneMgr`, `SpawnShell`, `GroupMgr`: the managers, each extending the one it
  calls. `WorldState` wires them with the signals of `daemonapp.cpp` and adds
  the game as the source of packets and one streaming client. `Checkpoint` is
  the identity file; `WorldRestart` puts a daemon around the world that quits,
  crashes (also while it writes the file) and starts again, at once or after
  the game has gone on. Its variable `source` is history: where the daemon has
  the player's id from. `WorldProofs` proves about the zone and the player's
  identity, the spawn list, its client and the group.
- `PacketFifo`: the abstract queue of the capture. `PacketCapture`: the thread,
  the linked list and its lock; a critical section is one action. `EQPacket`:
  the timer, client detection, routing, and the preferences that stop and start
  the capture, step by step where the other thread can run in between: mark
  closed, break the loop, join and close the handle, start again or go.
  `CaptureProofs` proves about it.
- `SpawnMonitor`: candidates, points, the client's view of them, and the three
  files of each zone with the four steps of a save. A save or a load may find
  that its file does not open; what is written to an open file is assumed to get
  there. Changes of zone are asked for, granted or refused, and the daemon takes
  a refusal for a change. The variable `refused` is history: between which zones
  that has happened. `SpawnMonitorProofs` proves about it.
- `SpellShell`: the list of items by address, the timer and the client's view.
  `SpellProofs` proves about it.
- `Filters`: rules, matching, editing and the XML file as operators. Which text
  matches which look is a relation given as a constant; what the code compiles
  for a typed pattern is a function. `FilterMgr`: the two lists of rules, the
  files, the spawns with their marks, and a web client that edits and shows.
  Three fields of a spawn are ghosts: what it was last marked by, and whether a
  kill changed its marks untold. `FilterProofs` proves about it.
- `SettingsStore`: what the preferences promise: one value per setting, the
  same for all clients of a running daemon, and beside it what the next start
  will find: the same as it reads back, or, where keeping it failed, what was
  kept before or the factory's settings. `XMLPreferences`: the user's values
  over the packaged ones and the file with its backup. A save may end whole, or
  at each of its steps fall short: cut by a crash, or failed with a warning that
  stops nothing. `Rewritten` is what the file's text makes of a value: the save
  puts a line break behind every `-->`, in values too. The variable `saved` is
  history: whether the last save was whole. `PrefsBroker`: the settings clients may see and set, the slots of
  a change, and what `DaemonApp::start` and `EQPacket` make of the values.
  `PrefsProofs` proves about it. `EQPacket` models the same two changes, of
  device and address, step by step against the capture thread.
- `MC*`: constants and symmetry for TLC.

Composition is by EXTENDS and conjunction: an action of a composing module
conjoins the actions of the managers that the same packet reaches.

## The runs

| Run | Expect | What it shows |
|---|---|---|
| decoder | pass | The decoder implements `AppStream` under loss, repetition and reordering across the ARQ wrap; bodies are whole messages unless their group number is another message's too; what was captured completely is dispatched. |
| restart | violation | The mark of a finished session filters the first packets of a new one on the same ports. |
| sessions | pass | Tables agree in every order of connect, resume, drop and timeout, with a full grace period; a client that sees no gap after any number of lost connections shows what the daemon holds. |
| world | pass | No ghosts, right zone, exact mirror, own id through granted, refused and half-missed changes of zone and through restarts with a good, old or cut checkpoint; a checkpoint of this stay is right. |
| world_group | pass | Member count and pointers into the spawn list, with late position updates. |
| world_dangling | violation | The spawn list is freed and a group member keeps its pointer. |
| capture | pass | The list is a queue for all interleavings of the two threads; the capture goes on after changes of device and client; stop returns; packets are served. |
| spawn_points | pass | Points keep to their zone, in memory and on disk, unless a change of zone was refused; a complete copy of a zone's points stays on disk; through failed and cut saves and restarts; clients see every change. |
| rename_lost | violation | From the third save of a zone on nothing is stored. |
| spells | pass | Seven ways to add or remove a spell; timer, last-cast pointer and clients' list stay right; the list drains. |
| filters | pass | Marks follow the rules and clients follow the marks through edits, reloads, zone changes, crashes and restarts; a save reads back; each zone's file is its own. |
| prefs | pass | The preferences implement `SettingsStore` through failed and cut saves, edits of the file and every kind of start; the file holds what the last save kept; clients and capture follow every change. |

### Bounds, and why they are enough

- decoder: nine packets in four messages, the last with the group number of
  the first; ARQ numbers modulo 8, a window of 4.
  The wrap is inside the stream for every initial number; the largest window
  for which a 16-bit difference is unambiguous is half the space, and 4 is half
  of 8. One flow: a flow has its own decoder, and the theorems hold for any
  set of flows and any modulus.
- sessions: one item, ring of two frames that lives one tick, three envelopes
  per session, two sockets over two sessions, a grace period of 2 ticks:
  enough for a drop, a pruned buffer, a resume inside the grace period and a
  second session while the first lingers.
- world: two ids, two zones, one lost packet, two restarts, ring of one. A
  spawn can take the id the player had; one restart can restore what another
  one saved. The ring's size only matters for which late updates are
  recognised. A restart in the middle of a change of zone costs the packet that
  the daemon then has not handled, so it counts as the lost one; a restart
  between the profile and the zone data is like a missed profile, which
  `LoadedZoneIsCurrent` does not stand, and is left out.
- world_group: two players, two slots, two ids, each id reused.
- capture: two packets, two devices, two clients. A list of two has a head, a
  tail, and the state where both are the same node.
- spawn_points: two zones, one spot, one id, no label but the empty one, and one
  pair of zones between which a change is refused (`MaxRefused`): the same id
  pops twice in a place and in both zones, and the points of the one zone get
  into the other's memory and files, but not the other way round. Naming a point
  saves it; names that differ are in rename_lost, where a third save needs one
  that changes back and forth, and in the theorems.
- spells: three addresses, one spell of each target type, one of them
  permanent, durations 0 and 2, three packets. `Ticks` has the boundary (0: gone
  after one tick) and one that lives on.
- filters: one zone and the file of the unknown one, one type, one spawn, two
  rules, one write, levels 0 and 1. Three patterns: a plain one with markup, one
  with "Name:" and the text that one compiles to, so that a rule is found under
  another rule's text. Two rules make a duplicate and a half-written file; two
  files make a save under the wrong name. A zone name that arrives empty
  (`zoneNew`) is in the module and the proofs but not in the run, which it
  would make twice as long.

- prefs: two clients; the two settings the capture follows and the unpublished
  file name; two devices that open (one is the packaged default), one that does
  not, an address and a text with `-->`. Every value a check branches on is
  there: empty, automatic, usable, unusable. A text with `-->` and one with the
  breaks that saves put behind it are two values; how many breaks there are is
  not told apart in the run. A setting the capture does not follow is like an
  address in an idle daemon.

The type invariants hold in these instances too, but stand there for the reader
and for the proofs, and are in no run.

### Fairness

Qt's event loop is one thread that serves its timers: weak fairness on the
timer's slot is what it gives (`spells`). In `capture`, a slot that started goes on to its
end, and the capture thread finishes its callback and sees a broken loop,
which is what libpcap 1.10 promises (the comment in `stop()` relies on it).
Nobody is assumed to send a packet, subscribe, cast or quit.
`capture` is the only run without a deadlock check: the daemon quits.

## The proofs

| Theorem | Statement | Assumes |
|---|---|---|
| `TypeCorrect` | types of the decoder | constants' assumptions |
| `BodiesAreIntact` | each body is exactly one sent body, unless another message of the session uses its group number | same |
| `CapturedIsDispatched` | a message all of whose fragments passed the filter is dispatched, whole and with its own opcode | same |
| `DecoderImplementsChannel` | decoders implement `AppStream` | same as types |
| `BrokerTypes`, `BrokerTablesAgree`, `NoEarlyPrune` | the three invariants of the broker | constants' assumptions |
| `SessionsKeepTheTables` | the broker's tables agree with adapters and clients attached | same |
| `FramesAreUnbroken` | what is under way and what is kept for a resume is numbered without a gap up to the session's last number | same |
| `NothingIsSentTwice` | no number is sent again to a client that has the snapshot | same |
| `ResumesLoseNothing` | a client that missed no number shows the daemon's items once it is caught up, through every resume | same |
| `ZoneIsCurrent` | after a profile, zone, map and view are the player's, through restarts | at most one packet missed, no profile |
| `IdentityIsKnown` | the player's id is its own or unknown and no spawn's | same, own entries seen |
| `CheckpointIsRight` | a checkpoint of this stay has the right id and zone | same |
| `NoGhostsLinger`, `MirrorStaysExact` | the spawn list is the game's, the client shows it | as `ZoneIsCurrent`, no late updates |
| `MembersStayCounted` | the member count is the number of taken slots | constants' assumptions |
| `PointersStayFit` | listed pointers are to spawns of the member's name | as `ZoneIsCurrent` |
| `MonitorTypes`, `PlacesHaveOneOwner`, `ViewFollowsPoints` | types; a place is a candidate or a point; clients show the points | constants' assumptions, `QDir::rename` |
| `PointsKeepToTheirZone` | under a zone's name stand only its own points, and those of zones from which a change to it was refused | same |
| `CompleteCopyKept` | no step of a save takes the last complete copy of a zone away | same |
| `MarksFollowRules` | a spawn's flags are those of the present rules | constants' assumptions |
| `ClientFollowsMarks` | a client shows the rules, the spawns and their flags | same |
| `SavesAreReadBack` | what a save writes a load reads: the same rules in the same order | same; no pattern with markup |
| `FilesStayTheirZones` | a file holds only rules made for it | same; so do the installed files |
| `SpellTypes`, `NoDanglingSpell`, `TimerIsOnWhenNeeded`, `ClientsMissNoSpell` | the types and the three invariants of the spell shell | constants' assumptions |
| `PrefsAreKept` | unless the last save failed, the file has the settings in memory, each as it is or as it reads back | constants' assumptions; the packaged values read back as they are |
| `ClientsAreTold`, `CaptureIsAsStored` | clients and capture have the settings in memory, saved or not | same |
| `PrefsImplementStore` | the preferences implement `SettingsStore` | same |
| `TailStaysLive` | the callback writes into a live node | constants' assumptions |
| `CaptureStaysOn` | the loop has a handle, and outside `stop()` the capture runs on the chosen device, open, behind the client's filter | same |
| `DevicesDoNotMix`, `ClientsDoNotMix` | queue and streams hold one device's packets, the client's streams its own | same |
| `ListIsFifo` | the shared list implements `PacketFifo` | same |

The arguments:

- Decoder. `MarkInv`: the mark of a flow is the number of its newest accepted
  packet (or -1). With the window at most half the number space,
  `DeltaIsDistance` shows the signed 16-bit difference is the true distance, so
  `FreshIsNewer`: the filter passes exactly what is newer than all before. That
  gives the refinement. `GroupInv` and `DoneInv` say what a group holds (fragments
  with its number, each from a packet of its own and in the order of the stream)
  and what was dispatched; that a body is whole then follows by counting.
  `CapturedIsDispatched` is the other direction. A sender puts nothing between
  the fragments of a message, so after its k-th fragment was accepted as the
  newest, the group must hold exactly the first k: `PartInv`. A first fragment
  clears what another message left in the group, and the last one dispatches.
- Broker. The three invariants are inductive only together (`BrokerInv`): that
  a detachment overwrites no running timer comes from `FullGrace`, that the
  session was attached from `TablesAgree`.
- Sessions. A buffer's pruning and a resume's replay both keep an upper end of
  the buffer (`ChosenUpward`), and that numbers stay without a gap follows. For
  what a client shows, `SessionInv` has for every session a history, the items
  as they were at each of its numbers: each frame under way or in the buffer
  leads from one to the next, the last is what the daemon holds, and a client
  without a gap shows the one of the last number it received. `CatchingUp`
  then goes through the frames one by one.
- Zone. `LoadedZoneIsCurrent` alone is not inductive: a profile loads the map
  only if the name changed or the flag is set. `ZoneInv` says, phase by phase
  of the change of zone, that one of the two is so whenever the map is stale,
  as long as one packet at most was lost. A restart sets name, flag and map
  together (`ZonesAgree`), which is as good as any phase before the profile.
- Identity. `PlayerInv` says where the id may come from in each phase, that no
  listed spawn has it, and that a checkpoint is marked as of this stay only
  with the right id and zone. An id that was restored from another stay is
  excepted, by the history variable `source`, until a packet names the player.
- Spawn list. In a zone the list knows what was announced by its right name or
  by none (`Known`), and anything else has no name and came with a late update;
  between zones nothing is claimed until `clear` has run, which `ListInv` ties
  to the name and flag that make the profile run it. The mirror needs this:
  an entry of another player updates a listed spawn in place, untold, which
  only a late update could have put there. So do the pointers: a name is given
  in place only to a nameless spawn, and no member is nameless.
- Group. Counting is by finite sets: each packet puts one slot into or out of
  the taken ones (`FirstIsOne`), and a count below `Width` does not wrap.
- Spawn monitor. `PointsOfTheirZone` says nothing of the candidates, which a
  second pop makes points, nor of where the player is, which a pop's place
  depends on: `MonitorInv` adds that candidates may stand under the monitor's
  name too, that this name is the player's zone or one that refused the player
  there once spawns arrive, and that only `.sp.new` is ever half written. A set
  of refused pairs only grows (`MoreRefused`), so what may stand may stay. The four steps of a save get a lemma each,
  from which `SaveSteps` follows for a save cut short after any of them.
- Filters. `MarksInv` is by spawn: `Fits` says its flags are those of what it
  was marked by, `Tells` that a client which was told shows them. `RefilterFits`
  and `RefilterTells` are about one pass over the list, and a reload is two of
  them. Nothing is used there of what `load`, `addFilter` and `remFilter`
  return, so these two hold for any matching, any file and any edit. The files
  are about just that: `RulesInv` says that each list and each file holds rules
  of its own file only, and that no rule of a list is one `addFilter` would take
  for a duplicate of an earlier one. The latter is what makes a load take every
  entry that a save wrote; `SavedIsRead` follows the reader through the
  sections, type by type and rule by rule. The zone manager's name of the zone
  does not come into it: that `zoneFile` is set with the rules, and only then,
  is what keeps a save from the file of another zone.
- Spells. The three invariants are inductive with the types, together
  (`SpellInv`). A loop that removes items is stated by the positions it keeps:
  `RanksAreAll` and `ChosenAre` say that just those items are left. The list is
  sent in the middle of such loops, so for the clients' view a lemma follows
  what was sent (`SentAre`) and what is removed after it.

- Preferences. The invariant is `FileHoldsThePrefs` with the other two and the
  types. A whole save puts every value in memory into the document, so it keeps
  all of them, those of earlier failed saves included; one that falls short
  leaves the file as it was or leaves none that loads. So each change and each
  end of the daemon maps to `Set` or `End` of the abstract store, which keeps
  the new settings, what it kept before, or the packaged ones. Nothing is used
  of `Rewritten` but that it leaves the packaged values alone.
- Capture. A list is its set of nodes reached from the head (`Queued`), with
  one lemma per way a critical section changes a link: a fresh node, a node
  linked behind the tail, the head unlinked. `ListInv` adds that the packet in
  the thread's hand is the newest and not yet linked. `DeviceInv` speaks of the
  packet in hand too, which would bring the old device into the new queue;
  `ClientInv` that a detection starts from streams without a client's packets,
  because until then no packet matches the client's address. For `ListIsFifo`
  the list as a sequence is what is reached from the head by the links
  (`Rest`). A node is linked behind nodes captured before it, so links lead to
  later packets and the walk ends (`RestExists`). Linking a node appends it and
  unlinking the head drops the first: were the walks before and after to differ
  otherwise, the last node at which they do would have a successor at which they
  do (`SameRest`).
- Loops and data. What a loop computes is a recursive function in the model. A
  proof first shows that its equation has a solution, then that what holds of
  the value before each turn holds after it. The prover has no induction over
  data; each such proof takes the least number at which the claim fails
  (`LeastNumber`, from the well-foundedness of the numbers) and finds none.

Every invariant and every action property that the passing runs check is proved
as a theorem for all values of the constants. Only model-checked are the three
liveness properties, `QueuedIsServed`, `StopReturns` and `ListDrains`, since the
prover used here has no rules for fairness, and the violations, which a
counterexample settles. What the modules state as "Not so today" without a run is
neither.

## Assumptions on what is outside

- The sender is the EQMacEmu server's: 16-bit ARQ numbers in sequence, a window
  of at most half the space, fragments of a message in consecutive packets.
- libpcap hands the callback what passes the filter; `pcap_breakloop` ends the
  loop.
- `QDir::rename` fails if the target exists (Qt 5 documentation of
  `QFile::rename`).
- Packets of a change of zone come in the order of the table in
  `zonemgr.cpp:46-60`. The same table gives values of the zoning flag which
  differ from the code's (`zoneEntryClient` sets it to false); the model has
  the code's.
- The web client keys items by id, ignores updates of unknown items and
  compares sequence numbers, as `wsserver.cpp` and `sessionadapter.h` expect.

## Findings

With a run: `restart` (the comment at `eqmac_decoder.cpp:217` says a restart
resets the mark; nothing calls the reset), `world_dangling` (`group.cpp:68`
expects a `delItem` that `SpawnShell::clear` does not send), `rename_lost`
(a rename onto an existing backup fails, so the third and later saves are lost
while the log says "Saved").

Stated in the modules as "Not so today", without a run of their own:

- `PcapTakesCare` (`packet.cpp:422`): packets queued under the old filter are
  dispatched after the address changed.
- `ShownIsListed` (`sessionadapter.h:121`): `clear()` and `timeout()` emit
  before they remove.
- `PermanentStays` (`spells.cpp:220`): 65535 in an `int16_t` is -1.
- `GroupViewIsCurrent` (`sessionadapter.h:119`): `removed()` is emitted before
  the slot is cleared.
- `NoRevival` (`spawnshell.cpp:797`): the ring is searched only up to a count
  that is one short of the newest entry until it is full.
- `ShownRuleCanGo` (`filter.cpp:400`): rules are compared by the compiled text,
  so a "Name:" rule cannot be removed by the text a client shows, and editing it
  adds a second one.
- `NoTwins` (`filter.cpp:424`): for the same reason such a rule can be added
  twice, against the comment there.
- `FlagsAreOfTheLook` (`spawnshell.cpp:922`, `887`, `1093`): a level update, an
  illusion and a corpse's name leave the marks as they were.
- `LossIsVisible` (`wsserver.cpp:206`): a pruned session's id is reused and its
  numbers start again.
- `StaleIdGoes` (`player.cpp:682`): an id restored from an old checkpoint stays
  until the player's own zone entry; the profile has none and a movement is
  only asked while the id is 0.
- `RecordsUnderOwnName` (`zonemgr.cpp:259`, `spawnmonitor.cpp:235`): after a
  refused change of zone the points of the zone the player is still in are
  recorded, and at the next change saved, under the name of the other.
- `ChangeSurvives` (`xmlpreferences.cpp:510`, against `prefsbroker.cpp:71`): a
  setting with `-->` in it comes back changed from the file, although its save
  did not fail.
- `WholeCopyStays` (`xmlpreferences.cpp:344`): the backup of the preferences is
  made once and never renewed; a crash in a later save leaves a half-written
  file beside it.
- `CommandLineStaysOut` (`daemonapp.cpp:150`): the file names of the command line
  are stored as the user's, against `xmlpreferences.h:52-54`.
- `IdleWithoutDevice` (`daemonapp.cpp:155`): the packaged default names a device,
  so a daemon without arguments captures, against the comment at line 168.
- `StartsAgain` (`prefsbroker.cpp:82`): a device is saved before it is tried, the
  trial ends the process, and so does the next start.

The hazards list in `PROJECT.json` has further places without a property, each
with the reason.

## Not modelled

- The legacy ARQ path of `packetstream.cpp` with its cache and
  `EQPacketFragmentSequence`: unreachable, every packet goes to the decoder.
- `monitorMACClient`, `lockOnClient`, `closeStream`, session tracking: the
  daemon configures them away.
- Drops and doors of `SpawnShell`, positions, hit points, experience: data that
  no modelled property tells apart, or maps of the same form as the spawns.
- Runtime filters and `setCaseSensitive`, which nothing calls; the marks of
  drops and doors, which are made the same way; filter types outside the table,
  which are refused or wrapped by `uint8_t`.
- A save of filters that cannot open its file: it writes nothing and changes
  nothing, so it is no step of the model. A save of preferences whose values XML
  cannot carry (control characters), after which the file does not parse.
- Players other than the client's own in the `world` run: that their entries
  update a listed spawn in place is in the module, in the run `world_group` and in
  the theorem `MirrorStaysExact`, which holds for any set of players.
- Categories: loaded once; a spawn's categories are a function of its flags and
  look at the moment it is sent.
- Message shell, combat router, encoder, strings, logs, opcode tables: pure
  conversions of one packet, or tables that are read only.
- Types, sections and comments of the preferences file, `revert`, and the
  run-time dictionary, which nothing sets; the golden dump and recording.
- Playback (`VPacket`) and the rate limiter of `handleClientBinary`: time
  arithmetic on one actor, without state that other parts read.

## Plan

Done, in this order: decoder and channel; broker and sessions; world; capture
and routing; spawn points; spells; filters; preferences with their store;
checkpoint and restarts of the daemon.

Next, most important first:

1. The rest of `SpawnShell` (doors, drops, several item maps and one removal
   envelope), `Player` (experience, hit points), `GuildMgr`.
2. Playback (`VPacket`): clock and speed as a pure algorithm against a
   reference; the rate limiter's bucket.
3. Map parsing and the opcode database as pure functions.

Theorems planned: those of the modules above, and the type invariants of the
world, the capture and the preferences, which so far are only parts of their
inductive invariants.
