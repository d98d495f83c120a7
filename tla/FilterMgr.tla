------------------------------- MODULE FilterMgr -------------------------------
(***************************************************************************)
(* The filter manager, the spawns it marks and a web client that edits the *)
(* rules and shows the marks.  FilterMgr holds the global rules and those  *)
(* of a zone; every change of either emits filtersChanged, on which        *)
(* SpawnShell marks every spawn again and the session sends its rules.     *)
(* A look is what Spawn::filterString gives: of a living spawn, of one     *)
(* known by its position only, of one being killed (marked as a corpse but *)
(* still with its name), of a corpse.  Three fields of a spawn are no part *)
(* of the code: the look and level it was last marked by, and whether the  *)
(* client was not told of its present flags because a kill changed them.   *)
(***************************************************************************)
EXTENDS Filters, Functions

CONSTANTS Ids, Zones, NoZone,               \* NoZone: the empty name
          Living, Unknown, Dying, Corpse,   \* looks
          Global, NoZoneFile,               \* global.xml; "unknown", a zone's name and file
          Texts,                            \* the names a zoneNew may carry
          Shipped,                          \* the files of the installation
          MaxRules,                         \* bound: rules held at one time
          MaxWrites                         \* bound: files written

ASSUME MgrAssumption ==
  /\ Look = Living \cup {Unknown, Dying, Corpse}
  /\ {Unknown, Dying, Corpse} \cap Living = {} /\ Cardinality({Unknown, Dying, Corpse}) = 3
  /\ File = Zones \cup {Global, NoZoneFile} /\ NoZone \notin File
  /\ Texts \subseteq Zones \cup {NoZone}
  /\ Global \notin Zones \cup {NoZoneFile} /\ NoZoneFile \notin Zones
  /\ Shipped \in [File -> Seq(Entry)]
  /\ \A f \in File : \A i \in DOMAIN Shipped[f] : Shipped[f][i].rule.home = f
  /\ MaxRules \in Nat /\ MaxWrites \in Nat

VARIABLES filters,       \* m_filters
          zoneFilters,   \* m_zoneFilters
          zoneFile,      \* m_zoneFilterFile
          zone,          \* ZoneMgr::shortZoneName
          disk,          \* what findExistingFile finds under each name
          writes,        \* files written, counted for the bound only
          spawns,        \* SpawnShell::m_spawns, with their filter flags
          streaming,     \* the client has subscribed
          shown,         \* flags by spawn in the client
          shownRules     \* the rules in the client

ruleVars == <<filters, zoneFilters, zoneFile>>
clientVars == <<streaming, shown, shownRules>>
diskVars == <<disk, writes>>
vars == <<ruleVars, zone, diskVars, spawns, clientVars>>

Level == 0 .. MaxLevel
Spawn == [look : Look, level : Level, judged : Look, judgedLevel : Level,
          flags : SUBSET Type, client : {"told", "untold"}]
Nothing == << >>

TypeOK ==
  /\ filters \in Rules /\ zoneFilters \in Rules
  /\ zoneFile \in File \ {Global} /\ zone \in Zones \cup {NoZoneFile, NoZone}
  /\ disk \in [File -> Seq(Entry)] /\ writes \in Nat
  /\ DOMAIN spawns \subseteq Ids /\ \A id \in DOMAIN spawns : spawns[id] \in Spawn
  /\ streaming \in BOOLEAN
  /\ DOMAIN shown \subseteq Ids /\ \A id \in DOMAIN shown : shown[id] \subseteq Type
  /\ shownRules \in (Rules \X Rules) \cup {Nothing}

-----------------------------------------------------------------------------
(* Marking.  *)

\* FilterMgr::filterMask
Mask(g, z, look, level) == filterMask(g, look, level) \cup filterMask(z, look, level)

\* SpawnShell::updateFilterFlags under the rules g and z.
Marked(s, g, z) ==
  [s EXCEPT !.flags = Mask(g, z, s.look, s.level),
            !.judged = s.look, !.judgedLevel = s.level,
            !.client = IF Mask(g, z, s.look, s.level) = s.flags THEN @ ELSE "told"]
Seen(look, level) ==
  Marked([look |-> look, level |-> level, judged |-> look, judgedLevel |-> level,
          flags |-> {}, client |-> "told"], filters, zoneFilters)

refiltered(ss, g, z) == [id \in DOMAIN ss |-> Marked(ss[id], g, z)]

Changed(ss, tt) == { id \in DOMAIN tt : tt[id].flags # ss[id].flags }

\* Mutant: only a rule that comes to match is told, not one that goes.
ToldGains(sh, ss, tt) ==
  [id \in DOMAIN sh |-> IF ss[id].flags \subseteq tt[id].flags THEN tt[id].flags ELSE sh[id]]
\* A client is sent the spawns whose flags changed, whole.
Told(sh, ss, tt) ==
  [id \in DOMAIN sh \cup Changed(ss, tt) |->
     IF id \in Changed(ss, tt) THEN tt[id].flags ELSE sh[id]]

\* Mutant: the spawns keep their marks.
filtersChangedRulesOnly(g, z) ==
  /\ spawns' = spawns
  /\ UNCHANGED <<streaming, shown>>
  /\ shownRules' = IF streaming THEN <<g, z>> ELSE shownRules

\* filtersChanged() with rules g and z: first SpawnShell's slot, then the session's.
filtersChanged(g, z) ==
  /\ spawns' = refiltered(spawns, g, z)
  /\ shown' = IF streaming THEN Told(shown, spawns, spawns') ELSE shown
  /\ shownRules' = IF streaming THEN <<g, z>> ELSE shownRules
  /\ UNCHANGED streaming

-----------------------------------------------------------------------------
(* What a client asks for.  A rule of a client has no level bounds.        *)

Held == Len(Saved(filters)) + Len(Saved(zoneFilters))

\* Mutant: the file is named after the zone the player is in by now.
FileByZone(perZone) ==
  IF ~perZone THEN Global ELSE IF zone = NoZone THEN zoneFile ELSE zone
FileOf(perZone) == IF perZone THEN zoneFile ELSE Global
RulesOf(perZone) == IF perZone THEN zoneFilters ELSE filters

NewRule(perZone, p) ==
  [pattern |-> p, min |-> 0, max |-> 0, home |-> IF perZone THEN zoneFile ELSE Global]

SetList(perZone, t, list) ==
  LET rs == [RulesOf(perZone) EXCEPT ![t] = list]
  IN  /\ filters' = IF perZone THEN filters ELSE rs
      /\ zoneFilters' = IF perZone THEN rs ELSE zoneFilters
      /\ filtersChanged(filters', zoneFilters')
      /\ UNCHANGED <<zoneFile, zone, diskVars>>

AddRule(perZone, t, p) ==
  /\ Held < MaxRules
  /\ SetList(perZone, t, addFilter(RulesOf(perZone)[t], NewRule(perZone, p)))

RemoveRule(perZone, t, p) == SetList(perZone, t, remFilter(RulesOf(perZone)[t], p))

\* The old pattern may be of no rule; the list is then one longer.
EditRule(perZone, t, old, new) ==
  /\ Held < MaxRules \/ findFilter(RulesOf(perZone)[t], old) # {}
  /\ SetList(perZone, t, addFilter(remFilter(RulesOf(perZone)[t], old), NewRule(perZone, new)))

Write(perZone, file) ==
  /\ writes < MaxWrites /\ writes' = writes + 1
  /\ disk' = [disk EXCEPT ![FileOf(perZone)] = file]

Save(perZone) ==
  /\ Write(perZone, Saved(RulesOf(perZone)))
  /\ UNCHANGED <<ruleVars, zone, spawns, clientVars>>

\* The global file, then the file of the zone the zone manager names.  Both
\* loads emit: a spawn is marked by the new global rules with the old zone
\* rules in between.
Reload ==
  LET mid == refiltered(spawns, load(disk[Global]), zoneFilters)
      midShown == IF streaming THEN Told(shown, spawns, mid) ELSE shown
  IN  /\ filters' = load(disk[Global])
      /\ IF zone = NoZone
         THEN /\ UNCHANGED <<zoneFilters, zoneFile>>
              /\ filtersChanged(filters', zoneFilters)
         ELSE /\ zoneFilters' = load(disk[zone]) /\ zoneFile' = zone
              /\ spawns' = refiltered(mid, filters', zoneFilters')
              /\ shown' = IF streaming THEN Told(midShown, mid, spawns') ELSE shown
              /\ shownRules' = IF streaming THEN <<filters', zoneFilters'>> ELSE shownRules
              /\ UNCHANGED streaming
      /\ UNCHANGED <<zone, diskVars>>

\* SessionAdapter::startStreaming
Subscribe ==
  /\ ~streaming
  /\ streaming' = TRUE
  /\ shown' = [id \in DOMAIN spawns |-> spawns[id].flags]
  /\ shownRules' = <<filters, zoneFilters>>
  /\ spawns' = [id \in DOMAIN spawns |-> [spawns[id] EXCEPT !.client = "told"]]
  /\ UNCHANGED <<ruleVars, zone, diskVars>>

ClientGone == streaming' = FALSE /\ shown' = Nothing /\ shownRules' = Nothing
Leave == streaming /\ ClientGone /\ UNCHANGED <<ruleVars, zone, diskVars, spawns>>

-----------------------------------------------------------------------------
(* Zones.  The zoning flag, under which packets of spawns are dropped, is   *)
(* left out (WorldState has it): it only takes steps away.                 *)

\* The client's own zone change and zone entry, and a server's zoneNew when
\* the name is not known, name the zone and do nothing else.
Named(z) == zone' = z /\ UNCHANGED <<ruleVars, diskVars, spawns, clientVars>>
zoneChangeClient(z) == Named(z)
zoneEntryClient == Named(NoZoneFile)
zoneNew(z) == zone \in {NoZone, NoZoneFile} /\ Named(z)

\* ZoneMgr::zoneChanged: the list is cleared, the rules are not touched.
zoneChanged(z) ==
  /\ zone' = z
  /\ spawns' = Nothing /\ shown' = Nothing
  /\ UNCHANGED <<ruleVars, diskVars, streaming, shownRules>>

\* ZoneMgr::zoneBegin: SpawnShell::clear, then loadZone, then the session.
zoneBegin(z) ==
  /\ zone' = z
  /\ zoneFilters' = load(disk[z]) /\ zoneFile' = z
  /\ spawns' = Nothing /\ shown' = Nothing
  /\ shownRules' = IF streaming THEN <<filters, zoneFilters'>> ELSE shownRules
  /\ UNCHANGED <<filters, diskVars, streaming>>

-----------------------------------------------------------------------------
(* Spawns.  Add puts one into the list and, whole, into the client.        *)

Merged(new, list) == [id \in DOMAIN new \cup DOMAIN list |->
                        IF id \in DOMAIN new THEN new[id] ELSE list[id]]
Put(id, s) == spawns' = Merged([i \in {id} |-> s], spawns)
Shows(id, flags) ==
  shown' = IF streaming THEN Merged([i \in {id} |-> flags], shown) ELSE shown
ShowsIfNew(id, flags) == IF spawns[id].flags # flags THEN Shows(id, flags) ELSE UNCHANGED shown
OnlySpawns == UNCHANGED <<ruleVars, zone, diskVars, streaming, shownRules>>
Add(id, s) == Put(id, s) /\ Shows(id, s.flags) /\ OnlySpawns

\* newSpawn, of an id that is listed or not.
newSpawn(id, look, level) == Add(id, Seen(look, level))

\* updateSpawn of an id that is not listed.
updateSpawn(id) == id \notin DOMAIN spawns /\ Add(id, Seen(Unknown, 0))

\* zoneEntry of an id that is listed, a level update: neither marks.  (Nor does
\* a move, which changes the look as well: zoneEntry with the same level.)
zoneEntry(id, look, level) ==
  /\ id \in DOMAIN spawns
  /\ Put(id, [spawns[id] EXCEPT !.look = look, !.level = level])
  /\ UNCHANGED shown /\ OnlySpawns
updateSpawnAppearance(id, level) ==
  /\ id \in DOMAIN spawns
  /\ Put(id, [spawns[id] EXCEPT !.level = level])
  /\ UNCHANGED shown /\ OnlySpawns

\* An illusion, and the guild's name that updateGuildTag sets, are told but do
\* not mark.
illusionSpawn(id, look) ==
  /\ id \in DOMAIN spawns
  /\ look = spawns[id].look \/ {look, spawns[id].look} \subseteq Living
  /\ Add(id, [spawns[id] EXCEPT !.look = look, !.client = "told"])

spawnWearingUpdate(id) ==
  /\ id \in DOMAIN spawns
  /\ LET s == Marked(spawns[id], filters, zoneFilters)
     IN  Put(id, s) /\ ShowsIfNew(id, s.flags)
  /\ OnlySpawns

\* The spawn is marked as a corpse that has still its name, then renamed; the
\* client is told of the kill only.
killSpawn(id) ==
  /\ id \in DOMAIN spawns
  /\ LET dying == IF spawns[id].look = Corpse THEN Corpse ELSE Dying
         s == Marked([spawns[id] EXCEPT !.look = dying], filters, zoneFilters)
     IN  Put(id, [s EXCEPT !.look = Corpse,
                           !.client = IF s.flags = spawns[id].flags THEN @ ELSE "untold"])
  /\ UNCHANGED shown /\ OnlySpawns

deleteSpawn(id) ==
  /\ id \in DOMAIN spawns
  /\ spawns' = Restrict(spawns, DOMAIN spawns \ {id})
  /\ shown' = Restrict(shown, DOMAIN shown \ {id})
  /\ OnlySpawns

-----------------------------------------------------------------------------
(* The daemon starts, stops, or crashes while it writes a file in place.   *)

FirstZoneFile == NoZoneFile

Init ==
  /\ disk = Shipped /\ writes = 0
  /\ filters = load(Shipped[Global])
  /\ zoneFile = FirstZoneFile /\ zoneFilters = load(Shipped[NoZoneFile])
  /\ zone = NoZoneFile /\ spawns = Nothing
  /\ streaming = FALSE /\ shown = Nothing /\ shownRules = Nothing

\* The daemon starts on the files the last one left.
Start ==
  /\ filters' = load(disk'[Global])
  /\ zoneFile' = FirstZoneFile /\ zoneFilters' = load(disk'[NoZoneFile])
  /\ zone' = NoZoneFile /\ spawns' = Nothing
  /\ ClientGone

Restart == UNCHANGED diskVars /\ Start

CrashInSave(perZone, n) ==
  LET file == Saved(RulesOf(perZone))
  IN  n < Len(file) /\ Write(perZone, SubSeq(file, 1, n)) /\ Start

fromClient ==
  \/ \E perZone \in BOOLEAN, t \in Type, p \in Pattern :
       \/ AddRule(perZone, t, p)
       \/ RemoveRule(perZone, t, p)
       \/ \E q \in Pattern : EditRule(perZone, t, p, q)
  \/ \E perZone \in BOOLEAN : Save(perZone)
  \/ Reload
  \/ Subscribe
  \/ Leave

fromServer ==
  \/ \E z \in Zones : zoneChanged(z) \/ zoneBegin(z) \/ zoneChangeClient(z)
  \/ \E z \in Texts : zoneNew(z)
  \/ zoneEntryClient
  \/ \E id \in Ids :
       \/ \E look \in Living \cup {Corpse}, level \in Level :
            newSpawn(id, look, level)
       \/ \E look \in Living, level \in Level : zoneEntry(id, look, level)
       \/ \E level \in Level : updateSpawnAppearance(id, level)
       \/ \E look \in Look : illusionSpawn(id, look)
       \/ updateSpawn(id)
       \/ spawnWearingUpdate(id)
       \/ killSpawn(id)
       \/ deleteSpawn(id)

Next ==
  \/ fromClient
  \/ fromServer
  \/ Restart
  \/ \E perZone \in BOOLEAN : \E n \in 0 .. MaxRules : CrashInSave(perZone, n)

Spec == Init /\ [][Next]_vars

-----------------------------------------------------------------------------

(* A spawn's flags are those the present rules give the look and level it  *)
(* was last marked by: no edit, load, change of zone or start leaves a     *)
(* mark of rules that are gone (FilterMgr::filtersChanged,                 *)
(* SpawnShell::refilterSpawns).                                            *)
FlagsAreOfTheRules ==
  \A id \in DOMAIN spawns :
    spawns[id].flags = Mask(filters, zoneFilters, spawns[id].judged, spawns[id].judgedLevel)

(* A client shows the daemon's rules, its spawns and their flags, though   *)
(* it is told only of flags that change; all but the flags of a spawn that *)
(* a kill changed, which killSpawn does not tell.                          *)
ClientShowsTheMarks ==
  streaming =>
    /\ shownRules = <<filters, zoneFilters>>
    /\ DOMAIN shown = DOMAIN spawns
    /\ \A id \in DOMAIN spawns :
         spawns[id].client = "told" => shown[id] = spawns[id].flags

(* What a save writes, a load reads: the same rules in the same order with *)
(* the same bounds, as long as no pattern has markup in it.  It needs that *)
(* no list holds a rule the loader would take for a duplicate of an        *)
(* earlier one (Filter::addFilter).                                        *)
SavedIsReadBack ==
  \A perZone \in BOOLEAN :
    Spoilt(Saved(RulesOf(perZone))) = {} => load(Saved(RulesOf(perZone))) = RulesOf(perZone)

(* A zone's file holds rules that were made for that zone, whatever zone   *)
(* the player is in when they are saved.                                   *)
FilesKeepToTheirZone ==
  \A f \in File : \A i \in DOMAIN disk[f] : disk[f][i].rule.home = f

(* Not so today: a rule can be removed by the pattern the client shows     *)
(* (Filter::remFilter compares with the compiled text).                    *)
ShownRuleCanGo ==
  \A t \in Type : \A i \in DOMAIN filters[t] :
    remFilter(filters[t], filters[t][i].pattern) # filters[t]

(* Not so today: "no duplicates allowed" (filter.cpp:424); the search      *)
(* compares with the compiled text.                                        *)
NoTwins ==
  \A t \in Type : \A i, j \in DOMAIN filters[t] :
    filters[t][i].pattern = filters[t][j].pattern => i = j

(* Not so today: the flags are those of what the spawn is by now; a level  *)
(* update, an illusion and a corpse's new name do not mark.                *)
FlagsAreOfTheLook ==
  \A id \in DOMAIN spawns :
    spawns[id].flags = Mask(filters, zoneFilters, spawns[id].look, spawns[id].level)
=============================================================================
