----------------------------- MODULE FilterProofs -----------------------------
(***************************************************************************)
(* Proofs about FilterMgr, for any patterns, files and number of rules,    *)
(* types, spawns and levels: the marks are those of the present rules and  *)
(* a client shows them, whatever load, addFilter and remFilter return; and *)
(* from what they do return, rules stay with their file and a save reads   *)
(* back as what was saved.                                                 *)
(***************************************************************************)
EXTENDS FilterMgr, SequenceTheorems, WellFoundedInduction, TLAPS

-----------------------------------------------------------------------------
(* One spawn.  *)

\* s is marked by the rules g and z; a client that shows flags f shows s's.
Fits(s, g, z) == s \in Spawn /\ s.flags = Mask(g, z, s.judged, s.judgedLevel)
Tells(s, f) == s.client = "told" => f = s.flags

LEMMA MaskType ==
  ASSUME NEW g, NEW z, NEW look, NEW level
  PROVE  Mask(g, z, look, level) \in SUBSET Type
BY DEF Mask, filterMask

LEMMA MarkedFits ==
  ASSUME NEW s \in Spawn, NEW g, NEW z
  PROVE  /\ Fits(Marked(s, g, z), g, z)
         /\ Marked(s, g, z).look = s.look
         /\ Marked(s, g, z).client =
              IF Marked(s, g, z).flags = s.flags THEN s.client ELSE "told"
<1> DEFINE m == Mask(g, z, s.look, s.level)
           u == IF m = s.flags THEN s.client ELSE "told"
           t == [look |-> s.look, level |-> s.level, judged |-> s.look,
                 judgedLevel |-> s.level, flags |-> m, client |-> u]
<1>1. m \in SUBSET Type
  BY MaskType
<1>2. u \in {"told", "untold"}
  BY DEF Spawn
<1>3. Marked(s, g, z) = t
  <2>1. Marked(s, g, z) = [s EXCEPT !.flags = m, !.judged = s.look,
                                    !.judgedLevel = s.level, !.client = u]
    BY DEF Marked
  <2> HIDE DEF m, u
  <2>. QED BY <2>1 DEF Spawn
<1>4. t \in Spawn
  <2> HIDE DEF m, u
  <2>. QED BY <1>1, <1>2 DEF Spawn
<1>5. Fits(t, g, z)
  BY <1>4 DEF Fits
<1>6. t.client = IF t.flags = s.flags THEN s.client ELSE "told"
  OBVIOUS
<1>. QED BY <1>3, <1>5, <1>6

LEMMA MarkedTells ==
  ASSUME NEW s \in Spawn, NEW g, NEW z, NEW f, Tells(s, f)
  PROVE  Tells(Marked(s, g, z),
               IF Marked(s, g, z).flags # s.flags THEN Marked(s, g, z).flags ELSE f)
<1> DEFINE t == Marked(s, g, z)
<1>1. t.client = IF t.flags = s.flags THEN s.client ELSE "told"
  BY MarkedFits
<1> HIDE DEF t
<1>2. Tells(t, IF t.flags # s.flags THEN t.flags ELSE f)
  BY <1>1 DEF Tells
<1>. QED BY <1>2 DEF t

LEMMA SeenFits ==
  ASSUME NEW look \in Look, NEW level \in Level
  PROVE  Fits(Seen(look, level), filters, zoneFilters)
<1> DEFINE s == [look |-> look, level |-> level, judged |-> look, judgedLevel |-> level,
                 flags |-> {}, client |-> "told"]
<1>1. s \in Spawn
  BY DEF Spawn
<1>2. Seen(look, level) = Marked(s, filters, zoneFilters)
  BY DEF Seen
<1>. QED BY <1>1, <1>2, MarkedFits

(* A change of rules: each spawn is marked, and the client is told of the  *)
(* ones whose flags changed.                                               *)
LEMMA RefilterFits ==
  ASSUME NEW ss, NEW g, NEW z,
         \A id \in DOMAIN ss : ss[id] \in Spawn
  PROVE  /\ DOMAIN refiltered(ss, g, z) = DOMAIN ss
         /\ \A id \in DOMAIN ss : Fits(refiltered(ss, g, z)[id], g, z)
BY MarkedFits DEF refiltered

LEMMA RefilterTells ==
  ASSUME NEW ss, NEW sh, NEW g, NEW z,
         \A id \in DOMAIN ss : ss[id] \in Spawn /\ Tells(ss[id], sh[id]),
         DOMAIN sh = DOMAIN ss
  PROVE  LET tt == refiltered(ss, g, z)
         IN  /\ DOMAIN Told(sh, ss, tt) = DOMAIN ss
             /\ \A id \in DOMAIN ss : Tells(tt[id], Told(sh, ss, tt)[id])
<1> DEFINE tt == refiltered(ss, g, z)
<1>1. DOMAIN tt = DOMAIN ss /\ \A id \in DOMAIN ss : tt[id] = Marked(ss[id], g, z)
  BY DEF refiltered
<1>2. Changed(ss, tt) \subseteq DOMAIN ss
  BY <1>1 DEF Changed
<1>3. ASSUME NEW id \in DOMAIN ss
      PROVE  Tells(tt[id], Told(sh, ss, tt)[id])
  <2>1. Told(sh, ss, tt)[id] = IF tt[id].flags # ss[id].flags THEN tt[id].flags ELSE sh[id]
    BY <1>1, <1>2 DEF Told, Changed
  <2>2. tt[id] = Marked(ss[id], g, z)
    BY <1>1
  <2>3. ss[id] \in Spawn /\ Tells(ss[id], sh[id])
    OBVIOUS
  <2>4. Tells(Marked(ss[id], g, z),
              IF Marked(ss[id], g, z).flags # ss[id].flags
              THEN Marked(ss[id], g, z).flags ELSE sh[id])
    BY <2>3, MarkedTells
  <2>. QED BY <2>1, <2>2, <2>4
<1>4. DOMAIN Told(sh, ss, tt) = DOMAIN ss
  BY <1>2 DEF Told
<1>. QED BY <1>3, <1>4

-----------------------------------------------------------------------------
(* The invariant.  *)

SpawnsFit == \A id \in DOMAIN spawns : Fits(spawns[id], filters, zoneFilters)
ClientFits ==
  streaming =>
    /\ shownRules = <<filters, zoneFilters>>
    /\ DOMAIN shown = DOMAIN spawns
    /\ \A id \in DOMAIN spawns : Tells(spawns[id], shown[id])
MarksInv == streaming \in BOOLEAN /\ SpawnsFit /\ ClientFits

LEMMA InitMarks == Init => MarksInv
<1>1. DOMAIN Nothing = {}
  BY DEF Nothing
<1>. QED BY <1>1 DEF Init, MarksInv, SpawnsFit, ClientFits

LEMMA NoSpawnsFit ==
  ASSUME spawns' = Nothing, shown' = Nothing, streaming' \in BOOLEAN,
         streaming' => shownRules' = <<filters', zoneFilters'>>
  PROVE  MarksInv'
<1>1. DOMAIN Nothing = {}
  BY DEF Nothing
<1>. QED BY <1>1 DEF MarksInv, SpawnsFit, ClientFits

LEMMA RulesChange ==
  ASSUME MarksInv, filtersChanged(filters', zoneFilters')
  PROVE  MarksInv'
<1> DEFINE tt == refiltered(spawns, filters', zoneFilters')
<1>1. \A id \in DOMAIN spawns : spawns[id] \in Spawn
  BY DEF MarksInv, SpawnsFit, Fits
<1>2. spawns' = tt /\ UNCHANGED streaming
  BY DEF filtersChanged
<1>3. DOMAIN tt = DOMAIN spawns /\ \A id \in DOMAIN spawns : Fits(tt[id], filters', zoneFilters')
  BY <1>1, RefilterFits
<1>4. ASSUME streaming
      PROVE  /\ DOMAIN shown' = DOMAIN spawns
             /\ \A id \in DOMAIN spawns : Tells(tt[id], shown'[id])
  <2>1. shown' = Told(shown, spawns, tt)
    BY <1>4 DEF filtersChanged
  <2>. QED BY <1>1, <1>4, <2>1, RefilterTells DEF MarksInv, ClientFits
<1>5. streaming => shownRules' = <<filters', zoneFilters'>>
  BY DEF filtersChanged
<1> HIDE DEF tt
<1>. QED BY <1>2, <1>3, <1>4, <1>5 DEF MarksInv, SpawnsFit, ClientFits

LEMMA ReloadMarks ==
  ASSUME MarksInv, Reload
  PROVE  MarksInv'
<1>1. CASE zone = NoZone
  BY <1>1, RulesChange DEF Reload
<1>2. CASE zone # NoZone
  <2> DEFINE mid == refiltered(spawns, load(disk[Global]), zoneFilters)
             midShown == IF streaming THEN Told(shown, spawns, mid) ELSE shown
             tt == refiltered(mid, filters', zoneFilters')
  <2>1. /\ spawns' = tt
        /\ shown' = IF streaming THEN Told(midShown, mid, tt) ELSE shown
        /\ shownRules' = IF streaming THEN <<filters', zoneFilters'>> ELSE shownRules
        /\ UNCHANGED streaming
    BY <1>2 DEF Reload
  <2>2. \A id \in DOMAIN spawns : spawns[id] \in Spawn
    BY DEF MarksInv, SpawnsFit, Fits
  <2>3. DOMAIN mid = DOMAIN spawns /\ \A id \in DOMAIN mid : mid[id] \in Spawn
    BY <2>2, RefilterFits DEF Fits
  <2>4. streaming => /\ DOMAIN midShown = DOMAIN mid
                     /\ \A id \in DOMAIN mid : Tells(mid[id], midShown[id])
    BY <2>2, <2>3, RefilterTells DEF MarksInv, ClientFits
  <2> HIDE DEF mid, midShown
  <2>5. DOMAIN tt = DOMAIN mid /\ \A id \in DOMAIN mid : Fits(tt[id], filters', zoneFilters')
    BY <2>3, RefilterFits
  <2>6. streaming => /\ DOMAIN Told(midShown, mid, tt) = DOMAIN mid
                     /\ \A id \in DOMAIN mid : Tells(tt[id], Told(midShown, mid, tt)[id])
    BY <2>3, <2>4, RefilterTells
  <2> HIDE DEF tt
  <2>. QED BY <2>1, <2>5, <2>6 DEF MarksInv, SpawnsFit, ClientFits
<1>. QED BY <1>1, <1>2

(* One spawn is put into the list, or replaced in it.  *)
LEMMA PutMarks ==
  ASSUME MarksInv, NEW id, NEW s, Fits(s, filters, zoneFilters), Put(id, s), OnlySpawns,
         streaming => /\ DOMAIN shown' = DOMAIN shown \cup {id}
                      /\ \A i \in DOMAIN shown \ {id} : shown'[i] = shown[i]
                      /\ Tells(s, shown'[id])
  PROVE  MarksInv'
<1>1. /\ DOMAIN spawns' = DOMAIN spawns \cup {id}
      /\ spawns'[id] = s
      /\ \A i \in DOMAIN spawns \ {id} : spawns'[i] = spawns[i]
  BY DEF Put, Merged
<1>2. UNCHANGED <<filters, zoneFilters, streaming, shownRules>>
  BY DEF OnlySpawns, ruleVars
<1>. QED BY <1>1, <1>2 DEF MarksInv, SpawnsFit, ClientFits

LEMMA AddMarks ==
  ASSUME MarksInv, NEW id, NEW s, Fits(s, filters, zoneFilters), Add(id, s)
  PROVE  MarksInv'
<1>1. ASSUME streaming
      PROVE  /\ DOMAIN shown' = DOMAIN shown \cup {id}
             /\ \A i \in DOMAIN shown \ {id} : shown'[i] = shown[i]
             /\ shown'[id] = s.flags
  BY <1>1 DEF Add, Shows, Merged
<1>. QED BY <1>1, PutMarks DEF Add, Tells

(* A listed spawn is replaced and the client is told nothing.  *)
LEMMA SilentMarks ==
  ASSUME MarksInv, NEW id \in DOMAIN spawns, NEW s, Fits(s, filters, zoneFilters),
         Put(id, s), UNCHANGED shown, OnlySpawns,
         s.client = "told" => spawns[id].client = "told" /\ s.flags = spawns[id].flags
  PROVE  MarksInv'
<1>1. streaming => /\ DOMAIN shown = DOMAIN spawns
                   /\ Tells(s, shown[id])
  BY DEF MarksInv, ClientFits, Tells
<1>. QED BY <1>1, PutMarks

LEMMA ListedSpawn ==
  ASSUME MarksInv, NEW id \in DOMAIN spawns
  PROVE  /\ spawns[id] \in Spawn
         /\ Fits(spawns[id], filters, zoneFilters)
BY DEF MarksInv, SpawnsFit, Fits

LEMMA Looks == Living \subseteq Look /\ Unknown \in Look /\ Dying \in Look /\ Corpse \in Look
BY MgrAssumption

LEMMA Levels == 0 \in Level
BY FiltersAssumption DEF Level

(* What a spawn looks like by now is not what it was marked by.  *)
LEMMA LookFits ==
  ASSUME NEW s \in Spawn, NEW g, NEW z, Fits(s, g, z), NEW t \in Spawn,
         t.flags = s.flags, t.judged = s.judged, t.judgedLevel = s.judgedLevel
  PROVE  Fits(t, g, z)
BY DEF Fits

LEMMA ZoneEntryMarks ==
  ASSUME MarksInv, NEW id, NEW look \in Look, NEW level \in Level, zoneEntry(id, look, level)
  PROVE  MarksInv'
<1> DEFINE s == spawns[id]
           t == [s EXCEPT !.look = look, !.level = level]
<1>1. id \in DOMAIN spawns /\ Put(id, t) /\ UNCHANGED shown /\ OnlySpawns
  BY DEF zoneEntry
<1>2. s \in Spawn /\ Fits(s, filters, zoneFilters)
  BY <1>1, ListedSpawn
<1>3. /\ t \in Spawn /\ t.flags = s.flags /\ t.client = s.client
      /\ t.judged = s.judged /\ t.judgedLevel = s.judgedLevel
  BY <1>2, Looks DEF Spawn
<1>4. Fits(t, filters, zoneFilters)
  BY <1>2, <1>3, LookFits
<1> HIDE DEF t
<1>. QED BY <1>1, <1>3, <1>4, SilentMarks

LEMMA LevelMarks ==
  ASSUME MarksInv, NEW id, NEW level \in Level, updateSpawnAppearance(id, level)
  PROVE  MarksInv'
<1> DEFINE s == spawns[id]
           t == [s EXCEPT !.level = level]
<1>1. id \in DOMAIN spawns /\ Put(id, t) /\ UNCHANGED shown /\ OnlySpawns
  BY DEF updateSpawnAppearance
<1>2. s \in Spawn /\ Fits(s, filters, zoneFilters)
  BY <1>1, ListedSpawn
<1>3. /\ t \in Spawn /\ t.flags = s.flags /\ t.client = s.client
      /\ t.judged = s.judged /\ t.judgedLevel = s.judgedLevel
  BY <1>2 DEF Spawn
<1>4. Fits(t, filters, zoneFilters)
  BY <1>2, <1>3, LookFits
<1> HIDE DEF t
<1>. QED BY <1>1, <1>3, <1>4, SilentMarks

LEMMA IllusionMarks ==
  ASSUME MarksInv, NEW id, NEW look \in Look, illusionSpawn(id, look)
  PROVE  MarksInv'
<1> DEFINE s == spawns[id]
           t == [s EXCEPT !.look = look, !.client = "told"]
<1>1. id \in DOMAIN spawns /\ Add(id, t)
  BY DEF illusionSpawn
<1>2. s \in Spawn /\ Fits(s, filters, zoneFilters)
  BY <1>1, ListedSpawn
<1>3. /\ t \in Spawn /\ t.flags = s.flags
      /\ t.judged = s.judged /\ t.judgedLevel = s.judgedLevel
  BY <1>2, Looks DEF Spawn
<1>4. Fits(t, filters, zoneFilters)
  BY <1>2, <1>3, LookFits
<1> HIDE DEF t
<1>. QED BY <1>1, <1>4, AddMarks

LEMMA WearingMarks ==
  ASSUME MarksInv, NEW id, spawnWearingUpdate(id)
  PROVE  MarksInv'
<1> DEFINE s == spawns[id]
           t == Marked(s, filters, zoneFilters)
<1>1. id \in DOMAIN spawns /\ Put(id, t) /\ ShowsIfNew(id, t.flags) /\ OnlySpawns
  BY DEF spawnWearingUpdate
<1>2. s \in Spawn
  BY <1>1, ListedSpawn
<1>3. Fits(t, filters, zoneFilters)
  BY <1>2, MarkedFits
<1>4. CASE t.flags = s.flags
  <2>1. UNCHANGED shown /\ t.client = s.client
    BY <1>1, <1>2, <1>4, MarkedFits DEF ShowsIfNew
  <2> HIDE DEF t
  <2>. QED BY <1>1, <1>3, <1>4, <2>1, SilentMarks
<1>5. CASE t.flags # s.flags
  <2>1. Add(id, t)
    BY <1>1, <1>5 DEF ShowsIfNew, Add
  <2> HIDE DEF t
  <2>. QED BY <1>3, <2>1, AddMarks
<1>. QED BY <1>4, <1>5

LEMMA KillMarks ==
  ASSUME MarksInv, NEW id, killSpawn(id)
  PROVE  MarksInv'
<1> DEFINE r == spawns[id]
           d == [r EXCEPT !.look = IF r.look = Corpse THEN Corpse ELSE Dying]
           s == Marked(d, filters, zoneFilters)
           c == IF s.flags = r.flags THEN s.client ELSE "untold"
           t == [s EXCEPT !.look = Corpse, !.client = c]
<1>1. /\ id \in DOMAIN spawns /\ UNCHANGED shown /\ OnlySpawns
      /\ Put(id, [s EXCEPT !.look = Corpse,
                           !.client = IF s.flags = r.flags THEN @ ELSE "untold"])
  BY DEF killSpawn
<1>2. Put(id, t)
  BY <1>1
<1>3. r \in Spawn
  BY <1>1, ListedSpawn
<1>4. d \in Spawn /\ d.flags = r.flags /\ d.client = r.client
  BY <1>3, Looks DEF Spawn
<1>5. /\ Fits(s, filters, zoneFilters)
      /\ s.client = IF s.flags = r.flags THEN r.client ELSE "told"
  <2> HIDE DEF d
  <2>. QED BY <1>4, MarkedFits
<1>6. s \in Spawn
  BY <1>5 DEF Fits
<1> HIDE DEF s
<1>7. /\ t \in Spawn /\ t.flags = s.flags /\ t.client = c
      /\ t.judged = s.judged /\ t.judgedLevel = s.judgedLevel
  BY <1>6, Looks DEF Spawn
<1>8. Fits(t, filters, zoneFilters)
  BY <1>5, <1>6, <1>7, LookFits
<1>9. t.client = "told" => r.client = "told" /\ t.flags = r.flags
  BY <1>5, <1>7
<1> HIDE DEF t
<1>. QED BY <1>1, <1>2, <1>8, <1>9, SilentMarks

LEMMA DeleteMarks ==
  ASSUME MarksInv, NEW id, deleteSpawn(id)
  PROVE  MarksInv'
<1>1. /\ DOMAIN spawns' = DOMAIN spawns \ {id}
      /\ \A i \in DOMAIN spawns \ {id} : spawns'[i] = spawns[i]
      /\ DOMAIN shown' = DOMAIN shown \ {id}
      /\ \A i \in DOMAIN shown \ {id} : shown'[i] = shown[i]
  BY DEF deleteSpawn, Restrict
<1>2. UNCHANGED <<filters, zoneFilters, streaming, shownRules>>
  BY DEF deleteSpawn, OnlySpawns, ruleVars
<1>. QED BY <1>1, <1>2 DEF MarksInv, SpawnsFit, ClientFits

LEMMA SubscribeMarks ==
  ASSUME MarksInv, Subscribe
  PROVE  MarksInv'
<1>1. /\ DOMAIN spawns' = DOMAIN spawns /\ DOMAIN shown' = DOMAIN spawns
      /\ \A id \in DOMAIN spawns : /\ spawns'[id] = [spawns[id] EXCEPT !.client = "told"]
                                   /\ shown'[id] = spawns[id].flags
  BY DEF Subscribe
<1>2. UNCHANGED <<filters, zoneFilters>> /\ streaming' = TRUE
      /\ shownRules' = <<filters, zoneFilters>>
  BY DEF Subscribe, ruleVars
<1>3. ASSUME NEW id \in DOMAIN spawns
      PROVE  Fits(spawns'[id], filters, zoneFilters) /\ spawns'[id].flags = spawns[id].flags
  <2> DEFINE s == spawns[id]
             t == [s EXCEPT !.client = "told"]
  <2>1. s \in Spawn /\ Fits(s, filters, zoneFilters)
    BY ListedSpawn
  <2>2. /\ t \in Spawn /\ t.flags = s.flags
        /\ t.judged = s.judged /\ t.judgedLevel = s.judgedLevel
    BY <2>1 DEF Spawn
  <2>3. Fits(t, filters, zoneFilters)
    BY <2>1, <2>2, LookFits
  <2>. QED BY <1>1, <2>2, <2>3
<1>. QED BY <1>1, <1>2, <1>3 DEF MarksInv, SpawnsFit, ClientFits, Tells

-----------------------------------------------------------------------------

LEMMA ServerMarks ==
  ASSUME MarksInv, fromServer
  PROVE  MarksInv'
<1>1. ASSUME NEW z \in Zones, zoneChanged(z) PROVE MarksInv'
  BY <1>1, NoSpawnsFit DEF zoneChanged, MarksInv, ClientFits, ruleVars
<1>2. ASSUME NEW z \in Zones, zoneBegin(z) PROVE MarksInv'
  BY <1>2, NoSpawnsFit DEF zoneBegin, MarksInv
<1>3. ASSUME NEW id \in Ids, NEW look \in Look, NEW level \in Level, newSpawn(id, look, level)
      PROVE  MarksInv'
  BY <1>3, SeenFits, AddMarks, Looks DEF newSpawn
<1>4. ASSUME NEW id \in Ids, updateSpawn(id) PROVE MarksInv'
  BY <1>4, SeenFits, AddMarks, Looks, Levels DEF updateSpawn
<1>5. ASSUME NEW z, Named(z) PROVE MarksInv'
  BY <1>5 DEF Named, MarksInv, SpawnsFit, ClientFits, ruleVars, clientVars
<1>6. ASSUME NEW id \in Ids, NEW look \in Living \cup {Corpse}, NEW level \in Level,
             newSpawn(id, look, level)
      PROVE  MarksInv'
  BY <1>3, <1>6, Looks
<1>8. ASSUME NEW id \in Ids, NEW look \in Living, NEW level \in Level, zoneEntry(id, look, level)
      PROVE  MarksInv'
  BY <1>8, ZoneEntryMarks, Looks
<1>7. ASSUME \/ \E z \in Zones : zoneChanged(z) \/ zoneBegin(z) \/ zoneChangeClient(z)
             \/ \E z \in Texts : zoneNew(z)
             \/ zoneEntryClient
      PROVE  MarksInv'
  BY <1>1, <1>2, <1>5, <1>7 DEF zoneChangeClient, zoneNew, zoneEntryClient
<1>. QED BY <1>4, <1>6, <1>7, <1>8, LevelMarks, IllusionMarks, WearingMarks,
            KillMarks, DeleteMarks DEF fromServer

LEMMA ClientMarks ==
  ASSUME MarksInv, fromClient
  PROVE  MarksInv'
<1>1. ASSUME NEW perZone \in BOOLEAN, NEW t \in Type, NEW list, SetList(perZone, t, list)
      PROVE  MarksInv'
  BY <1>1, RulesChange DEF SetList
<1>2. ASSUME NEW perZone \in BOOLEAN, Save(perZone) PROVE MarksInv'
  BY <1>2 DEF Save, MarksInv, SpawnsFit, ClientFits, ruleVars, clientVars
<1>3. ASSUME Leave PROVE MarksInv'
  BY <1>3 DEF Leave, ClientGone, MarksInv, SpawnsFit, ClientFits, ruleVars
<1>. QED BY <1>1, <1>2, <1>3, ReloadMarks, SubscribeMarks
         DEF fromClient, AddRule, RemoveRule, EditRule

LEMMA StartMarks ==
  ASSUME Start
  PROVE  MarksInv'
BY NoSpawnsFit DEF Start, ClientGone

LEMMA StepMarks ==
  ASSUME MarksInv, [Next]_vars
  PROVE  MarksInv'
<1>1. CASE Next
  BY <1>1, ClientMarks, ServerMarks, StartMarks DEF Next, Restart, CrashInSave
<1>2. CASE UNCHANGED vars
  BY <1>2 DEF vars, ruleVars, clientVars, MarksInv, SpawnsFit, ClientFits
<1>. QED BY <1>1, <1>2

(* The inductive invariant holds in every reachable state, whatever the    *)
(* files hold and whatever Filters::load and Filter::addFilter make of it. *)
THEOREM AlwaysMarksInv == Spec => []MarksInv
<1>. QED BY InitMarks, StepMarks, PTL DEF Spec

(* A spawn's flags are those the present rules give what it was last       *)
(* marked by, through every edit, load, change of zone, start and crash    *)
(* (SpawnShell::refilterSpawns).                                           *)
THEOREM MarksFollowRules == Spec => []FlagsAreOfTheRules
<1>1. MarksInv => FlagsAreOfTheRules
  BY DEF MarksInv, SpawnsFit, Fits, FlagsAreOfTheRules
<1>. QED BY <1>1, AlwaysMarksInv, PTL

(* A client shows the daemon's rules, spawns and flags, but for the flags  *)
(* a kill changed (SessionAdapter::onChangeItem, onFilterRulesChanged).    *)
THEOREM ClientFollowsMarks == Spec => []ClientShowsTheMarks
<1>1. MarksInv => ClientShowsTheMarks
  BY DEF MarksInv, ClientFits, Tells, ClientShowsTheMarks
<1>. QED BY <1>1, AlwaysMarksInv, PTL
-----------------------------------------------------------------------------
(* Numbers, and loops over them.                                           *)

LEMMA LeastNumber ==
  ASSUME NEW T, T \subseteq Nat, T # {}
  PROVE  \E m \in T : \A n \in T : m <= n
<1> DEFINE R == OpToRel(<, Nat)
<1>1. IsWellFoundedOn(R, Nat)
  BY NatLessThanWellFounded
<1>2. PICK m \in T : \A n \in T : ~(<<n, m>> \in R)
  <2>. HIDE DEF R
  <2>. QED BY <1>1, WFMin
<1>3. \A n \in T : ~(n < m)
  BY <1>2 DEF OpToRel
<1>. QED BY <1>3

(* Induction up to a bound, the statement as the set of its numbers.       *)
LEMMA NumbersTo ==
  ASSUME NEW m \in Nat, NEW T, 0 \in T, \A n \in 1 .. m : n - 1 \in T => n \in T
  PROVE  \A n \in 0 .. m : n \in T
<1> SUFFICES ASSUME (0 .. m) \ T # {} PROVE FALSE
  OBVIOUS
<1>1. PICK k \in (0 .. m) \ T : \A n \in (0 .. m) \ T : k <= n
  <2>1. (0 .. m) \ T \subseteq Nat
    OBVIOUS
  <2>. QED BY <2>1, LeastNumber
<1>2. k \in 1 .. m /\ k - 1 \in 0 .. m /\ ~(k <= k - 1)
  BY <1>1
<1>. QED BY <1>1, <1>2

(* A loop whose turns keep a type has a value after each turn.             *)
LoopOf(f, S, base, m, step) ==
  /\ f \in [0 .. m -> S] /\ f[0] = base
  /\ \A n \in 1 .. m : f[n] = step[<<f[n - 1], n>>]

LEMMA LoopRuns ==
  ASSUME NEW S, NEW base \in S, NEW m \in Nat, NEW step \in [S \X (1 .. m) -> S]
  PROVE  \E f : LoopOf(f, S, base, m, step)
<1> DEFINE Runs(f, n) == LoopOf(f, S, base, n, step)
           T == {n \in Nat : \E f : Runs(f, n)}
<1>1. 0 \in T
  <2> DEFINE f == [i \in 0 .. 0 |-> base]
  <2>1. Runs(f, 0)
    BY DEF LoopOf
  <2>. HIDE DEF f, Runs
  <2>. QED BY <2>1
<1>2. ASSUME NEW n \in 1 .. m, n - 1 \in T PROVE n \in T
  <2>1. PICK f : Runs(f, n - 1)
    <3>. HIDE DEF Runs
    <3>. QED BY <1>2
  <2>0. /\ n - 1 \in 0 .. n - 1 /\ n \in 0 .. n /\ n # 0
        /\ \A i \in 0 .. n - 1 : i \in 0 .. n /\ i # n
    <3>1. n \in Int /\ n >= 1
      <4>. HIDE DEF Runs, T
      <4>. QED BY <1>2
    <3>. QED BY <3>1
  <2> DEFINE x == step[<<f[n - 1], n>>]
             h == [i \in 0 .. n |-> IF i = n THEN x ELSE f[i]]
  <2>2. f[n - 1] \in S
    BY <2>0, <2>1 DEF LoopOf
  <2>3. x \in S
    BY <2>2
  <2>4. \A i \in 0 .. n - 1 : h[i] = f[i] /\ f[i] \in S
    <3>1. \A i \in 0 .. n - 1 : h[i] = f[i]
      BY <2>0
    <3>. HIDE DEF h
    <3>. QED BY <2>1, <3>1 DEF LoopOf
  <2>5. h[n] = x
    BY <2>0
  <2>6. h \in [0 .. n -> S]
    <3>1. \A i \in 0 .. n : (IF i = n THEN x ELSE f[i]) \in S
      <4>1. \A i \in 0 .. n : i = n \/ i \in 0 .. n - 1
        OBVIOUS
      <4>. QED BY <4>1, <2>3, <2>4
    <3>. HIDE DEF x
    <3>. QED BY <3>1
  <2>7. \A i \in 1 .. n : h[i] = step[<<h[i - 1], i>>]
    <3> SUFFICES ASSUME NEW i \in 1 .. n PROVE h[i] = step[<<h[i - 1], i>>]
      OBVIOUS
    <3>1. CASE i = n
      <4>. HIDE DEF h
      <4>. QED BY <2>0, <2>4, <2>5, <3>1
    <3>2. CASE i # n
      <4>1. i \in 1 .. n - 1 /\ i \in 0 .. n - 1 /\ i - 1 \in 0 .. n - 1
        BY <3>2
      <4>2. f[i] = step[<<f[i - 1], i>>]
        BY <2>1, <4>1 DEF LoopOf
      <4>. HIDE DEF h
      <4>. QED BY <2>4, <4>1, <4>2
    <3>. QED BY <3>1, <3>2
  <2>8. h[0] = base
    <3>1. 0 \in 0 .. n - 1
      OBVIOUS
    <3>. HIDE DEF h
    <3>. QED BY <2>1, <2>4, <3>1 DEF LoopOf
  <2>9. Runs(h, n)
    <3>. HIDE DEF h
    <3>. QED BY <2>6, <2>7, <2>8 DEF LoopOf
  <2>. HIDE DEF h, Runs
  <2>. QED BY <2>9
<1>3. m \in T
  <2>. HIDE DEF T
  <2>. QED BY <1>1, <1>2, NumbersTo
<1>. QED BY <1>3

-----------------------------------------------------------------------------
(* Lists of rules: what an edit, a save and a load make of them.           *)

\* A list of rules made for file f, none of which a loader would refuse.
ListFits(list, f) ==
  /\ list \in Seq(Rule)
  /\ \A i \in 1 .. Len(list) : list[i].home = f
  /\ \A j \in 1 .. Len(list) : \A i \in 1 .. j - 1 : Fixed[list[i].pattern] # list[j].pattern
RulesFit(rs, f) == rs \in Rules /\ \A t \in Type : ListFits(rs[t], f)
FileFits(file, f) ==
  file \in Seq(Entry) /\ \A i \in 1 .. Len(file) : file[i].rule.home = f

LEMMA NoRulesFit ==
  ASSUME NEW f
  PROVE  RulesFit(NoRules, f)
<1>1. ListFits(<<>>, f)
  BY DEF ListFits
<1>2. NoRules \in Rules /\ \A t \in Type : NoRules[t] = <<>>
  BY DEF NoRules, Rules
<1>. QED BY <1>1, <1>2 DEF RulesFit

LEMMA AddFilterFits ==
  ASSUME NEW f, NEW list, ListFits(list, f), NEW r \in Rule, r.home = f
  PROVE  ListFits(addFilter(list, r), f)
<1>1. CASE findFilter(list, r.pattern) # {}
  BY <1>1 DEF addFilter
<1>2. CASE findFilter(list, r.pattern) = {}
  <2> DEFINE new == Append(list, r)
  <2>1. list \in Seq(Rule) /\ addFilter(list, r) = new
    BY <1>2 DEF addFilter, ListFits
  <2>2. /\ new \in Seq(Rule) /\ Len(new) = Len(list) + 1 /\ Len(list) \in Nat
        /\ \A i \in 1 .. Len(list) : new[i] = list[i]
        /\ new[Len(list) + 1] = r
    BY <2>1
  <2>3. \A i \in 1 .. Len(list) : Fixed[list[i].pattern] # r.pattern
    BY <1>2, <2>1 DEF findFilter
  <2> HIDE DEF new
  <2>4. \A i \in 1 .. Len(new) : i \in 1 .. Len(list) \/ i = Len(list) + 1
    BY <2>2
  <2>5. \A i \in 1 .. Len(new) : new[i].home = f
    BY <2>2, <2>4 DEF ListFits
  <2>6. ASSUME NEW j \in 1 .. Len(new), NEW i \in 1 .. j - 1
        PROVE  Fixed[new[i].pattern] # new[j].pattern
    <3>1. i \in 1 .. Len(list) /\ new[i] = list[i]
      BY <2>2
    <3>2. CASE j \in 1 .. Len(list)
      BY <2>2, <3>1, <3>2 DEF ListFits
    <3>3. CASE j = Len(list) + 1
      BY <2>2, <2>3, <3>1, <3>3
    <3>. QED BY <2>4, <3>2, <3>3
  <2>. QED BY <2>1, <2>2, <2>5, <2>6 DEF ListFits
<1>. QED BY <1>1, <1>2

LEMMA FirstIs ==
  ASSUME NEW S, S \subseteq Nat, S # {}
  PROVE  First(S) \in S /\ \A j \in S : First(S) <= j
BY LeastNumber DEF First

LEMMA RemFilterFits ==
  ASSUME NEW f, NEW list, ListFits(list, f), NEW p
  PROVE  ListFits(remFilter(list, p), f)
<1>1. CASE findFilter(list, p) = {}
  BY <1>1 DEF remFilter
<1>2. CASE findFilter(list, p) # {}
  <2> DEFINE k == First(findFilter(list, p))
             a == SubSeq(list, 1, k - 1)
             b == SubSeq(list, k + 1, Len(list))
             new == a \o b
  <2>0. list \in Seq(Rule) /\ Len(list) \in Nat
    BY DEF ListFits
  <2>1. k \in 1 .. Len(list)
    <3>1. findFilter(list, p) \subseteq 1 .. Len(list)
      BY <2>0 DEF findFilter
    <3>2. findFilter(list, p) \subseteq Nat
      BY <3>1
    <3>. QED BY <1>2, <3>1, <3>2, FirstIs
  <2>2. remFilter(list, p) = new
    BY <1>2 DEF remFilter, RemoveAt
  <2> HIDE DEF k
  <2>3. /\ a \in Seq(Rule) /\ Len(a) = k - 1 /\ \A i \in 1 .. k - 1 : a[i] = list[i]
        /\ b \in Seq(Rule) /\ Len(b) = Len(list) - k
        /\ \A i \in 1 .. Len(list) - k : b[i] = list[k + i]
    BY <2>0, <2>1
  <2> HIDE DEF a, b
  <2>4. /\ new \in Seq(Rule) /\ Len(new) = Len(list) - 1
        /\ \A i \in 1 .. Len(list) - 1 : new[i] = IF i < k THEN list[i] ELSE list[i + 1]
    <3>1. new \in Seq(Rule) /\ Len(new) = Len(a) + Len(b)
      BY <2>3
    <3>2. \A i \in 1 .. Len(a) + Len(b) : new[i] = IF i <= Len(a) THEN a[i] ELSE b[i - Len(a)]
      BY <2>3, ConcatProperties
    <3> HIDE DEF new
    <3>3. ASSUME NEW i \in 1 .. Len(list) - 1
          PROVE  new[i] = IF i < k THEN list[i] ELSE list[i + 1]
      <4>1. CASE i < k
        <5>1. i \in 1 .. k - 1 /\ i \in 1 .. Len(a) + Len(b) /\ i <= Len(a)
          BY <2>0, <2>1, <2>3, <4>1
        <5>. QED BY <2>3, <3>2, <4>1, <5>1
      <4>2. CASE ~(i < k)
        <5>1. /\ i - (k - 1) \in 1 .. Len(list) - k /\ k + (i - (k - 1)) = i + 1
              /\ i \in 1 .. Len(a) + Len(b) /\ ~(i <= Len(a))
          BY <2>0, <2>1, <2>3, <4>2
        <5>. QED BY <2>3, <3>2, <4>2, <5>1
      <4>. QED BY <4>1, <4>2
    <3>. QED BY <2>0, <2>1, <2>3, <3>1, <3>3
  <2> HIDE DEF new
  <2>5. \A i \in 1 .. Len(new) : new[i].home = f
    <3>1. \A i \in 1 .. Len(new) : i \in 1 .. Len(list) /\ i + 1 \in 1 .. Len(list)
      BY <2>0, <2>4
    <3>. QED BY <2>4, <3>1 DEF ListFits
  <2>6. ASSUME NEW j \in 1 .. Len(new), NEW i \in 1 .. j - 1
        PROVE  Fixed[new[i].pattern] # new[j].pattern
    <3> DEFINE x == IF i < k THEN i ELSE i + 1
               y == IF j < k THEN j ELSE j + 1
    <3>1. y \in 1 .. Len(list) /\ x \in 1 .. y - 1
      BY <2>0, <2>1, <2>4
    <3>2. new[i] = list[x] /\ new[j] = list[y]
      BY <2>0, <2>4
    <3> HIDE DEF x, y
    <3>. QED BY <3>1, <3>2 DEF ListFits
  <2>. QED BY <2>2, <2>4, <2>5, <2>6 DEF ListFits
<1>. QED BY <1>1, <1>2

(* What the reader of a file gets is a beginning of it.                    *)
LEMMA ReadableIs ==
  ASSUME NEW file \in Seq(Entry)
  PROVE  /\ Readable(file) \in Seq(Entry)
         /\ Len(Readable(file)) \in 0 .. Len(file)
         /\ \A i \in 1 .. Len(Readable(file)) : Readable(file)[i] = file[i]
<1>1. CASE Spoilt(file) = {}
  BY <1>1 DEF Readable
<1>2. CASE Spoilt(file) # {}
  <2> DEFINE k == First(Spoilt(file))
  <2>1. k \in 1 .. Len(file)
    <3>1. Spoilt(file) \subseteq 1 .. Len(file)
      BY DEF Spoilt
    <3>2. Spoilt(file) \subseteq Nat
      BY <3>1
    <3>. QED BY <1>2, <3>1, <3>2, FirstIs
  <2>2. Readable(file) = SubSeq(file, 1, k - 1)
    BY <1>2 DEF Readable
  <2> HIDE DEF k
  <2>. QED BY <2>1, <2>2
<1>. QED BY <1>1, <1>2

LEMMA AddEntryIs ==
  ASSUME NEW rs \in Rules, NEW e \in Entry
  PROVE  /\ e.type \in Type /\ e.rule \in Rule
         /\ addEntry(rs, e) \in Rules
         /\ addEntry(rs, e)[e.type] = addFilter(rs[e.type], e.rule)
         /\ \A t \in Type \ {e.type} : addEntry(rs, e)[t] = rs[t]
<1>1. e.type \in Type /\ e.rule \in Rule
  BY DEF Entry
<1>2. addFilter(rs[e.type], e.rule) \in Seq(Rule)
  <2>1. rs[e.type] \in Seq(Rule)
    BY <1>1 DEF Rules
  <2>. QED BY <1>1, <2>1 DEF addFilter
<1> HIDE DEF addFilter
<1>3. addEntry(rs, e) = [rs EXCEPT ![e.type] = addFilter(rs[e.type], e.rule)]
  BY DEF addEntry
<1>. QED BY <1>1, <1>2, <1>3 DEF Rules

(* The rules after each entry of a file that is read.                      *)
LEMMA LoadRuns ==
  ASSUME NEW file \in Seq(Entry)
  PROVE  LET read == Readable(file) IN
         \E after : /\ after[0] = NoRules /\ load(file) = after[Len(read)]
                    /\ \A n \in 1 .. Len(read) : after[n] = addEntry(after[n - 1], read[n])
<1> DEFINE read == Readable(file)
           m == Len(read)
           Turn(f, n) == IF n = 0 THEN NoRules ELSE addEntry(f[n - 1], read[n])
           step == [x \in Rules \X (1 .. m) |-> addEntry(x[1], read[x[2]])]
<1>1. read \in Seq(Entry) /\ m \in Nat /\ \A n \in 1 .. m : read[n] \in Entry
  BY ReadableIs
<1>2. \E f : f = [n \in 0 .. m |-> Turn(f, n)]
  <2>1. step \in [Rules \X (1 .. m) -> Rules]
    <3> HIDE DEF m, read
    <3>. QED BY <1>1, AddEntryIs
  <2>2. NoRules \in Rules
    BY DEF NoRules, Rules
  <2>3. PICK f : LoopOf(f, Rules, NoRules, m, step)
    <3>1. m \in Nat
      BY <1>1
    <3> HIDE DEF m, step
    <3>. QED BY <2>1, <2>2, <3>1, LoopRuns
  <2>4. ASSUME NEW n \in 0 .. m PROVE f[n] = Turn(f, n)
    <3>1. CASE n = 0
      BY <2>3, <3>1 DEF LoopOf
    <3>2. CASE n # 0
      <4>1. n \in 1 .. m /\ n - 1 \in 0 .. m
        <5> HIDE DEF m
        <5>. QED BY <1>1, <3>2
      <4>2. f[n - 1] \in Rules
        BY <2>3, <4>1 DEF LoopOf
      <4>3. step[<<f[n - 1], n>>] = addEntry(f[n - 1], read[n])
        <5> HIDE DEF m, read
        <5>. QED BY <4>1, <4>2
      <4>4. f[n] = step[<<f[n - 1], n>>]
        BY <2>3, <4>1 DEF LoopOf
      <4>. QED BY <3>2, <4>3, <4>4
    <3>. QED BY <3>1, <3>2
  <2>5. f = [n \in 0 .. m |-> f[n]]
    BY <2>3 DEF LoopOf
  <2> HIDE DEF Turn, m
  <2>6. f = [n \in 0 .. m |-> Turn(f, n)]
    BY <2>4, <2>5
  <2>. QED BY <2>6
<1> DEFINE after == CHOOSE f : f = [n \in 0 .. m |-> Turn(f, n)]
<1>3. after = [n \in 0 .. m |-> Turn(after, n)]
  <2> HIDE DEF Turn, m
  <2>. QED BY <1>2
<1>4. load(file) = after[m]
  BY Zenon DEF load
<1> HIDE DEF after, m
<1>5. after[0] = NoRules /\ \A n \in 1 .. m : after[n] = addEntry(after[n - 1], read[n])
  <2>1. \A n \in 0 .. m : after[n] = Turn(after, n)
    <3> HIDE DEF Turn
    <3>. QED BY <1>3
  <2>2. 0 \in 0 .. m /\ \A n \in 1 .. m : n \in 0 .. m /\ n # 0
    BY <1>1
  <2>. QED BY <2>1, <2>2
<1>. QED BY <1>4, <1>5 DEF m

(* What is read from a file is fit for it.                                 *)
LEMMA LoadFits ==
  ASSUME NEW f, NEW file, FileFits(file, f)
  PROVE  RulesFit(load(file), f)
<1> DEFINE read == Readable(file)
<1>1. /\ read \in Seq(Entry) /\ Len(read) \in Nat
      /\ \A n \in 1 .. Len(read) : read[n] \in Entry /\ read[n].rule.home = f
  <2>1. file \in Seq(Entry)
    BY DEF FileFits
  <2>2. \A n \in 1 .. Len(read) : n \in 1 .. Len(file) /\ read[n] = file[n]
    BY <2>1, ReadableIs
  <2>3. read \in Seq(Entry) /\ Len(read) \in Nat
    BY <2>1, ReadableIs
  <2> HIDE DEF read
  <2>. QED BY <2>2, <2>3 DEF FileFits
<1>2. PICK after : /\ after[0] = NoRules /\ load(file) = after[Len(read)]
                   /\ \A n \in 1 .. Len(read) : after[n] = addEntry(after[n - 1], read[n])
  <2>1. file \in Seq(Entry)
    BY DEF FileFits
  <2>. QED BY <2>1, LoadRuns
<1> HIDE DEF read
<1> DEFINE T == {n \in Nat : RulesFit(after[n], f)}
<1>3. 0 \in T
  BY <1>2, NoRulesFit
<1>4. ASSUME NEW n \in 1 .. Len(read), n - 1 \in T PROVE n \in T
  <2> DEFINE rs == after[n - 1]
             e == read[n]
             new == after[n]
  <2>1. RulesFit(rs, f) /\ rs \in Rules /\ e \in Entry /\ e.rule.home = f
    BY <1>1, <1>4 DEF RulesFit
  <2>2. new = addEntry(rs, e)
    BY <1>2
  <2> HIDE DEF rs, e, new
  <2>3. ListFits(addFilter(rs[e.type], e.rule), f)
    BY <2>1, AddEntryIs, AddFilterFits DEF RulesFit
  <2>4. RulesFit(new, f)
    BY <2>1, <2>2, <2>3, AddEntryIs DEF RulesFit
  <2>. QED BY <1>1, <2>4 DEF new
<1>5. Len(read) \in T
  <2>1. Len(read) \in 0 .. Len(read)
    BY <1>1
  <2> HIDE DEF T
  <2>. QED BY <1>1, <1>3, <1>4, <2>1, NumbersTo
<1>. QED BY <1>2, <1>5

(* The sections of a file, one after the other.                            *)
LEMMA SectionIs ==
  ASSUME NEW rs \in Rules, NEW t \in Type
  PROVE  /\ Section(rs, t) \in Seq(Entry) /\ Len(Section(rs, t)) = Len(rs[t])
         /\ rs[t] \in Seq(Rule) /\ Len(rs[t]) \in Nat
         /\ \A i \in 1 .. Len(rs[t]) :
              /\ rs[t][i] \in Rule
              /\ Section(rs, t)[i] = [type |-> t, rule |-> rs[t][i]]
<1>1. rs[t] \in Seq(Rule) /\ Len(rs[t]) \in Nat /\ DOMAIN rs[t] = 1 .. Len(rs[t])
      /\ \A i \in 1 .. Len(rs[t]) : rs[t][i] \in Rule
  BY DEF Rules
<1>2. Section(rs, t) \in [1 .. Len(rs[t]) -> Entry]
  BY <1>1 DEF Section, Entry
<1>3. Section(rs, t) \in Seq(Entry)
  BY <1>1, <1>2
<1>4. Len(Section(rs, t)) = Len(rs[t])
  BY <1>1, <1>2, <1>3, LenProperties
<1>. QED BY <1>1, <1>3, <1>4 DEF Section

LEMMA SavedRuns ==
  ASSUME NEW rs \in Rules
  PROVE  \E upTo : /\ upTo[0] = <<>> /\ Saved(rs) = upTo[NType]
                   /\ \A t \in Type : upTo[t] = upTo[t - 1] \o Section(rs, t)
                   /\ \A t \in 0 .. NType : upTo[t] \in Seq(Entry)
<1> DEFINE Turn(f, t) == IF t = 0 THEN <<>> ELSE f[t - 1] \o Section(rs, t)
           step == [x \in Seq(Entry) \X (1 .. NType) |-> x[1] \o Section(rs, x[2])]
<1>1. NType \in Nat /\ Type = 1 .. NType /\ NType \in 0 .. NType /\ 0 \in 0 .. NType
  BY FiltersAssumption DEF Type
<1>2. \E f : f = [t \in 0 .. NType |-> Turn(f, t)]
  <2>1. step \in [Seq(Entry) \X (1 .. NType) -> Seq(Entry)]
    <3>1. \A s \in Seq(Entry), t \in 1 .. NType : s \o Section(rs, t) \in Seq(Entry)
      BY <1>1, SectionIs, ConcatProperties
    <3>. QED BY <3>1
  <2>2. <<>> \in Seq(Entry)
    OBVIOUS
  <2>3. PICK f : LoopOf(f, Seq(Entry), <<>>, NType, step)
    <3> HIDE DEF step
    <3>. QED BY <1>1, <2>1, <2>2, LoopRuns
  <2>4. ASSUME NEW t \in 0 .. NType PROVE f[t] = Turn(f, t)
    <3>1. CASE t = 0
      BY <2>3, <3>1 DEF LoopOf
    <3>2. CASE t # 0
      <4>1. t \in 1 .. NType /\ t - 1 \in 0 .. NType
        BY <1>1, <3>2
      <4>2. f[t - 1] \in Seq(Entry)
        BY <2>3, <4>1 DEF LoopOf
      <4>3. step[<<f[t - 1], t>>] = f[t - 1] \o Section(rs, t)
        BY <4>1, <4>2
      <4>4. f[t] = step[<<f[t - 1], t>>]
        BY <2>3, <4>1 DEF LoopOf
      <4>. QED BY <3>2, <4>3, <4>4
    <3>. QED BY <3>1, <3>2
  <2>5. f = [t \in 0 .. NType |-> f[t]]
    BY <2>3 DEF LoopOf
  <2> HIDE DEF Turn
  <2>6. f = [t \in 0 .. NType |-> Turn(f, t)]
    BY <2>4, <2>5
  <2>. QED BY <2>6
<1> DEFINE upTo == CHOOSE f : f = [t \in 0 .. NType |-> Turn(f, t)]
<1>3. upTo = [t \in 0 .. NType |-> Turn(upTo, t)]
  <2> HIDE DEF Turn
  <2>. QED BY <1>2
<1>4. Saved(rs) = upTo[NType]
  BY Zenon DEF Saved
<1> HIDE DEF upTo
<1>5. upTo[0] = <<>> /\ \A t \in Type : upTo[t] = upTo[t - 1] \o Section(rs, t)
  <2>1. \A t \in 0 .. NType : upTo[t] = Turn(upTo, t)
    <3> HIDE DEF Turn
    <3>. QED BY <1>3
  <2>2. \A t \in Type : t \in 0 .. NType /\ t # 0
    BY <1>1
  <2>. QED BY <1>1, <2>1, <2>2
<1> DEFINE T == {t \in Nat : upTo[t] \in Seq(Entry)}
<1>6. 0 \in T
  <2>1. upTo[0] \in Seq(Entry)
    BY <1>5
  <2>. QED BY <2>1
<1>7. ASSUME NEW t \in 1 .. NType, t - 1 \in T PROVE t \in T
  <2>1. t \in Type /\ t \in Nat /\ upTo[t - 1] \in Seq(Entry)
    BY <1>1, <1>7
  <2>2. upTo[t - 1] \o Section(rs, t) \in Seq(Entry)
    BY <2>1, SectionIs, ConcatProperties
  <2>. QED BY <1>5, <2>1, <2>2
<1>8. \A t \in 0 .. NType : t \in T
  <2> HIDE DEF T
  <2>. QED BY <1>1, <1>6, <1>7, NumbersTo
<1>. QED BY <1>4, <1>5, <1>8

LEMMA SavedFits ==
  ASSUME NEW f, NEW rs, RulesFit(rs, f)
  PROVE  FileFits(Saved(rs), f)
<1>0. rs \in Rules /\ NType \in Nat /\ Type = 1 .. NType
  BY FiltersAssumption DEF RulesFit, Type
<1>1. PICK upTo : /\ upTo[0] = <<>> /\ Saved(rs) = upTo[NType]
                  /\ \A t \in Type : upTo[t] = upTo[t - 1] \o Section(rs, t)
                  /\ \A t \in 0 .. NType : upTo[t] \in Seq(Entry)
  BY <1>0, SavedRuns
<1> DEFINE T == {t \in Nat : FileFits(upTo[t], f)}
<1>2. 0 \in T
  <2>1. FileFits(<<>>, f)
    BY DEF FileFits
  <2>. QED BY <1>1, <2>1
<1>3. ASSUME NEW t \in 1 .. NType, t - 1 \in T PROVE t \in T
  <2> DEFINE a == upTo[t - 1]
             b == Section(rs, t)
             c == upTo[t]
  <2>1. t \in Type /\ t \in Nat /\ FileFits(a, f) /\ c = a \o b
    BY <1>0, <1>1, <1>3
  <2>2. /\ a \in Seq(Entry) /\ \A i \in 1 .. Len(a) : a[i].rule.home = f
        /\ b \in Seq(Entry) /\ \A i \in 1 .. Len(b) : b[i].rule.home = f
    <3>1. \A i \in 1 .. Len(b) : i \in 1 .. Len(rs[t]) /\ b[i].rule = rs[t][i]
      <4>1. /\ Len(b) = Len(rs[t])
            /\ \A i \in 1 .. Len(rs[t]) : b[i] = [type |-> t, rule |-> rs[t][i]]
        BY <1>0, <2>1, SectionIs
      <4>2. Len(rs[t]) \in Nat
        BY <1>0, <2>1, SectionIs
      <4> DEFINE r == rs[t]
      <4> HIDE DEF b, r
      <4>3. ASSUME NEW i \in 1 .. Len(b)
            PROVE  i \in 1 .. Len(r) /\ b[i].rule = r[i]
        <5>1. i \in 1 .. Len(r)
          BY <4>1 DEF r
        <5>2. b[i] = [type |-> t, rule |-> r[i]]
          BY <4>1, <5>1 DEF r
        <5>. QED BY <5>1, <5>2
      <4>. QED BY <4>3 DEF r
    <3>2. \A i \in 1 .. Len(rs[t]) : rs[t][i].home = f
      BY <2>1 DEF RulesFit, ListFits
    <3>. QED BY <1>0, <2>1, <3>1, <3>2, SectionIs DEF FileFits
  <2> HIDE DEF a, b, c
  <2>3. /\ c \in Seq(Entry) /\ Len(c) = Len(a) + Len(b) /\ Len(a) \in Nat /\ Len(b) \in Nat
        /\ \A i \in 1 .. Len(c) : c[i] = IF i <= Len(a) THEN a[i] ELSE b[i - Len(a)]
    BY <2>1, <2>2, ConcatProperties
  <2>4. ASSUME NEW i \in 1 .. Len(c) PROVE c[i].rule.home = f
    <3>1. CASE i <= Len(a)
      <4>1. i \in 1 .. Len(a)
        BY <2>3, <3>1
      <4>. QED BY <2>2, <2>3, <3>1, <4>1
    <3>2. CASE ~(i <= Len(a))
      <4>1. i - Len(a) \in 1 .. Len(b)
        BY <2>3, <3>2
      <4>. QED BY <2>2, <2>3, <3>2, <4>1
    <3>. QED BY <3>1, <3>2
  <2>5. FileFits(c, f)
    BY <2>3, <2>4 DEF FileFits
  <2>. QED BY <2>1, <2>5 DEF c
<1>4. NType \in T
  <2>1. NType \in 0 .. NType
    BY <1>0
  <2> HIDE DEF T
  <2>. QED BY <1>0, <1>2, <1>3, <2>1, NumbersTo
<1>. QED BY <1>1, <1>4

(* A file that a crash cut short.                                          *)
LEMMA CutFits ==
  ASSUME NEW f, NEW file, FileFits(file, f), NEW n \in Nat, n < Len(file)
  PROVE  FileFits(SubSeq(file, 1, n), f)
BY DEF FileFits

(* A loader takes the rules of a list one by one.                          *)
LEMMA AddNext ==
  ASSUME NEW f, NEW list, ListFits(list, f), NEW n \in 1 .. Len(list)
  PROVE  addFilter(SubSeq(list, 1, n - 1), list[n]) = SubSeq(list, 1, n)
<1> DEFINE a == SubSeq(list, 1, n - 1)
<1>1. list \in Seq(Rule) /\ Len(list) \in Nat
  BY DEF ListFits
<1>2. a \in Seq(Rule) /\ Len(a) = n - 1 /\ \A i \in 1 .. n - 1 : a[i] = list[i]
  BY <1>1
<1>3. \A i \in 1 .. n - 1 : Fixed[list[i].pattern] # list[n].pattern
  BY DEF ListFits
<1>4. Append(a, list[n]) = SubSeq(list, 1, n)
  BY <1>1
<1> HIDE DEF a
<1>5. findFilter(a, list[n].pattern) = {}
  BY <1>2, <1>3 DEF findFilter
<1>. QED BY <1>4, <1>5 DEF addFilter, a

\* The rules of the first types, the last of them up to a position.
UpToRule(rs, t, n) ==
  [u \in Type |-> IF u < t THEN rs[u] ELSE IF u = t THEN SubSeq(rs[t], 1, n) ELSE <<>>]

LEMMA SavedIsRead ==
  ASSUME NEW f, NEW rs, RulesFit(rs, f), Spoilt(Saved(rs)) = {}
  PROVE  load(Saved(rs)) = rs
<1> DEFINE file == Saved(rs)
<1>0. /\ rs \in Rules /\ NType \in Nat /\ Type = 1 .. NType
      /\ file \in Seq(Entry) /\ Readable(file) = file /\ Len(file) \in Nat
  <2>1. file \in Seq(Entry)
    BY SavedFits DEF FileFits
  <2>2. Readable(file) = file
    BY DEF Readable
  <2>3. Len(file) \in Nat
    BY <2>1
  <2>. QED BY <2>1, <2>2, <2>3, FiltersAssumption DEF RulesFit, Type
<1>1. PICK upTo : /\ upTo[0] = <<>> /\ file = upTo[NType]
                  /\ \A t \in Type : upTo[t] = upTo[t - 1] \o Section(rs, t)
                  /\ \A t \in 0 .. NType : upTo[t] \in Seq(Entry)
  BY <1>0, SavedRuns
<1>2. PICK after : /\ after[0] = NoRules /\ load(file) = after[Len(file)]
                   /\ \A n \in 1 .. Len(file) : after[n] = addEntry(after[n - 1], file[n])
  <2>1. file \in Seq(Entry) /\ Readable(file) = file
    BY <1>0
  <2> HIDE DEF file
  <2>. QED BY <2>1, LoadRuns
<1> HIDE DEF file
<1>3. \A t \in Type :
        /\ t \in 0 .. NType /\ t - 1 \in 0 .. NType
        /\ Len(upTo[t]) = Len(upTo[t - 1]) + Len(rs[t])
        /\ Len(upTo[t - 1]) \in Nat /\ Len(rs[t]) \in Nat
        /\ \A i \in 1 .. Len(upTo[t - 1]) : upTo[t][i] = upTo[t - 1][i]
        /\ \A n \in 1 .. Len(rs[t]) :
             upTo[t][Len(upTo[t - 1]) + n] = [type |-> t, rule |-> rs[t][n]]
  <2> SUFFICES ASSUME NEW t \in Type
      PROVE  /\ t \in 0 .. NType /\ t - 1 \in 0 .. NType
             /\ Len(upTo[t]) = Len(upTo[t - 1]) + Len(rs[t])
             /\ Len(upTo[t - 1]) \in Nat /\ Len(rs[t]) \in Nat
             /\ \A i \in 1 .. Len(upTo[t - 1]) : upTo[t][i] = upTo[t - 1][i]
             /\ \A n \in 1 .. Len(rs[t]) :
                  upTo[t][Len(upTo[t - 1]) + n] = [type |-> t, rule |-> rs[t][n]]
    OBVIOUS
  <2> DEFINE a == upTo[t - 1]
             b == Section(rs, t)
             c == upTo[t]
  <2>1. t \in 0 .. NType /\ t - 1 \in 0 .. NType
    BY <1>0
  <2>2. c = a \o b /\ a \in Seq(Entry)
    BY <1>1, <2>1
  <2>3. /\ b \in Seq(Entry) /\ Len(b) = Len(rs[t]) /\ Len(b) \in Nat
        /\ \A n \in 1 .. Len(b) : b[n] = [type |-> t, rule |-> rs[t][n]]
    BY <1>0, SectionIs
  <2> HIDE DEF a, b, c
  <2>4. /\ Len(c) = Len(a) + Len(b) /\ Len(a) \in Nat
        /\ \A i \in 1 .. Len(a) + Len(b) : c[i] = IF i <= Len(a) THEN a[i] ELSE b[i - Len(a)]
    <3>1. a \in Seq(Entry) /\ b \in Seq(Entry) /\ Len(a) \in Nat
      BY <2>2, <2>3
    <3>. QED BY <2>2, <3>1, ConcatProperties
  <2>5. \A i \in 1 .. Len(a) : c[i] = a[i]
    <3>1. \A i \in 1 .. Len(a) : i \in 1 .. Len(a) + Len(b) /\ i <= Len(a)
      BY <2>3, <2>4
    <3>. QED BY <2>4, <3>1
  <2>6. \A n \in 1 .. Len(b) : c[Len(a) + n] = b[n]
    <3> SUFFICES ASSUME NEW n \in 1 .. Len(b) PROVE c[Len(a) + n] = b[n]
      OBVIOUS
    <3>1. /\ Len(a) + n \in 1 .. Len(a) + Len(b) /\ ~(Len(a) + n <= Len(a))
          /\ Len(a) + n - Len(a) = n
      BY <2>3, <2>4
    <3>. QED BY <2>4, <3>1
  <2>. QED BY <2>1, <2>3, <2>4, <2>5, <2>6 DEF a, b, c
(* Each of the parts is how the file begins.                               *)
<1>4. \A t \in 0 .. NType :
        Len(upTo[t]) <= Len(file) /\ \A i \in 1 .. Len(upTo[t]) : file[i] = upTo[t][i]
  <2> DEFINE Begins(t) ==
               Len(upTo[t]) <= Len(file) /\ \A i \in 1 .. Len(upTo[t]) : file[i] = upTo[t][i]
             T == {d \in Nat : Begins(NType - d)}
  <2>1. 0 \in T
    <3>1. NType - 0 = NType
      BY <1>0
    <3>2. Begins(NType)
      BY <1>0, <1>1
    <3> HIDE DEF Begins
    <3>. QED BY <3>1, <3>2
  <2>2. ASSUME NEW d \in 1 .. NType, d - 1 \in T PROVE d \in T
    <3> DEFINE t == NType - (d - 1)
    <3>1. t \in Type /\ NType - d = t - 1 /\ d \in Nat
      <4> HIDE DEF T
      <4>. QED BY <1>0
    <3>2. Begins(t)
      <4> HIDE DEF Begins
      <4>. QED BY <2>2
    <3> HIDE DEF t
    <3>3. Begins(t - 1)
      <4>0. /\ Len(upTo[t]) = Len(upTo[t - 1]) + Len(rs[t])
            /\ Len(upTo[t - 1]) \in Nat /\ Len(rs[t]) \in Nat
            /\ \A i \in 1 .. Len(upTo[t - 1]) : upTo[t][i] = upTo[t - 1][i]
        BY <1>3, <3>1
      <4> DEFINE a == upTo[t - 1]
                 b == upTo[t]
                 l == Len(rs[t])
      <4>1. Len(b) <= Len(file) /\ \A i \in 1 .. Len(b) : file[i] = b[i]
        BY <3>2
      <4>2. /\ Len(b) = Len(a) + l /\ Len(a) \in Nat /\ l \in Nat
            /\ \A i \in 1 .. Len(a) : b[i] = a[i]
        BY <4>0
      <4> HIDE DEF a, b, l
      <4>3. Len(a) <= Len(file) /\ \A i \in 1 .. Len(a) : i \in 1 .. Len(b)
        BY <1>0, <4>1, <4>2
      <4>4. \A i \in 1 .. Len(a) : file[i] = a[i]
        BY <4>1, <4>2, <4>3
      <4>. QED BY <4>3, <4>4 DEF a
    <3> HIDE DEF Begins
    <3>. QED BY <3>1, <3>3
  <2>3. \A d \in 0 .. NType : d \in T
    <3> HIDE DEF T
    <3>. QED BY <1>0, <2>1, <2>2, NumbersTo
  <2> SUFFICES ASSUME NEW t \in 0 .. NType PROVE Begins(t)
    OBVIOUS
  <2>4. NType - t \in 0 .. NType /\ NType - (NType - t) = t
    BY <1>0
  <2> HIDE DEF Begins
  <2>. QED BY <2>3, <2>4
(* The loader has read the rules of a type after its part.                 *)
<1> DEFINE L(t) == Len(rs[t])
           K(t) == Len(upTo[t])
<1>5. ASSUME NEW t \in Type, after[K(t - 1)] = UpToRule(rs, t, 0)
      PROVE  after[K(t)] = UpToRule(rs, t, L(t))
  <2> DEFINE T == {n \in Nat : after[K(t - 1) + n] = UpToRule(rs, t, n)}
  <2>1. /\ K(t) = K(t - 1) + L(t) /\ K(t - 1) \in Nat /\ L(t) \in Nat /\ K(t) <= Len(file)
        /\ \A n \in 1 .. L(t) : file[K(t - 1) + n] = [type |-> t, rule |-> rs[t][n]]
    <3>1. t \in 0 .. NType /\ K(t) = K(t - 1) + L(t) /\ K(t - 1) \in Nat /\ L(t) \in Nat
      BY <1>3
    <3>2. \A n \in 1 .. L(t) : K(t - 1) + n \in 1 .. K(t)
      <4> HIDE DEF K, L
      <4>. QED BY <3>1
    <3>. QED BY <1>3, <1>4, <3>1, <3>2
  <2>2. 0 \in T
    <3>1. K(t - 1) + 0 = K(t - 1)
      BY <2>1
    <3>. QED BY <1>5, <3>1
  <2>3. ASSUME NEW n \in 1 .. L(t), n - 1 \in T PROVE n \in T
    <3> DEFINE e == [type |-> t, rule |-> rs[t][n]]
               a == UpToRule(rs, t, n - 1)
               b == UpToRule(rs, t, n)
               k == K(t - 1) + n
    <3>1. k \in 1 .. Len(file) /\ k - 1 = K(t - 1) + (n - 1) /\ n \in Nat /\ n - 1 \in Nat
      <4> HIDE DEF T, K, L
      <4>. QED BY <1>0, <2>1
    <3>2. after[k - 1] = a
      BY <2>3, <3>1
    <3>3. after[k] = addEntry(a, e)
      <4>1. file[k] = e
        BY <2>1
      <4> HIDE DEF k, e, a
      <4>. QED BY <1>2, <3>1, <3>2, <4>1
    <3>4. ListFits(rs[t], f) /\ n \in 1 .. Len(rs[t])
      BY DEF RulesFit
    <3>5. addFilter(SubSeq(rs[t], 1, n - 1), rs[t][n]) = SubSeq(rs[t], 1, n)
      BY <3>4, AddNext
    <3>6. addEntry(a, e) = b
      <4>1. addEntry(a, e) = [a EXCEPT ![t] = addFilter(a[t], rs[t][n])]
        BY DEF addEntry
      <4>2. a[t] = SubSeq(rs[t], 1, n - 1)
        BY <1>0 DEF UpToRule
      <4>3. addEntry(a, e) = [a EXCEPT ![t] = SubSeq(rs[t], 1, n)]
        BY <3>5, <4>1, <4>2
      <4>4. \A u \in Type : u < t => u # t
        BY <1>0
      <4>. QED BY <4>3, <4>4 DEF UpToRule
    <3> HIDE DEF a, b, e, K
    <3>. QED BY <3>1, <3>3, <3>6 DEF b
  <2>4. L(t) \in T
    <3>1. L(t) \in 0 .. L(t)
      BY <2>1
    <3> HIDE DEF T, L
    <3>. QED BY <2>1, <2>2, <2>3, <3>1, NumbersTo
  <2>. QED BY <2>1, <2>4
<1>6. ASSUME NEW t \in Type
      PROVE  UpToRule(rs, t, L(t)) = [u \in Type |-> IF u <= t THEN rs[u] ELSE <<>>]
  <2>1. SubSeq(rs[t], 1, L(t)) = rs[t]
    BY <1>0 DEF Rules
  <2>2. \A u \in Type : (u <= t) <=> (u < t \/ u = t)
    BY <1>0
  <2>. QED BY <2>1, <2>2 DEF UpToRule
<1>7. ASSUME NEW t \in Type
      PROVE  UpToRule(rs, t, 0) = [u \in Type |-> IF u <= t - 1 THEN rs[u] ELSE <<>>]
  <2>1. SubSeq(rs[t], 1, 0) = <<>>
    BY <1>0 DEF Rules
  <2>2. \A u \in Type : (u <= t - 1) <=> (u < t)
    BY <1>0
  <2>. QED BY <2>1, <2>2 DEF UpToRule
<1>8. \A t \in 0 .. NType : after[K(t)] = [u \in Type |-> IF u <= t THEN rs[u] ELSE <<>>]
  <2> DEFINE T == {t \in Nat : after[K(t)] = [u \in Type |-> IF u <= t THEN rs[u] ELSE <<>>]}
  <2>1. 0 \in T
    <3>1. K(0) = 0
      BY <1>1
    <3>2. \A u \in Type : ~(u <= 0)
      BY <1>0
    <3>. QED BY <1>2, <3>1, <3>2 DEF NoRules
  <2>2. ASSUME NEW t \in 1 .. NType, t - 1 \in T PROVE t \in T
    <3>1. t \in Type /\ t \in Nat
      <4> HIDE DEF T
      <4>. QED BY <1>0
    <3>2. after[K(t - 1)] = UpToRule(rs, t, 0)
      BY <1>7, <2>2, <3>1
    <3>3. after[K(t)] = UpToRule(rs, t, L(t))
      <4> HIDE DEF K, L
      <4>. QED BY <1>5, <3>1, <3>2
    <3> HIDE DEF K, L
    <3>. QED BY <1>6, <3>1, <3>3
  <2>3. \A t \in 0 .. NType : t \in T
    <3> HIDE DEF T
    <3>. QED BY <1>0, <2>1, <2>2, NumbersTo
  <2>. QED BY <2>3
<1>9. rs = [u \in Type |-> IF u <= NType THEN rs[u] ELSE <<>>]
  <2>1. \A u \in Type : u <= NType
    BY <1>0
  <2>. QED BY <1>0, <2>1 DEF Rules
<1>10. load(file) = after[K(NType)] /\ NType \in 0 .. NType
  BY <1>0, <1>1, <1>2
<1> HIDE DEF K
<1>11. load(file) = rs
  BY <1>8, <1>9, <1>10
<1>. QED BY <1>11 DEF file

-----------------------------------------------------------------------------
(* The rules held and the rules on disk.                                   *)

RulesInv ==
  /\ zoneFile \in File \ {Global} /\ zone \in Zones \cup {NoZoneFile, NoZone}
  /\ RulesFit(filters, Global) /\ RulesFit(zoneFilters, zoneFile)
  /\ DOMAIN disk = File /\ \A f \in File : FileFits(disk[f], f)

LEMMA ZoneFiles ==
  /\ Global \in File /\ NoZoneFile \in File \ {Global} /\ Zones \subseteq File \ {Global}
  /\ Texts \subseteq Zones \cup {NoZone}
BY MgrAssumption

LEMMA InitRules == Init => RulesInv
<1> SUFFICES ASSUME Init PROVE RulesInv
  OBVIOUS
<1>1. DOMAIN Shipped = File
  BY MgrAssumption
<1>2. ASSUME NEW f \in File PROVE FileFits(Shipped[f], f)
  <2>1. Shipped[f] \in Seq(Entry) /\ \A i \in DOMAIN Shipped[f] : Shipped[f][i].rule.home = f
    BY MgrAssumption
  <2> DEFINE file == Shipped[f]
  <2>2. file \in Seq(Entry) /\ DOMAIN file = 1 .. Len(file)
    BY <2>1
  <2>. QED BY <2>1, <2>2 DEF FileFits
<1>. QED BY <1>1, <1>2, ZoneFiles, LoadFits DEF Init, RulesInv, FirstZoneFile

LEMMA StartRules ==
  ASSUME Start, DOMAIN disk' = File, \A f \in File : FileFits(disk'[f], f)
  PROVE  RulesInv'
<1>1. ASSUME NEW f \in File PROVE RulesFit(load(disk'[f]), f)
  BY <1>1, LoadFits
<1>. QED BY <1>1, ZoneFiles DEF Start, RulesInv, FirstZoneFile

(* One of the two managers' rules, and the file a save of them goes to.    *)
LEMMA RulesOfFit ==
  ASSUME RulesInv, NEW perZone \in BOOLEAN
  PROVE  RulesFit(RulesOf(perZone), FileOf(perZone)) /\ FileOf(perZone) \in File
BY ZoneFiles DEF RulesInv, RulesOf, FileOf

LEMMA SetListRules ==
  ASSUME RulesInv, NEW perZone \in BOOLEAN, NEW t \in Type, NEW list,
         ListFits(list, FileOf(perZone)), SetList(perZone, t, list)
  PROVE  RulesInv'
<1> DEFINE old == RulesOf(perZone)
           rs == [old EXCEPT ![t] = list]
           f == FileOf(perZone)
<1>1. RulesFit(old, f) /\ old \in Rules /\ list \in Seq(Rule)
  BY RulesOfFit DEF RulesFit, ListFits
<1>2. RulesFit(rs, f)
  <2> HIDE DEF old, f
  <2>1. /\ rs \in Rules /\ rs[t] = list
        /\ \A u \in Type \ {t} : rs[u] = old[u]
    BY <1>1 DEF Rules
  <2>2. ListFits(list, f)
    BY DEF f
  <2> HIDE DEF rs
  <2>. QED BY <1>1, <2>1, <2>2 DEF RulesFit
<1>3. /\ filters' = IF perZone THEN filters ELSE rs
      /\ zoneFilters' = IF perZone THEN rs ELSE zoneFilters
      /\ UNCHANGED <<zoneFile, zone, disk>>
  BY DEF SetList, diskVars
<1> HIDE DEF rs
<1>. QED BY <1>2, <1>3 DEF RulesInv, FileOf

LEMMA EditRules ==
  ASSUME RulesInv, NEW perZone \in BOOLEAN, NEW t \in Type, NEW p \in Pattern,
         \/ AddRule(perZone, t, p)
         \/ RemoveRule(perZone, t, p)
         \/ \E q \in Pattern : EditRule(perZone, t, p, q)
  PROVE  RulesInv'
<1> DEFINE old == RulesOf(perZone)[t]
           f == FileOf(perZone)
<1>1. ListFits(old, f)
  BY RulesOfFit DEF RulesFit
<1>2. ASSUME NEW q \in Pattern
      PROVE  NewRule(perZone, q) \in Rule /\ NewRule(perZone, q).home = f
  <2>1. f \in File /\ f = IF perZone THEN zoneFile ELSE Global
    BY RulesOfFit DEF FileOf
  <2>2. 0 \in 0 .. MaxLevel
    BY FiltersAssumption
  <2>3. NewRule(perZone, q) = [pattern |-> q, min |-> 0, max |-> 0, home |-> f]
    BY <2>1 DEF NewRule
  <2> HIDE DEF f
  <2>. QED BY <2>1, <2>2, <2>3 DEF Rule
<1>3. ListFits(remFilter(old, p), f)
  BY <1>1, RemFilterFits
<1>4. ASSUME NEW q \in Pattern
      PROVE  /\ ListFits(addFilter(old, NewRule(perZone, q)), f)
             /\ ListFits(addFilter(remFilter(old, p), NewRule(perZone, q)), f)
  BY <1>1, <1>2, <1>3, AddFilterFits
<1>. QED BY <1>3, <1>4, SetListRules DEF AddRule, RemoveRule, EditRule

LEMMA WriteRules ==
  ASSUME RulesInv, NEW perZone \in BOOLEAN, NEW file, FileFits(file, FileOf(perZone)),
         Write(perZone, file)
  PROVE  DOMAIN disk' = File /\ \A f \in File : FileFits(disk'[f], f)
<1>1. disk' = [disk EXCEPT ![FileOf(perZone)] = file] /\ FileOf(perZone) \in File
  BY RulesOfFit DEF Write
<1>2. DOMAIN disk = File /\ \A f \in File : FileFits(disk[f], f)
  BY DEF RulesInv
<1>3. ASSUME NEW f \in File PROVE FileFits(disk'[f], f)
  <2>1. CASE f = FileOf(perZone)
    BY <1>1, <1>2, <2>1
  <2>2. CASE f # FileOf(perZone)
    BY <1>1, <1>2, <2>2
  <2>. QED BY <2>1, <2>2
<1>. QED BY <1>1, <1>2, <1>3

LEMMA SaveRules ==
  ASSUME RulesInv, NEW perZone \in BOOLEAN, Save(perZone)
  PROVE  RulesInv'
<1>1. FileFits(Saved(RulesOf(perZone)), FileOf(perZone))
  BY RulesOfFit, SavedFits
<1>2. DOMAIN disk' = File /\ \A f \in File : FileFits(disk'[f], f)
  BY <1>1, WriteRules DEF Save
<1>. QED BY <1>2 DEF Save, RulesInv, ruleVars

LEMMA CrashRules ==
  ASSUME RulesInv, NEW perZone \in BOOLEAN, NEW n \in Nat, CrashInSave(perZone, n)
  PROVE  RulesInv'
<1> DEFINE file == Saved(RulesOf(perZone))
<1>1. FileFits(file, FileOf(perZone))
  BY RulesOfFit, SavedFits
<1>2. n < Len(file) /\ Write(perZone, SubSeq(file, 1, n)) /\ Start
  BY DEF CrashInSave
<1> HIDE DEF file
<1>3. FileFits(SubSeq(file, 1, n), FileOf(perZone))
  BY <1>1, <1>2, CutFits
<1>. QED BY <1>2, <1>3, WriteRules, StartRules

LEMMA ReloadRules ==
  ASSUME RulesInv, Reload
  PROVE  RulesInv'
<1>1. ASSUME NEW f \in File PROVE RulesFit(load(disk[f]), f)
  BY <1>1, LoadFits DEF RulesInv
<1>2. filters' = load(disk[Global]) /\ UNCHANGED <<zone, disk>>
  BY DEF Reload, diskVars
<1>3. CASE zone = NoZone
  BY <1>1, <1>2, <1>3, ZoneFiles DEF Reload, RulesInv
<1>4. CASE zone # NoZone
  <2>1. zoneFilters' = load(disk[zone]) /\ zoneFile' = zone
    BY <1>4 DEF Reload
  <2>2. zone \in File \ {Global}
    BY <1>4, ZoneFiles DEF RulesInv
  <2>. QED BY <1>1, <1>2, <2>1, <2>2, ZoneFiles DEF RulesInv
<1>. QED BY <1>3, <1>4

LEMMA SameRules ==
  ASSUME RulesInv, UNCHANGED ruleVars, UNCHANGED disk,
         zone' \in Zones \cup {NoZoneFile, NoZone}
  PROVE  RulesInv'
BY DEF RulesInv, ruleVars

LEMMA ServerRules ==
  ASSUME RulesInv, fromServer
  PROVE  RulesInv'
<1>1. ASSUME NEW z \in Zones, zoneBegin(z) PROVE RulesInv'
  <2>1. RulesFit(load(disk[z]), z)
    BY ZoneFiles, LoadFits DEF RulesInv
  <2>. QED BY <1>1, <2>1, ZoneFiles DEF zoneBegin, RulesInv, diskVars
<1>2. ASSUME NEW z \in Zones \cup {NoZoneFile, NoZone}, Named(z) PROVE RulesInv'
  BY <1>2, SameRules DEF Named, diskVars
<1>3. ASSUME NEW z \in Zones, zoneChanged(z) PROVE RulesInv'
  BY <1>3, SameRules DEF zoneChanged, diskVars
<1>4. CASE \/ \E z \in Zones : zoneChanged(z) \/ zoneBegin(z) \/ zoneChangeClient(z)
           \/ \E z \in Texts : zoneNew(z)
           \/ zoneEntryClient
  BY <1>1, <1>2, <1>3, <1>4, ZoneFiles DEF zoneChangeClient, zoneNew, zoneEntryClient
<1>5. ASSUME OnlySpawns PROVE RulesInv'
  BY <1>5, SameRules DEF OnlySpawns, RulesInv, diskVars
<1>6. ASSUME NEW id \in Ids,
             \/ \E look \in Living \cup {Corpse}, level \in Level : newSpawn(id, look, level)
             \/ \E look \in Living, level \in Level : zoneEntry(id, look, level)
             \/ \E level \in Level : updateSpawnAppearance(id, level)
             \/ \E look \in Look : illusionSpawn(id, look)
             \/ updateSpawn(id)
             \/ spawnWearingUpdate(id)
             \/ killSpawn(id)
             \/ deleteSpawn(id)
      PROVE  OnlySpawns
  BY <1>6 DEF newSpawn, zoneEntry, updateSpawnAppearance, illusionSpawn, updateSpawn,
              spawnWearingUpdate, killSpawn, deleteSpawn, Add
<1>. QED BY <1>4, <1>5, <1>6 DEF fromServer

LEMMA StepRules ==
  ASSUME RulesInv, [Next]_vars
  PROVE  RulesInv'
<1>1. ASSUME fromClient PROVE RulesInv'
  <2>1. ASSUME Subscribe \/ Leave PROVE RulesInv'
    BY <2>1, SameRules DEF Subscribe, Leave, RulesInv, diskVars
  <2>. QED BY <1>1, <2>1, EditRules, SaveRules, ReloadRules DEF fromClient
<1>2. ASSUME Restart PROVE RulesInv'
  BY <1>2, StartRules DEF Restart, RulesInv, diskVars
<1>3. ASSUME NEW perZone \in BOOLEAN, NEW n \in 0 .. MaxRules, CrashInSave(perZone, n)
      PROVE  RulesInv'
  <2>1. n \in Nat
    BY MgrAssumption
  <2>. QED BY <1>3, <2>1, CrashRules
<1>4. ASSUME UNCHANGED vars PROVE RulesInv'
  BY <1>4, SameRules DEF vars, RulesInv, diskVars
<1>. QED BY <1>1, <1>2, <1>3, <1>4, ServerRules DEF Next

(* The inductive invariant: every rule held or on disk is of its file, and *)
(* no list holds a rule that Filter::addFilter would refuse.               *)
THEOREM AlwaysRulesInv == Spec => []RulesInv
<1>. QED BY InitRules, StepRules, PTL DEF Spec

(* What Filters::save writes Filters::load reads: the same rules, in the   *)
(* same order, with the same bounds, as long as no pattern has markup.     *)
THEOREM SavesAreReadBack == Spec => []SavedIsReadBack
<1>1. RulesInv => SavedIsReadBack
  BY RulesOfFit, SavedIsRead DEF SavedIsReadBack
<1>. QED BY <1>1, AlwaysRulesInv, PTL

(* A zone's file holds rules made for that zone, whatever zone the player  *)
(* is in when they are saved (FilterMgr::saveZoneFilters).                 *)
THEOREM FilesStayTheirZones == Spec => []FilesKeepToTheirZone
<1>1. RulesInv => FilesKeepToTheirZone
  BY DEF RulesInv, FileFits, FilesKeepToTheirZone
<1>. QED BY <1>1, AlwaysRulesInv, PTL
=============================================================================
