----------------------------- MODULE WorldProofs -----------------------------
(***************************************************************************)
(* What holds of WorldRestart for every set of zones, ids, names and sizes *)
(* and any number of restarts.                                             *)
(*                                                                         *)
(* The zone: after a profile the daemon and the client are in the zone the *)
(* game is in, with that zone's map, if at most one packet of the changes  *)
(* of zone is missed, or the daemon is restarted at most once in one, and  *)
(* what is missed is not a profile.  The invariant ZoneInv says why: until *)
(* the profile comes, the name is unknown, or the zoning flag is up, and   *)
(* each makes zonePlayer begin the zone; or name, map and client agree.    *)
(*                                                                         *)
(* The player: its id in a zone is its own there or not known, and is      *)
(* never that of a spawn in the list, unless it is from a checkpoint of    *)
(* another stay, if the player's own zone entries are seen; and what a     *)
(* checkpoint was given in this stay is right.                             *)
(*                                                                         *)
(* The spawn list has no ghosts, the client shows it, the group is counted *)
(* and its pointers fit.                                                   *)
(***************************************************************************)
EXTENDS WorldRestart, TLAPS, FiniteSetTheorems, WellFoundedInduction

\* Everything is the zone the game is in.
Current == /\ loadedZone = realZone /\ shortName = realZone
           /\ viewZone = realZone /\ viewMap = realZone

\* The daemon, its map and the client agree on the zone's name.
ZonesAgree == loadedZone = shortName /\ viewZone = shortName /\ viewMap = shortName

ZoneInv ==
    /\ realZone \in Zones /\ target \in Zones /\ phase \in Phases /\ lost \in Nat
    /\ phase = "asked" => ~profiled
    /\ phase = "left" /\ lost = 0 => zoning
    /\ phase = "entering" => shortName = Unknown \/ zoning \/ ZonesAgree
    /\ phase \in {"profiled", "self"} => Current /\ profiled
    /\ phase = "playing" /\ profiled => Current
    /\ phase = "playing" /\ ~zoning /\ shortName = realZone => Current

LEMMA ZoneInitially == Init => ZoneInv
  BY UnknownZone DEF Init, ZoneInv, Current, ZoneInit, Phases

LEMMA AskStep == ASSUME ZoneInv, AskZone PROVE ZoneInv'
<1> USE DEF AskZone, ZoneInv, Phases
<1>1. CASE Missed("ask")
  BY <1>1 DEF Missed
<1>2. CASE Heard /\ zoneChange(target')
  BY <1>2 DEF Heard
<1>. QED BY <1>1, <1>2

LEMMA AnswerStep ==
  ASSUME ZoneInv, MaxLost \in Nat, GrantZone \/ RefuseZone
  PROVE  ZoneInv'
<1> USE DEF ZoneInv, Phases
<1>1. CASE GrantZone /\ Missed("grant")
  BY <1>1 DEF GrantZone, Missed
<1>2. CASE Heard /\ ServerZoneChange /\ (GrantZone \/ RefuseZone)
  BY <1>2 DEF GrantZone, RefuseZone, ServerZoneChange, Heard, zoneChange
<1>. QED BY <1>1, <1>2 DEF GrantZone, RefuseZone

LEMMA EnterStep ==
  ASSUME ZoneInv, MaxLost \in Nat, MaxLost <= 1, EnterZone
  PROVE  ZoneInv'
<1> USE DEF ZoneInv, Phases, EnterZone
<1>1. CASE Missed("entry")
  <2>1. zoning /\ UNCHANGED <<zoning, shortName>>
    BY <1>1 DEF Missed, DaemonUnchanged, zoneVars
  <2>. QED BY <1>1, <2>1 DEF Missed
<1>2. CASE Heard /\ zoneEntryClient
  BY <1>2 DEF Heard, zoneEntryClient
<1>. QED BY <1>1, <1>2

LEMMA ProfileStep ==
  ASSUME ZoneInv, "profile" \notin Lossy, SendProfile \/ ResendProfile
  PROVE  ZoneInv'
<1> USE DEF ZoneInv, Phases
<1>1. CASE SendProfile
  <2>1. CASE BeginsZone(realZone)
    BY <1>1, <2>1 DEF SendProfile, Missed, Heard, PlayerProfile, zonePlayer, ZoneChangedEnvelope, Current
  <2>2. CASE ~BeginsZone(realZone)
    <3>1. Current
      BY <1>1, <2>2, UnknownZone DEF SendProfile, BeginsZone, ZonesAgree, Current
    <3>. QED BY <1>1, <2>2, <3>1 DEF SendProfile, Missed, Heard, PlayerProfile, zonePlayer, Current
  <2>. QED BY <2>1, <2>2
<1>2. CASE ResendProfile
  <2>1. /\ UNCHANGED <<phase, realZone, target, lost>>
        /\ phase \in {"playing", "asked"}
        /\ profiled' = (phase = "playing")
    BY <1>2 DEF ResendProfile, gameVars
  <2>2. CASE phase = "asked"
    BY <2>1, <2>2
  <2>3. CASE phase = "playing" /\ BeginsZone(realZone)
    <3>1. Current'
      BY <1>2, <2>1, <2>3 DEF ResendProfile, PlayerProfile, zonePlayer, ZoneChangedEnvelope, Current
    <3>. QED BY <2>1, <2>3, <3>1
  <2>4. CASE phase = "playing" /\ ~BeginsZone(realZone)
    <3>1. Current
      BY <2>4 DEF BeginsZone
    <3>2. Current'
      BY <1>2, <2>1, <2>4, <3>1 DEF ResendProfile, PlayerProfile, zonePlayer, Current
    <3>. QED BY <2>1, <2>4, <3>2
  <2>. QED BY <2>1, <2>2, <2>3, <2>4
<1>. QED BY <1>1, <1>2

\* A snapshot carries the zone's name and map as the daemon has them.
LEMMA LearnsStep ==
  ASSUME ZoneInv, NEW id, LearnsID(id),
         UNCHANGED <<realZone, target, lost, profiled>>,
         \/ UNCHANGED phase
         \/ phase = "profiled" /\ phase' = "self"
  PROVE  ZoneInv'
<1>1. UNCHANGED <<shortName, zoning, loadedZone>>
  BY DEF LearnsID, zoneVars
<1>2. (Current => Current') /\ (ZonesAgree => ZonesAgree')
  BY <1>1 DEF LearnsID, Current, ZonesAgree
<1>. QED BY <1>1, <1>2 DEF ZoneInv, Phases

\* Every other packet leaves the zone and its view alone.
ZoneUntouched == UNCHANGED <<shortName, zoning, loadedZone, viewZone, viewMap,
                             phase, realZone, target, lost, profiled>>
LEMMA UntouchedStep == ZoneInv /\ ZoneUntouched => ZoneInv'
  BY DEF ZoneInv, ZoneUntouched, Current, ZonesAgree

LEMMA OtherPackets ==
  ASSUME NEW id, NEW n,
         \/ ZoneSpawns \/ Despawn(id) \/ Death(id) \/ Move(id) \/ LateMove(id)
         \/ NewSpawn(id, n) \/ PlayerEnters(id, n)
         \/ GroupDisband \/ GroupFollow(n) \/ GroupLeave(n)
         \/ UNCHANGED vars
  PROVE  ZoneUntouched
<1> USE DEF ZoneUntouched, zoneVars, Rest, Elsewhere
<1>1. CASE ZoneSpawns
  BY <1>1 DEF ZoneSpawns
<1>2. CASE Despawn(id) \/ Death(id)
  BY <1>2 DEF Despawn, Death
<1>3. CASE Move(id) \/ LateMove(id)
  BY <1>3 DEF Move, LateMove, Moved
<1>4. CASE NewSpawn(id, n) \/ PlayerEnters(id, n)
  BY <1>4 DEF NewSpawn, PlayerEnters
<1>5. CASE GroupDisband \/ GroupFollow(n) \/ GroupLeave(n)
  BY <1>5 DEF GroupDisband, GroupFollow, GroupLeave
<1>6. CASE UNCHANGED vars
  BY <1>6 DEF vars, gameVars, clientVars
<1>. QED BY <1>1, <1>2, <1>3, <1>4, <1>5, <1>6

LEMMA ZoneStep ==
  ASSUME ZoneInv, MaxLost \in Nat, MaxLost <= 1, "profile" \notin Lossy, [Next]_vars
  PROVE  ZoneInv'
<1>1. CASE AskZone
  BY <1>1, AskStep
<1>2. CASE GrantZone \/ RefuseZone
  BY <1>2, AnswerStep
<1>3. CASE EnterZone
  BY <1>3, EnterStep
<1>4. CASE SendProfile \/ ResendProfile
  BY <1>4, ProfileStep
<1>5. CASE OwnZoneEntry
  <2>1. CASE Missed("self")
    BY <1>5, <2>1 DEF OwnZoneEntry, Missed, DaemonUnchanged, zoneVars, clientVars, ZoneInv, Phases, Current
  <2>2. CASE Heard /\ LearnsID(own)
    BY <1>5, <2>2, LearnsStep DEF OwnZoneEntry, Heard
  <2>. QED BY <1>5, <2>1, <2>2 DEF OwnZoneEntry
<1>6. CASE NewZone
  <2>1. Current => Current' /\ zoning' = FALSE
    BY <1>6, UnknownZone DEF NewZone, zoneNew, clientVars, Current, ZoneInv
  <2>. QED BY <1>6, <2>1 DEF NewZone, ZoneInv, Phases
<1>7. CASE OwnMove \/ ConsiderSelf
  <2>1. CASE LearnsID(own)
    BY <1>7, <2>1, LearnsStep DEF OwnMove, ConsiderSelf
  <2>2. CASE Moved(own) /\ UNCHANGED <<viewZone, viewMap>>
    BY <1>7, <2>2, UntouchedStep DEF OwnMove, ConsiderSelf, Moved, zoneVars, ZoneUntouched
  <2>. QED BY <1>7, <2>1, <2>2 DEF OwnMove, ConsiderSelf
<1>8. CASE ZoneSpawns \/ GroupDisband \/ UNCHANGED vars
  <2>1. ZoneUntouched
    BY <1>8 DEF ZoneSpawns, GroupDisband, Rest, Elsewhere, vars, gameVars, clientVars,
                zoneVars, ZoneUntouched
  <2>. QED BY <2>1, UntouchedStep
<1>9. CASE \E id \in Ids: Despawn(id) \/ Death(id) \/ Move(id) \/ LateMove(id)
  BY <1>9, OtherPackets, UntouchedStep
<1>10. CASE \E id \in Ids, n \in AllNames: NewSpawn(id, n) \/ PlayerEnters(id, n)
  BY <1>10, OtherPackets, UntouchedStep
<1>11. CASE \E n \in Players: GroupFollow(n) \/ GroupLeave(n)
  <2>1. ZoneUntouched
    BY <1>11 DEF GroupFollow, GroupLeave, Elsewhere, zoneVars, ZoneUntouched
  <2>. QED BY <2>1, UntouchedStep
<1>. QED BY <1>1, <1>2, <1>3, <1>4, <1>5, <1>6, <1>7, <1>8, <1>9, <1>10, <1>11
         DEF Next, ZonePackets, SpawnPackets, GroupPackets

\* A packet is a step of the game; a save is none.
LEMMA PacketIsNext == ASSUME Packet PROVE Next
  BY DEF Packet, TellsID, KeepsID, Next, ZonePackets, SpawnPackets

\* A start leaves the name, the map and the client at one zone, or at none.
LEMMA RestartZoneStep == ASSUME ZoneInv, MaxLost \in Nat, Restart PROVE ZoneInv'
<1>1. PICK f : RestartSoon(f) \/ \E young \in BOOLEAN: RestartLater(f, young)
  BY DEF Restart
<1>2. ZonesAgree' /\ profiled' = FALSE
  BY <1>1 DEF RestartSoon, RestartLater, Starts, applyCheckpoint, ZonesAgree
<1>3. CASE RestartSoon(f)
  <2>1. /\ UNCHANGED <<phase, realZone, target>>
        /\ phase \in {"playing", "asked", "left", "entering"}
        /\ lost' \in Nat /\ (phase # "playing" => lost' = lost + 1)
    BY <1>3 DEF RestartSoon, gameVars, ZoneInv
  <2>. QED BY <1>2, <2>1 DEF ZoneInv, Phases, Current, ZonesAgree
<1>4. CASE \E young \in BOOLEAN: RestartLater(f, young)
  <2>1. phase' = "playing" /\ realZone' \in Zones /\ target' = realZone' /\ lost' = lost
    BY <1>4 DEF RestartLater
  <2>. QED BY <1>2, <2>1 DEF ZoneInv, Phases, Current, ZonesAgree
<1>. QED BY <1>1, <1>3, <1>4

ZoneAssumptions == MaxLost \in Nat /\ MaxLost <= 1 /\ "profile" \notin Lossy

LEMMA RestartZoneInv ==
  ASSUME ZoneInv, ZoneAssumptions, [RestartNext]_allVars
  PROVE  ZoneInv'
<1>1. CASE [Next]_vars
  BY <1>1, ZoneStep DEF ZoneAssumptions
<1>2. CASE Restart
  BY <1>2, RestartZoneStep DEF ZoneAssumptions
<1>3. Packet \/ SaveCheckpoint \/ UNCHANGED allVars => [Next]_vars
  BY PacketIsNext DEF SaveCheckpoint, allVars
<1>. QED BY <1>1, <1>2, <1>3 DEF RestartNext

(* After a profile, name, map and filters, and the client's name and map, *)
(* are those of the zone the player is in, whichever one packet of a      *)
(* change of zone but the profile was missed, and however often the       *)
(* daemon was restarted (ZoneMgr::zonePlayer, DaemonApp::restoreCheckpoint). *)
THEOREM ZoneIsCurrent ==
  ASSUME ZoneAssumptions
  PROVE  RestartSpec => []LoadedZoneIsCurrent
<1>1. ZoneInv /\ [RestartNext]_allVars => ZoneInv'
  BY RestartZoneInv
<1>2. ZoneInv => LoadedZoneIsCurrent
  BY DEF ZoneInv, Current, LoadedZoneIsCurrent, Settled
<1>3. RestartInit => ZoneInv
  BY ZoneInitially DEF RestartInit
<1>. QED BY <1>1, <1>2, <1>3, PTL DEF RestartSpec

-----------------------------------------------------------------------------
InZone == phase \in {"playing", "asked", "left"}

PlayerInv ==
    /\ own \in Ids
    /\ source # "stale" => (InZone => playerID \in {0, own}) /\ playerID \notin DOMAIN spawns
    /\ InZone /\ playerID = own => own \notin DOMAIN spawns
    /\ phase \in {"profiled", "self"} => DOMAIN spawns = {}
    /\ phase = "entering" => shortName = Unknown \/ zoning \/ DOMAIN spawns = {}
    /\ phase = "self" => playerID = own
    /\ CheckpointFits

LEMMA PlayerInitially == RestartInit => PlayerInv
  BY DEF RestartInit, Init, PlayerInv, InZone, NoSpawns, CheckpointFits, NoFile

\* A step of the zone or the spawn list that the checkpoint does not see.
SameStay == UNCHANGED <<checkpoint, own, realZone>>
LEMMA FitsStep == CheckpointFits /\ SameStay => CheckpointFits'
  BY DEF CheckpointFits, SameStay

\* With an empty list, only the player's id is to be right.
LEMMA EmptyStep ==
  ASSUME PlayerInv, SameStay, DOMAIN spawns' = {},
         source' # "stale" /\ InZone' => playerID' \in {0, own},
         phase' = "self" => playerID' = own
  PROVE  PlayerInv'
  BY FitsStep DEF PlayerInv, InZone, SameStay

\* An id put into the list is not the player's.
LEMMA NewSpawnsStep ==
  ASSUME PlayerInv, SameStay, InZone, NEW batch, DOMAIN batch \subseteq NewIds,
         newSpawns(batch), UNCHANGED <<phase, source>>
  PROVE  PlayerInv'
<1>1. own \notin DOMAIN batch /\ 0 \notin DOMAIN batch
  BY ShellAssumption DEF NewIds
<1>2. DOMAIN spawns' = DOMAIN batch \cup DOMAIN spawns /\ playerID' = playerID
  BY DEF newSpawns, Merged
<1>. QED BY <1>1, <1>2, FitsStep DEF PlayerInv, InZone, SameStay

LEMMA MovedStep ==
  ASSUME PlayerInv, SameStay, InZone, NEW id, Moved(id), UNCHANGED <<phase, source>>
  PROVE  PlayerInv'
<1>1. playerID' = playerID /\ (playerID \notin DOMAIN spawns => playerID \notin DOMAIN spawns')
  BY DEF Moved, updateSpawn, CreatesUnknown, Merged, Only
<1>. QED BY <1>1, FitsStep DEF PlayerInv, InZone, SameStay

\* The player's own id takes the place of any spawn that had it.
LEMMA LearnsOwnStep ==
  ASSUME PlayerInv, SameStay, LearnsID(own),
         \/ InZone /\ UNCHANGED phase
         \/ phase = "profiled" /\ phase' = "self"
  PROVE  PlayerInv'
<1>1. setPlayerID(own)
  BY DEF LearnsID
<1>2. DOMAIN spawns' \subseteq DOMAIN spawns /\ playerID' = own
  BY <1>1 DEF setPlayerID, Without, Restrict
<1>3. own \notin DOMAIN spawns'
  BY <1>1 DEF setPlayerID, Without, Restrict, PlayerInv
<1>. QED BY <1>2, <1>3, FitsStep DEF PlayerInv, InZone, SameStay

\* What leaves the player alone and puts no id into the list.
LEMMA QuietStep ==
  ASSUME PlayerInv, SameStay, UNCHANGED <<playerID, source>>,
         DOMAIN spawns' \subseteq DOMAIN spawns,
         \/ phase' \in {"playing", "asked", "left"} /\ (InZone \/ phase = "self")
         \/ UNCHANGED <<phase, shortName, zoning>>
  PROVE  PlayerInv'
  BY FitsStep DEF PlayerInv, InZone, SameStay

PlayerAssumptions == ZoneAssumptions /\ "self" \notin Lossy

LEMMA TellsStep ==
  ASSUME PlayerInv, ZoneInv, PlayerAssumptions, TellsID, UNCHANGED checkpoint,
         source' = IF lost' = lost THEN "packets" ELSE source
  PROVE  PlayerInv'
<1>1. CASE OwnZoneEntry
  BY <1>1, LearnsOwnStep DEF OwnZoneEntry, Missed, PlayerAssumptions, SameStay
<1>2. CASE ConsiderSelf \/ (OwnMove /\ playerID = 0)
  BY <1>2, LearnsOwnStep DEF ConsiderSelf, OwnMove, SameStay, InGame, InZone
<1>3. CASE GrantZone \/ RefuseZone
  <2>1. SameStay /\ InZone /\ phase' \in {"playing", "left"}
    BY <1>3 DEF GrantZone, RefuseZone, SameStay, InZone
  <2>2. CASE Missed("grant")
    <3>1. lost' # lost
      BY <2>2 DEF Missed, ZoneInv
    <3>. QED BY <2>1, <2>2, <3>1, QuietStep DEF Missed, DaemonUnchanged, shellVars
  <2>3. CASE ServerZoneChange
    <3>1. DOMAIN spawns' = {} /\ playerID' = 0
      BY <2>3 DEF ServerZoneChange, onZoneChanged, clear, NoSpawns
    <3>. QED BY <2>1, <3>1, EmptyStep
  <2>. QED BY <1>3, <2>2, <2>3 DEF GrantZone, RefuseZone
<1>4. \/ OwnZoneEntry \/ ConsiderSelf \/ (OwnMove /\ playerID = 0)
      \/ GrantZone \/ RefuseZone
  BY DEF TellsID
<1>. QED BY <1>1, <1>2, <1>3, <1>4

LEMMA KeepsZoneStep ==
  ASSUME PlayerInv, ZoneInv, PlayerAssumptions, UNCHANGED <<checkpoint, source>>,
         AskZone \/ SendProfile \/ ResendProfile \/ NewZone
  PROVE  PlayerInv'
<1>1. CASE AskZone
  <2>1. SameStay /\ UNCHANGED shellVars /\ InZone /\ phase' = "asked"
    BY <1>1 DEF AskZone, Missed, DaemonUnchanged, InZone, SameStay
  <2>. QED BY <2>1, QuietStep DEF shellVars
<1>2. CASE SendProfile
  <2>1. SameStay /\ PlayerProfile /\ phase = "entering" /\ phase' = "profiled"
    BY <1>2 DEF SendProfile, SameStay, Missed, PlayerAssumptions, ZoneAssumptions
  <2>2. DOMAIN spawns' = {}
    <3>1. CASE BeginsZone(realZone)
      BY <2>1, <3>1 DEF PlayerProfile, onZoneBegin, clear, NoSpawns
    <3>2. CASE ~BeginsZone(realZone)
      BY <2>1, <3>2, UnknownZone DEF PlayerProfile, BeginsZone, PlayerInv, ZoneInv
    <3>. QED BY <3>1, <3>2
  <2>. QED BY <2>1, <2>2, EmptyStep DEF InZone
<1>3. CASE ResendProfile
  <2>1. SameStay /\ PlayerProfile /\ InZone /\ phase' = phase
    BY <1>3 DEF ResendProfile, gameVars, InZone, SameStay
  <2>2. UNCHANGED playerID /\ DOMAIN spawns' \subseteq DOMAIN spawns
    BY <2>1 DEF PlayerProfile, onZoneBegin, clear, NoSpawns
  <2>. QED BY <2>1, <2>2, QuietStep DEF InZone
<1>4. CASE NewZone
  BY <1>4, QuietStep DEF NewZone, shellVars, SameStay
<1>. QED BY <1>1, <1>2, <1>3, <1>4

LEMMA KeepsSpawnStep ==
  ASSUME PlayerInv, UNCHANGED <<checkpoint, source>>,
         \/ ZoneSpawns \/ (OwnMove /\ playerID # 0)
         \/ \E id \in Ids: Despawn(id) \/ Death(id) \/ Move(id) \/ LateMove(id)
         \/ \E id \in Ids, n \in AllNames: NewSpawn(id, n) \/ PlayerEnters(id, n)
  PROVE  PlayerInv'
<1> USE DEF Rest, SameStay, InGame
<1>1. CASE ZoneSpawns
  <2>1. PICK some \in SUBSET NewIds, name \in [NewIds -> Announceable]:
          zoneSpawns([id \in some |-> Living(name[id])])
    BY <1>1 DEF ZoneSpawns
  <2>. QED BY <1>1, <2>1, NewSpawnsStep DEF ZoneSpawns, zoneSpawns, InZone
<1>2. ASSUME NEW id \in Ids, NEW n \in AllNames, NewSpawn(id, n) \/ PlayerEnters(id, n)
      PROVE  PlayerInv'
  <2>1. InZone /\ SameStay /\ UNCHANGED phase /\ DOMAIN Only(id, Living(n)) \subseteq NewIds
    BY <1>2 DEF NewSpawn, PlayerEnters, InZone, Only
  <2>2. CASE newSpawns(Only(id, Living(n)))
    BY <2>1, <2>2, NewSpawnsStep
  <2>3. CASE UNCHANGED playerID /\ DOMAIN spawns' = DOMAIN spawns
    BY <2>1, <2>3, QuietStep DEF InZone
  <2>. QED BY <1>2, <2>2, <2>3 DEF NewSpawn, PlayerEnters, newSpawn, zoneEntry, shellVars
<1>3. ASSUME NEW id \in Ids, Despawn(id) \/ Death(id)
      PROVE  PlayerInv'
  <2>1. DOMAIN spawns' \subseteq DOMAIN spawns /\ UNCHANGED playerID
    BY <1>3 DEF Despawn, Death, deleteSpawn, killSpawn, Without, Restrict
  <2>. QED BY <1>3, <2>1, QuietStep DEF Despawn, Death, InZone
<1>4. ASSUME NEW id \in Ids, Move(id) \/ LateMove(id)
      PROVE  PlayerInv'
  BY <1>4, MovedStep DEF Move, LateMove, InZone
<1>5. CASE OwnMove /\ playerID # 0
  BY <1>5, MovedStep DEF OwnMove, InZone
<1>. QED BY <1>1, <1>2, <1>3, <1>4, <1>5

LEMMA PacketPlayerStep ==
  ASSUME PlayerInv, ZoneInv, PlayerAssumptions, Packet
  PROVE  PlayerInv'
<1>1. CASE TellsID /\ UNCHANGED checkpoint /\ source' = IF lost' = lost THEN "packets" ELSE source
  BY <1>1, TellsStep
<1>2. CASE KeepsID /\ UNCHANGED <<checkpoint, source>>
  <2>1. CASE GroupPackets
    <3>1. SameStay /\ UNCHANGED <<shellVars, zoneVars, phase>>
      BY <1>2, <2>1 DEF GroupPackets, GroupDisband, GroupFollow, GroupLeave, Elsewhere, SameStay
    <3>. QED BY <1>2, <3>1, QuietStep DEF shellVars, zoneVars
  <2>2. CASE AskZone \/ SendProfile \/ ResendProfile \/ NewZone
    BY <1>2, <2>2, KeepsZoneStep
  <2>3. CASE \/ ZoneSpawns \/ (OwnMove /\ playerID # 0)
             \/ \E id \in Ids: Despawn(id) \/ Death(id) \/ Move(id) \/ LateMove(id)
             \/ \E id \in Ids, n \in AllNames: NewSpawn(id, n) \/ PlayerEnters(id, n)
    BY <1>2, <2>3, KeepsSpawnStep
  <2>. QED BY <1>2, <2>1, <2>2, <2>3 DEF KeepsID
<1>3. CASE /\ EnterZone /\ checkpoint' = OfOther(checkpoint)
           /\ source' = IF source = "stay" THEN "stale" ELSE source
  <2>1. UNCHANGED <<playerID, spawns>> /\ phase' = "entering" /\ own' \in Ids
    BY <1>3 DEF EnterZone, Missed, DaemonUnchanged, shellVars
  <2>2. (shortName = Unknown \/ zoning)'
    BY <1>3 DEF EnterZone, Missed, Heard, DaemonUnchanged, zoneVars, zoneEntryClient, ZoneInv,
                PlayerAssumptions, ZoneAssumptions
  <2>3. CheckpointFits'
    BY <1>3 DEF OfOther, CheckpointFits
  <2>. QED BY <1>3, <2>1, <2>2, <2>3 DEF PlayerInv, InZone
<1>. QED BY <1>1, <1>2, <1>3 DEF Packet

\* What is written in this stay is the id and the zone the game has.
LEMMA SavedFits ==
  ASSUME PlayerInv, ZoneInv, saved(playerID, shortName, Stay).stay = "this"
  PROVE  saved(playerID, shortName, Stay) = Whole(own, realZone, "this")
<1>1. CASE Saves(playerID)
  <2>1. Stay = "this"
    BY <1>1 DEF saved, Whole
  <2>2. Settled /\ source # "stale"
    BY <2>1 DEF Stay
  <2>3. playerID = own /\ shortName = realZone
    BY <1>1, <2>2 DEF Saves, PlayerInv, ZoneInv, Settled, InZone, Current
  <2>. QED BY <1>1, <2>1, <2>3 DEF saved
<1>2. CASE ~Saves(playerID)
  BY <1>2 DEF saved, PlayerInv, CheckpointFits
<1>. QED BY <1>1, <1>2

LEMMA LeftFits ==
  ASSUME PlayerInv, ZoneInv, NEW f \in Left(playerID, shortName, Stay), f.stay = "this"
  PROVE  f = Whole(own, realZone, "this")
<1>1. CASE f = saved(playerID, shortName, Stay)
  BY <1>1, SavedFits
<1>2. CASE f = checkpoint
  BY <1>2 DEF PlayerInv, CheckpointFits
<1>3. f # HalfFile
  BY DEF HalfFile, NoFile
<1>. QED BY <1>1, <1>2, <1>3 DEF Left

LEMMA RestartPlayerStep ==
  ASSUME PlayerInv, ZoneInv, Restart
  PROVE  PlayerInv'
<1>1. PICK f \in Left(playerID, shortName, Stay):
        RestartSoon(f) \/ \E young \in BOOLEAN: RestartLater(f, young)
  BY DEF Restart
<1>2. CASE RestartSoon(f)
  <2>1. /\ UNCHANGED <<phase, own, realZone>> /\ checkpoint' = f
        /\ phase \in {"playing", "asked", "left", "entering"}
        /\ DOMAIN spawns' = {}
        /\ playerID' = 0 \/ source' = "stale" \/ (f.stay = "this" /\ playerID' = f.id)
    BY <1>2 DEF RestartSoon, gameVars, Starts, NoSpawns
  <2>2. CheckpointFits'
    BY <2>1, LeftFits DEF CheckpointFits
  <2>3. f.stay = "this" => f.id = own
    BY LeftFits DEF Whole
  <2>. QED BY <2>1, <2>2, <2>3 DEF PlayerInv, InZone
<1>3. ASSUME NEW young \in BOOLEAN, RestartLater(f, young)
      PROVE  PlayerInv'
  <2>1. /\ checkpoint' = OfOther(f) /\ own' \in Ids /\ phase' = "playing"
        /\ DOMAIN spawns' = {}
        /\ playerID' = 0 \/ source' = "stale" \/ checkpoint'.stay = "this"
    BY <1>3 DEF RestartLater, Starts, NoSpawns
  <2>2. checkpoint'.stay # "this"
    BY <2>1 DEF OfOther
  <2>. QED BY <2>1, <2>2 DEF PlayerInv, InZone, CheckpointFits
<1>. QED BY <1>1, <1>2, <1>3

(* Assuming every own zone entry is seen, both hold with the zone's        *)
(* invariant.                                                              *)
LEMMA PlayerInvariant ==
  ASSUME PlayerAssumptions
  PROVE  RestartSpec => [](PlayerIdIsOwn /\ CheckpointFits)
<1> DEFINE Inv == ZoneInv /\ PlayerInv
<1>1. RestartInit => Inv
  BY PlayerInitially, ZoneInitially DEF RestartInit
<1>2. Inv /\ [RestartNext]_allVars => Inv'
  <2> SUFFICES ASSUME Inv, [RestartNext]_allVars PROVE Inv'
    OBVIOUS
  <2>1. ZoneInv'
    BY RestartZoneInv DEF PlayerAssumptions
  <2>2. CASE Packet
    BY <2>1, <2>2, PacketPlayerStep
  <2>3. CASE SaveCheckpoint
    <3>1. UNCHANGED <<phase, own, realZone, playerID, spawns, source, shortName, zoning>>
      BY <2>3 DEF SaveCheckpoint, vars, gameVars, shellVars, zoneVars
    <3>2. CheckpointFits'
      BY <2>3, <3>1, SavedFits DEF SaveCheckpoint, CheckpointFits
    <3>. QED BY <2>1, <3>1, <3>2 DEF PlayerInv, InZone
  <2>4. CASE Restart
    BY <2>1, <2>4, RestartPlayerStep
  <2>5. CASE UNCHANGED allVars
    BY <2>1, <2>5 DEF allVars, vars, gameVars, shellVars, zoneVars, restartVars, PlayerInv, InZone,
                      CheckpointFits
  <2>. QED BY <2>2, <2>3, <2>4, <2>5 DEF RestartNext
<1>3. Inv => PlayerIdIsOwn /\ CheckpointFits
  BY DEF PlayerInv, InZone, PlayerIdIsOwn
<1>. QED BY <1>1, <1>2, <1>3, PTL DEF RestartSpec

(* Whatever packets but the player's own zone entries are missed, and     *)
(* however often the daemon is restarted: the daemon's id for the player  *)
(* is the player's own, or not known, and never that of a spawn, unless   *)
(* it was restored in another stay than it was saved in                   *)
(* (Player::setPlayerID).                                                 *)
THEOREM IdentityIsKnown ==
  ASSUME PlayerAssumptions
  PROVE  RestartSpec => []PlayerIdIsOwn
  BY PlayerInvariant, PTL

(* A checkpoint that was saved in this stay holds the player's id and zone *)
(* for the whole of it, whatever the daemon knew when it was saved or      *)
(* saved again (DaemonApp::saveCheckpoint and restoreCheckpoint).          *)
THEOREM CheckpointIsRight ==
  ASSUME PlayerAssumptions
  PROVE  RestartSpec => []CheckpointFits
  BY PlayerInvariant, PTL

-----------------------------------------------------------------------------
(* The spawn list, its client, and the group.                              *)

Spawns(list) == \A id \in DOMAIN list: list[id] \in Spawn

\* The list knows what the server announced by its name or not at all; what it has
\* besides the announced spawns and the player has no name, and is there only if
\* updates may be late.
Known ==
    /\ \A id \in DOMAIN spawns \cap DOMAIN real: spawns[id].name \in {NoName, real[id].name}
    /\ \A id \in DOMAIN spawns \ (DOMAIN real \cup {own}):
         LateUpdates /\ spawns[id].name = NoName

ListInv ==
    /\ Spawns(spawns) /\ Spawns(real)
    /\ own \notin DOMAIN real
    /\ ~LateUpdates => gone = {}
    /\ InZone => Known
    /\ phase \in {"profiled", "self"} => DOMAIN spawns = {}
    /\ phase = "entering" => shortName = Unknown \/ zoning \/ DOMAIN spawns = {}

LEMMA LivingIsSpawn ==
  ASSUME NEW n \in AllNames
  PROVE  Living(n) \in Spawn /\ Living(n).name = n
  BY DEF Living, Spawn, Kinds, AllNames

LEMMA CorpseIsSpawn ==
  ASSUME NEW s \in Spawn
  PROVE  Corpse(s) \in Spawn /\ Corpse(s).name = s.name
  BY DEF Corpse, Spawn, Kinds

LEMMA ListInitially == Init => ListInv
<1> SUFFICES ASSUME Init PROVE ListInv
  OBVIOUS
<1>1. DOMAIN spawns = {} /\ phase = "playing" /\ gone = {}
  BY DEF Init, NoSpawns
<1>2. Spawns(real) /\ own \notin DOMAIN real
  BY LivingIsSpawn DEF Init, NoSpawns, Only, Spawns
<1>. QED BY <1>1, <1>2 DEF ListInv, Known, Spawns

\* With an empty list there is nothing to know.
LEMMA EmptyList ==
  ASSUME ListInv, DOMAIN spawns' = {}, UNCHANGED <<real, own, gone>>
  PROVE  ListInv'
  BY DEF ListInv, Known, Spawns

\* Steps of the change of zone that leave the list and the game's spawns alone.
LEMMA SameList ==
  ASSUME ListInv, UNCHANGED <<spawns, real, own, gone>>,
         \/ InZone /\ InZone'
         \/ UNCHANGED <<phase, shortName, zoning>>
         \/ phase = "self" /\ phase' = "playing"
         \/ phase = "profiled" /\ phase' = "self"
  PROVE  ListInv'
  BY DEF ListInv, Known, Spawns, InZone

LEMMA ListZoneStep ==
  ASSUME ListInv, ZoneInv, ZoneAssumptions, ZonePackets
  PROVE  ListInv'
<1> USE DEF ZoneAssumptions
<1>1. CASE AskZone
  BY <1>1, SameList DEF AskZone, Missed, DaemonUnchanged, shellVars, InZone
<1>2. CASE GrantZone \/ RefuseZone
  <2>1. /\ UNCHANGED <<real, own, gone>>
        /\ InZone /\ InZone'
    BY <1>2 DEF GrantZone, RefuseZone, InZone
  <2>2. CASE Missed("grant")
    BY <2>1, <2>2, SameList DEF Missed, DaemonUnchanged, shellVars
  <2>3. CASE ServerZoneChange
    BY <2>1, <2>3, EmptyList DEF ServerZoneChange, onZoneChanged, clear, NoSpawns
  <2>. QED BY <1>2, <2>2, <2>3 DEF GrantZone, RefuseZone
<1>3. CASE EnterZone
  <2>1. UNCHANGED spawns /\ phase' = "entering" /\ DOMAIN real' = {} /\ gone' = {}
    BY <1>3 DEF EnterZone, Missed, DaemonUnchanged, shellVars, NoSpawns
  <2>2. (shortName = Unknown \/ zoning)'
    BY <1>3 DEF EnterZone, Missed, Heard, DaemonUnchanged, zoneVars, zoneEntryClient, ZoneInv
  <2>. QED BY <2>1, <2>2 DEF ListInv, InZone, Spawns
<1>4. CASE SendProfile
  <2>1. /\ UNCHANGED <<real, own, gone>> /\ PlayerProfile
        /\ phase = "entering" /\ phase' = "profiled"
    BY <1>4 DEF SendProfile, Missed
  <2>2. CASE BeginsZone(realZone)
    BY <2>1, <2>2, EmptyList DEF PlayerProfile, onZoneBegin, clear, NoSpawns
  <2>3. CASE ~BeginsZone(realZone)
    <3>1. DOMAIN spawns = {} /\ UNCHANGED spawns
      BY <2>1, <2>3, UnknownZone DEF PlayerProfile, BeginsZone, ListInv, ZoneInv
    <3>. QED BY <2>1, <3>1, EmptyList
  <2>. QED BY <2>2, <2>3
<1>5. CASE ResendProfile
  <2>1. UNCHANGED <<real, own, gone, phase>> /\ PlayerProfile /\ InZone
    BY <1>5 DEF ResendProfile, gameVars, InZone
  <2>2. CASE BeginsZone(realZone)
    BY <2>1, <2>2, EmptyList DEF PlayerProfile, onZoneBegin, clear, NoSpawns
  <2>3. CASE ~BeginsZone(realZone)
    BY <2>1, <2>3, SameList DEF PlayerProfile, InZone
  <2>. QED BY <2>2, <2>3
<1>6. CASE OwnZoneEntry
  <2>1. UNCHANGED <<real, own, gone>> /\ phase = "profiled" /\ phase' = "self"
    BY <1>6 DEF OwnZoneEntry
  <2>2. DOMAIN spawns' = {}
    BY <1>6, <2>1 DEF OwnZoneEntry, Missed, DaemonUnchanged, shellVars, LearnsID, setPlayerID,
                      Without, Restrict, ListInv
  <2>. QED BY <2>1, <2>2, EmptyList
<1>7. CASE NewZone
  BY <1>7, SameList DEF NewZone, shellVars
<1>. QED BY <1>1, <1>2, <1>3, <1>4, <1>5, <1>6, <1>7 DEF ZonePackets

\* A batch of announced spawns goes into the list, or, while zoning, past it.
LEMMA AnnouncedStep ==
  ASSUME ListInv, InZone, NEW batch, Spawns(batch), DOMAIN batch \subseteq NewIds,
         real' = Merged(batch, real),
         \/ spawns' = Merged(batch, spawns)
         \/ spawns' = spawns,
         gone' \subseteq gone, UNCHANGED <<own, phase>>
  PROVE  ListInv'
<1>1. Spawns(real')
  BY DEF ListInv, Spawns, Merged
<1>2. Spawns(spawns')
  BY DEF ListInv, Spawns, Merged
<1>3. own' \notin DOMAIN real' /\ (~LateUpdates => gone' = {})
  BY DEF ListInv, Merged, NewIds
<1>4. \A id \in DOMAIN real' : real'[id] = IF id \in DOMAIN batch THEN batch[id] ELSE real[id]
  BY DEF Merged
<1>5. Known'
  <2>1. CASE spawns' = Merged(batch, spawns)
    BY <1>4, <2>1 DEF ListInv, Known, Merged, NewIds
  <2>2. CASE spawns' = spawns
    BY <1>4, <2>2 DEF ListInv, Known, Merged, NewIds
  <2>. QED BY <2>1, <2>2
<1>. QED BY <1>1, <1>2, <1>3, <1>5 DEF ListInv, InZone

\* An id leaves the list.
LEMMA WithoutStep ==
  ASSUME ListInv, InZone, NEW id, spawns' = Without(id) \/ spawns' = spawns,
         UNCHANGED <<real, own, gone, phase>>
  PROVE  ListInv'
<1>1. /\ DOMAIN spawns' \subseteq DOMAIN spawns
      /\ \A i \in DOMAIN spawns' : spawns'[i] = spawns[i]
  BY DEF Without, Restrict
<1>. QED BY <1>1 DEF ListInv, Known, Spawns, InZone

LEMMA MovedList ==
  ASSUME ListInv, InZone, NEW id, Moved(id),
         id \in DOMAIN real \cup {own} \/ (LateUpdates /\ gone' = gone \ {id}),
         gone' \subseteq gone, UNCHANGED <<real, own, phase>>
  PROVE  ListInv'
<1>1. /\ spawns' = spawns \/ spawns' = Merged(Only(id, UnknownSpawn), spawns)
      /\ UnknownSpawn \in Spawn /\ UnknownSpawn.name = NoName
  BY DEF Moved, updateSpawn, UnknownSpawn, Spawn, Kinds
<1>2. CASE spawns' = spawns
  BY <1>2 DEF ListInv, Known, Spawns, InZone
<1>3. CASE spawns' = Merged(Only(id, UnknownSpawn), spawns)
  <2>1. /\ DOMAIN spawns' = DOMAIN spawns \cup {id}
        /\ \A i \in DOMAIN spawns' : spawns'[i] = IF i = id THEN UnknownSpawn ELSE spawns[i]
    BY <1>3 DEF Merged, Only
  <2>. QED BY <1>1, <2>1 DEF ListInv, Known, Spawns, InZone
<1>. QED BY <1>1, <1>2, <1>3

LEMMA ListSpawnStep ==
  ASSUME ListInv, SpawnPackets
  PROVE  ListInv'
<1> USE DEF Rest, InGame, InZone
<1>1. CASE ZoneSpawns
  <2>1. PICK some \in SUBSET NewIds, name \in [NewIds -> Announceable] :
          LET batch == [id \in some |-> Living(name[id])]
          IN  /\ real' = Merged(batch, real) /\ gone' = gone \ some /\ zoneSpawns(batch)
    BY <1>1 DEF ZoneSpawns
  <2> DEFINE batch == [id \in some |-> Living(name[id])]
  <2>2. Spawns(batch) /\ DOMAIN batch \subseteq NewIds
    BY LivingIsSpawn DEF Spawns, Announceable
  <2>3. /\ real' = Merged(batch, real) /\ gone' \subseteq gone /\ spawns' = Merged(batch, spawns)
    BY <2>1 DEF zoneSpawns, newSpawns
  <2> HIDE DEF batch
  <2>. QED BY <1>1, <2>2, <2>3, AnnouncedStep DEF ZoneSpawns
<1>2. ASSUME NEW id \in Ids, NEW n \in AllNames, NewSpawn(id, n) \/ PlayerEnters(id, n)
      PROVE  ListInv'
  <2> DEFINE batch == Only(id, Living(n))
  <2>1. /\ Spawns(batch) /\ DOMAIN batch \subseteq NewIds /\ InZone
        /\ real' = Merged(batch, real) /\ gone' \subseteq gone /\ UNCHANGED <<own, phase>>
    BY <1>2, LivingIsSpawn DEF NewSpawn, PlayerEnters, Only, Spawns
  <2>2. CASE spawns' = Merged(batch, spawns) \/ spawns' = spawns
    <3> HIDE DEF batch
    <3>. QED BY <2>1, <2>2, AnnouncedStep
  <2>3. CASE id \in DOMAIN spawns /\ spawns' = [spawns EXCEPT ![id] = Living(n)]
    <3>1. DOMAIN spawns' = DOMAIN Merged(batch, spawns)
      BY <2>3 DEF Merged, Only
    <3>2. spawns' = Merged(batch, spawns)
      BY <2>3 DEF Merged, Only
    <3>. QED BY <2>2, <3>2
  <2>. QED BY <1>2, <2>2, <2>3
           DEF NewSpawn, PlayerEnters, newSpawn, newSpawns, zoneEntry, shellVars
<1>3. ASSUME NEW id \in Ids, Despawn(id)
      PROVE  ListInv'
  <2>1. /\ real' = Restrict(real, DOMAIN real \ {id})
        /\ spawns' = Restrict(spawns, DOMAIN spawns \ {id})
        /\ UNCHANGED <<own, phase>> /\ InZone /\ (~LateUpdates => gone' = gone)
    BY <1>3 DEF Despawn, deleteSpawn, Without
  <2>2. /\ DOMAIN real' = DOMAIN real \ {id} /\ DOMAIN spawns' = DOMAIN spawns \ {id}
        /\ \A i \in DOMAIN real' : real'[i] = real[i]
        /\ \A i \in DOMAIN spawns' : spawns'[i] = spawns[i]
    BY <2>1 DEF Restrict
  <2>. QED BY <2>1, <2>2 DEF ListInv, Known, Spawns
<1>4. ASSUME NEW id \in Ids, Death(id)
      PROVE  ListInv'
  <2>1. /\ DOMAIN real' = DOMAIN real
        /\ \A i \in DOMAIN real : real'[i] \in Spawn /\ real'[i].name = real[i].name
    BY <1>4, CorpseIsSpawn DEF Death, ListInv, Spawns
  <2>2. /\ DOMAIN spawns' = DOMAIN spawns
        /\ \A i \in DOMAIN spawns : spawns'[i] \in Spawn /\ spawns'[i].name = spawns[i].name
    BY <1>4, CorpseIsSpawn DEF Death, killSpawn, ListInv, Spawns
  <2>3. UNCHANGED <<own, phase, gone>> /\ InZone
    BY <1>4 DEF Death
  <2>. QED BY <2>1, <2>2, <2>3 DEF ListInv, Known, Spawns
<1>5. ASSUME NEW id \in Ids, Move(id) \/ LateMove(id)
      PROVE  ListInv'
  <2>1. /\ InZone /\ Moved(id) /\ UNCHANGED <<real, own, phase>> /\ gone' \subseteq gone
        /\ id \in DOMAIN real \cup {own} \/ (id \in gone /\ gone' = gone \ {id})
    BY <1>5 DEF Move, LateMove
  <2>2. id \in gone => LateUpdates
    BY DEF ListInv
  <2>. QED BY <2>1, <2>2, MovedList
<1>6. CASE OwnMove \/ ConsiderSelf
  <2>1. InZone /\ UNCHANGED <<real, own, gone, phase>>
    BY <1>6 DEF OwnMove, ConsiderSelf
  <2>2. CASE LearnsID(own)
    BY <2>1, <2>2, WithoutStep DEF LearnsID, setPlayerID
  <2>3. CASE Moved(own)
    BY <2>1, <2>3, MovedList
  <2>. QED BY <1>6, <2>2, <2>3 DEF OwnMove, ConsiderSelf
<1>. QED BY <1>1, <1>2, <1>3, <1>4, <1>5, <1>6 DEF SpawnPackets

LEMMA ListRestartStep ==
  ASSUME ListInv, Restart
  PROVE  ListInv'
<1>1. DOMAIN spawns' = {}
  BY DEF Restart, RestartSoon, RestartLater, Starts, NoSpawns
<1>2. CASE UNCHANGED gameVars
  BY <1>1, <1>2, EmptyList DEF gameVars
<1>3. CASE phase' = "playing" /\ gone' = {}
  <2>1. Spawns(real') /\ own' \notin DOMAIN real'
    BY <1>3, LivingIsSpawn
       DEF Restart, RestartSoon, RestartLater, NoSpawns, Only, Spawns, gameVars, ListInv
  <2>. QED BY <1>1, <1>3, <2>1 DEF ListInv, Known, Spawns
<1>. QED BY <1>2, <1>3 DEF Restart, RestartSoon, RestartLater

LEMMA ListStep ==
  ASSUME ListInv, ZoneInv, ZoneAssumptions, [RestartNext]_allVars
  PROVE  ListInv'
<1>1. CASE ZonePackets
  BY <1>1, ListZoneStep
<1>2. CASE SpawnPackets
  BY <1>2, ListSpawnStep
<1>3. CASE GroupPackets \/ UNCHANGED vars
  <2>1. UNCHANGED <<spawns, real, own, gone, phase, shortName, zoning>>
    BY <1>3 DEF GroupPackets, GroupDisband, GroupFollow, GroupLeave, Elsewhere, shellVars,
                zoneVars, vars, gameVars
  <2>. QED BY <2>1, SameList
<1>4. CASE Restart
  BY <1>4, ListRestartStep
<1>. QED BY <1>1, <1>2, <1>3, <1>4, PacketIsNext
         DEF RestartNext, SaveCheckpoint, allVars, Next

LEMMA ListIsKept ==
  ASSUME ZoneAssumptions
  PROVE  RestartSpec => [](ZoneInv /\ ListInv)
<1>1. RestartInit => ZoneInv /\ ListInv
  BY ZoneInitially, ListInitially DEF RestartInit
<1>2. (ZoneInv /\ ListInv) /\ [RestartNext]_allVars => (ZoneInv /\ ListInv)'
  BY RestartZoneInv, ListStep
<1>. QED BY <1>1, <1>2, PTL DEF RestartSpec

(* After a profile the spawn list holds nothing the server has not         *)
(* announced in this zone or has withdrawn, and no wrong name, whichever   *)
(* one packet of the change of zone but the profile was missed: either     *)
(* zoneChanged or the profile's zoneBegin has run SpawnShell::clear, and   *)
(* only a position update for an announced id makes a spawn in between.    *)
THEOREM NoGhostsLinger ==
  ASSUME ZoneAssumptions, ~LateUpdates
  PROVE  RestartSpec => []NoGhosts
<1>1. ListInv => NoGhosts
  BY DEF ListInv, Known, NoGhosts, Settled, InZone
<1>. QED BY <1>1, ListIsKept, PTL

-----------------------------------------------------------------------------
\* What a step adds to the list or takes from it, it adds to the view.
LEMMA MirrorPackets ==
  ASSUME ListInv, MirrorIsExact, ~LateUpdates, Next
  PROVE  MirrorIsExact'
<1> USE DEF MirrorIsExact
<1>1. CASE UNCHANGED <<spawns, view>>
  BY <1>1
<1>2. CASE spawns' = NoSpawns /\ view' = NoSpawns
  BY <1>2 DEF NoSpawns
<1>3. CASE view' = NamesOf(spawns')
  BY <1>3 DEF NamesOf
<1>4. ASSUME NEW batch, NEW names, spawns' = Merged(batch, spawns), view' = Merged(names, view),
             DOMAIN names = DOMAIN batch, \A id \in DOMAIN batch : names[id] = batch[id].name
      PROVE  MirrorIsExact'
  BY <1>4 DEF Merged
<1>5. ASSUME NEW id, NEW s, NEW n, s.name = n,
             spawns' = Merged(Only(id, s), spawns), view' = Merged(Only(id, n), view)
      PROVE  MirrorIsExact'
  <2>1. /\ DOMAIN Only(id, s) = {id} /\ DOMAIN Only(id, n) = {id}
        /\ Only(id, s)[id] = s /\ Only(id, n)[id] = n
    BY DEF Only
  <2>. QED BY <1>5, <1>4, <2>1
<1>6. ASSUME NEW id, Moved(id),
             view' = IF CreatesUnknown(id) THEN Merged(Only(id, NoName), view) ELSE view
      PROVE  MirrorIsExact'
  BY <1>5, <1>1, <1>6 DEF Moved, updateSpawn, UnknownSpawn
<1>7. ASSUME LearnsID(own)
      PROVE  MirrorIsExact'
  BY <1>1, <1>3, <1>7 DEF LearnsID, setPlayerID
<1>8. CASE ZonePackets
  <2>1. CASE AskZone \/ EnterZone \/ NewZone
    BY <1>1, <2>1 DEF AskZone, EnterZone, NewZone, Missed, DaemonUnchanged, shellVars, clientVars
  <2>2. CASE GrantZone \/ RefuseZone
    BY <1>1, <1>2, <2>2 DEF GrantZone, RefuseZone, Missed, DaemonUnchanged, shellVars, clientVars,
                            ServerZoneChange, onZoneChanged, clear, ZoneChangedEnvelope
  <2>3. CASE SendProfile \/ ResendProfile
    BY <1>1, <1>2, <2>3 DEF SendProfile, ResendProfile, Missed, DaemonUnchanged, shellVars, clientVars,
                            PlayerProfile, onZoneBegin, clear, ZoneChangedEnvelope
  <2>4. CASE OwnZoneEntry
    BY <1>1, <1>7, <2>4 DEF OwnZoneEntry, Missed, DaemonUnchanged, shellVars, clientVars
  <2>. QED BY <1>8, <2>1, <2>2, <2>3, <2>4 DEF ZonePackets
<1>9. CASE SpawnPackets
  <2>1. CASE ZoneSpawns
    <3>1. PICK batch : spawns' = Merged(batch, spawns) /\ view' = Merged(NamesOf(batch), view)
      BY <2>1 DEF ZoneSpawns, zoneSpawns, newSpawns
    <3>2. /\ DOMAIN NamesOf(batch) = DOMAIN batch
          /\ \A id \in DOMAIN batch : NamesOf(batch)[id] = batch[id].name
      BY DEF NamesOf
    <3>. QED BY <1>4, <3>1, <3>2
  <2>2. CASE OwnMove \/ ConsiderSelf
    BY <1>6, <1>7, <2>2 DEF OwnMove, ConsiderSelf, Moved
  <2>3. ASSUME NEW id \in Ids, Despawn(id)
        PROVE  MirrorIsExact'
    BY <2>3 DEF Despawn, deleteSpawn, Without, Restrict
  <2>4. ASSUME NEW id \in Ids, Death(id)
        PROVE  MirrorIsExact'
    <3>1. /\ DOMAIN spawns' = DOMAIN spawns
          /\ \A i \in DOMAIN spawns : spawns'[i].name = spawns[i].name
      BY <2>4, CorpseIsSpawn DEF Death, killSpawn, ListInv, Spawns
    <3>. QED BY <2>4, <3>1 DEF Death
  <2>5. ASSUME NEW id \in Ids, Move(id) \/ LateMove(id)
        PROVE  MirrorIsExact'
    BY <1>6, <2>5 DEF Move, LateMove, Moved
  <2>6. ASSUME NEW id \in Ids, NEW n \in AllNames, NewSpawn(id, n)
        PROVE  MirrorIsExact'
    BY <1>5, <1>1, <2>6, LivingIsSpawn DEF NewSpawn, newSpawn, newSpawns, shellVars
  <2>7. ASSUME NEW id \in Ids, NEW n \in AllNames, PlayerEnters(id, n)
        PROVE  MirrorIsExact'
    <3>1. id \notin DOMAIN spawns
      BY <2>7 DEF PlayerEnters, NewIds, InGame, ListInv, Known, InZone
    <3>. QED BY <1>5, <2>7, <3>1, LivingIsSpawn DEF PlayerEnters, zoneEntry, newSpawns
  <2>. QED BY <1>9, <2>1, <2>2, <2>3, <2>4, <2>5, <2>6, <2>7 DEF SpawnPackets
<1>10. CASE GroupPackets
  BY <1>1, <1>10 DEF GroupPackets, GroupDisband, GroupFollow, GroupLeave, Elsewhere, shellVars
<1>. QED BY <1>8, <1>9, <1>10 DEF Next

LEMMA MirrorStep ==
  ASSUME ListInv, MirrorIsExact, ~LateUpdates, [RestartNext]_allVars
  PROVE  MirrorIsExact'
<1>1. CASE Packet
  BY <1>1, PacketIsNext, MirrorPackets
<1>2. CASE Restart
  BY <1>2 DEF Restart, RestartSoon, RestartLater, Starts, NoSpawns, MirrorIsExact
<1>3. CASE SaveCheckpoint \/ UNCHANGED allVars
  BY <1>3 DEF SaveCheckpoint, allVars, vars, shellVars, clientVars, MirrorIsExact
<1>. QED BY <1>1, <1>2, <1>3 DEF RestartNext

(* A client that streams shows the ids and names of the spawn list after   *)
(* every packet: each change of the list has its envelope, a change of     *)
(* zone empties both, and a snapshot follows a change of the player's id.  *)
THEOREM MirrorStaysExact ==
  ASSUME ZoneAssumptions, ~LateUpdates
  PROVE  RestartSpec => []MirrorIsExact
<1>1. RestartInit => MirrorIsExact
  BY DEF RestartInit, Init, NoSpawns, MirrorIsExact
<1>2. ListInv /\ MirrorIsExact /\ [RestartNext]_allVars => MirrorIsExact'
  BY MirrorStep
<1>. QED BY <1>1, <1>2, ListIsKept, PTL DEF RestartSpec

-----------------------------------------------------------------------------
(* The group. *)

Taken == {i \in Slots : members[i].name # NoMember}

MemberType == [name: Players \cup {NoMember}, spawn: Pointer]
TableInv ==
    /\ members \in [Slots -> MemberType]
    /\ \A i \in Slots : members[i].spawn.at = "listed" => members[i].name # NoMember

GroupInv == TableInv /\ MembersCounted /\ DOMAIN spawns \subseteq Ids

\* The first of some slots is one of them.
LEMMA FirstIsOne ==
  ASSUME NEW S \in SUBSET Slots, S # {}
  PROVE  First(S) \in S
<1>1. S \subseteq Nat
  BY GroupAssumption DEF Slots
<1>2. PICK i \in S : \A j \in S : ~(<<j, i>> \in OpToRel(<, Nat))
  BY <1>1, WFMin, NatLessThanWellFounded
<1>3. ASSUME NEW j \in S, j < i PROVE FALSE
  <2>1. <<j, i>> \in Nat \X Nat /\ <<j, i>>[1] < <<j, i>>[2]
    BY <1>1, <1>3
  <2>2. <<j, i>> \in OpToRel(<, Nat)
    BY <2>1, Zenon DEF OpToRel
  <2>. QED BY <1>2, <2>2
<1>4. \A j \in S : i <= j
  BY <1>1, <1>3
<1>. QED BY <1>4 DEF First

LEMMA SmallMod ==
  ASSUME NEW n \in 0..Width-1
  PROVE  n % Width = n
<1> DEFINE q == n \div Width
           r == n % Width
<1>1. Width \in Nat /\ Width > 0 /\ n \in Nat /\ n < Width
  BY GroupAssumption
<1>2. q \in Int /\ r \in 0..Width-1 /\ n = Width * q + r
  BY <1>1
<1> HIDE DEF q, r
<1>3. q >= 1 => Width * q >= Width
  BY <1>1, <1>2
<1>4. q <= -1 => Width * q <= -Width
  BY <1>1, <1>2
<1>5. q = 0
  BY <1>1, <1>2, <1>3, <1>4
<1>6. r = n
  BY <1>1, <1>2, <1>5
<1>. QED BY <1>6 DEF r

LEMMA TakenCount ==
  /\ IsFiniteSet(Taken) /\ Cardinality(Taken) \in Nat
  /\ \A S \in SUBSET Slots : Cardinality(S) <= MaxGroup
<1>1. IsFiniteSet(Slots) /\ Cardinality(Slots) = MaxGroup
  BY GroupAssumption, FS_Interval DEF Slots
<1>. QED BY <1>1, FS_Subset, FS_CardinalityType DEF Taken

LEMMA FreeSlotIsMember == FreeSlot \in MemberType
  BY DEF FreeSlot, MemberType, Null, Pointer

\* A change of pointers alone, towards spawns of named members.
LEMMA NamesKept ==
  ASSUME GroupInv, UNCHANGED memberCount, DOMAIN spawns' \subseteq Ids, members' \in [Slots -> MemberType],
         \A i \in Slots : /\ members'[i].name = members[i].name
                          /\ \/ members'[i].spawn.at \in {members[i].spawn.at, "null", "unlisted", "freed"}
                             \/ members[i].name # NoMember
  PROVE  GroupInv'
<1>1. Taken' = Taken
  BY DEF Taken
<1>. QED BY <1>1 DEF GroupInv, TableInv, MembersCounted, Taken

LEMMA EmptyTable ==
  ASSUME members' = [i \in Slots |-> FreeSlot], memberCount' = 0,
         DOMAIN spawns' \subseteq Ids
  PROVE  GroupInv' /\ PointersFit'
<1>1. Taken' = {}
  BY DEF Taken, FreeSlot
<1>. QED BY <1>1, FS_EmptySet, FreeSlotIsMember
         DEF GroupInv, TableInv, MembersCounted, Taken, FreeSlot, Null, PointersFit

LEMMA SameGroup ==
  ASSUME GroupInv, UNCHANGED groupVars, DOMAIN spawns' \subseteq Ids
  PROVE  GroupInv'
  BY DEF groupVars, GroupInv, TableInv, MembersCounted

\* What a step is to keep: the count always, the pointers with the list's invariant.
Keeps == GroupInv' /\ (ListInv /\ PointersFit => PointersFit')

LEMMA AddMember ==
  ASSUME GroupInv, NEW name \in Players, addGroupMember(name), UNCHANGED spawns
  PROVE  Keeps
<1> USE DEF Keeps
<1>1. CASE UNCHANGED groupVars
  BY <1>1, SameGroup DEF GroupInv, groupVars, PointersFit
<1>2. CASE Named(NoMember) # {}
  <2> DEFINE k == First(Named(NoMember))
  <2>1. k \in Slots /\ members[k].name = NoMember
    BY <1>2, FirstIsOne DEF Named
  <2>2. PICK p \in Lookup(name) :
          /\ members' = [members EXCEPT ![k] = [name |-> name, spawn |-> p]]
          /\ memberCount' = Up(memberCount)
    BY <1>2 DEF addGroupMember
  <2>3. p \in Pointer
    <3>1. p = Null \/ \E id \in Ids : p = [at |-> "listed", id |-> id]
      BY DEF Lookup, Found, GroupInv
    <3>. QED BY <3>1 DEF Null, Pointer
  <2>4. name # NoMember
    BY GroupAssumption
  <2> HIDE DEF k
  <2>5. TableInv'
    BY <2>1, <2>2, <2>3, <2>4 DEF GroupInv, TableInv, MemberType
  <2>6. Taken' = Taken \cup {k} /\ k \notin Taken
    BY <2>1, <2>2, <2>4 DEF Taken, GroupInv, TableInv
  <2>7. Cardinality(Taken') = Cardinality(Taken) + 1 /\ Cardinality(Taken') <= MaxGroup
    BY <2>1, <2>6, TakenCount, FS_AddElement DEF Taken
  <2>8. memberCount' = (Cardinality(Taken) + 1) % Width
    BY <2>2 DEF Up, GroupInv, MembersCounted, Taken
  <2>9. Cardinality(Taken) + 1 \in 0..Width-1
    BY <2>7, TakenCount, GroupAssumption
  <2>10. memberCount' = Cardinality(Taken')
    BY <2>7, <2>8, <2>9, SmallMod
  <2>11. PointersFit => PointersFit'
    BY <2>1, <2>2 DEF PointersFit, Lookup, Found, Null, GroupInv, TableInv
  <2>. QED BY <2>5, <2>10, <2>11 DEF GroupInv, MembersCounted, Taken
<1>. QED BY <1>1, <1>2 DEF addGroupMember

LEMMA RemoveMember ==
  ASSUME GroupInv, NEW name \in Players, removeMember(name), UNCHANGED spawns
  PROVE  Keeps
<1> USE DEF Keeps
<1>1. CASE UNCHANGED groupVars
  BY <1>1, SameGroup DEF GroupInv, groupVars, PointersFit
<1>2. CASE Named(name) # {}
  <2> DEFINE k == First(Named(name))
  <2>1. k \in Slots /\ members[k].name = name /\ name # NoMember
    BY <1>2, FirstIsOne, GroupAssumption DEF Named
  <2>2. members' = [members EXCEPT ![k] = FreeSlot] /\ memberCount' = Down(memberCount)
    BY <1>2 DEF removeMember
  <2> HIDE DEF k
  <2>3. TableInv'
    BY <2>1, <2>2, FreeSlotIsMember DEF GroupInv, TableInv, FreeSlot, Null
  <2>4. Taken' = Taken \ {k} /\ k \in Taken
    BY <2>1, <2>2 DEF Taken, GroupInv, TableInv, FreeSlot
  <2>5. Cardinality(Taken') = Cardinality(Taken) - 1 /\ Cardinality(Taken') \in Nat
    BY <2>4, TakenCount, FS_RemoveElement, FS_CardinalityType
  <2>6. memberCount' = (Cardinality(Taken) - 1) % Width
    BY <2>2 DEF Down, GroupInv, MembersCounted, Taken
  <2>7. Cardinality(Taken) - 1 \in 0..Width-1
    BY <2>5, TakenCount, GroupAssumption DEF Taken
  <2>8. memberCount' = Cardinality(Taken')
    BY <2>5, <2>6, <2>7, SmallMod
  <2>9. PointersFit => PointersFit'
    <3>1. \A i \in Slots : members'[i] = members[i] \/ members'[i].spawn.at = "null"
      BY <2>1, <2>2 DEF FreeSlot, Null, GroupInv, TableInv
    <3>. QED BY <3>1 DEF PointersFit
  <2>. QED BY <2>3, <2>8, <2>9 DEF GroupInv, MembersCounted, Taken
<1>. QED BY <1>1, <1>2 DEF removeMember

LEMMA ClearedList ==
  ASSUME GroupInv, spawnsFreed, DOMAIN spawns' \subseteq Ids
  PROVE  GroupInv' /\ PointersFit'
<1>1. ASSUME NEW i \in Slots
      PROVE  /\ members'[i] \in MemberType /\ members'[i].name = members[i].name
             /\ members'[i].spawn.at \in {members[i].spawn.at, "freed"}
             /\ members'[i].spawn.at # "listed"
  BY DEF spawnsFreed, GroupInv, TableInv, MemberType, Pointer
<1>2. members' \in [Slots -> MemberType]
  BY <1>1 DEF spawnsFreed
<1>3. GroupInv'
  BY <1>1, <1>2, NamesKept DEF spawnsFreed
<1>. QED BY <1>1, <1>3 DEF PointersFit

\* A batch of living spawns; only nameless entries are replaced.
LEMMA AddedSpawns ==
  ASSUME GroupInv, NEW batch, DOMAIN batch \subseteq Ids,
         \A id \in DOMAIN batch : \E n \in AllNames : batch[id] = Living(n),
         addItems(batch), spawns' = Merged(batch, spawns),
         ListInv => \A id \in DOMAIN batch \cap DOMAIN spawns : spawns[id].name = NoName
  PROVE  Keeps
<1>1. \A id \in DOMAIN batch : isPlayer(batch[id]) => batch[id].name \in Players
  BY DEF isPlayer, Living
<1>2. ASSUME NEW i \in Slots
      PROVE  /\ members'[i] \in MemberType /\ members'[i].name = members[i].name
             /\ \/ members'[i] = members[i]
                \/ \E id \in DOMAIN batch : /\ members[i].name = batch[id].name
                                            /\ members[i].name # NoMember
                                            /\ members'[i].spawn = [at |-> "listed", id |-> id]
  <2> DEFINE mine(id) == i = First(Named(batch[id].name))
  <2>0. members[i] \in MemberType
    BY DEF GroupInv, TableInv
  <2>1. CASE \E id \in Hits(batch) : mine(id)
    <3> DEFINE h == CHOOSE id \in Hits(batch) : mine(id)
    <3>1. h \in Hits(batch) /\ mine(h)
      BY <2>1
    <3>2. members'[i] = [members[i] EXCEPT !.spawn = [at |-> "listed", id |-> h]]
      BY <2>1 DEF addItems
    <3> HIDE DEF h
    <3>3. h \in DOMAIN batch /\ isPlayer(batch[h]) /\ Named(batch[h].name) # {}
      BY <3>1 DEF Hits
    <3>4. i \in Named(batch[h].name)
      BY <3>1, <3>3, FirstIsOne DEF Named
    <3>5. members[i].name = batch[h].name /\ members[i].name # NoMember
      BY <1>1, <3>3, <3>4, GroupAssumption DEF Named
    <3>6. [at |-> "listed", id |-> h] \in Pointer
      BY <3>3 DEF Pointer
    <3>7. /\ members'[i] \in MemberType /\ members'[i].name = members[i].name
          /\ members'[i].spawn = [at |-> "listed", id |-> h]
      BY <2>0, <3>2, <3>6 DEF MemberType
    <3>. QED BY <3>3, <3>5, <3>7
  <2>2. CASE ~\E id \in Hits(batch) : mine(id)
    BY <2>0, <2>2 DEF addItems
  <2>. QED BY <2>1, <2>2
<1>3. members' \in [Slots -> MemberType] /\ UNCHANGED memberCount
  BY <1>2 DEF addItems
<1>4. DOMAIN spawns' \subseteq Ids
  BY DEF Merged, GroupInv
<1>5. GroupInv'
  BY <1>2, <1>3, <1>4, NamesKept
<1>6. ASSUME ListInv, PointersFit, NEW i \in Slots, members'[i].spawn.at = "listed"
      PROVE  /\ members'[i].spawn.id \in DOMAIN spawns'
             /\ spawns'[members'[i].spawn.id].name = members'[i].name
  <2> DEFINE j == members'[i].spawn.id
  <2>1. CASE members'[i] = members[i]
    <3>1. j \in DOMAIN spawns /\ spawns[j].name = members[i].name
      BY <1>6, <2>1 DEF PointersFit
    <3>2. members[i].name \in Players
      BY <1>6, <2>1 DEF GroupInv, TableInv, MemberType
    <3>3. j \notin DOMAIN batch
      BY <1>6, <3>1, <3>2, ShellAssumption
    <3>. QED BY <2>1, <3>1, <3>3 DEF Merged
  <2>2. CASE members'[i] # members[i]
    <3>1. PICK id \in DOMAIN batch : /\ members[i].name = batch[id].name
                                     /\ members'[i].spawn = [at |-> "listed", id |-> id]
      BY <1>2, <2>2
    <3>2. j = id /\ members'[i].name = members[i].name
      BY <1>2, <3>1
    <3>3. id \in DOMAIN spawns' /\ spawns'[id] = batch[id]
      BY DEF Merged
    <3>. QED BY <3>1, <3>2, <3>3
  <2>. QED BY <2>1, <2>2
<1>. QED BY <1>5, <1>6 DEF Keeps, PointersFit

LEMMA DeletedSpawn ==
  ASSUME GroupInv, NEW id, delItem(id), spawns' = Without(id)
  PROVE  Keeps
<1>1. /\ DOMAIN spawns' = DOMAIN spawns \ {id}
      /\ \A j \in DOMAIN spawns' : spawns'[j] = spawns[j]
  BY DEF Without, Restrict
<1>2. CASE id \notin DOMAIN spawns
  BY <1>1, <1>2, SameGroup DEF delItem, GroupInv, groupVars, PointersFit, Keeps
<1>3. CASE id \in DOMAIN spawns
  <2> DEFINE hit == isPlayer(spawns[id]) /\ Named(spawns[id].name) # {}
             table == IF hit THEN [members EXCEPT ![First(Named(spawns[id].name))].spawn = Null]
                      ELSE members
  <2>1. members' = Unlisted(table, id) /\ UNCHANGED memberCount
    BY <1>3 DEF delItem
  <2>2. ASSUME NEW i \in Slots
        PROVE  /\ table[i] \in MemberType /\ table[i].name = members[i].name
               /\ table[i].spawn \in {members[i].spawn, Null}
    <3> DEFINE k == First(Named(spawns[id].name))
    <3>1. members[i] \in MemberType /\ members \in [Slots -> MemberType] /\ Null \in Pointer
      BY DEF GroupInv, TableInv, Null, Pointer
    <3>2. table = members \/ table = [members EXCEPT ![k].spawn = Null]
      OBVIOUS
    <3> HIDE DEF k, table
    <3>3. table[i] = members[i] \/ table[i] = [members[i] EXCEPT !.spawn = Null]
      BY <3>1, <3>2
    <3>. QED BY <3>1, <3>3 DEF MemberType
  <2> HIDE DEF table
  <2>3. ASSUME NEW i \in Slots
        PROVE  /\ members'[i] \in MemberType /\ members'[i].name = members[i].name
               /\ members'[i].spawn.at \in {members[i].spawn.at, "null", "unlisted"}
               /\ members'[i].spawn.at = "listed" => /\ members'[i].spawn = members[i].spawn
                                                     /\ members'[i].spawn.id # id
    BY <2>1, <2>2 DEF Unlisted, MemberType, Pointer, Null
  <2>4. members' \in [Slots -> MemberType]
    BY <2>1, <2>3 DEF Unlisted
  <2>5. GroupInv'
    BY <1>1, <2>1, <2>3, <2>4, NamesKept DEF GroupInv
  <2>6. PointersFit => PointersFit'
    BY <1>1, <2>3 DEF PointersFit
  <2>. QED BY <2>5, <2>6 DEF Keeps
<1>. QED BY <1>2, <1>3

\* A spawn that becomes a corpse keeps its name.
LEMMA KilledSpawn ==
  ASSUME GroupInv, NEW id, killItem(id), DOMAIN spawns' = DOMAIN spawns,
         ListInv => \A j \in DOMAIN spawns : spawns'[j].name = spawns[j].name
  PROVE  Keeps
<1>1. ASSUME NEW i \in Slots
      PROVE  /\ members'[i] \in MemberType /\ members'[i].name = members[i].name
             /\ members'[i].spawn \in {members[i].spawn, Null}
  BY DEF killItem, groupVars, GroupInv, TableInv, MemberType, Null, Pointer
<1>2. members' \in [Slots -> MemberType] /\ UNCHANGED memberCount
  BY <1>1 DEF killItem, groupVars, GroupInv, TableInv
<1>3. GroupInv'
  BY <1>1, <1>2, NamesKept DEF GroupInv, Null
<1>4. ListInv /\ PointersFit => PointersFit'
  BY <1>1 DEF PointersFit, Null
<1>. QED BY <1>3, <1>4 DEF Keeps

\* Entries are only added, or a nameless one gets a name.
LEMMA QuietList ==
  ASSUME GroupInv, UNCHANGED groupVars, DOMAIN spawns \subseteq DOMAIN spawns',
         DOMAIN spawns' \subseteq Ids,
         ListInv => \A id \in DOMAIN spawns : \/ spawns'[id].name = spawns[id].name
                                              \/ spawns[id].name = NoName
  PROVE  Keeps
<1>1. ASSUME ListInv, PointersFit, NEW i \in Slots, members[i].spawn.at = "listed"
      PROVE  LET j == members[i].spawn.id
             IN  j \in DOMAIN spawns' /\ spawns'[j].name = members[i].name
  <2> DEFINE j == members[i].spawn.id
  <2>1. j \in DOMAIN spawns /\ spawns[j].name = members[i].name
    BY <1>1 DEF PointersFit
  <2>2. members[i].name \in Players
    BY <1>1 DEF GroupInv, TableInv, MemberType
  <2>. QED BY <1>1, <2>1, <2>2, ShellAssumption
<1>2. GroupInv'
  BY SameGroup
<1>. QED BY <1>1, <1>2 DEF Keeps, PointersFit, groupVars

LEMMA SameGroupAndList ==
  ASSUME GroupInv, UNCHANGED <<groupVars, spawns>>
  PROVE  Keeps
  BY QuietList DEF GroupInv

LEMMA LearnsGroup ==
  ASSUME GroupInv, NEW id, LearnsID(id)
  PROVE  Keeps
<1>1. CASE id = playerID
  BY <1>1, SameGroupAndList DEF LearnsID, setPlayerID
<1>2. CASE id # playerID
  BY <1>2, DeletedSpawn DEF LearnsID, setPlayerID
<1>. QED BY <1>1, <1>2

LEMMA MovedGroup ==
  ASSUME GroupInv, NEW id \in Ids, Moved(id)
  PROVE  Keeps
<1>1. /\ DOMAIN spawns \subseteq DOMAIN spawns' /\ DOMAIN spawns' \subseteq Ids
      /\ \A j \in DOMAIN spawns : spawns'[j] = spawns[j]
      /\ UNCHANGED groupVars
  BY DEF Moved, updateSpawn, CreatesUnknown, Merged, Only, GroupInv
<1>. QED BY <1>1, QuietList

LEMMA GroupZoneStep ==
  ASSUME GroupInv, ZonePackets
  PROVE  Keeps
<1>1. CASE UNCHANGED <<groupVars, spawns>>
  BY <1>1, SameGroupAndList
<1>2. CASE spawnsFreed /\ spawns' = NoSpawns
  BY <1>2, ClearedList DEF NoSpawns, Keeps
<1>3. CASE AskZone \/ EnterZone \/ NewZone
  BY <1>1, <1>3 DEF AskZone, EnterZone, NewZone, Missed, DaemonUnchanged, shellVars
<1>4. CASE GrantZone \/ RefuseZone
  BY <1>1, <1>2, <1>4 DEF GrantZone, RefuseZone, Missed, DaemonUnchanged, shellVars,
                          ServerZoneChange, onZoneChanged, clear
<1>5. CASE SendProfile \/ ResendProfile
  BY <1>1, <1>2, <1>5 DEF SendProfile, ResendProfile, Missed, DaemonUnchanged, shellVars,
                          PlayerProfile, onZoneBegin, clear
<1>6. CASE OwnZoneEntry
  BY <1>1, <1>6, LearnsGroup DEF OwnZoneEntry, Missed, DaemonUnchanged, shellVars
<1>. QED BY <1>3, <1>4, <1>5, <1>6 DEF ZonePackets

LEMMA GroupSpawnStep ==
  ASSUME GroupInv, own \in Ids, SpawnPackets
  PROVE  Keeps
<1> USE DEF Rest, InGame, InZone
<1>0. ASSUME ListInv, InZone, NEW id \in NewIds \cap DOMAIN spawns
      PROVE  spawns[id].name = NoName
  BY <1>0 DEF ListInv, Known, NewIds
<1>1. CASE ZoneSpawns
  <2>1. PICK some \in SUBSET NewIds, name \in [NewIds -> Announceable] :
          LET batch == [id \in some |-> Living(name[id])]
          IN  addItems(batch) /\ zoneSpawns(batch)
    BY <1>1 DEF ZoneSpawns
  <2> DEFINE batch == [id \in some |-> Living(name[id])]
  <2>2. /\ DOMAIN batch \subseteq NewIds
        /\ \A id \in DOMAIN batch : \E n \in AllNames : batch[id] = Living(n)
    BY DEF Announceable
  <2>3. addItems(batch) /\ spawns' = Merged(batch, spawns)
    BY <2>1 DEF zoneSpawns, newSpawns
  <2> HIDE DEF batch
  <2>4. InZone /\ NewIds \subseteq Ids
    BY <1>1 DEF ZoneSpawns, NewIds
  <2>. QED BY <1>0, <2>2, <2>3, <2>4, AddedSpawns
<1>2. ASSUME NEW id \in Ids, NEW n \in AllNames, NewSpawn(id, n) \/ PlayerEnters(id, n)
      PROVE  Keeps
  <2>1. InZone /\ id \in NewIds
    BY <1>2 DEF NewSpawn, PlayerEnters
  <2>2. CASE UNCHANGED <<groupVars, spawns>>
    BY <2>2, SameGroupAndList
  <2>3. CASE addItems(Only(id, Living(n))) /\ spawns' = Merged(Only(id, Living(n)), spawns)
    <3> DEFINE batch == Only(id, Living(n))
    <3>1. DOMAIN batch = {id} /\ batch[id] = Living(n)
      BY DEF Only
    <3> HIDE DEF batch
    <3>. QED BY <1>0, <2>1, <2>3, <3>1, AddedSpawns DEF batch
  <2>4. CASE UNCHANGED groupVars /\ id \in DOMAIN spawns /\ spawns' = [spawns EXCEPT ![id] = Living(n)]
    BY <1>0, <2>1, <2>4, QuietList DEF GroupInv
  <2>. QED BY <1>2, <2>2, <2>3, <2>4
           DEF NewSpawn, PlayerEnters, newSpawn, newSpawns, zoneEntry, shellVars
<1>3. ASSUME NEW id \in Ids, Despawn(id)
      PROVE  Keeps
  BY <1>3, DeletedSpawn DEF Despawn, deleteSpawn
<1>4. ASSUME NEW id \in Ids, Death(id)
      PROVE  Keeps
  <2>1. CASE id = playerID
    BY <1>4, <2>1, SameGroupAndList DEF Death, killSpawn
  <2>2. CASE id # playerID
    <3>1. killItem(id) /\ DOMAIN spawns' = DOMAIN spawns
      BY <1>4, <2>2 DEF Death, killSpawn
    <3>2. ListInv => \A j \in DOMAIN spawns : spawns'[j].name = spawns[j].name
      BY <1>4, <2>2, CorpseIsSpawn DEF Death, killSpawn, ListInv, Spawns
    <3>. QED BY <3>1, <3>2, KilledSpawn
  <2>. QED BY <2>1, <2>2
<1>5. ASSUME NEW id \in Ids, Move(id) \/ LateMove(id)
      PROVE  Keeps
  BY <1>5, MovedGroup DEF Move, LateMove
<1>6. CASE OwnMove \/ ConsiderSelf
  BY <1>6, MovedGroup, LearnsGroup DEF OwnMove, ConsiderSelf
<1>. QED BY <1>1, <1>2, <1>3, <1>4, <1>5, <1>6 DEF SpawnPackets

LEMMA GroupPacketStep ==
  ASSUME GroupInv, GroupPackets
  PROVE  Keeps
<1>1. UNCHANGED spawns
  BY DEF GroupPackets, GroupDisband, GroupFollow, GroupLeave, Elsewhere, shellVars
<1>2. ASSUME NEW n \in Players, GroupFollow(n) \/ GroupLeave(n)
      PROVE  Keeps
  BY <1>1, <1>2, AddMember, RemoveMember DEF GroupFollow, GroupLeave
<1>3. CASE GroupDisband
  <2>1. CASE selfDead
    BY <1>1, <1>3, <2>1, SameGroupAndList DEF GroupDisband
  <2>2. CASE ~selfDead
    BY <1>1, <1>3, <2>2, EmptyTable DEF GroupDisband, disband, GroupInv, Keeps
  <2>. QED BY <2>1, <2>2
<1>. QED BY <1>2, <1>3 DEF GroupPackets

LEMMA OwnIsId ==
  ASSUME own \in Ids, [RestartNext]_allVars
  PROVE  own' \in Ids
<1>1. CASE Next
  BY <1>1 DEF Next, ZonePackets, AskZone, GrantZone, RefuseZone, EnterZone, SendProfile, ResendProfile,
       OwnZoneEntry, NewZone, SpawnPackets, ZoneSpawns, OwnMove, ConsiderSelf, Despawn, Death, Move,
       LateMove, NewSpawn, PlayerEnters, GroupPackets, GroupDisband, GroupFollow, GroupLeave,
       Rest, Elsewhere, gameVars
<1>2. CASE Restart
  BY <1>2 DEF Restart, RestartSoon, RestartLater, gameVars
<1>3. CASE SaveCheckpoint \/ UNCHANGED allVars
  BY <1>3 DEF SaveCheckpoint, allVars, vars, gameVars
<1>. QED BY <1>1, <1>2, <1>3, PacketIsNext DEF RestartNext

LEMMA GroupStep ==
  ASSUME GroupInv, own \in Ids, [RestartNext]_allVars
  PROVE  Keeps
<1>1. CASE Packet
  BY <1>1, PacketIsNext, GroupZoneStep, GroupSpawnStep, GroupPacketStep DEF Next
<1>2. CASE Restart
  BY <1>2, EmptyTable DEF Restart, RestartSoon, RestartLater, Starts, NoSpawns, Keeps
<1>3. CASE SaveCheckpoint \/ UNCHANGED allVars
  BY <1>3, SameGroupAndList DEF SaveCheckpoint, allVars, vars, shellVars
<1>. QED BY <1>1, <1>2, <1>3 DEF RestartNext

LEMMA GroupInitially == RestartInit => GroupInv /\ own \in Ids /\ PointersFit
<1> SUFFICES ASSUME RestartInit PROVE GroupInv /\ own \in Ids /\ PointersFit
  OBVIOUS
<1>1. /\ members = [i \in Slots |-> FreeSlot] /\ memberCount = 0
      /\ DOMAIN spawns = {} /\ own \in Ids
  BY DEF RestartInit, Init, GroupInit, NoSpawns
<1>2. Taken = {}
  BY <1>1 DEF Taken, FreeSlot
<1>. QED BY <1>1, <1>2, FS_EmptySet, FreeSlotIsMember
         DEF GroupInv, TableInv, MembersCounted, Taken, FreeSlot, Null, PointersFit

(* The count that the experience bonus is computed from is the number of   *)
(* taken slots, however members join (a full table too), leave and die,    *)
(* whatever packets are missed, and its size_t never wraps around.         *)
THEOREM MembersStayCounted == RestartSpec => []MembersCounted
<1> DEFINE Inv == GroupInv /\ own \in Ids
<1>1. RestartInit => Inv
  BY GroupInitially
<1>2. Inv /\ [RestartNext]_allVars => Inv'
  BY GroupStep, OwnIsId DEF Keeps
<1>3. Inv => MembersCounted
  BY DEF GroupInv
<1>. QED BY <1>1, <1>2, <1>3, PTL DEF RestartSpec

(* A member's pointer into the spawn list is to a listed spawn of its      *)
(* name: delItem and clear reach it before the list changes, a corpse      *)
(* keeps its name, and a name is given only to a spawn that had none,      *)
(* which no member points to; position updates may come late.              *)
THEOREM PointersStayFit ==
  ASSUME ZoneAssumptions
  PROVE  RestartSpec => []PointersFit
<1> DEFINE Inv == GroupInv /\ own \in Ids /\ PointersFit
<1>1. RestartInit => Inv
  BY GroupInitially
<1>2. Inv /\ ListInv /\ [RestartNext]_allVars => Inv'
  BY GroupStep, OwnIsId DEF Keeps
<1>. QED BY <1>1, <1>2, ListIsKept, PTL DEF RestartSpec
=============================================================================
