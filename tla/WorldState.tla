------------------------------ MODULE WorldState ------------------------------
(***************************************************************************)
(* The daemon's picture of the game: ZoneMgr, SpawnShell and GroupMgr      *)
(* wired to each other by direct signals, fed by the packets of one game   *)
(* session, and what a streaming client is told of it.                     *)
(*                                                                         *)
(* The game is the environment: a zone with the spawns the server has      *)
(* announced and not withdrawn, the player's own id in it, the group, and  *)
(* the packets of a change of zone in the order of the table in            *)
(* zonemgr.cpp.  Every step of the game is a packet that the capture       *)
(* delivers at once, handled with all its signals by one event; a packet   *)
(* of the change of zone may also be missed.                               *)
(***************************************************************************)
EXTENDS GroupMgr

CONSTANTS MaxLost,        \* bound: packets of a change of zone missed
          Lossy,          \* which of them can be missed
          LateUpdates     \* a position update may arrive after the deletion

VARIABLES phase,      \* of the game's change of zone
          realZone, target, real, own, realGroup,
          gone,       \* ids deleted, with a position update still under way
          lost, profiled,
          view,       \* client: names of the spawns by id
          viewZone, viewMap,  \* client: the zone's name and its map geometry
          groupView   \* client: names of the group, as last told
gameVars == <<phase, realZone, target, real, own, realGroup, gone>>
clientVars == <<view, viewZone, viewMap, groupView>>
vars == <<zoneVars, shellVars, groupVars, gameVars, lost, profiled, clientVars>>

Phases == {"playing", "asked", "left", "entering", "profiled", "self"}
NewIds == Ids \ (DOMAIN real \cup {own})
AllNames == Players \cup Mobs
InUse == {real[id].name: id \in DOMAIN real}
Announceable == {n \in AllNames: n \in Mobs \/ n \notin InUse}

WorldTypeOK ==
    /\ ShellTypeOK /\ GroupTypeOK
    /\ phase \in Phases
    /\ realZone \in Zones /\ target \in Zones
    /\ DOMAIN real \subseteq Ids /\ \A id \in DOMAIN real: real[id] \in Spawn
    /\ own \in Ids
    /\ realGroup \subseteq Players
    /\ gone \subseteq Ids
    /\ lost \in 0..MaxLost
    /\ profiled \in BOOLEAN
    /\ DOMAIN view \subseteq Ids /\ \A id \in DOMAIN view: view[id] \in AllNames \cup {NoName}
    /\ {viewZone, viewMap} \subseteq Zones \cup {Unknown}
    /\ groupView \subseteq Players

NamesOf(list) == [id \in DOMAIN list |-> list[id].name]

\* The daemon starts in the middle of a session: a spawn may already be there.
Init ==
    /\ GroupInit
    /\ deadSpawnID = NoDead /\ cntDead = 0 /\ posDead = 0 /\ selfDead = FALSE
    /\ spawns = NoSpawns
    /\ ZoneInit /\ playerID = 0 /\ players = {0}
    /\ phase = "playing" /\ realZone \in Zones /\ target = realZone
    /\ own \in Ids
    /\ \/ real = NoSpawns
       \/ \E id \in Ids \ {own}, n \in AllNames: real = Only(id, Living(n))
    /\ realGroup = {} /\ gone = {}
    /\ lost = 0 /\ profiled = FALSE
    /\ view = NoSpawns /\ groupView = {} /\ viewZone = shortName /\ viewMap = loadedZone

DaemonUnchanged == UNCHANGED <<zoneVars, shellVars, groupVars, clientVars>>
Heard == UNCHANGED lost
Missed(step) == /\ step \in Lossy /\ lost < MaxLost
                /\ lost' = lost + 1
                /\ DaemonUnchanged

-----------------------------------------------------------------------------
\* Change of zone.

AskZone ==
    /\ phase = "playing"
    /\ phase' = "asked" /\ target' \in Zones
    /\ profiled' = FALSE
    /\ UNCHANGED <<realZone, real, own, realGroup, gone>>
    /\ \/ Missed("ask")
       \/ Heard /\ zoneChange(target') /\ UNCHANGED <<shellVars, groupVars, clientVars>>

\* SessionAdapter::onZoneBegin, which onZoneChanged calls as well.  It runs after
\* the slots of SpawnShell and DaemonApp; the client drops what it showed.
\* Mutant: the client is told the new zone and keeps the old one's spawns.
ZoneChangedEnvelopeKeeps == viewZone' = shortName' /\ viewMap' = loadedZone' /\ UNCHANGED view
ZoneChangedEnvelope == view' = NoSpawns /\ viewZone' = shortName' /\ viewMap' = loadedZone'

\* The server's answer, a refusal included: zoneChange does not read success.
ServerZoneChange ==
    /\ zoneChange(target)
    /\ onZoneChanged /\ UNCHANGED selfDead
    /\ spawnsFreed
    /\ ZoneChangedEnvelope /\ UNCHANGED groupView

GrantZone ==
    /\ phase = "asked" /\ phase' = "left"
    /\ UNCHANGED <<realZone, target, real, own, realGroup, gone, profiled>>
    /\ Missed("grant") \/ (Heard /\ ServerZoneChange)

RefuseZone ==
    /\ phase = "asked" /\ phase' = "playing" /\ target' = realZone
    /\ UNCHANGED <<realZone, real, own, realGroup, gone, profiled>>
    /\ Heard /\ ServerZoneChange

EnterZone ==
    /\ phase = "left" /\ phase' = "entering"
    /\ realZone' = target /\ real' = NoSpawns /\ own' \in Ids /\ gone' = {}
    /\ UNCHANGED <<target, realGroup, profiled>>
    /\ \/ Missed("entry")
       \/ Heard /\ zoneEntryClient /\ UNCHANGED <<shellVars, groupVars, clientVars>>

\* OP_PlayerProfile and all that hangs on it: zoneBegin(name) if it is emitted,
\* then Player::player.
PlayerProfile ==
    /\ zonePlayer(realZone)
    /\ selfDead' = FALSE
    /\ IF BeginsZone(realZone)
       THEN onZoneBegin /\ spawnsFreed /\ ZoneChangedEnvelope
       ELSE UNCHANGED <<spawns, deadVars, playerID, players, groupVars, view, viewZone, viewMap>>
    /\ UNCHANGED groupView

SendProfile ==
    /\ phase = "entering" /\ phase' = "profiled"
    /\ UNCHANGED <<realZone, target, real, own, realGroup, gone>>
    /\ \/ Missed("profile") /\ UNCHANGED profiled
       \/ Heard /\ profiled' = TRUE /\ PlayerProfile

ResendProfile ==
    /\ phase \in {"playing", "asked"}
    /\ profiled' = (phase = "playing")
    /\ PlayerProfile
    /\ UNCHANGED <<gameVars, lost>>

\* The player's id changes: the client gets a new snapshot.
LearnsID(id) ==
    /\ setPlayerID(id)
    /\ IF id = playerID THEN UNCHANGED <<groupVars, view, viewZone, viewMap>>
       ELSE /\ delItem(id)
            /\ view' = NamesOf(spawns') /\ viewZone' = shortName /\ viewMap' = loadedZone
    /\ UNCHANGED <<zoneVars, groupView>>

OwnZoneEntry ==
    /\ phase = "profiled" /\ phase' = "self"
    /\ UNCHANGED <<realZone, target, real, own, realGroup, gone, profiled>>
    /\ \/ Missed("self")
       \/ Heard /\ LearnsID(own) /\ selfDead' = FALSE

NewZone ==
    /\ phase = "self" /\ phase' = "playing"
    /\ UNCHANGED <<realZone, target, real, own, realGroup, gone, profiled, lost>>
    /\ zoneNew(realZone) /\ UNCHANGED <<shellVars, groupVars, clientVars>>

-----------------------------------------------------------------------------
\* Packets of the zone the player is in, and of the one it is leaving.

InGame == phase \in {"playing", "asked", "left"}
Rest == UNCHANGED <<phase, realZone, target, own, realGroup, lost, profiled,
                    viewZone, viewMap, groupView>>

ZoneSpawns ==
    /\ phase = "playing"
    /\ \E some \in SUBSET NewIds, name \in [NewIds -> Announceable]:
         LET batch == [id \in some |-> Living(name[id])]
         IN /\ \A i, j \in some: name[i] = name[j] => i = j \/ name[i] \in Mobs
            /\ real' = Merged(batch, real) /\ gone' = gone \ some
            /\ zoneSpawns(batch) /\ addItems(batch)
            /\ view' = Merged(NamesOf(batch), view)
    /\ UNCHANGED zoneVars /\ Rest

NewSpawn(id, name) ==
    /\ InGame /\ id \in NewIds /\ name \in Announceable
    /\ real' = Merged(Only(id, Living(name)), real) /\ gone' = gone \ {id}
    /\ newSpawn(id, Living(name))
    /\ IF zoning THEN UNCHANGED <<groupVars, view>>
       ELSE addItems(Only(id, Living(name))) /\ view' = Merged(Only(id, name), view)
    /\ UNCHANGED zoneVars /\ Rest

\* OP_ZoneEntry for another player.
PlayerEnters(id, name) ==
    /\ InGame /\ id \in NewIds /\ name \in Announceable \cap Players
    /\ real' = Merged(Only(id, Living(name)), real) /\ gone' = gone \ {id}
    /\ zoneEntry(id, Living(name))
    /\ IF id \in DOMAIN spawns THEN UNCHANGED <<groupVars, view>>
       ELSE addItems(Only(id, Living(name))) /\ view' = Merged(Only(id, name), view)
    /\ UNCHANGED zoneVars /\ Rest

Despawn(id) ==
    /\ InGame /\ id \in DOMAIN real
    /\ real' = Restrict(real, DOMAIN real \ {id})
    /\ gone' = IF LateUpdates THEN gone \cup {id} ELSE gone
    /\ deleteSpawn(id) /\ delItem(id)
    /\ view' = Restrict(view, DOMAIN view \ {id})
    /\ UNCHANGED zoneVars /\ Rest

Death(id) ==
    /\ InGame
    /\ \/ id \in DOMAIN real /\ real' = [real EXCEPT ![id] = Corpse(@)]
       \/ id = own /\ UNCHANGED real
    /\ killSpawn(id)
    /\ IF id = playerID THEN UNCHANGED groupVars ELSE killItem(id)
    /\ UNCHANGED <<zoneVars, gone, view>> /\ Rest

\* updateSpawn with its addItem; the unknown spawn is nobody's group member.
Moved(id) ==
    /\ updateSpawn(id)
    /\ view' = IF CreatesUnknown(id) THEN Merged(Only(id, NoName), view) ELSE view
    /\ UNCHANGED <<zoneVars, groupVars>>

\* A position from the server, or one the client sends for what it steers.
Move(id) ==
    /\ InGame /\ id \in DOMAIN real \cup {own}
    /\ Moved(id)
    /\ UNCHANGED <<real, gone>> /\ Rest

LateMove(id) ==
    /\ InGame /\ id \in gone
    /\ gone' = gone \ {id}
    /\ Moved(id)
    /\ UNCHANGED real /\ Rest

\* The client's own movement.
OwnMove ==
    /\ InGame
    /\ IF playerID = 0 THEN LearnsID(own) /\ UNCHANGED selfDead ELSE Moved(own) /\ UNCHANGED <<viewZone, viewMap, groupView>>
    /\ UNCHANGED <<phase, realZone, target, real, own, realGroup, gone, lost, profiled>>

ConsiderSelf ==
    /\ InGame
    /\ LearnsID(own) /\ UNCHANGED selfDead
    /\ UNCHANGED <<phase, realZone, target, real, own, realGroup, gone, lost, profiled>>

-----------------------------------------------------------------------------
\* Group packets, at any time.

Elsewhere == UNCHANGED <<zoneVars, shellVars, phase, realZone, target, real, own, gone,
                         lost, profiled, view, viewZone, viewMap>>
NamesAfter == {members'[i].name: i \in Slots} \ {NoMember}

GroupFollow(name) ==
    /\ name \in Players \ realGroup /\ Cardinality(realGroup) < MaxGroup
    /\ realGroup' = realGroup \cup {name}
    /\ addGroupMember(name)
    /\ groupView' = IF members' = members THEN groupView ELSE NamesAfter
    /\ Elsewhere

\* removed() is emitted before the slot is cleared, and the adapter reads the
\* table in its slot.
GroupLeave(name) ==
    /\ name \in realGroup
    /\ realGroup' = realGroup \ {name}
    /\ removeMember(name)
    /\ groupView' = IF name \in Names THEN Names ELSE groupView
    /\ Elsewhere

\* The player's own name is compared with the name it bears at the moment.
GroupDisband ==
    /\ realGroup # {} /\ realGroup' = {}
    /\ IF selfDead THEN UNCHANGED <<groupVars, groupView>>
       ELSE disband /\ groupView' = {}
    /\ Elsewhere

ZonePackets == AskZone \/ GrantZone \/ RefuseZone \/ EnterZone \/ SendProfile
               \/ ResendProfile \/ OwnZoneEntry \/ NewZone
SpawnPackets == \/ ZoneSpawns \/ OwnMove \/ ConsiderSelf
                \/ \E id \in Ids: Despawn(id) \/ Death(id) \/ Move(id) \/ LateMove(id)
                \/ \E id \in Ids, n \in AllNames: NewSpawn(id, n) \/ PlayerEnters(id, n)
GroupPackets == \/ GroupDisband
                \/ \E n \in Players: GroupFollow(n) \/ GroupLeave(n)
Next == ZonePackets \/ SpawnPackets \/ GroupPackets
Spec == Init /\ [][Next]_vars

-----------------------------------------------------------------------------
Settled == phase = "playing" /\ profiled

\* Once the profile of a zone has been handled, the spawn list holds nothing that
\* the server has not announced in that zone or has withdrawn, and what it knows
\* by name it knows by its right name: whatever came while the player was between
\* zones is gone (zonePlayer's zoneBegin, SpawnShell::clear, the isZoning guards).
NoGhosts ==
    Settled => /\ DOMAIN spawns \subseteq DOMAIN real \cup {own}
               /\ \A id \in DOMAIN spawns \cap DOMAIN real:
                    spawns[id].name \in {NoName, real[id].name}

\* Once the profile of a zone has been handled, that zone's map and filters are
\* loaded and the client has the zone's name and map, also after a zone's name was
\* wrong, unknown or missed in between.
LoadedZoneIsCurrent ==
    Settled => /\ loadedZone = realZone /\ shortName = realZone
               /\ viewZone = realZone /\ viewMap = realZone

\* What the client shows is the spawn list: the same ids, and the same names but
\* for the name a corpse takes, which the client is not told.
MirrorIsExact ==
    /\ DOMAIN view = DOMAIN spawns
    /\ \A id \in DOMAIN spawns: view[id] = spawns[id].name

\* The member count is the number of taken slots, however members join, leave,
\* join a full table or are disbanded; the experience bonus is computed from it.
MembersCounted == memberCount = Cardinality({i \in Slots: members[i].name # NoMember})

\* A pointer to a spawn in the list is to a player of the member's name, or to
\* what is left of it.
PointersFit ==
    \A i \in Slots: LET p == members[i].spawn IN
      p.at = "listed" => /\ p.id \in DOMAIN spawns
                         /\ spawns[p.id].name = members[i].name

\* group.cpp:68: "SpawnShell will fire delItem on the old zone's spawns (clearing
\* stale Spawn pointers in m_members)".
NoDanglingMember == \A i \in Slots: members[i].spawn.at # "freed"

\* Not so today: removed() is emitted before the slot is cleared.
\* sessionadapter.h:119: "Re-emits the full group state on any GroupMgr add/remove/clear."
GroupViewIsCurrent == groupView = Names

\* Not so today: until the ring is full the newest deletion is not searched.
\* spawnshell.cpp:797: "if it was deleted, shouldn't see new position updates"; a
\* spawn deleted in this zone does not come back by an update that was late.
NoRevival == Settled => DOMAIN spawns \subseteq DOMAIN real \cup {own}
=============================================================================
