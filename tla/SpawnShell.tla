------------------------------ MODULE SpawnShell ------------------------------
(***************************************************************************)
(* The spawn list: the spawns of the zone by id, the ring of recently      *)
(* deleted ids, and the player's own id and list entry (SpawnShell and the *)
(* part of Player it is wired to).  Ground items and doors have maps and   *)
(* handlers of the same form and are left out; a spawn is its name and its *)
(* kind, positions and hit points are not kept.                            *)
(***************************************************************************)
EXTENDS ZoneMgr, Naturals, Functions

CONSTANTS Ids,        \* spawn ids the server hands out
          Players,    \* names of other players
          Mobs,       \* names of other spawns
          NoName,     \* the name of a spawn known only by its position
          MaxDead     \* MAX_DEAD_SPAWNIDS, 50 in the code
ASSUME ShellAssumption == /\ 0 \notin Ids
                          /\ MaxDead \in Nat \ {0}
                          /\ NoName \notin Players \cup Mobs

VARIABLES spawns,       \* m_spawns
          deadSpawnID,  \* m_deadSpawnID, 0 where an entry is free
          cntDead, posDead,
          playerID,     \* Player::id(), 0 while it is not known
          players,      \* keys of m_players, every value is the player
          selfDead      \* the player bears its corpse's name and kind
shellVars == <<spawns, deadSpawnID, cntDead, posDead, playerID, players, selfDead>>
deadVars == <<deadSpawnID, cntDead, posDead>>

Kinds == {"player", "npc", "pc_corpse", "npc_corpse", "unknown"}
Spawn == [name: Players \cup Mobs \cup {NoName}, npc: Kinds]
Living(name) == [name |-> name, npc |-> IF name \in Players THEN "player" ELSE "npc"]
UnknownSpawn == [name |-> NoName, npc |-> "unknown"]
Corpse(s) == [s EXCEPT !.npc = IF s.npc \in {"player", "pc_corpse"}
                               THEN "pc_corpse" ELSE "npc_corpse"]
isPlayer(s) == s.npc = "player"

ShellTypeOK ==
    /\ ZoneTypeOK
    /\ DOMAIN spawns \subseteq Ids
    /\ \A id \in DOMAIN spawns: spawns[id] \in Spawn
    /\ deadSpawnID \in [0..MaxDead-1 -> Ids \cup {0}]
    /\ cntDead \in 0..MaxDead
    /\ posDead \in 0..MaxDead-1
    /\ playerID \in Ids \cup {0}
    /\ players \subseteq Ids \cup {0}
    /\ selfDead \in BOOLEAN

NoSpawns == [id \in {} |-> UnknownSpawn]
\* A list of one entry, and a list with the entries of a batch put into it.
Only(id, s) == [i \in {id} |-> s]
Merged(batch, list) == [id \in DOMAIN batch \cup DOMAIN list |->
                          IF id \in DOMAIN batch THEN batch[id] ELSE list[id]]
NoDead == [i \in 0..MaxDead-1 |-> 0]

ShellInit ==
    /\ spawns = NoSpawns
    /\ deadSpawnID = NoDead /\ cntDead = 0 /\ posDead = 0
    /\ playerID = 0 /\ players = {0} /\ selfDead = FALSE

\* SpawnShell::clear, the first slot of zoneBegin(name) and zoneChanged(name).
clear ==
    /\ spawns' = NoSpawns
    /\ deadSpawnID' = NoDead /\ cntDead' = 0 /\ posDead' = 0
    /\ players' = {0}

\* zoneChanged also resets the Player object; both reactions are in slot order.
onZoneBegin == clear /\ UNCHANGED playerID
onZoneChanged == clear /\ playerID' = 0

\* The entries the two searches of the ring look at.
Searched(id) == {i \in 0..MaxDead-1: i < cntDead /\ deadSpawnID[i] = id}

Without(id) == Restrict(spawns, DOMAIN spawns \ {id})

\* newSpawn(const spawnStruct&) for every spawn of a batch.
newSpawns(batch) ==
    /\ spawns' = Merged(batch, spawns)
    /\ deadSpawnID' = [i \in 0..MaxDead-1 |->
                         IF i < cntDead /\ deadSpawnID[i] \in DOMAIN batch
                         THEN 0 ELSE deadSpawnID[i]]
    /\ UNCHANGED <<cntDead, posDead, playerID, players, selfDead>>

\* The NewSpawn packet is dropped while zoning, the bulk of a zone's spawns is not.
newSpawn(id, s) == IF zoning THEN UNCHANGED shellVars ELSE newSpawns(Only(id, s))
zoneSpawns(batch) == newSpawns(batch)

\* zoneEntry for another player: an entry that exists is updated in place.
zoneEntry(id, s) ==
    IF id \in DOMAIN spawns
    THEN /\ spawns' = [spawns EXCEPT ![id] = s]
         /\ UNCHANGED <<deadVars, playerID, players, selfDead>>
    ELSE newSpawns(Only(id, s))

\* Whether a position update for id makes a spawn of its own.
CreatesUnknown(id) == /\ ~zoning
                      /\ id # playerID
                      /\ id \notin DOMAIN spawns
                      /\ Searched(id) = {}
updateSpawn(id) ==
    /\ spawns' = IF CreatesUnknown(id) THEN Merged(Only(id, UnknownSpawn), spawns) ELSE spawns
    /\ deadSpawnID' =
         IF zoning \/ id = playerID \/ id \in DOMAIN spawns \/ Searched(id) = {}
         THEN deadSpawnID
         ELSE [deadSpawnID EXCEPT ![CHOOSE i \in Searched(id): \A j \in Searched(id): i <= j] = 0]
    /\ UNCHANGED <<cntDead, posDead, playerID, players, selfDead>>

NextPos == IF posDead < MaxDead - 1 THEN posDead + 1 ELSE 0
\* Mutant: a deleted spawn stays in the list.
deleteSpawnKeeps(id) ==
    /\ posDead' = NextPos
    /\ cntDead' = IF cntDead < MaxDead THEN cntDead + 1 ELSE cntDead
    /\ deadSpawnID' = [deadSpawnID EXCEPT ![NextPos] = id]
    /\ UNCHANGED <<spawns, playerID, players, selfDead>>
deleteSpawn(id) ==
    /\ posDead' = NextPos
    /\ cntDead' = IF cntDead < MaxDead THEN cntDead + 1 ELSE cntDead
    /\ deadSpawnID' = [deadSpawnID EXCEPT ![NextPos] = id]
    /\ spawns' = Without(id)
    /\ UNCHANGED <<playerID, players, selfDead>>

killSpawn(id) ==
    /\ IF id = playerID
       THEN selfDead' = TRUE /\ UNCHANGED spawns
       ELSE /\ spawns' = IF id \in DOMAIN spawns
                         THEN [spawns EXCEPT ![id] = Corpse(@)] ELSE spawns
            /\ UNCHANGED selfDead
    /\ UNCHANGED <<deadVars, playerID, players>>

\* Mutant: an id, once known, is not changed.
setPlayerIDOnce(id) ==
    /\ playerID' = IF playerID = 0 THEN id ELSE playerID
    /\ players' = IF playerID = 0 THEN {id} ELSE players
    /\ spawns' = IF playerID = 0 THEN Without(id) ELSE spawns
    /\ UNCHANGED deadVars
\* Player::setPlayerID and, through changedID, SpawnShell::playerChangedID; selfDead
\* is left to the caller.
setPlayerID(id) ==
    /\ playerID' = id
    /\ players' = IF id = playerID THEN players ELSE (players \ {0, playerID}) \cup {id}
    /\ spawns' = IF id = playerID THEN spawns ELSE Without(id)
    /\ UNCHANGED deadVars
=============================================================================
