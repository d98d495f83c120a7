----------------------------- MODULE WorldRestart -----------------------------
(***************************************************************************)
(* WorldState with a daemon that is stopped and started: the spawn list,   *)
(* the group and the zone are gone, the clients come back, and the id of   *)
(* the player and the name of its zone are restored from the checkpoint.   *)
(* While the daemon is down the game goes on, and the player may be in     *)
(* another zone, or be another player, when it is up again.                *)
(***************************************************************************)
EXTENDS WorldState, Checkpoint

CONSTANTS MaxRestarts   \* bound: restarts of the daemon; a checkpoint no restart
                        \*   will read is not written
ASSUME RestartAssumption == MaxRestarts \in Nat

VARIABLES restarts,
          source    \* history: where the daemon has the player's id from: the game's
                    \*   packets, a checkpoint of this stay in the zone, or an older one
restartVars == <<checkpoint, restarts, source>>
allVars == <<vars, restartVars>>

RestartTypeOK ==
    /\ checkpoint \in Files
    /\ restarts \in 0..MaxRestarts
    /\ source \in {"packets", "stay", "stale"}

RestartInit ==
    /\ Init
    /\ checkpoint = NoFile /\ restarts = 0 /\ source = "packets"

\* The packets that tell the daemon the player's id, or that it has none.
TellsID == \/ OwnZoneEntry \/ ConsiderSelf \/ GrantZone \/ RefuseZone
           \/ (OwnMove /\ playerID = 0)
KeepsID == \/ AskZone \/ SendProfile \/ ResendProfile \/ NewZone
           \/ (OwnMove /\ playerID # 0)
           \/ ZoneSpawns \/ GroupPackets
           \/ \E id \in Ids: Despawn(id) \/ Death(id) \/ Move(id) \/ LateMove(id)
           \/ \E id \in Ids, n \in AllNames: NewSpawn(id, n) \/ PlayerEnters(id, n)

Packet ==
    /\ UNCHANGED restarts
    /\ \/ TellsID /\ UNCHANGED checkpoint
          /\ source' = IF lost' = lost THEN "packets" ELSE source
       \/ KeepsID /\ UNCHANGED <<checkpoint, source>>
       \/ EnterZone /\ checkpoint' = OfOther(checkpoint)
          /\ source' = IF source = "stay" THEN "stale" ELSE source

Stay == IF Settled /\ source # "stale" THEN "this" ELSE "other"

\* The timer of DaemonApp.
SaveCheckpoint ==
    /\ restarts < MaxRestarts
    /\ checkpoint' = saved(playerID, shortName, Stay)
    /\ UNCHANGED <<vars, restarts, source>>

\* DaemonApp::start, which ends in restoreCheckpoint, before any packet is read.
Starts(f, young) ==
    /\ spawns' = NoSpawns /\ players' = {0} /\ selfDead' = FALSE
    /\ deadSpawnID' = NoDead /\ cntDead' = 0 /\ posDead' = 0
    /\ members' = [i \in Slots |-> FreeSlot] /\ memberCount' = 0 /\ inZone' = 0
    /\ IF Loads(f, young)
       THEN playerID' = f.id /\ applyCheckpoint(f.zone)
       ELSE playerID' = 0 /\ applyCheckpoint(Unknown)
    /\ source' = IF ~Loads(f, young) THEN "packets"
                 ELSE IF checkpoint'.stay = "this" THEN "stay" ELSE "stale"
    /\ view' = NoSpawns /\ groupView' = {} /\ viewZone' = shortName' /\ viewMap' = loadedZone'
    /\ profiled' = FALSE

\* A restart at once.  In a change of zone it is like a missed packet; between the
\* profile and the zone data that follow it like a missed profile, which
\* LoadedZoneIsCurrent does not stand.
RestartSoon(f) ==
    /\ \/ phase = "playing" /\ UNCHANGED lost
       \/ phase \in {"asked", "left", "entering"} /\ lost < MaxLost /\ lost' = lost + 1
    /\ checkpoint' = f
    /\ Starts(f, TRUE)
    /\ UNCHANGED gameVars

RestartLater(f, young) ==
    /\ checkpoint' = OfOther(f)
    /\ Starts(f, young)
    /\ phase' = "playing" /\ realZone' \in Zones /\ target' = realZone'
    /\ own' \in Ids
    /\ \/ real' = NoSpawns
       \/ \E id \in Ids \ {own'}, n \in AllNames: real' = Only(id, Living(n))
    /\ realGroup' = {} /\ gone' = {}
    /\ UNCHANGED lost

Restart ==
    /\ restarts < MaxRestarts /\ restarts' = restarts + 1
    /\ \E f \in Left(playerID, shortName, Stay):
         RestartSoon(f) \/ \E young \in BOOLEAN: RestartLater(f, young)

RestartNext == Packet \/ SaveCheckpoint \/ Restart
RestartSpec == RestartInit /\ [][RestartNext]_allVars

-----------------------------------------------------------------------------
\* While the player is in a zone its id is its own there or not known: it is never one
\* of the last zone, nor that of a spawn in the list.  Only a checkpoint of another
\* stay in a zone may give another one, until a packet tells the player's.
PlayerIdIsOwn ==
    source # "stale" => /\ phase = "playing" => playerID \in {0, own}
                        /\ playerID \notin DOMAIN spawns

\* What was saved while the daemon knew the zone and the id, and was not cut since,
\* is right until the player leaves the zone: no later save, with the id or the zone
\* unknown, takes its place, and a restart in between restores it.
CheckpointFits ==
    checkpoint.stay = "this" => checkpoint = Whole(own, realZone, "this")

\* Not so today: neither the profile, which has no id, nor the player's own movement
\* corrects an id that is not 0.
\* Once a profile has been handled after a restart, the id is the player's own.
StaleIdGoes == Settled => playerID \in {0, own}
=============================================================================
