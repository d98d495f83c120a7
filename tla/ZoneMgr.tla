------------------------------- MODULE ZoneMgr -------------------------------
(***************************************************************************)
(* The zone manager: which zone the daemon believes the player is in, and  *)
(* whether the player is between two zones.  The two signals that carry a  *)
(* short name, zoneBegin(name) and zoneChanged(name), are what the other   *)
(* managers listen to; zoneBegin() and zoneEnd() without a listener that   *)
(* changes state are left out.  loadedZone is the listener in DaemonApp    *)
(* and FilterMgr: the zone whose map and per-zone filters are loaded.      *)
(***************************************************************************)
CONSTANTS Zones, Unknown
ASSUME UnknownZone == Unknown \notin Zones

VARIABLES shortName, zoning, loadedZone
zoneVars == <<shortName, zoning, loadedZone>>

ZoneTypeOK == /\ shortName \in Zones \cup {Unknown}
              /\ zoning \in BOOLEAN
              /\ loadedZone \in Zones \cup {Unknown}

ZoneInit == shortName = Unknown /\ zoning = FALSE /\ loadedZone = Unknown

\* Names the zone and emits zoneBegin before any packet is read; a zone that was not
\* known is the constructor's "unknown".
applyCheckpoint(z) == shortName' = z /\ zoning' = FALSE /\ loadedZone' = z

zoneEntryClient ==
    /\ shortName' = Unknown
    /\ zoning' = FALSE
    /\ UNCHANGED loadedZone

\* Mutant: a profile is taken for a new zone only by its name.
BeginsZoneByName(z) == z # shortName
BeginsZone(z) == z # shortName \/ zoning

zonePlayer(z) ==
    /\ loadedZone' = IF BeginsZone(z) THEN z ELSE loadedZone
    /\ shortName' = z
    /\ zoning' = FALSE

zoneChange(z) ==
    /\ shortName' = z
    /\ zoning' = TRUE
    /\ UNCHANGED loadedZone

zoneNew(z) ==
    /\ shortName' = IF shortName = Unknown THEN z ELSE shortName
    /\ zoning' = FALSE
    /\ UNCHANGED loadedZone
=============================================================================
