---------------------------- MODULE SpawnMonitor ----------------------------
(***************************************************************************)
(* The spawn monitor: it learns where mobs pop, starts a countdown when a  *)
(* mob of a known point is killed, lets a web client name a point, and     *)
(* keeps each zone's points in a file, <zone>.sp.  A save writes .sp.new,  *)
(* moves .sp to .sp.bak and .sp.new to .sp; the daemon may crash between   *)
(* any two of these.  QDir::rename, as Qt documents it, does nothing when  *)
(* the target exists.                                                      *)
(* A spawn point is the id of its last mob (NoId after a kill or a load),  *)
(* whether a death was timed, and its label; a file keeps the label only.  *)
(* Places are those of one zone or of the other.  The server may refuse a  *)
(* change of zone; the daemon does not read that, and the monitor takes    *)
(* the other zone's name all the same.  What is written to a file that     *)
(* could be opened is assumed to get there.                                *)
(***************************************************************************)
EXTENDS Naturals, FiniteSets, Functions
CONSTANTS Zones, Spots, Ids, Labels, NoLabel, NoZone, NoId, NoFile, Partial,
          MaxRefused   \* bound: the pairs of zones between which a change is refused
ASSUME Distinct == /\ NoZone \notin Zones /\ NoId \notin Ids /\ NoLabel \notin Labels
                   /\ NoFile # Partial

Place == Zones \X Spots
Label == Labels \cup {NoLabel}
Point == [lastID : Ids \cup {NoId}, timed : BOOLEAN, label : Label]
Saved == UNION {[ps -> Label] : ps \in SUBSET Place}
NoPoints == << >>
ASSUME FilesDistinct == NoFile \notin Saved /\ Partial \notin Saved

VARIABLES here,             \* the zone the player is in
          arrived,          \* its newZone packet was sent, spawns follow
          zoning,           \* ZoneMgr's m_zoning: no new spawn is read
          refused,          \* history: <<zone, the zone a change to which was refused>>
          alive,            \* ids the SpawnShell has announced
          zoneName, modified,
          spawns,           \* m_spawns: the candidates, place -> point
          points,           \* m_points: the promoted ones
          view,             \* what a connected web client shows
          sp, bak, tmp      \* <zone>.sp, .sp.bak and .sp.new of each zone

worldVars == <<here, arrived, zoning, refused, alive>>
monitorVars == <<zoneName, modified, spawns, points, view>>
fileVars == <<sp, bak, tmp>>
vars == <<worldVars, monitorVars, fileVars>>

PointMap == UNION {[ps -> Point] : ps \in SUBSET Place}
TypeOK ==
  /\ here \in Zones /\ arrived \in BOOLEAN /\ zoning \in BOOLEAN
  /\ refused \subseteq Zones \X Zones /\ alive \subseteq Ids
  /\ zoneName \in Zones \cup {NoZone} /\ modified \in BOOLEAN
  /\ {spawns, points, view} \subseteq PointMap
  /\ {sp, bak, tmp} \subseteq [Zones -> Saved \cup {NoFile, Partial}]

Started == /\ zoneName = NoZone /\ modified = FALSE
           /\ spawns = NoPoints /\ points = NoPoints /\ view = NoPoints

Init == /\ here \in Zones /\ arrived \in BOOLEAN /\ zoning = FALSE
        /\ refused = {} /\ alive = {}
        /\ Started
        /\ sp = [z \in Zones |-> NoFile] /\ bak = sp /\ tmp = sp

-----------------------------------------------------------------------------
(* The files.  A disk is a record of the three files of every zone.  *)

Disk == [sp |-> sp, bak |-> bak, tmp |-> tmp]
DiskIs(d) == sp' = d.sp /\ bak' = d.bak /\ tmp' = d.tmp

Contents(m) == [p \in DOMAIN m |-> m[p].label]

\* Mutant: the file is opened for writing in its own place.
OpenedInPlace(d) == [d EXCEPT !.sp[zoneName] = Partial, !.tmp[zoneName] = Partial]
Opened(d) == [d EXCEPT !.tmp[zoneName] = Partial]
Written(d, m) == [d EXCEPT !.tmp[zoneName] = Contents(m)]
BackedUp(d) == IF d.sp[zoneName] = NoFile \/ d.bak[zoneName] # NoFile THEN d
               ELSE [d EXCEPT !.bak[zoneName] = d.sp[zoneName], !.sp[zoneName] = NoFile]
MovedIn(d) == IF d.sp[zoneName] # NoFile THEN d
              ELSE [d EXCEPT !.sp[zoneName] = d.tmp[zoneName], !.tmp[zoneName] = NoFile]

\* The disk after the first n of the four steps of a save of the points m.
AfterSteps(m, n) ==
  LET d1 == Opened(Disk)  d2 == Written(d1, m)  d3 == BackedUp(d2)
  IN  CASE n = 1 -> d1 [] n = 2 -> d2 [] n = 3 -> d3 [] n = 4 -> MovedIn(d3)

Saves == modified /\ zoneName # NoZone

\* saveSpawnPoints with m_modified as "changed"; "left" is m_modified after it.
\* A .sp.new that cannot be opened ends the save, which stays to be done.
saveSpawnPoints(m, changed, left) ==
  IF changed /\ zoneName # NoZone
  THEN \/ ~left /\ DiskIs(AfterSteps(m, 4))
       \/ left /\ UNCHANGED fileVars
  ELSE left = changed /\ UNCHANGED fileVars

\* The points of zone z as its file gives them; the disk after the save
\* of the zone that is left, whose file is another one.
LoadedFrom(z) ==
  IF sp[z] = NoFile THEN NoPoints
  ELSE [p \in DOMAIN sp[z] |-> [lastID |-> NoId, timed |-> FALSE, label |-> sp[z][p]]]

\* loadSpawnPoints with m_modified as "changed", which only a load that comes to
\* its end clears: a zone may have no file, or one that cannot be opened.
loadSpawnPoints(z, changed) ==
  /\ \/ points' = LoadedFrom(z) /\ modified' = (changed /\ sp[z] = NoFile)
     \/ points' = NoPoints /\ modified' = changed
  /\ view' = points'

\* Mutant: the name is taken over before the save, which then writes the
\* points of the zone that is left to the file of the zone that is entered.
SwitchThenSave(z) ==
  /\ zoneName' = z
  /\ sp' = IF modified THEN [sp EXCEPT ![z] = Contents(points)] ELSE sp
  /\ UNCHANGED <<bak, tmp>>
  /\ spawns' = NoPoints
  /\ loadSpawnPoints(z, FALSE)
SwitchTo(z) ==
  /\ zoneName' = z
  /\ spawns' = NoPoints
  /\ \E left \in BOOLEAN : saveSpawnPoints(points, modified, left) /\ loadSpawnPoints(z, left)

\* zoneChanged and zoneEnd both come here.
zoneChanged(z) == IF zoneName # z THEN SwitchTo(z)
                  ELSE UNCHANGED <<monitorVars, fileVars>>

-----------------------------------------------------------------------------
(* The world: the player asks for another zone, and is let in or refused;  *)
(* or camps and logs in somewhere else.  The spawns of a zone come after   *)
(* its newZone packet.  SpawnShell and the zone manager are what they do   *)
(* to the monitor: spawns announced and forgotten, m_zoning, zoneChanged.  *)

AskZone ==
  /\ arrived /\ zoning' = TRUE
  /\ UNCHANGED <<here, arrived, refused, alive, monitorVars, fileVars>>

GrantZone(z) ==
  /\ here' = z /\ arrived' = FALSE /\ zoning' = TRUE /\ alive' = {}
  /\ zoneChanged(z)
  /\ UNCHANGED refused

\* The answer names the zone that was asked for; its success flag is not read.
RefuseZone(z) ==
  /\ arrived /\ z # here
  /\ zoning' = TRUE /\ alive' = {}
  /\ refused' = refused \cup {<<here, z>>} /\ Cardinality(refused') <= MaxRefused
  /\ zoneChanged(z)
  /\ UNCHANGED <<here, arrived>>

\* The profile that comes again ends m_zoning: zoneBegin, which the monitor
\* does not listen to.
ResendProfile ==
  /\ arrived /\ zoning
  /\ zoning' = FALSE /\ alive' = {}
  /\ UNCHANGED <<here, arrived, refused, monitorVars, fileVars>>

Camp(z) == /\ here' = z /\ arrived' = FALSE /\ zoning' = FALSE /\ alive' = {}
           /\ UNCHANGED <<refused, monitorVars, fileVars>>

\* The profile and newZone.
Arrive == /\ ~arrived
          /\ arrived' = TRUE /\ zoning' = FALSE
          /\ zoneChanged(here)
          /\ UNCHANGED <<here, refused, alive>>

-----------------------------------------------------------------------------

Update(pt, id) == [pt EXCEPT !.lastID = id]
With(f, p, pt) == [q \in DOMAIN f \cup {p} |-> IF q = p THEN pt ELSE f[q]]

\* The envelope of an added or an updated point replaces the client's.
ViewWith(p, pt) == With(view, p, pt)

\* Mutant: a promoted candidate stays among the candidates.
KeepsCandidate(p) == spawns
Promoted(p) == Restrict(spawns, DOMAIN spawns \ {p})

checkSpawnPoint(id, p) ==
  IF p \in DOMAIN points THEN
       /\ modified' = TRUE
       /\ points' = [points EXCEPT ![p] = Update(@, id)]
       /\ view' = ViewWith(p, points'[p])
       /\ UNCHANGED spawns
  ELSE IF p \in DOMAIN spawns THEN
       /\ points' = With(points, p, Update(spawns[p], id))
       /\ view' = ViewWith(p, points'[p])
       /\ modified' = TRUE
       /\ spawns' = Promoted(p)
  ELSE /\ spawns' = With(spawns, p, [lastID |-> id, timed |-> FALSE, label |-> NoLabel])
       /\ UNCHANGED <<points, view, modified>>

newSpawn(id, s) ==
  /\ arrived /\ ~zoning /\ id \notin alive
  /\ alive' = alive \cup {id}
  /\ checkSpawnPoint(id, <<here, s>>)
  /\ UNCHANGED <<here, arrived, zoning, refused, zoneName, fileVars>>

Restarted(pt) == [pt EXCEPT !.lastID = NoId, !.timed = TRUE]

\* Mutant: a restarted point is not announced.
ViewUnaware(p) == view
ViewAfterRestart(p) == ViewWith(p, Restarted(points[p]))

\* The first point of the hash with the id of the killed mob restarts;
\* several may have it, since only a kill clears it.
killSpawn(id) ==
  /\ id \in alive
  /\ alive' = alive \ {id}
  /\ LET matching == {p \in DOMAIN points : points[p].lastID = id}
     IN  IF matching = {} THEN UNCHANGED <<points, view>>
         ELSE \E p \in matching :
                 /\ points' = [points EXCEPT ![p] = Restarted(@)]
                 /\ view' = ViewAfterRestart(p)
  /\ UNCHANGED <<here, arrived, zoning, refused, zoneName, modified, spawns, fileVars>>

\* A mob that goes away without dying: the monitor does not listen.
Depop(id) ==
  /\ id \in alive
  /\ alive' = alive \ {id}
  /\ UNCHANGED <<here, arrived, zoning, refused, monitorVars, fileVars>>

Named(p, label) == [points EXCEPT ![p].label = label]

\* A web client names a promoted point: setName, which sets m_modified, then a
\* save at once.
renameSpawnPoint(p, label) ==
  /\ p \in DOMAIN points
  /\ points' = Named(p, label)
  /\ view' = ViewWith(p, points'[p])
  /\ modified' \in BOOLEAN /\ saveSpawnPoints(points', TRUE, modified')
  /\ UNCHANGED <<worldVars, zoneName, spawns>>

-----------------------------------------------------------------------------
(* The daemon stops, and the next one starts with the files it finds:      *)
(* after a signal it saves first, a crash may come in the middle of a save.*)

Restart == /\ zoneName' = NoZone /\ modified' = FALSE
           /\ spawns' = NoPoints /\ points' = NoPoints /\ view' = NoPoints
           /\ zoning' = FALSE /\ alive' = {}
           /\ UNCHANGED <<here, arrived, refused>>

aboutToQuit == Restart /\ \E left \in BOOLEAN : saveSpawnPoints(points, modified, left)

SaveInterrupted ==
  \E n \in 1 .. 3 :
     \/ Saves /\ DiskIs(AfterSteps(points, n))
     \/ /\ zoneName # NoZone
        /\ \E p \in DOMAIN points, label \in Label : DiskIs(AfterSteps(Named(p, label), n))

Crash == Restart /\ (UNCHANGED fileVars \/ SaveInterrupted)

Next ==
  \/ AskZone \/ ResendProfile \/ Arrive
  \/ \E z \in Zones : GrantZone(z) \/ RefuseZone(z) \/ Camp(z)
  \/ \E id \in Ids, s \in Spots : newSpawn(id, s)
  \/ \E id \in Ids : killSpawn(id) \/ Depop(id)
  \/ \E p \in Place, label \in Label : renameSpawnPoint(p, label)
  \/ aboutToQuit
  \/ Crash

Spec == Init /\ [][Next]_vars

-----------------------------------------------------------------------------

HasCopy(file, backup) == {file, backup} \ {NoFile, Partial} # {}

\* A point p of zone p[1] may stand under the name of zone z.
MayStand(p, z) == p[1] = z \/ <<p[1], z>> \in refused

(* The only way for a point to get under another zone's name, in memory or *)
(* in a file, is a change from its zone to that one that was refused: the  *)
(* zone that is left is saved under its own name before the name and the   *)
(* maps change, its spawns are gone by then, and no point changes its file *)
(* through loads, restarts, cut or failed saves.                           *)
PointsOfTheirZone ==
  /\ \A p \in DOMAIN points : zoneName # NoZone => MayStand(p, zoneName)
  /\ \A z \in Zones : \A f \in {sp[z], bak[z], tmp[z]} \ {NoFile, Partial} :
        \A p \in DOMAIN f : MayStand(p, z)

(* Not so today: while the spawns of a zone are read, points are recorded  *)
(* under that zone's name.  After a refused change they are recorded, and  *)
(* at the next change of zone saved, as points of the zone that refused    *)
(* the player (zonemgr.cpp:259-273, spawnmonitor.cpp:235-246).             *)
RecordsUnderOwnName == arrived /\ ~zoning /\ zoneName # NoZone => zoneName = here

(* Once a zone has been saved, a crash at any step of a later save leaves  *)
(* a complete copy of its points on disk, the file or its backup.          *)
CompleteCopyStays ==
  [][\A z \in Zones : HasCopy(sp[z], bak[z]) => HasCopy(sp'[z], bak'[z])]_vars

(* A place is a candidate or a point, never both: the two maps own their   *)
(* SpawnPoints, and clear() deletes what is in each.                       *)
OneOwner == DOMAIN spawns \cap DOMAIN points = {}

(* A connected web client sees every change of every point: re-pops, kills *)
(* and names reach it as they happen, a change of zone clears its list.    *)
ViewIsPoints == view = points

(* "a single rename survive a daemon crash" (sessionadapter.cpp:201): with *)
(* nothing left to save, every label is in the zone's file.                *)
RenameSurvives ==
  ~modified /\ zoneName # NoZone =>
     \A p \in DOMAIN points :
        /\ sp[zoneName] # NoFile
        /\ p \in DOMAIN sp[zoneName]
        /\ sp[zoneName][p] = points[p].label
=============================================================================
