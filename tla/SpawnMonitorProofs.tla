------------------------- MODULE SpawnMonitorProofs -------------------------
(***************************************************************************)
(* Proofs about SpawnMonitor, for any zones, places, ids and labels, any   *)
(* number of refused changes of zone, saves that cannot be opened, and     *)
(* crashes, at any step of a save.                                         *)
(***************************************************************************)
EXTENDS SpawnMonitor, TLAPS

-----------------------------------------------------------------------------
(* Maps of spawn points. *)

LEMMA PointMapIs ==
  ASSUME NEW f
  PROVE  f \in PointMap <=> \E ps \in SUBSET Place : f \in [ps -> Point]
BY DEF PointMap

LEMMA EmptyMap == NoPoints \in PointMap /\ DOMAIN NoPoints = {}
<1>1. NoPoints \in [{} -> Point]
  BY DEF NoPoints
<1>. QED BY <1>1, PointMapIs

LEMMA WithOnePoint ==
  ASSUME NEW f \in PointMap, NEW p \in Place, NEW pt \in Point
  PROVE  /\ With(f, p, pt) \in PointMap
         /\ DOMAIN With(f, p, pt) = DOMAIN f \cup {p}
<1>1. PICK ps \in SUBSET Place : f \in [ps -> Point]
  BY PointMapIs
<1>2. With(f, p, pt) \in [ps \cup {p} -> Point]
  BY <1>1 DEF With
<1>. QED BY <1>1, <1>2, PointMapIs

LEMMA WithKnownPoint ==
  ASSUME NEW f \in PointMap, NEW p \in DOMAIN f, NEW pt
  PROVE  With(f, p, pt) = [f EXCEPT ![p] = pt]
<1>1. PICK ps \in SUBSET Place : f \in [ps -> Point]
  BY PointMapIs
<1>. QED BY <1>1 DEF With

LEMMA PointOf ==
  ASSUME NEW f \in PointMap, NEW p \in DOMAIN f
  PROVE  f[p] \in Point /\ p \in Place
BY PointMapIs

LEMMA ChangedPoint ==
  ASSUME NEW f \in PointMap, NEW p \in DOMAIN f, NEW pt \in Point
  PROVE  /\ [f EXCEPT ![p] = pt] \in PointMap
         /\ DOMAIN [f EXCEPT ![p] = pt] = DOMAIN f
<1>1. PICK ps \in SUBSET Place : f \in [ps -> Point]
  BY PointMapIs
<1>2. [f EXCEPT ![p] = pt] \in [ps -> Point]
  BY <1>1
<1>. QED BY <1>1, <1>2, PointMapIs

LEMMA WithoutPoint ==
  ASSUME NEW f \in PointMap, NEW p
  PROVE  /\ Restrict(f, DOMAIN f \ {p}) \in PointMap
         /\ DOMAIN Restrict(f, DOMAIN f \ {p}) = DOMAIN f \ {p}
<1>1. PICK ps \in SUBSET Place : f \in [ps -> Point]
  BY PointMapIs
<1>2. Restrict(f, DOMAIN f \ {p}) \in [ps \ {p} -> Point]
  BY <1>1 DEF Restrict
<1>. QED BY <1>1, <1>2, PointMapIs

LEMMA WrittenMap ==
  ASSUME NEW f \in PointMap
  PROVE  Contents(f) \in Saved /\ DOMAIN Contents(f) = DOMAIN f
<1>1. PICK ps \in SUBSET Place : f \in [ps -> Point]
  BY PointMapIs
<1>2. Contents(f) \in [ps -> Label]
  BY <1>1 DEF Contents, Point
<1>. QED BY <1>1, <1>2 DEF Saved, Contents

-----------------------------------------------------------------------------
(* The files.  Only the .sp.new of a zone is ever half written, and each   *)
(* file has points that may stand there.                                   *)

OfZone(f, z, r) == \A p \in DOMAIN f : p[1] = z \/ <<p[1], z>> \in r
ZoneFiles(d, r) ==
  /\ d.sp \in [Zones -> Saved \cup {NoFile}]
  /\ d.bak \in [Zones -> Saved \cup {NoFile}]
  /\ d.tmp \in [Zones -> Saved \cup {NoFile, Partial}]
  /\ \A z \in Zones : \A f \in {d.sp[z], d.bak[z], d.tmp[z]} \ {NoFile, Partial} : OfZone(f, z, r)
Disks == [sp : [Zones -> Saved \cup {NoFile}], bak : [Zones -> Saved \cup {NoFile}],
          tmp : [Zones -> Saved \cup {NoFile, Partial}]]

(* What has been refused stays so: a point that may stand somewhere may do *)
(* so ever after.                                                          *)
LEMMA MoreRefused ==
  ASSUME NEW r, NEW q, r \subseteq q
  PROVE  /\ \A f, z : OfZone(f, z, r) => OfZone(f, z, q)
         /\ \A d : ZoneFiles(d, r) => ZoneFiles(d, q)
<1>1. \A f, z : OfZone(f, z, r) => OfZone(f, z, q)
  BY DEF OfZone
<1>. QED BY <1>1 DEF ZoneFiles

(* Each of the four steps of a save keeps the files of each zone its own,  *)
(* never takes the last complete copy away, and touches no other zone.     *)
Kept(d, e) ==
  /\ \A z \in Zones : HasCopy(d.sp[z], d.bak[z]) => HasCopy(e.sp[z], e.bak[z])
  /\ \A z \in Zones \ {zoneName} : e.sp[z] = d.sp[z]

LEMMA OpenStep ==
  ASSUME NEW d \in Disks, ZoneFiles(d, refused), zoneName \in Zones
  PROVE  Opened(d) \in Disks /\ ZoneFiles(Opened(d), refused) /\ Kept(d, Opened(d))
BY DEF Opened, Disks, ZoneFiles, Kept

LEMMA WriteStep ==
  ASSUME NEW d \in Disks, ZoneFiles(d, refused), zoneName \in Zones,
         NEW m \in PointMap, OfZone(m, zoneName, refused)
  PROVE  /\ Written(d, m) \in Disks /\ ZoneFiles(Written(d, m), refused) /\ Kept(d, Written(d, m))
         /\ Written(d, m).tmp[zoneName] \in Saved
<1>1. Contents(m) \in Saved /\ OfZone(Contents(m), zoneName, refused)
  BY WrittenMap DEF OfZone
<1>. QED BY <1>1 DEF Written, Disks, ZoneFiles, Kept

LEMMA BackUpStep ==
  ASSUME NEW d \in Disks, ZoneFiles(d, refused), zoneName \in Zones
  PROVE  /\ BackedUp(d) \in Disks /\ ZoneFiles(BackedUp(d), refused) /\ Kept(d, BackedUp(d))
         /\ BackedUp(d).tmp = d.tmp
<1>1. CASE d.sp[zoneName] = NoFile \/ d.bak[zoneName] # NoFile
  BY <1>1 DEF BackedUp, Kept
<1>2. CASE d.sp[zoneName] # NoFile /\ d.bak[zoneName] = NoFile
  BY <1>2 DEF BackedUp, Disks, ZoneFiles, Kept, HasCopy
<1>. QED BY <1>1, <1>2

LEMMA MoveStep ==
  ASSUME NEW d \in Disks, ZoneFiles(d, refused), zoneName \in Zones, d.tmp[zoneName] \in Saved
  PROVE  MovedIn(d) \in Disks /\ ZoneFiles(MovedIn(d), refused) /\ Kept(d, MovedIn(d))
<1>1. CASE d.sp[zoneName] # NoFile
  BY <1>1 DEF MovedIn, Kept
<1>2. CASE d.sp[zoneName] = NoFile
  BY <1>2 DEF MovedIn, Disks, ZoneFiles, Kept, HasCopy
<1>. QED BY <1>1, <1>2

LEMMA SaveSteps ==
  ASSUME Disk \in Disks, ZoneFiles(Disk, refused), zoneName \in Zones,
         NEW m \in PointMap, OfZone(m, zoneName, refused), NEW n \in 1 .. 4
  PROVE  LET e == AfterSteps(m, n) IN e \in Disks /\ ZoneFiles(e, refused) /\ Kept(Disk, e)
<1> DEFINE d1 == Opened(Disk)
           d2 == Written(d1, m)
           d3 == BackedUp(d2)
           d4 == MovedIn(d3)
<1>1. d1 \in Disks /\ ZoneFiles(d1, refused) /\ Kept(Disk, d1)
  BY OpenStep
<1>2. d2 \in Disks /\ ZoneFiles(d2, refused) /\ Kept(d1, d2) /\ d2.tmp[zoneName] \in Saved
  BY <1>1, WriteStep
<1>3. d3 \in Disks /\ ZoneFiles(d3, refused) /\ Kept(d2, d3) /\ d3.tmp = d2.tmp
  BY <1>2, BackUpStep
<1>4. d4 \in Disks /\ ZoneFiles(d4, refused) /\ Kept(d3, d4)
  BY <1>2, <1>3, MoveStep
<1>5. AfterSteps(m, n) \in {d1, d2, d3, d4}
  BY DEF AfterSteps
<1> HIDE DEF d1, d2, d3, d4
<1>6. Kept(Disk, d2) /\ Kept(Disk, d3) /\ Kept(Disk, d4)
  BY <1>1, <1>2, <1>3, <1>4 DEF Kept
<1>. QED BY <1>1, <1>2, <1>3, <1>4, <1>5, <1>6

-----------------------------------------------------------------------------
(* What is needed beside the properties themselves: candidates are of the  *)
(* monitor's zone too, since they become points, and while spawns arrive   *)
(* that zone is the one the player is in, unless the daemon was restarted  *)
(* or the player was refused there.                                        *)

MonitorInv ==
  /\ here \in Zones /\ arrived \in BOOLEAN /\ zoning \in BOOLEAN
  /\ refused \subseteq Zones \X Zones /\ alive \subseteq Ids
  /\ zoneName \in Zones \cup {NoZone} /\ modified \in BOOLEAN
  /\ spawns \in PointMap /\ points \in PointMap
  /\ view = points
  /\ DOMAIN spawns \cap DOMAIN points = {}
  /\ zoneName # NoZone => OfZone(points, zoneName, refused) /\ OfZone(spawns, zoneName, refused)
  /\ arrived /\ zoneName # NoZone => zoneName = here \/ <<here, zoneName>> \in refused
  /\ Disk \in Disks /\ ZoneFiles(Disk, refused)

LEMMA MonitorInitially == Init => MonitorInv
<1> SUFFICES ASSUME Init PROVE MonitorInv
  OBVIOUS
<1>1. Disk \in Disks /\ ZoneFiles(Disk, refused)
  BY DEF Init, Disk, Disks, ZoneFiles
<1>. QED BY <1>1, EmptyMap, Distinct DEF Init, Started, MonitorInv

LEMMA DiskChanges ==
  ASSUME NEW d, DiskIs(d), d \in Disks
  PROVE  Disk' = d
BY DEF Disk, DiskIs, Disks

LEMMA DiskStays == ASSUME UNCHANGED fileVars PROVE Disk' = Disk
BY DEF Disk, fileVars

(* A save of the points under their own zone's name, as far as it came.    *)
LEMMA SaveStep ==
  ASSUME MonitorInv, zoneName # NoZone, NEW m \in PointMap, OfZone(m, zoneName, refused),
         NEW n \in 1 .. 4, DiskIs(AfterSteps(m, n))
  PROVE  Disk' \in Disks /\ ZoneFiles(Disk', refused) /\ Kept(Disk, Disk')
<1>1. AfterSteps(m, n) \in Disks /\ ZoneFiles(AfterSteps(m, n), refused) /\ Kept(Disk, AfterSteps(m, n))
  BY SaveSteps DEF MonitorInv
<1>. QED BY <1>1, DiskChanges

(* saveSpawnPoints as a whole, whether or not the file could be opened.    *)
LEMMA SavesOwnZone ==
  ASSUME MonitorInv, NEW m \in PointMap, zoneName # NoZone => OfZone(m, zoneName, refused),
         NEW changed \in BOOLEAN, NEW left \in BOOLEAN, saveSpawnPoints(m, changed, left)
  PROVE  Disk' \in Disks /\ ZoneFiles(Disk', refused) /\ Kept(Disk, Disk')
<1>1. CASE zoneName # NoZone /\ DiskIs(AfterSteps(m, 4))
  BY <1>1, SaveStep
<1>2. CASE UNCHANGED fileVars
  BY <1>2, DiskStays DEF MonitorInv, Kept
<1>. QED BY <1>1, <1>2 DEF saveSpawnPoints

LEMMA LoadedMap ==
  ASSUME MonitorInv, NEW z \in Zones
  PROVE  LoadedFrom(z) \in PointMap /\ OfZone(LoadedFrom(z), z, refused)
<1>1. CASE sp[z] = NoFile
  BY <1>1, EmptyMap DEF LoadedFrom, OfZone
<1>2. CASE sp[z] # NoFile
  <2>1. sp[z] \in Saved
    BY <1>2 DEF MonitorInv, Disk, Disks
  <2>2. PICK ps \in SUBSET Place : sp[z] \in [ps -> Label]
    BY <2>1 DEF Saved
  <2>3. LoadedFrom(z) \in [ps -> Point]
    BY <1>2, <2>2 DEF LoadedFrom, Point
  <2>4. OfZone(sp[z], z, refused)
    BY <2>1, FilesDistinct DEF MonitorInv, ZoneFiles, Disk
  <2>. QED
    BY <1>2, <2>2, <2>3, <2>4, PointMapIs DEF LoadedFrom, OfZone
<1>. QED BY <1>1, <1>2

LEMMA LoadStep ==
  ASSUME MonitorInv, NEW z \in Zones, NEW changed \in BOOLEAN, loadSpawnPoints(z, changed)
  PROVE  /\ points' \in PointMap /\ OfZone(points', z, refused)
         /\ view' = points' /\ modified' \in BOOLEAN
<1>1. CASE points' = LoadedFrom(z)
  BY <1>1, LoadedMap DEF loadSpawnPoints
<1>2. CASE points' = NoPoints
  BY <1>2, EmptyMap DEF loadSpawnPoints, OfZone
<1>. QED BY <1>1, <1>2 DEF loadSpawnPoints

(* Both slots that hear of a new zone.  The player is in it already, or    *)
(* has just been refused there.                                            *)
LEMMA SwitchStep ==
  ASSUME MonitorInv, NEW z \in Zones, zoneChanged(z),
         here' \in Zones, here' = z \/ <<here', z>> \in refused',
         refused \subseteq refused', refused' \subseteq Zones \X Zones,
         arrived' \in BOOLEAN, zoning' \in BOOLEAN, alive' \subseteq Ids
  PROVE  MonitorInv' /\ Kept(Disk, Disk')
<1>1. CASE zoneName = z
  <2>1. UNCHANGED <<monitorVars, fileVars>>
    BY <1>1 DEF zoneChanged
  <2>2. Disk' = Disk
    BY <2>1, DiskStays
  <2>3. UNCHANGED <<zoneName, modified, spawns, points, view>>
    BY <2>1 DEF monitorVars
  <2>. QED BY <1>1, <2>2, <2>3, MoreRefused DEF MonitorInv, Kept
<1>2. CASE zoneName # z
  <2>1. PICK left \in BOOLEAN : saveSpawnPoints(points, modified, left) /\ loadSpawnPoints(z, left)
    BY <1>2 DEF zoneChanged, SwitchTo
  <2>2. Disk' \in Disks /\ ZoneFiles(Disk', refused) /\ Kept(Disk, Disk')
    BY <2>1, SavesOwnZone DEF MonitorInv
  <2>3. /\ points' \in PointMap /\ OfZone(points', z, refused)
        /\ view' = points' /\ modified' \in BOOLEAN
    BY <2>1, LoadStep
  <2>4. spawns' = NoPoints /\ zoneName' = z
    BY <1>2 DEF zoneChanged, SwitchTo
  <2>5. spawns' \in PointMap /\ DOMAIN spawns' = {} /\ OfZone(spawns', z, refused')
    BY <2>4, EmptyMap DEF OfZone
  <2>6. ZoneFiles(Disk', refused') /\ OfZone(points', z, refused')
    BY <2>2, <2>3, MoreRefused
  <2>. QED BY <2>2, <2>3, <2>4, <2>5, <2>6 DEF MonitorInv
<1>. QED BY <1>1, <1>2

LEMMA PopStep ==
  ASSUME MonitorInv, NEW id \in Ids, NEW s \in Spots, newSpawn(id, s)
  PROVE  MonitorInv'
<1> DEFINE p == <<here, s>>
<1>1. p \in Place /\ (zoneName # NoZone => p[1] = zoneName \/ <<p[1], zoneName>> \in refused)
  BY DEF Place, MonitorInv, newSpawn
<1>2. UNCHANGED <<here, arrived, zoning, refused, zoneName>> /\ Disk' = Disk /\ alive' \subseteq Ids
  BY DiskStays DEF newSpawn, MonitorInv
<1>3. checkSpawnPoint(id, p)
  BY DEF newSpawn
<1> HIDE DEF p
<1>4. CASE p \in DOMAIN points
  <2>1. Update(points[p], id) \in Point
    BY <1>4, PointOf DEF Update, Point, MonitorInv
  <2>2. /\ points' = [points EXCEPT ![p] = Update(points[p], id)]
        /\ modified' = TRUE /\ spawns' = spawns
        /\ view' = With(view, p, points'[p])
    BY <1>3, <1>4 DEF checkSpawnPoint, ViewWith
  <2>3. points' \in PointMap /\ DOMAIN points' = DOMAIN points
    BY <1>4, <2>1, <2>2, ChangedPoint DEF MonitorInv
  <2>4. view' = points'
    BY <1>4, <2>1, <2>2, WithKnownPoint, PointOf DEF MonitorInv
  <2>. QED BY <1>1, <1>2, <2>2, <2>3, <2>4 DEF MonitorInv, OfZone
<1>5. CASE p \notin DOMAIN points /\ p \in DOMAIN spawns
  <2>1. Update(spawns[p], id) \in Point
    BY <1>5, PointOf DEF Update, Point, MonitorInv
  <2>2. /\ points' = With(points, p, Update(spawns[p], id))
        /\ modified' = TRUE /\ spawns' = Restrict(spawns, DOMAIN spawns \ {p})
        /\ view' = With(view, p, points'[p])
    BY <1>3, <1>5 DEF checkSpawnPoint, ViewWith, Promoted
  <2>3. points' \in PointMap /\ DOMAIN points' = DOMAIN points \cup {p}
    BY <1>1, <2>1, <2>2, WithOnePoint DEF MonitorInv
  <2>4. spawns' \in PointMap /\ DOMAIN spawns' = DOMAIN spawns \ {p}
    BY <2>2, WithoutPoint DEF MonitorInv
  <2>5. view' = points'
    BY <2>2 DEF MonitorInv, With
  <2>. QED BY <1>1, <1>2, <2>2, <2>3, <2>4, <2>5 DEF MonitorInv, OfZone
<1>6. CASE p \notin DOMAIN points /\ p \notin DOMAIN spawns
  <2>1. /\ spawns' = With(spawns, p, [lastID |-> id, timed |-> FALSE, label |-> NoLabel])
        /\ UNCHANGED <<points, view, modified>>
    BY <1>3, <1>6 DEF checkSpawnPoint
  <2>2. [lastID |-> id, timed |-> FALSE, label |-> NoLabel] \in Point
    BY DEF Point, Label
  <2>3. spawns' \in PointMap /\ DOMAIN spawns' = DOMAIN spawns \cup {p}
    BY <1>1, <2>1, <2>2, WithOnePoint DEF MonitorInv
  <2>. QED BY <1>1, <1>2, <1>6, <2>1, <2>3 DEF MonitorInv, OfZone
<1>. QED BY <1>4, <1>5, <1>6

(* A kill and a new name change one known point and tell the client.       *)
LEMMA OnePointStep ==
  ASSUME MonitorInv, NEW p \in DOMAIN points, NEW pt \in Point,
         points' = [points EXCEPT ![p] = pt], view' = ViewWith(p, pt)
  PROVE  points' \in PointMap /\ DOMAIN points' = DOMAIN points /\ view' = points'
<1>1. points' \in PointMap /\ DOMAIN points' = DOMAIN points
  BY ChangedPoint DEF MonitorInv
<1>2. view' = points'
  BY WithKnownPoint DEF MonitorInv, ViewWith
<1>. QED BY <1>1, <1>2

LEMMA KillStep ==
  ASSUME MonitorInv, NEW id \in Ids, killSpawn(id)
  PROVE  MonitorInv' /\ Disk' = Disk
<1>1. /\ UNCHANGED <<here, arrived, zoning, refused, zoneName, modified, spawns>>
      /\ Disk' = Disk /\ alive' \subseteq Ids
  BY DiskStays DEF killSpawn, MonitorInv
<1>2. points' \in PointMap /\ DOMAIN points' = DOMAIN points /\ view' = points'
  <2>1. CASE UNCHANGED <<points, view>>
    BY <2>1 DEF MonitorInv
  <2>2. CASE \E p \in DOMAIN points : /\ points' = [points EXCEPT ![p] = Restarted(@)]
                                      /\ view' = ViewAfterRestart(p)
    <3>1. PICK p \in DOMAIN points : /\ points' = [points EXCEPT ![p] = Restarted(points[p])]
                                     /\ view' = ViewWith(p, Restarted(points[p]))
      BY <2>2 DEF ViewAfterRestart
    <3>2. points[p] \in Point
      BY PointOf DEF MonitorInv
    <3>3. Restarted(points[p]) \in Point
      BY <3>2 DEF Restarted, Point
    <3>. QED BY <3>1, <3>3, OnePointStep
  <2>. QED BY <2>1, <2>2 DEF killSpawn
<1>. QED BY <1>1, <1>2 DEF MonitorInv, OfZone

LEMMA NamedMap ==
  ASSUME MonitorInv, NEW p \in DOMAIN points, NEW label \in Label
  PROVE  /\ [points[p] EXCEPT !.label = label] \in Point
         /\ Named(p, label) = [points EXCEPT ![p] = [points[p] EXCEPT !.label = label]]
         /\ Named(p, label) \in PointMap /\ DOMAIN Named(p, label) = DOMAIN points
<1>1. [points[p] EXCEPT !.label = label] \in Point
  BY PointOf DEF Point, MonitorInv
<1>2. Named(p, label) = [points EXCEPT ![p] = [points[p] EXCEPT !.label = label]]
  BY DEF Named
<1>3. points \in PointMap
  BY DEF MonitorInv
<1> DEFINE pt == [points[p] EXCEPT !.label = label]
<1> HIDE DEF pt
<1>4. [points EXCEPT ![p] = pt] \in PointMap /\ DOMAIN [points EXCEPT ![p] = pt] = DOMAIN points
  BY <1>1, <1>3, ChangedPoint DEF pt
<1>. QED BY <1>1, <1>2, <1>4 DEF pt

LEMMA RenameStep ==
  ASSUME MonitorInv, NEW p \in Place, NEW label \in Label, renameSpawnPoint(p, label)
  PROVE  MonitorInv' /\ Kept(Disk, Disk')
<1>1. /\ p \in DOMAIN points /\ points' = Named(p, label) /\ view' = ViewWith(p, points'[p])
      /\ UNCHANGED <<here, arrived, zoning, refused, alive, zoneName, spawns>> /\ modified' \in BOOLEAN
  BY DEF renameSpawnPoint, worldVars
<1>2. view' = ViewWith(p, [points[p] EXCEPT !.label = label])
  BY <1>1, NamedMap
<1>3. points' \in PointMap /\ DOMAIN points' = DOMAIN points /\ view' = points'
  BY <1>1, <1>2, NamedMap, OnePointStep
<1>4. zoneName # NoZone => OfZone(points', zoneName, refused)
  BY <1>3 DEF OfZone, MonitorInv
<1>5. Disk' \in Disks /\ ZoneFiles(Disk', refused) /\ Kept(Disk, Disk')
  BY <1>1, <1>3, <1>4, SavesOwnZone DEF renameSpawnPoint
<1>. QED BY <1>1, <1>3, <1>4, <1>5 DEF MonitorInv

(* A save cut short by a crash, of the points as they are or as a rename   *)
(* has just made them.                                                     *)
LEMMA InterruptedSave ==
  ASSUME MonitorInv, SaveInterrupted
  PROVE  Disk' \in Disks /\ ZoneFiles(Disk', refused) /\ Kept(Disk, Disk')
<1>1. PICK n \in 1 .. 3 :
         \/ Saves /\ DiskIs(AfterSteps(points, n))
         \/ /\ zoneName # NoZone
            /\ \E p \in DOMAIN points, label \in Label : DiskIs(AfterSteps(Named(p, label), n))
  BY DEF SaveInterrupted
<1>2. n \in 1 .. 4
  OBVIOUS
<1>3. CASE Saves /\ DiskIs(AfterSteps(points, n))
  BY <1>2, <1>3, SaveStep DEF Saves, MonitorInv
<1>4. CASE /\ zoneName # NoZone
           /\ \E p \in DOMAIN points, label \in Label : DiskIs(AfterSteps(Named(p, label), n))
  <2>1. PICK p \in DOMAIN points, label \in Label : DiskIs(AfterSteps(Named(p, label), n))
    BY <1>4
  <2>2. Named(p, label) \in PointMap /\ OfZone(Named(p, label), zoneName, refused)
    BY <1>4, NamedMap DEF OfZone, MonitorInv
  <2>. QED BY <1>2, <1>4, <2>1, <2>2, SaveStep
<1>. QED BY <1>1, <1>3, <1>4

LEMMA RestartStep ==
  ASSUME MonitorInv, Restart, Disk' \in Disks, ZoneFiles(Disk', refused)
  PROVE  MonitorInv'
BY EmptyMap DEF MonitorInv, Restart

LEMMA CrashStep ==
  ASSUME MonitorInv, Crash
  PROVE  MonitorInv' /\ Kept(Disk, Disk')
<1>1. Disk' \in Disks /\ ZoneFiles(Disk', refused) /\ Kept(Disk, Disk')
  <2>1. CASE UNCHANGED fileVars
    BY <2>1, DiskStays DEF MonitorInv, Kept
  <2>2. CASE SaveInterrupted
    BY <2>2, InterruptedSave
  <2>. QED BY <2>1, <2>2 DEF Crash
<1>. QED BY <1>1, RestartStep DEF Crash

LEMMA MonitorStep ==
  ASSUME MonitorInv, [Next]_vars
  PROVE  MonitorInv' /\ Kept(Disk, Disk')
<1>. USE DEF Kept
<1>1. ASSUME NEW z \in Zones, GrantZone(z) PROVE MonitorInv' /\ Kept(Disk, Disk')
  BY <1>1, SwitchStep DEF GrantZone, MonitorInv
<1>2. ASSUME NEW z \in Zones, RefuseZone(z) PROVE MonitorInv' /\ Kept(Disk, Disk')
  <2>1. /\ zoneChanged(z) /\ here' = here /\ arrived' = arrived /\ zoning' = TRUE
        /\ alive' = {} /\ refused' = refused \cup {<<here, z>>}
    BY <1>2 DEF RefuseZone
  <2>2. here \in Zones /\ arrived \in BOOLEAN /\ refused \subseteq Zones \X Zones
    BY DEF MonitorInv
  <2>3. <<here', z>> \in refused' /\ refused \subseteq refused' /\ refused' \subseteq Zones \X Zones
    BY <2>1, <2>2
  <2>. QED BY <2>1, <2>2, <2>3, SwitchStep
<1>3. ASSUME NEW z \in Zones, Camp(z) PROVE MonitorInv' /\ Kept(Disk, Disk')
  BY <1>3, DiskStays DEF Camp, MonitorInv, monitorVars
<1>4. ASSUME Arrive PROVE MonitorInv' /\ Kept(Disk, Disk')
  BY <1>4, SwitchStep DEF Arrive, MonitorInv
<1>5. ASSUME AskZone \/ ResendProfile PROVE MonitorInv' /\ Kept(Disk, Disk')
  BY <1>5, DiskStays DEF AskZone, ResendProfile, MonitorInv, monitorVars
<1>6. ASSUME NEW id \in Ids, NEW s \in Spots, newSpawn(id, s)
      PROVE MonitorInv' /\ Kept(Disk, Disk')
  BY <1>6, PopStep, DiskStays DEF newSpawn
<1>7. ASSUME NEW id \in Ids, killSpawn(id) PROVE MonitorInv' /\ Kept(Disk, Disk')
  BY <1>7, KillStep
<1>8. ASSUME NEW id \in Ids, Depop(id) PROVE MonitorInv' /\ Kept(Disk, Disk')
  BY <1>8, DiskStays DEF Depop, MonitorInv, monitorVars
<1>9. ASSUME NEW p \in Place, NEW label \in Label, renameSpawnPoint(p, label)
      PROVE MonitorInv' /\ Kept(Disk, Disk')
  BY <1>9, RenameStep
<1>10. ASSUME aboutToQuit PROVE MonitorInv' /\ Kept(Disk, Disk')
  <2>1. PICK left \in BOOLEAN : saveSpawnPoints(points, modified, left)
    BY <1>10 DEF aboutToQuit
  <2>2. Disk' \in Disks /\ ZoneFiles(Disk', refused) /\ Kept(Disk, Disk')
    BY <2>1, SavesOwnZone DEF MonitorInv
  <2>. QED BY <1>10, <2>2, RestartStep DEF aboutToQuit
<1>11. ASSUME Crash PROVE MonitorInv' /\ Kept(Disk, Disk')
  BY <1>11, CrashStep
<1>12. CASE UNCHANGED vars
  BY <1>12, DiskStays DEF vars, worldVars, monitorVars, MonitorInv
<1>. QED BY <1>1, <1>2, <1>3, <1>4, <1>5, <1>6, <1>7, <1>8, <1>9, <1>10, <1>11, <1>12 DEF Next

(* MonitorInv holds in every reachable state. *)
THEOREM MonitorInvHolds == Spec => []MonitorInv
<1>1. Init => MonitorInv
  BY MonitorInitially
<1>2. MonitorInv /\ [Next]_vars => MonitorInv'
  BY MonitorStep
<1>. QED BY <1>1, <1>2, PTL DEF Spec

-----------------------------------------------------------------------------

(* The monitor's maps, its client's view and the files of every zone keep  *)
(* their types whatever the player and the crashes do.                     *)
THEOREM MonitorTypes == Spec => []TypeOK
<1>1. MonitorInv => TypeOK
  BY DEF MonitorInv, TypeOK, Disk, Disks
<1>. QED BY <1>1, MonitorInvHolds, PTL

(* A point is in the maps or a file of a zone it is not of only where a    *)
(* change from its zone to that one was refused: zoning, camping into a    *)
(* new zone, quitting, saves that cannot be opened and crashes at any step *)
(* of a save leave <zone>.sp, .sp.bak and .sp.new with the other points.   *)
THEOREM PointsKeepToTheirZone == Spec => []PointsOfTheirZone
<1>1. MonitorInv => PointsOfTheirZone
  BY DEF MonitorInv, PointsOfTheirZone, ZoneFiles, OfZone, MayStand, Disk
<1>. QED BY <1>1, MonitorInvHolds, PTL

(* However a place's pops, kills, loads and saves follow each other, it is *)
(* a candidate or a point and never both, so no SpawnPoint has two owners. *)
THEOREM PlacesHaveOneOwner == Spec => []OneOwner
<1>1. MonitorInv => OneOwner
  BY DEF MonitorInv, OneOwner
<1>. QED BY <1>1, MonitorInvHolds, PTL

(* A client connected throughout shows the monitor's points after every    *)
(* pop, kill, rename, load and change of zone.                             *)
THEOREM ViewFollowsPoints == Spec => []ViewIsPoints
<1>1. MonitorInv => ViewIsPoints
  BY DEF MonitorInv, ViewIsPoints
<1>. QED BY <1>1, MonitorInvHolds, PTL

(* From a zone's first save on, every state has a complete copy of its     *)
(* points on disk: no step of any save, finished or cut short, takes away  *)
(* the last one.                                                           *)
THEOREM CompleteCopyKept == Spec => CompleteCopyStays
<1>1. MonitorInv /\ [Next]_vars =>
        [\A z \in Zones : HasCopy(sp[z], bak[z]) => HasCopy(sp'[z], bak'[z])]_vars
  <2>. SUFFICES ASSUME MonitorInv, [Next]_vars
                PROVE  \A z \in Zones : HasCopy(sp[z], bak[z]) => HasCopy(sp'[z], bak'[z])
    OBVIOUS
  <2>1. Kept(Disk, Disk')
    BY MonitorStep
  <2>. QED BY <2>1 DEF Kept, Disk
<1>. QED BY <1>1, MonitorInvHolds, PTL DEF Spec, CompleteCopyStays
=============================================================================
