------------------------------- MODULE GroupMgr -------------------------------
(***************************************************************************)
(* The player's group: a table of names, each with a pointer to the        *)
(* member's spawn if the spawn list has it, and two counters.  The names   *)
(* come from the group packets, the pointers from the spawn list's         *)
(* signals.  A pointer is the id it was taken from and what has become of  *)
(* the object since: still in the list, taken out of the list (delItem,    *)
(* the object is never freed), or freed by SpawnShell::clear.              *)
(***************************************************************************)
EXTENDS SpawnShell, Integers, FiniteSets

CONSTANTS MaxGroup,   \* MAX_GROUP_MEMBERS, 6 in the code
          NoMember,   \* the empty name of a free slot
          Width       \* the counters are size_t: arithmetic modulo 2^64
ASSUME GroupAssumption == /\ MaxGroup \in Nat \ {0} /\ Width \in Nat /\ Width > MaxGroup
                          /\ NoMember \notin Players

VARIABLES members, memberCount, inZone
groupVars == <<members, memberCount, inZone>>

Slots == 1..MaxGroup
Null == [at |-> "null", id |-> 0]
Pointer == [at: {"null", "listed", "unlisted", "freed"}, id: Ids \cup {0}]
FreeSlot == [name |-> NoMember, spawn |-> Null]

GroupTypeOK == /\ members \in [Slots -> [name: Players \cup {NoMember}, spawn: Pointer]]
               /\ memberCount \in 0..Width-1
               /\ inZone \in 0..Width-1

GroupInit == members = [i \in Slots |-> FreeSlot] /\ memberCount = 0 /\ inZone = 0

Up(n) == (n + 1) % Width
Down(n) == (n - 1) % Width
Named(name) == {i \in Slots: members[i].name = name}
First(S) == CHOOSE i \in S: \A j \in S: i <= j
Names == {members[i].name: i \in Slots} \ {NoMember}

\* findPlayerByDisplayName: some player of that name in the list, or null.
Found(name) == {id \in DOMAIN spawns: isPlayer(spawns[id]) /\ spawns[id].name = name}
Lookup(name) == IF Found(name) = {} THEN {Null}
                ELSE {[at |-> "listed", id |-> id]: id \in Found(name)}

addGroupMember(name) ==
    IF Named(NoMember) = {} THEN UNCHANGED groupVars
    ELSE \E p \in Lookup(name):
           /\ members' = [members EXCEPT ![First(Named(NoMember))] = [name |-> name, spawn |-> p]]
           /\ memberCount' = Up(memberCount)
           /\ inZone' = IF p = Null THEN inZone ELSE Up(inZone)

\* OP_GroupDisband for the player: the whole table goes.
disband == /\ members' = [i \in Slots |-> FreeSlot]
           /\ memberCount' = 0
           /\ inZone' = 0

\* Mutant: the slot is cleared and the count is not.
removeMemberUncounted(name) ==
    IF Named(name) = {} THEN UNCHANGED groupVars
    ELSE /\ members' = [members EXCEPT ![First(Named(name))] = FreeSlot]
         /\ UNCHANGED <<memberCount, inZone>>
removeMember(name) ==
    IF Named(name) = {} THEN UNCHANGED groupVars
    ELSE /\ members' = [members EXCEPT ![First(Named(name))] = FreeSlot]
         /\ memberCount' = Down(memberCount)
         /\ inZone' = IF Found(name) = {} THEN inZone ELSE Down(inZone)

\* The slots of the spawn list's signals.  Each looks for the first member with
\* the spawn's name, and only for spawns that are players.  addItem comes for the
\* spawns of a batch that the list did not have.
Hits(batch) == {id \in DOMAIN batch \ DOMAIN spawns:
                  isPlayer(batch[id]) /\ Named(batch[id].name) # {}}
\* Mutant: the pointer is put into the first slot, not the member's.
addItemsFirstSlot(batch) ==
    /\ members' = IF Hits(batch) = {} THEN members
                  ELSE [members EXCEPT ![1].spawn = [at |-> "listed",
                                                     id |-> CHOOSE id \in Hits(batch): TRUE]]
    /\ inZone' = (inZone + Cardinality(Hits(batch))) % Width
    /\ UNCHANGED memberCount
addItems(batch) ==
    /\ members' = [i \in Slots |->
         IF \E id \in Hits(batch): i = First(Named(batch[id].name))
         THEN [members[i] EXCEPT !.spawn = [at |-> "listed",
                 id |-> CHOOSE id \in Hits(batch): i = First(Named(batch[id].name))]]
         ELSE members[i]]
    /\ inZone' = (inZone + Cardinality(Hits(batch))) % Width
    /\ UNCHANGED memberCount

\* The table once the object of spawn id is out of the list but not freed.
Unlisted(table, id) ==
    [i \in Slots |-> IF table[i].spawn = [at |-> "listed", id |-> id]
                     THEN [table[i] EXCEPT !.spawn.at = "unlisted"] ELSE table[i]]

\* SpawnShell::deleteItem: the signal, then the removal from the map.
delItem(id) ==
    IF id \notin DOMAIN spawns THEN UNCHANGED groupVars
    ELSE LET s == spawns[id]
             hit == isPlayer(s) /\ Named(s.name) # {}
         IN /\ members' = Unlisted(IF hit THEN [members EXCEPT ![First(Named(s.name))].spawn = Null]
                                   ELSE members, id)
            /\ inZone' = IF hit THEN Down(inZone) ELSE inZone
            /\ UNCHANGED memberCount

\* GroupMgr::killSpawn runs after Spawn::killSpawn made the victim a corpse.
killItem(id) ==
    IF id \notin DOMAIN spawns \/ ~isPlayer(Corpse(spawns[id])) THEN UNCHANGED groupVars
    ELSE /\ members' = [i \in Slots |-> IF members[i].name = spawns[id].name
                                        THEN [members[i] EXCEPT !.spawn = Null] ELSE members[i]]
         /\ inZone' = Down(inZone)
         /\ UNCHANGED memberCount

\* SpawnShell::clear frees every spawn and sends no delItem.
spawnsFreed ==
    /\ members' = [i \in Slots |-> IF members[i].spawn.at = "listed"
                                   THEN [members[i] EXCEPT !.spawn.at = "freed"] ELSE members[i]]
    /\ UNCHANGED <<memberCount, inZone>>
=============================================================================
