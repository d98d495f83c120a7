----------------------------- MODULE SpellShell -----------------------------
(***************************************************************************)
(* The spell shell: the spells the player has cast or carries, each        *)
(* counting down on one timer that runs only while there is one.  Every    *)
(* web session gets the whole list whenever the shell emits a signal, read *)
(* at the moment of the signal.  Durations are in ticks of the timer (6 s, *)
(* the default of the SpellTimer preference).  The spawns around the       *)
(* player and their names are the environment.                             *)
(***************************************************************************)
EXTENDS Integers, Sequences, Selection

CONSTANTS SelfSpells,       \* target type 6: always on their caster
          OtherSpells,
          Permanent,        \* those of duration formula 50
          Ids, Names, Me,   \* spawn ids and names; Me is the player's
          Ticks,            \* durations of the spells that are not permanent
          Obj,              \* addresses of SpellItems
          NoObj, NoId, NA,  \* a null pointer, id 0, the name "N/A"
          MaxPackets        \* bound on the packets that add or refresh a spell
Spells == SelfSpells \cup OtherSpells

ASSUME SpellAssumption == Spells # {} /\ Ticks \subseteq Nat /\ MaxPackets \in Nat

Target == Ids \cup {Me}

VARIABLES list,             \* m_spellList
          item,             \* the SpellItem at each address
          lastPlayerSpell, ticking,
          known,            \* the spawn shell: id -> name
          view,             \* the list a web client was last sent
          packets

vars == <<list, item, lastPlayerSpell, ticking, known, view, packets>>

\* calcDuration returns an int16_t.
Int16(n) == IF n % 65536 < 32768 THEN n % 65536 ELSE (n % 65536) - 65536
CalcDuration(s) == IF s \in Permanent THEN {Int16(65535)} ELSE Ticks
Durations == Ticks \cup {Int16(65535)}

Item == [spell : Spells, target : Target \cup {NoId}, name : Names \cup {Me, NA},
         left : Int]

TypeOK ==
  /\ list \in Seq(Obj) /\ item \in [Obj -> Item]
  /\ lastPlayerSpell \in Obj \cup {NoObj}
  /\ ticking \in BOOLEAN
  /\ DOMAIN known \subseteq Ids /\ \A id \in DOMAIN known : known[id] \in Names
  /\ view \in Seq(Item)
  /\ packets \in 0 .. MaxPackets

AnyItem == [spell |-> CHOOSE s \in Spells : TRUE, target |-> NoId, name |-> NA, left |-> 0]
Init == /\ list = << >> /\ item = [o \in Obj |-> AnyItem]
        /\ lastPlayerSpell = NoObj /\ ticking = FALSE
        /\ known = << >> /\ view = << >> /\ packets = 0

-----------------------------------------------------------------------------

\* What sendBuffsUpdate reads when the shell's list is l.
Sent(l, it) == [i \in DOMAIN l |-> it[l[i]]]

Listed == {list[i] : i \in DOMAIN list}
NameOf(id) == IF id = Me THEN Me ELSE IF id \in DOMAIN known THEN known[id] ELSE NA

\* The list without the items of gone, erased where the loop meets them.
Without(gone) == Chosen(list, {i \in DOMAIN list : list[i] \notin gone})

\* The first item findSpell stops at, or none.  An unknown spawn's name is
\* empty in the search and "N/A" in the item, so two unknowns do not match.
FirstOf(P) == IF P = {} THEN {} ELSE {list[CHOOSE i \in P : \A j \in P : i <= j]}
FindOn(s, id) ==
  FirstOf({i \in DOMAIN list :
             LET it == item[list[i]]
             IN  /\ it.spell = s
                 /\ \/ it.target = id
                    \/ it.target = NoId /\ it.name = NameOf(id) /\ it.name # NA})
FindAny(s) == FirstOf({i \in DOMAIN list : item[list[i]].spell = s})
Find(s, id) == IF s \in SelfSpells THEN FindAny(s) ELSE FindOn(s, id)

Updated(it, s, d, id) ==
  [spell |-> s, left |-> d, name |-> NameOf(id),
   target |-> IF s \in SelfSpells THEN it.target ELSE id]

\* Mutant: a refreshed spell is not announced.
RefreshQuietly(o, s, d, id) ==
  /\ item' = [item EXCEPT ![o] = Updated(@, s, d, id)]
  /\ UNCHANGED <<list, lastPlayerSpell, ticking, view>>
Refresh(o, s, d, id) ==
  /\ item' = [item EXCEPT ![o] = Updated(@, s, d, id)]
  /\ view' = Sent(list, item')
  /\ UNCHANGED <<list, lastPlayerSpell, ticking>>

Add(o, s, d, id) ==
  /\ o \notin Listed
  /\ item' = [item EXCEPT ![o] = Updated(AnyItem, s, d, id)]
  /\ list' = Append(list, o)
  /\ view' = Sent(list', item')
  /\ ticking' = TRUE

Received == packets < MaxPackets /\ packets' = packets + 1 /\ UNCHANGED known

selfStartSpellCast(s, id) ==
  /\ Received
  /\ \E d \in CalcDuration(s) :
       \/ \E o \in Find(s, id) : Refresh(o, s, d, IF s \in SelfSpells THEN Me ELSE id)
       \/ /\ Find(s, id) = {}
          /\ \E o \in Obj : /\ Add(o, s, d, IF s \in SelfSpells THEN Me ELSE id)
                            /\ lastPlayerSpell' = o

buffLoad(s, d) ==
  /\ Received
  /\ \/ \E o \in FindOn(s, Me) : Refresh(o, s, d, Me)
     \/ /\ FindOn(s, Me) = {}
        /\ \E o \in Obj : Add(o, s, d, Me)
        /\ UNCHANGED lastPlayerSpell

\* A spell that lands: a listed one restarts, another one counts if it
\* lands on the player.
action(s, id) ==
  /\ Received
  /\ \E d \in CalcDuration(s) :
       \/ \E o \in FindOn(s, id) : Refresh(o, s, d, id)
       \/ /\ FindOn(s, id) = {} /\ id = Me
          /\ \E o \in Obj : Add(o, s, d, id)
          /\ UNCHANGED lastPlayerSpell

\* Mutant: the pointer to the last cast survives its item.
KeepsLast(gone) == lastPlayerSpell' = lastPlayerSpell
ForgetsLast(gone) == lastPlayerSpell' = IF lastPlayerSpell \in gone THEN NoObj
                                        ELSE lastPlayerSpell

\* buff, change type 1: deleteSpell.
buffFades(s, id) ==
  /\ \E o \in Find(s, id) :
       /\ list' = Without({o})
       /\ ForgetsLast({o})
  /\ ticking' = (list' # << >>)
  /\ view' = Sent(list', item)
  /\ UNCHANGED <<item, known, packets>>

\* buff, change type 2.
buffUpdates(s, id, d) ==
  /\ Received
  /\ \E o \in Find(s, id) : item' = [item EXCEPT ![o].left = d]
  /\ view' = Sent(list, item')
  /\ UNCHANGED <<list, lastPlayerSpell, ticking>>

\* clear() emits clearSpells before it empties the list.
clear == /\ view' = Sent(list, item)
         /\ list' = << >> /\ lastPlayerSpell' = NoObj
         /\ ticking' = FALSE
         /\ UNCHANGED <<item, known, packets>>

zoneChanged ==
  /\ lastPlayerSpell' = NoObj
  /\ item' = [o \in Obj |-> IF o \in Listed THEN [item[o] EXCEPT !.target = NoId] ELSE item[o]]
  /\ known' = << >>
  /\ UNCHANGED <<list, ticking, view, packets>>

\* Mutant: only clear() and deleteSpell stop the timer.
StaysTicking(l) == ticking
TicksFor(l) == ticking /\ l # << >>

killSpawn(id) ==
  LET dead == {o \in Listed : item[o].target = id}
  IN  /\ list' = Without(dead)
      /\ lastPlayerSpell' = IF lastPlayerSpell \in dead THEN NoObj ELSE lastPlayerSpell
      /\ view' = IF dead = {} THEN view ELSE Sent(list', item)
      /\ ticking' = TicksFor(list')
      /\ UNCHANGED <<item, known, packets>>

\* Mutant: the time that is left is computed and not stored.
TickedNowhere(it) == it
Ticked(it) == [it EXCEPT !.left = @ - 1]

\* Each item is announced while it is visited, an expired one before it is
\* erased; the last announcement is made at the last item.
timeout ==
  LET expired == {o \in Listed : item[o].left - 1 <= -1}
      atLast  == {i \in DOMAIN list : i = Len(list) \/ list[i] \notin expired}
  IN  /\ ticking
      /\ list' = Without(expired)
      /\ item' = [o \in Obj |-> IF o \in Listed \ expired
                                THEN Ticked(item[o]) ELSE item[o]]
      /\ ForgetsLast(expired)
      /\ view' = Sent(Chosen(list, atLast), item')
      /\ ticking' = TicksFor(list')
      /\ UNCHANGED <<known, packets>>

-----------------------------------------------------------------------------
(* The spawns around the player. *)

Appear(id, n) == /\ id \notin DOMAIN known
                 /\ known' = [i \in DOMAIN known \cup {id} |-> IF i = id THEN n ELSE known[i]]
                 /\ UNCHANGED <<list, item, lastPlayerSpell, ticking, view, packets>>

Next ==
  \/ \E s \in Spells :
        \/ selfStartSpellCast(s, NoId)
        \/ \E id \in Target : selfStartSpellCast(s, id) \/ action(s, id) \/ buffFades(s, id)
  \/ \E s \in Spells, d \in Ticks :
        buffLoad(s, d) \/ \E id \in Target : buffUpdates(s, id, d)
  \/ clear
  \/ zoneChanged
  \/ \E id \in DOMAIN known : killSpawn(id)
  \/ timeout
  \/ \E id \in Ids, n \in Names : Appear(id, n)

Spec == Init /\ [][Next]_vars

(* The event loop serves the running timer. *)
FairSpec == Spec /\ WF_vars(timeout)

-----------------------------------------------------------------------------

(* m_lastPlayerSpell is null or an item of the list: whichever of the five *)
(* ways an item is deleted, no pointer to it stays behind for killSpawn.   *)
LastIsListed == lastPlayerSpell \in Listed \cup {NoObj}

(* The timer runs exactly while the list has an item, although seven       *)
(* operations add and remove items and each starts or stops it itself.     *)
TimerRunsWhileListed == ticking <=> list # << >>

(* What the clients were last sent leaves nothing out: each listed spell   *)
(* is there with the time it has left.                                     *)
ListedIsShown ==
  \A o \in Listed : \E i \in DOMAIN view :
     view[i].spell = item[o].spell /\ view[i].left = item[o].left

(* When the casting stops the list drains and the timer with it: no spell  *)
(* counts down for ever or stays without a timer.                          *)
ListDrains == []<>(list = << >>)

\* Not so today: clear() and timeout() emit before they remove, so a death
\* leaves the client with every buff and the last expiry with that one.
(* "Re-emits the full active-buff list on any SpellShell change"           *)
(* (sessionadapter.h:121): the client shows nothing that is not listed.    *)
ShownIsListed ==
  \A i \in DOMAIN view : \E o \in Listed : item[o].spell = view[i].spell

\* Not so today: the 65535 of formula 50 is -1 in an int16_t.
(* "as close to permanent as I can get" (spells.cpp:220): the timer alone  *)
(* never removes a permanent spell that was cast.                          *)
PermanentStays ==
  [][timeout => \A o \in Listed : item[o].spell \in Permanent =>
                   \E i \in DOMAIN list' : list'[i] = o]_vars
=============================================================================
