----------------------------- MODULE SpellProofs -----------------------------
(***************************************************************************)
(* The spell shell, for any spells, names, durations and addresses.        *)
(***************************************************************************)
EXTENDS SpellShell, TLAPS, FiniteSetTheorems, WellFoundedInduction

-----------------------------------------------------------------------------
(* What is left of a list has the elements at the positions that were kept.*)

\* Every number up to the size of P is the rank of one of its positions.
LEMMA RanksAreAll ==
  ASSUME NEW m \in Nat, NEW P \in SUBSET (1 .. m)
  PROVE  /\ Cardinality(P) \in Nat
         /\ \A i \in P : Rank(P, i) \in 1 .. Cardinality(P)
         /\ \A i, j \in P : Rank(P, i) = Rank(P, j) => i = j
         /\ \A n \in 1 .. Cardinality(P) : \E i \in P : Rank(P, i) = n
<1> DEFINE C == Cardinality(P)
           Upto(i) == {j \in P : j <= i}
<1>0. IsFiniteSet(1 .. m)
  BY FS_Interval
<1>1. IsFiniteSet(P) /\ C \in Nat
  BY <1>0, FS_Subset, FS_CardinalityType
<1>2. \A i \in P : /\ IsFiniteSet(Upto(i)) /\ Cardinality(Upto(i)) <= C
                   /\ Cardinality(Upto(i)) \in Nat
  <2> SUFFICES ASSUME NEW i \in P
               PROVE  /\ IsFiniteSet(Upto(i)) /\ Cardinality(Upto(i)) <= C
                      /\ Cardinality(Upto(i)) \in Nat
    OBVIOUS
  <2>1. Upto(i) \in SUBSET P
    OBVIOUS
  <2>. HIDE DEF Upto
  <2>. QED BY <1>1, <2>1, FS_Subset, FS_CardinalityType
<1>3. \A i \in P : Cardinality(Upto(i)) # 0
  <2> SUFFICES ASSUME NEW i \in P PROVE Cardinality(Upto(i)) # 0
    OBVIOUS
  <2>1. Upto(i) # {}
    OBVIOUS
  <2>. HIDE DEF Upto
  <2>. QED BY <1>2, <2>1, FS_EmptySet
<1>4. ASSUME NEW i \in P, NEW j \in P, i < j
      PROVE  Cardinality(Upto(i)) # Cardinality(Upto(j))
  <2>0. i \in Int /\ j \in Int /\ \A h \in P : h \in Int
    OBVIOUS
  <2>1. (\A h \in P : h <= i => h <= j) /\ j <= j /\ ~(j <= i)
    BY <1>4, <2>0
  <2>2. Upto(i) \in SUBSET Upto(j) /\ j \in Upto(j) /\ j \notin Upto(i)
    BY <2>1
  <2>3. Upto(i) # Upto(j)
    BY <2>2
  <2>. HIDE DEF Upto
  <2>. QED BY <1>2, <2>2, <2>3, FS_Subset
<1>5. \A i \in P : Rank(P, i) = Cardinality(Upto(i))
  BY DEF Rank
<1>. HIDE DEF Upto
<1>6. \A i \in P : Rank(P, i) \in 1 .. C
  BY <1>1, <1>2, <1>3, <1>5
<1>7. \A i, j \in P : Rank(P, i) = Rank(P, j) => i = j
  <2> SUFFICES ASSUME NEW i \in P, NEW j \in P, i # j PROVE Rank(P, i) # Rank(P, j)
    OBVIOUS
  <2>1. i < j \/ j < i
    OBVIOUS
  <2>. QED BY <1>4, <1>5, <2>1
<1>8. \A n \in 1 .. C : \E i \in P : Rank(P, i) = n
  <2> DEFINE f == [i \in P |-> Rank(P, i)]
             I == {f[i] : i \in P}
  <2>1. f \in Bijection(P, I)
    BY <1>7 DEF Bijection, Injection, Surjection, IsInjective
  <2>2. IsFiniteSet(I) /\ Cardinality(I) = C
    <3>. HIDE DEF f, I
    <3>. QED BY <1>1, <2>1, FS_Bijection DEF ExistsBijection
  <2>3. I \in SUBSET (1 .. C)
    BY <1>6
  <2>4. IsFiniteSet(1 .. C) /\ Cardinality(1 .. C) = C
    <3>1. C \in Int /\ 1 \in Int /\ (1 > C => C = 0) /\ C - 1 + 1 = C
      BY <1>1
    <3>. HIDE DEF C
    <3>. QED BY <3>1, FS_Interval
  <2>5. I = 1 .. C
    <3>. HIDE DEF I, C
    <3>. QED BY <2>2, <2>3, <2>4, FS_Subset
  <2>. QED BY <2>5
<1>. QED BY <1>1, <1>6, <1>7, <1>8

LEMMA ChosenAre ==
  ASSUME NEW S, NEW s \in Seq(S), NEW P \in SUBSET (DOMAIN s)
  PROVE  LET t == Chosen(s, P) IN
         /\ t \in Seq(S) /\ (t = << >> <=> P = {})
         /\ \A n \in DOMAIN t : \E i \in P : t[n] = s[i]
         /\ \A i \in P : \E n \in DOMAIN t : t[n] = s[i]
<1> DEFINE C == Cardinality(P)
           t == Chosen(s, P)
<1>1. /\ C \in Nat
      /\ \A i \in P : Rank(P, i) \in 1 .. C
      /\ \A i, j \in P : Rank(P, i) = Rank(P, j) => i = j
      /\ \A n \in 1 .. C : \E i \in P : Rank(P, i) = n
  <2>1. Len(s) \in Nat /\ P \in SUBSET (1 .. Len(s))
    OBVIOUS
  <2>. QED BY <2>1, RanksAreAll
<1>. HIDE DEF C
<1>2. \A n \in 1 .. C : Nth(P, n) \in P /\ Rank(P, Nth(P, n)) = n
  BY <1>1 DEF Nth
<1>3. t = [n \in 1 .. C |-> s[Nth(P, n)]]
  BY DEF Chosen, C
<1>. HIDE DEF t
<1>4. DOMAIN t = 1 .. C /\ \A n \in 1 .. C : t[n] = s[Nth(P, n)]
  BY <1>3
<1>5. t \in [1 .. C -> S]
  BY <1>2, <1>3
<1>6. t \in Seq(S)
  BY <1>1, <1>5
<1>7. t = << >> <=> C = 0
  BY <1>1, <1>4, <1>6
<1>8. C = 0 <=> P = {}
  BY <1>1
<1>9. \A i \in P : Rank(P, i) \in 1 .. C /\ t[Rank(P, i)] = s[i]
  BY <1>1, <1>2, <1>4
<1>. QED BY <1>2, <1>4, <1>6, <1>7, <1>8, <1>9 DEF t

-----------------------------------------------------------------------------

SpellInv == TypeOK /\ LastIsListed /\ TimerRunsWhileListed /\ ListedIsShown

LEMMA ListedAre ==
  ASSUME list \in Seq(Obj)
  PROVE  /\ Listed \in SUBSET Obj /\ (Listed = {} <=> list = << >>)
         /\ \A i \in DOMAIN list : list[i] \in Listed
<1>1. Len(list) \in Nat /\ DOMAIN list = 1 .. Len(list) /\ (list # << >> => 1 \in DOMAIN list)
      /\ \A i \in DOMAIN list : list[i] \in Obj
  OBVIOUS
<1>2. \A i \in DOMAIN list : list[i] \in Listed
  BY DEF Listed
<1>3. Listed \in SUBSET Obj
  BY <1>1 DEF Listed
<1>4. list = << >> => Listed = {}
  BY DEF Listed
<1>. QED BY <1>1, <1>2, <1>3, <1>4

LEMMA SentAre ==
  ASSUME NEW l \in Seq(Obj), NEW it \in [Obj -> Item]
  PROVE  /\ Sent(l, it) \in Seq(Item) /\ DOMAIN Sent(l, it) = DOMAIN l
         /\ \A i \in DOMAIN l : Sent(l, it)[i] = it[l[i]]
<1>1. DOMAIN l = 1 .. Len(l) /\ Len(l) \in Nat /\ \A i \in DOMAIN l : l[i] \in Obj
  OBVIOUS
<1>2. Sent(l, it) \in [1 .. Len(l) -> Item]
  BY <1>1 DEF Sent
<1>. QED BY <1>1, <1>2 DEF Sent

\* What is erased from the list is no longer listed, and nothing else.
LEMMA WithoutAre ==
  ASSUME list \in Seq(Obj), NEW gone
  PROVE  /\ Without(gone) \in Seq(Obj)
         /\ (Without(gone) = << >> <=> Listed \subseteq gone)
         /\ \A o : (\E i \in DOMAIN Without(gone) : Without(gone)[i] = o) <=> o \in Listed \ gone
<1> DEFINE P == {i \in DOMAIN list : list[i] \notin gone}
           t == Chosen(list, P)
<1>1. /\ t \in Seq(Obj) /\ (t = << >> <=> P = {})
      /\ \A n \in DOMAIN t : \E i \in P : t[n] = list[i]
      /\ \A i \in P : \E n \in DOMAIN t : t[n] = list[i]
  <2>1. P \in SUBSET (DOMAIN list) /\ list \in Seq(Obj)
    OBVIOUS
  <2>. HIDE DEF P
  <2>. QED BY <2>1, ChosenAre, ZenonT(60)
<1>2. Without(gone) = t
  BY DEF Without
<1>3. P = {} <=> Listed \subseteq gone
  BY DEF Listed
<1>. HIDE DEF t
<1>4. \A o : (\E i \in DOMAIN t : t[i] = o) <=> o \in Listed \ gone
  BY <1>1, SMTT(30) DEF Listed
<1>. QED BY <1>1, <1>2, <1>3, <1>4

LEMMA LeastNumber ==
  ASSUME NEW T, T \subseteq Nat, T # {}
  PROVE  \E m \in T : \A n \in T : m <= n
<1> DEFINE R == OpToRel(<, Nat)
<1>1. IsWellFoundedOn(R, Nat)
  BY NatLessThanWellFounded
<1>2. PICK m \in T : \A n \in T : ~(<<n, m>> \in R)
  <2>. HIDE DEF R
  <2>. QED BY <1>1, WFMin
<1>3. \A n \in T : ~(n < m)
  BY <1>2 DEF OpToRel
<1>. QED BY <1>3

LEMMA ErasedAre ==
  ASSUME list \in Seq(Obj), NEW gone, list' = Without(gone)
  PROVE  list' \in Seq(Obj) /\ Listed' = Listed \ gone /\ (list' # << >> => list # << >>)
<1>1. \A o : o \in Listed' <=> \E i \in DOMAIN list' : list'[i] = o
  BY DEF Listed
<1>2. \A o : o \in Listed' <=> o \in Listed \ gone
  BY <1>1, WithoutAre
<1>3. Listed' = Listed \ gone
  BY <1>2
<1>. QED BY <1>3, WithoutAre, ListedAre

LEMMA FoundIsListed ==
  ASSUME NEW P \in SUBSET (DOMAIN list), list \in Seq(Obj)
  PROVE  FirstOf(P) \subseteq Listed
<1>1. CASE P = {}
  BY <1>1 DEF FirstOf
<1>2. CASE P # {}
  <2>1. PICK a \in P : \A j \in P : a <= j
    <3>1. P \subseteq Nat
      OBVIOUS
    <3>. QED BY <1>2, <3>1, LeastNumber
  <2>2. (CHOOSE i \in P : \A j \in P : i <= j) \in P
    BY <2>1
  <2>. QED BY <1>2, <2>2 DEF FirstOf, Listed
<1>. QED BY <1>1, <1>2

LEMMA FindsListed ==
  ASSUME list \in Seq(Obj), NEW s, NEW id
  PROVE  Find(s, id) \subseteq Listed /\ FindOn(s, id) \subseteq Listed
<1>1. FindOn(s, id) \subseteq Listed
  <2> DEFINE P == {i \in DOMAIN list :
             LET it == item[list[i]]
             IN  /\ it.spell = s
                 /\ \/ it.target = id
                    \/ it.target = NoId /\ it.name = NameOf(id) /\ it.name # NA}
  <2>1. P \in SUBSET (DOMAIN list)
    OBVIOUS
  <2>2. FindOn(s, id) = FirstOf(P)
    BY DEF FindOn
  <2>. HIDE DEF P
  <2>. QED BY <2>1, <2>2, FoundIsListed
<1>2. FindAny(s) \subseteq Listed
  BY FoundIsListed DEF FindAny
<1>. QED BY <1>1, <1>2 DEF Find

LEMMA NamesAre ==
  ASSUME TypeOK, NEW id
  PROVE  NameOf(id) \in Names \cup {Me, NA}
  BY DEF TypeOK, NameOf

LEMMA UpdatedIs ==
  ASSUME TypeOK, NEW it \in Item, NEW s \in Spells, NEW d \in Int, NEW id \in Target \cup {NoId}
  PROVE  Updated(it, s, d, id) \in Item
  BY NamesAre DEF Updated, Item

LEMMA DurationsAre ==
  ASSUME NEW s, NEW d \in CalcDuration(s) PROVE d \in Int
  BY SpellAssumption DEF CalcDuration, Int16

LEMMA AnyIsItem == AnyItem \in Item
  BY SpellAssumption DEF AnyItem, Item

LEMMA SpellsInitially == Init => SpellInv
<1> SUFFICES ASSUME Init PROVE SpellInv
  OBVIOUS
<1>1. list = << >> /\ view = << >> /\ known = << >> /\ DOMAIN known = {} /\ DOMAIN list = {}
      /\ list \in Seq(Obj) /\ view \in Seq(Item)
  BY DEF Init
<1>2. item \in [Obj -> Item] /\ packets \in 0 .. MaxPackets
  BY AnyIsItem, SpellAssumption DEF Init
<1>4. TypeOK
  BY <1>1, <1>2 DEF Init, TypeOK
<1>3. Listed = {}
  BY <1>1 DEF Listed
<1>. QED BY <1>1, <1>3, <1>4 DEF Init, SpellInv, LastIsListed, TimerRunsWhileListed, ListedIsShown

\* Whoever sends the whole list shows all of it.
LEMMA SendsAll ==
  ASSUME list' \in Seq(Obj), item' \in [Obj -> Item], view' = Sent(list', item')
  PROVE  view' \in Seq(Item) /\ ListedIsShown'
<1>1. /\ view' \in Seq(Item) /\ DOMAIN view' = DOMAIN list'
      /\ \A i \in DOMAIN list' : view'[i] = item'[list'[i]]
  BY SentAre
<1>. QED BY <1>1 DEF ListedIsShown, Listed

LEMMA RefreshStep ==
  ASSUME SpellInv, Received, NEW o \in Listed, NEW s \in Spells, NEW d \in Int,
         NEW id \in Target \cup {NoId}, Refresh(o, s, d, id)
  PROVE  SpellInv'
<1>1. o \in Obj
  BY ListedAre DEF SpellInv, TypeOK
<1>2. item' \in [Obj -> Item]
  BY <1>1, UpdatedIs DEF Refresh, SpellInv, TypeOK
<1>3. list' = list /\ lastPlayerSpell' = lastPlayerSpell /\ ticking' = ticking
      /\ view' = Sent(list', item') /\ list' \in Seq(Obj)
  BY DEF Refresh, SpellInv, TypeOK
<1>4. view' \in Seq(Item) /\ ListedIsShown'
  BY <1>2, <1>3, SendsAll
<1>5. TypeOK'
  BY <1>2, <1>3, <1>4, SpellAssumption DEF Received, SpellInv, TypeOK
<1>. QED BY <1>3, <1>4, <1>5 DEF SpellInv, LastIsListed, Listed, TimerRunsWhileListed

LEMMA AddStep ==
  ASSUME SpellInv, Received, NEW o \in Obj, NEW s \in Spells, NEW d \in Int,
         NEW id \in Target \cup {NoId}, Add(o, s, d, id), lastPlayerSpell' \in {lastPlayerSpell, o}
  PROVE  SpellInv'
<1>1. list \in Seq(Obj) /\ list' = Append(list, o)
  BY DEF SpellInv, TypeOK, Add
<1>2. item' \in [Obj -> Item]
  BY UpdatedIs, AnyIsItem DEF Add, SpellInv, TypeOK
<1>3. /\ list' \in Seq(Obj) /\ list' # << >> /\ Listed' = Listed \cup {o}
  <2>1. /\ list' \in Seq(Obj) /\ list' # << >> /\ Len(list') = Len(list) + 1
        /\ list'[Len(list) + 1] = o /\ \A i \in 1 .. Len(list) : list'[i] = list[i]
        /\ DOMAIN list = 1 .. Len(list) /\ DOMAIN list' = 1 .. Len(list) + 1 /\ Len(list) \in Nat
    BY <1>1
  <2>2. \A i \in 1 .. Len(list) + 1 : i = Len(list) + 1 \/ i \in 1 .. Len(list)
    BY <2>1
  <2>3. \A i \in 1 .. Len(list) : i \in 1 .. Len(list) + 1
    BY <2>1
  <2>4. Len(list) + 1 \in 1 .. Len(list) + 1
    BY <2>1
  <2>. QED BY <2>1, <2>2, <2>3, <2>4 DEF Listed
<1>4. view' \in Seq(Item) /\ ListedIsShown'
  BY <1>2, <1>3, SendsAll DEF Add
<1>5. TypeOK'
  BY <1>2, <1>3, <1>4, SpellAssumption DEF Received, Add, SpellInv, TypeOK
<1>. QED BY <1>3, <1>4, <1>5 DEF SpellInv, LastIsListed, TimerRunsWhileListed, Add

\* The spells that a packet adds or refreshes.
LEMMA PacketStep ==
  ASSUME SpellInv, NEW s \in Spells, NEW id \in Target \cup {NoId},
         \/ selfStartSpellCast(s, id)
         \/ id \in Target /\ action(s, id)
         \/ \E d \in Ticks : buffLoad(s, d)
  PROVE  SpellInv'
<1>0. list \in Seq(Obj) /\ Received /\ Me \in Target
  BY DEF SpellInv, TypeOK, selfStartSpellCast, action, buffLoad, Target
<1>1. ASSUME NEW d \in Int, NEW t \in Target \cup {NoId}, NEW o \in Listed, Refresh(o, s, d, t)
      PROVE  SpellInv'
  BY <1>0, <1>1, RefreshStep
<1>2. ASSUME NEW d \in Int, NEW t \in Target \cup {NoId}, NEW o \in Obj, Add(o, s, d, t),
             lastPlayerSpell' \in {lastPlayerSpell, o}
      PROVE  SpellInv'
  BY <1>0, <1>2, AddStep
<1>3. CASE selfStartSpellCast(s, id)
  <2> DEFINE t == IF s \in SelfSpells THEN Me ELSE id
  <2>1. PICK d \in CalcDuration(s) :
          \/ \E o \in Find(s, id) : Refresh(o, s, d, t)
          \/ \E o \in Obj : Add(o, s, d, t) /\ lastPlayerSpell' = o
    BY <1>3 DEF selfStartSpellCast
  <2>2. d \in Int /\ t \in Target \cup {NoId}
    BY <1>0, DurationsAre
  <2>. HIDE DEF t
  <2>. QED BY <1>0, <1>1, <1>2, <2>1, <2>2, FindsListed
<1>4. CASE id \in Target /\ action(s, id)
  <2>1. PICK d \in CalcDuration(s) :
          \/ \E o \in FindOn(s, id) : Refresh(o, s, d, id)
          \/ (\E o \in Obj : Add(o, s, d, id)) /\ UNCHANGED lastPlayerSpell
    BY <1>4 DEF action
  <2>2. d \in Int
    BY DurationsAre
  <2>. QED BY <1>0, <1>1, <1>2, <2>1, <2>2, FindsListed
<1>5. CASE \E d \in Ticks : buffLoad(s, d)
  <2>1. PICK d \in Ticks :
          \/ \E o \in FindOn(s, Me) : Refresh(o, s, d, Me)
          \/ (\E o \in Obj : Add(o, s, d, Me)) /\ UNCHANGED lastPlayerSpell
    BY <1>5 DEF buffLoad
  <2>2. d \in Int
    BY SpellAssumption
  <2>. QED BY <1>0, <1>1, <1>2, <2>1, <2>2, FindsListed
<1>. QED BY <1>3, <1>4, <1>5

\* The steps that erase.
LEMMA WithoutStep ==
  ASSUME SpellInv, NEW gone, list' = Without(gone), item' \in [Obj -> Item],
         ForgetsLast(gone), ticking' \in BOOLEAN, ticking' <=> list' # << >>,
         view' \in Seq(Item), ListedIsShown', UNCHANGED <<known, packets>>
  PROVE  SpellInv'
<1>1. list \in Seq(Obj)
  BY DEF SpellInv, TypeOK
<1>2. list' \in Seq(Obj) /\ Listed' = Listed \ gone
  BY <1>1, ErasedAre
<1>3. TypeOK'
  BY <1>2 DEF SpellInv, TypeOK, ForgetsLast
<1>. QED BY <1>2, <1>3 DEF SpellInv, LastIsListed, TimerRunsWhileListed, ForgetsLast

LEMMA FadeStep ==
  ASSUME SpellInv, NEW s \in Spells, NEW id \in Target, buffFades(s, id)
  PROVE  SpellInv'
<1>1. PICK o : list' = Without({o}) /\ ForgetsLast({o})
  BY DEF buffFades
<1>2. list \in Seq(Obj) /\ item' \in [Obj -> Item] /\ UNCHANGED <<known, packets>>
      /\ ticking' = (list' # << >>) /\ view' = Sent(list', item')
  BY DEF SpellInv, TypeOK, buffFades
<1>3. list' \in Seq(Obj)
  BY <1>1, <1>2, WithoutAre
<1>. QED BY <1>1, <1>2, <1>3, SendsAll, WithoutStep

LEMMA UpdateStep ==
  ASSUME SpellInv, NEW s \in Spells, NEW id \in Target, NEW d \in Ticks, buffUpdates(s, id, d)
  PROVE  SpellInv'
<1>1. PICK o \in Find(s, id) : item' = [item EXCEPT ![o].left = d]
  BY DEF buffUpdates
<1>2. /\ list \in Seq(Obj) /\ item \in [Obj -> Item]
      /\ UNCHANGED <<list, lastPlayerSpell, ticking>> /\ Received /\ view' = Sent(list', item')
  BY DEF SpellInv, TypeOK, buffUpdates
<1>3. item' \in [Obj -> Item]
  <2>1. o \in Obj /\ d \in Int
    BY <1>2, FindsListed, ListedAre, SpellAssumption
  <2>. QED BY <1>1, <1>2, <2>1 DEF Item
<1>4. view' \in Seq(Item) /\ ListedIsShown'
  BY <1>2, <1>3, SendsAll
<1>5. TypeOK'
  BY <1>2, <1>3, <1>4, SpellAssumption DEF Received, SpellInv, TypeOK
<1>. QED BY <1>2, <1>4, <1>5 DEF SpellInv, LastIsListed, Listed, TimerRunsWhileListed

LEMMA ClearStep == ASSUME SpellInv, clear PROVE SpellInv'
<1>1. list \in Seq(Obj) /\ item \in [Obj -> Item]
  BY DEF SpellInv, TypeOK
<1>2. list' = << >> /\ Listed' = {} /\ list' \in Seq(Obj) /\ view' \in Seq(Item)
  BY <1>1, SentAre DEF clear, Listed
<1>3. TypeOK'
  BY <1>2 DEF clear, SpellInv, TypeOK
<1>. QED BY <1>2, <1>3 DEF clear, SpellInv, LastIsListed, TimerRunsWhileListed, ListedIsShown

LEMMA ZoneStep == ASSUME SpellInv, zoneChanged PROVE SpellInv'
<1>1. list \in Seq(Obj) /\ item \in [Obj -> Item] /\ Listed \in SUBSET Obj
  BY ListedAre DEF SpellInv, TypeOK
<1>2. /\ item' \in [Obj -> Item] /\ UNCHANGED list /\ Listed' = Listed
      /\ \A o \in Obj : item'[o].spell = item[o].spell /\ item'[o].left = item[o].left
  BY <1>1 DEF zoneChanged, Item, Listed
<1>3. TypeOK'
  BY <1>2 DEF zoneChanged, SpellInv, TypeOK
<1>4. ListedIsShown'
  BY <1>1, <1>2 DEF zoneChanged, SpellInv, ListedIsShown
<1>. QED BY <1>2, <1>3, <1>4 DEF zoneChanged, SpellInv, LastIsListed, TimerRunsWhileListed

LEMMA KillStep == ASSUME SpellInv, NEW id, killSpawn(id) PROVE SpellInv'
<1> DEFINE dead == {o \in Listed : item[o].target = id}
<1>1. /\ list' = Without(dead) /\ ForgetsLast(dead) /\ UNCHANGED <<item, known, packets>>
      /\ view' = (IF dead = {} THEN view ELSE Sent(list', item')) /\ ticking' = TicksFor(list')
      /\ list \in Seq(Obj) /\ item' \in [Obj -> Item] /\ view \in Seq(Item)
  BY DEF killSpawn, ForgetsLast, SpellInv, TypeOK
<1>2. dead \subseteq Listed
  OBVIOUS
<1>. HIDE DEF dead
<1>3. list' \in Seq(Obj) /\ Listed' = Listed \ dead /\ (list' # << >> => list # << >>)
  BY <1>1, ErasedAre
<1>4. view' \in Seq(Item) /\ ListedIsShown'
  <2>1. CASE dead = {}
    <3>1. view' = view /\ Listed' = Listed /\ item' = item
      BY <1>1, <1>3, <2>1
    <3>. QED BY <1>1, <3>1 DEF SpellInv, ListedIsShown
  <2>2. CASE dead # {}
    BY <1>1, <1>3, <2>2, SendsAll
  <2>. QED BY <2>1, <2>2
<1>5. ticking' \in BOOLEAN /\ (ticking' <=> list' # << >>)
  BY <1>1, <1>3 DEF TicksFor, SpellInv, TimerRunsWhileListed
<1>. QED BY <1>1, <1>4, <1>5, WithoutStep

\* The last list a client is sent has the survivors in it.
LEMMA TimeoutStep == ASSUME SpellInv, timeout PROVE SpellInv'
<1> DEFINE expired == {o \in Listed : item[o].left - 1 <= -1}
           atLast  == {i \in DOMAIN list : i = Len(list) \/ list[i] \notin expired}
           sent == Chosen(list, atLast)
<1>1. /\ ticking /\ list' = Without(expired)
      /\ item' = [o \in Obj |-> IF o \in Listed \ expired THEN Ticked(item[o]) ELSE item[o]]
      /\ ForgetsLast(expired) /\ view' = Sent(sent, item') /\ ticking' = TicksFor(list')
      /\ UNCHANGED <<known, packets>> /\ list \in Seq(Obj) /\ item \in [Obj -> Item]
  BY DEF timeout, SpellInv, TypeOK
<1>2. /\ sent \in Seq(Obj)
      /\ \A i \in atLast : \E n \in DOMAIN sent : sent[n] = list[i]
  <2>1. atLast \in SUBSET (DOMAIN list)
    OBVIOUS
  <2>. HIDE DEF atLast
  <2>. QED BY <1>1, <2>1, ChosenAre
<1>. HIDE DEF sent
<1>3. \A o \in Listed \ expired : \E n \in DOMAIN sent : sent[n] = o
  <2>1. \A o \in Listed \ expired : \E i \in atLast : list[i] = o
    BY DEF Listed
  <2>. HIDE DEF atLast, expired
  <2>. QED BY <1>2, <2>1
<1>. HIDE DEF expired, atLast
<1>4. item' \in [Obj -> Item]
  <2>1. \A it \in Item : Ticked(it) \in Item
    BY DEF Ticked, Item
  <2>2. \A o \in Obj : item'[o] \in Item
    BY <1>1, <2>1
  <2>. QED BY <1>1, <2>2
<1>5. /\ view' \in Seq(Item) /\ DOMAIN view' = DOMAIN sent
      /\ \A n \in DOMAIN sent : view'[n] = item'[sent[n]]
  BY <1>1, <1>2, <1>4, SentAre
<1>6. list' \in Seq(Obj) /\ Listed' = Listed \ expired /\ (list' # << >> => list # << >>)
  BY <1>1, ErasedAre
<1>7. ListedIsShown'
  BY <1>3, <1>5, <1>6 DEF ListedIsShown
<1>8. ticking' \in BOOLEAN /\ (ticking' <=> list' # << >>)
  BY <1>1, <1>6 DEF TicksFor, SpellInv, TimerRunsWhileListed
<1>. QED BY <1>1, <1>4, <1>5, <1>7, <1>8, WithoutStep

LEMMA AppearStep ==
  ASSUME SpellInv, NEW id \in Ids, NEW n \in Names, Appear(id, n)
  PROVE  SpellInv'
<1>1. TypeOK'
  BY DEF Appear, SpellInv, TypeOK
<1>. QED BY <1>1 DEF Appear, SpellInv, LastIsListed, Listed, TimerRunsWhileListed, ListedIsShown

LEMMA SpellsStep == SpellInv /\ [Next]_vars => SpellInv'
<1> SUFFICES ASSUME SpellInv, [Next]_vars PROVE SpellInv'
  OBVIOUS
<1>1. CASE UNCHANGED vars
  BY <1>1 DEF vars, SpellInv, TypeOK, LastIsListed, Listed, TimerRunsWhileListed, ListedIsShown
<1>2. CASE \E s \in Spells : \/ selfStartSpellCast(s, NoId)
                             \/ \E id \in Target : selfStartSpellCast(s, id) \/ action(s, id)
                             \/ \E d \in Ticks : buffLoad(s, d)
  BY <1>2, PacketStep
<1>3. CASE \E s \in Spells, id \in Target : buffFades(s, id)
  BY <1>3, FadeStep
<1>4. CASE \E s \in Spells, id \in Target, d \in Ticks : buffUpdates(s, id, d)
  BY <1>4, UpdateStep
<1>5. CASE clear \/ zoneChanged \/ timeout
  BY <1>5, ClearStep, ZoneStep, TimeoutStep
<1>6. CASE \E id \in DOMAIN known : killSpawn(id)
  BY <1>6, KillStep
<1>7. CASE \E id \in Ids, n \in Names : Appear(id, n)
  BY <1>7, AppearStep
<1>. QED BY <1>1, <1>2, <1>3, <1>4, <1>5, <1>6, <1>7 DEF Next

LEMMA SpellInvariant == Spec => []SpellInv
  BY SpellsInitially, SpellsStep, PTL DEF Spec

(* Every variable of the spell shell keeps its type: the addresses in the  *)
(* list are of items, and what is sent to the clients is a list of them.   *)
THEOREM SpellTypes == Spec => []TypeOK
  BY SpellInvariant, PTL DEF SpellInv

(* m_lastPlayerSpell never points to an item that deleteSpell, killSpawn,  *)
(* timeout or clear have deleted.                                          *)
THEOREM NoDanglingSpell == Spec => []LastIsListed
  BY SpellInvariant, PTL DEF SpellInv

(* m_timer runs exactly while there is a spell to count down, whichever of *)
(* the slots of the spell shell added the first or removed the last one.   *)
THEOREM TimerIsOnWhenNeeded == Spec => []TimerRunsWhileListed
  BY SpellInvariant, PTL DEF SpellInv

(* A client has every listed spell with the time it has left, although     *)
(* timeout and killSpawn announce the list while they are changing it.     *)
THEOREM ClientsMissNoSpell == Spec => []ListedIsShown
  BY SpellInvariant, PTL DEF SpellInv
=============================================================================
