--------------------------- MODULE WsSessionsProofs ---------------------------
(***************************************************************************)
(* Proofs about the sessions, for any number of sockets, sessions, clients *)
(* and items, any resume buffer and any grace period: first of the broker  *)
(* alone (WsServer), then of the whole (WsSessions).                       *)
(***************************************************************************)
EXTENDS WsSessions, TLAPS, FiniteSetTheorems, SequenceTheorems, WellFoundedInduction

(* The broker alone.                                                       *)

(* The three invariants support each other: that the timer a detachment    *)
(* overwrites is null follows from FullGrace, that the session it detaches *)
(* is not detached already from TablesAgree.                               *)
BrokerInv == WsTypeOK /\ TablesAgree /\ FullGrace

LEMMA BrokerInit == WsInit => BrokerInv
  BY PruneAssumption DEF WsInit, BrokerInv, WsTypeOK, TablesAgree, FullGrace,
     Detached, Orphan, NoTimer

LEMMA ConnectionStep ==
  ASSUME BrokerInv, NEW k \in Sock,
         onNewConnection(k) \/ Disconnect(k) \/ RejectFirstFrame(k) \/ DropPending(k)
  PROVE  BrokerInv'
<1> USE PruneAssumption DEF BrokerInv, onNewConnection, Disconnect,
        RejectFirstFrame, DropPending, Readable
<1>1. WsTypeOK'
  BY DEF WsTypeOK
<1>2. TablesAgree'
  BY DEF WsTypeOK, TablesAgree
<1>3. FullGrace'
  BY DEF FullGrace, Detached
<1>. QED BY <1>1, <1>2, <1>3

LEMMA ResumeStep ==
  ASSUME BrokerInv, NEW k \in Sock, NEW id \in SessionId \cup {NoId},
         SubscribeResume(k, id)
  PROVE  BrokerInv'
<1> USE PruneAssumption DEF BrokerInv, SubscribeResume, resumeSession,
        StopPruneTimer, Readable, Resumable
<1>0. id \in SessionId /\ id \in live
  BY DEF WsTypeOK
<1>1. WsTypeOK'
  BY <1>0 DEF WsTypeOK, NoTimer
<1>2. TablesAgree'
  BY <1>0 DEF WsTypeOK, TablesAgree
<1>3. FullGrace'
  BY <1>0 DEF WsTypeOK, FullGrace, Detached, NoTimer
<1>. QED BY <1>1, <1>2, <1>3

LEMMA FreshStep ==
  ASSUME BrokerInv, NEW k \in Sock, NEW wanted \in SessionId \cup {NoId},
         NEW id \in SessionId, SubscribeFresh(k, wanted, id)
  PROVE  BrokerInv'
<1> USE PruneAssumption DEF BrokerInv, SubscribeFresh, attachNewSession,
        FreshId, Readable
<1>1. WsTypeOK'
  BY DEF WsTypeOK, NoTimer
<1>2. TablesAgree'
  BY DEF WsTypeOK, TablesAgree
<1>3. FullGrace'
  BY DEF WsTypeOK, FullGrace, Detached, NoTimer
<1>. QED BY <1>1, <1>2, <1>3

LEMMA DetachStep ==
  ASSUME BrokerInv, NEW k \in Sock, DropBound(k)
  PROVE  BrokerInv'
<1> USE PruneAssumption DEF BrokerInv, DropBound, Detach
<1> DEFINE id == bind[k]
<1>0. /\ id \in SessionId
      /\ id \in live
      /\ sockOf[id] = k
      /\ timer[id] = NoTimer
  BY DEF WsTypeOK, TablesAgree, FullGrace, Detached
<1>1. orphans' = {}
  BY <1>0 DEF FullGrace
<1>2. WsTypeOK'
  BY <1>0, <1>1 DEF WsTypeOK, NoTimer
<1>3. TablesAgree'
  BY <1>0 DEF WsTypeOK, TablesAgree
<1>4. FullGrace'
  BY <1>0, <1>1 DEF WsTypeOK, FullGrace, Detached
<1>. QED BY <1>2, <1>3, <1>4

LEMMA PruneStep ==
  ASSUME BrokerInv, NEW id \in SessionId, pruneSession(id)
  PROVE  BrokerInv'
<1> USE PruneAssumption DEF BrokerInv, pruneSession
<1>0. Detached(id)
  BY DEF Expired, FullGrace, NoTimer
<1>1. WsTypeOK'
  BY <1>0 DEF WsTypeOK, FullGrace, NoTimer
<1>2. TablesAgree'
  BY <1>0 DEF WsTypeOK, TablesAgree, Detached
<1>3. FullGrace'
  BY <1>0 DEF WsTypeOK, FullGrace, Detached
<1>. QED BY <1>1, <1>2, <1>3

LEMMA TickStep ==
  ASSUME BrokerInv, Tick
  PROVE  BrokerInv'
<1> USE PruneAssumption DEF BrokerInv, Tick, Elapse
<1>1. orphans' = {}
  BY DEF FullGrace
<1>2. WsTypeOK'
  BY <1>1 DEF WsTypeOK, NoTimer
<1>3. TablesAgree'
  BY DEF TablesAgree
<1>4. FullGrace'
  BY <1>1 DEF WsTypeOK, FullGrace, Detached, NoTimer
<1>. QED BY <1>2, <1>3, <1>4

LEMMA BrokerStep == BrokerInv /\ [WsNext]_wsVars => BrokerInv'
<1> SUFFICES ASSUME BrokerInv, [WsNext]_wsVars PROVE BrokerInv'
  OBVIOUS
<1>1. CASE \E k \in Sock :
             onNewConnection(k) \/ Disconnect(k) \/ RejectFirstFrame(k) \/ DropPending(k)
  BY <1>1, ConnectionStep
<1>2. CASE \E k \in Sock : DropBound(k)
  BY <1>2, DetachStep
<1>3. CASE \E k \in Sock : \E id \in SessionId \cup {NoId} : SubscribeResume(k, id)
  BY <1>3, ResumeStep
<1>4. CASE \E k \in Sock : \E wanted \in SessionId \cup {NoId} :
             \E id \in SessionId : SubscribeFresh(k, wanted, id)
  BY <1>4, FreshStep
<1>5. CASE \E id \in SessionId : pruneSession(id)
  BY <1>5, PruneStep
<1>6. CASE Tick
  BY <1>6, TickStep
<1>7. CASE UNCHANGED wsVars
  BY <1>7 DEF BrokerInv, wsVars, WsTypeOK, TablesAgree, FullGrace, Detached
<1>. QED BY <1>1, <1>2, <1>3, <1>4, <1>5, <1>6, <1>7 DEF WsNext, SocketGone

THEOREM BrokerInvariant == WsSpec => []BrokerInv
  BY BrokerInit, BrokerStep, PTL DEF WsSpec

(* Every variable of the session broker keeps its type, whatever order the *)
(* event loop runs the slots of WsServer in.                               *)
THEOREM BrokerTypes == WsSpec => []WsTypeOK
  BY BrokerInvariant, PTL DEF BrokerInv

(* m_pending, m_sessions and m_socketToSession agree after every slot, so  *)
(* no two sockets drive one session and no socket is lost track of.        *)
THEOREM BrokerTablesAgree == WsSpec => []TablesAgree
  BY BrokerInvariant, PTL DEF BrokerInv

(* pruneSession ends a session only after the full kPruneAfterMs since its *)
(* last disconnection.                                                     *)
THEOREM NoEarlyPrune == WsSpec => []FullGrace
  BY BrokerInvariant, PTL DEF BrokerInv

-----------------------------------------------------------------------------
(* Numbers and the positions that a loop keeps.                            *)

LEMMA LeastNumber ==
  ASSUME NEW T, T \subseteq Nat, T # {}
  PROVE  \E m \in T : \A n \in T : m <= n
<1> DEFINE R == OpToRel(<, Nat)
<1>1. IsWellFoundedOn(R, Nat)
  BY NatLessThanWellFounded
<1>2. PICK m \in T : \A n \in T : ~(<<n, m>> \in R)
  <2>. HIDE DEF R
  <2>. QED BY <1>1, WFMin
<1>3. \A n \in T : ~(n < m)
  BY <1>2 DEF OpToRel
<1>. QED BY <1>3

(* Induction, with the statement as the set of the numbers it holds of.    *)
LEMMA NumbersFrom0 ==
  ASSUME NEW T, 0 \in T, \A n \in Nat : n \in T => n + 1 \in T
  PROVE  Nat \subseteq T
<1> SUFFICES ASSUME Nat \ T # {} PROVE FALSE
  OBVIOUS
<1>1. PICK m \in Nat \ T : \A n \in Nat \ T : m <= n
  BY LeastNumber
<1>2. m - 1 \in Nat /\ m - 1 \notin T
  BY <1>1
<1>. QED BY <1>1, <1>2

(* A loop that keeps the elements from one on leaves the end of the list.  *)
LEMMA ChosenSuffix ==
  ASSUME NEW S, NEW s \in Seq(S), NEW a \in 1 .. Len(s) + 1
  PROVE  Chosen(s, a .. Len(s)) = [n \in 1 .. Len(s) - a + 1 |-> s[a + n - 1]]
<1> DEFINE P == a .. Len(s)
<1>1. /\ IsFiniteSet(P)
      /\ Cardinality(P) = Len(s) - a + 1
  <2>1. a \in Int /\ Len(s) \in Int /\ (a > Len(s) => Len(s) - a + 1 = 0)
    OBVIOUS
  <2>. QED BY <2>1, FS_Interval, Zenon
<1>2. \A i \in P : Rank(P, i) = i - a + 1
  <2> SUFFICES ASSUME NEW i \in P PROVE Rank(P, i) = i - a + 1
    OBVIOUS
  <2>1. {j \in P : j <= i} = a .. i
    OBVIOUS
  <2>2. a \in Int /\ i \in Int /\ ~(a > i)
    OBVIOUS
  <2>. HIDE DEF P
  <2>. QED BY <2>1, <2>2, FS_Interval DEF Rank
<1>3. \A n \in 1 .. Len(s) - a + 1 : Nth(P, n) = a + n - 1
  <2> SUFFICES ASSUME NEW n \in 1 .. Len(s) - a + 1 PROVE Nth(P, n) = a + n - 1
    OBVIOUS
  <2>1. a + n - 1 \in P /\ \A i \in P : Rank(P, i) = n <=> i = a + n - 1
    BY <1>2
  <2>. HIDE DEF P
  <2>. QED BY <2>1 DEF Nth
<1>. QED BY <1>1, <1>3 DEF Chosen

(* The same for a set that reaches from any of its positions to the end.   *)
LEMMA ChosenUpward ==
  ASSUME NEW S, NEW s \in Seq(S), NEW P \in SUBSET (1 .. Len(s)),
         \A i \in P : \A j \in i .. Len(s) : j \in P
  PROVE  \E n \in 0 .. Len(s) :
           /\ Chosen(s, P) = [i \in 1 .. n |-> s[Len(s) - n + i]]
           /\ P = Len(s) - n + 1 .. Len(s)
<1>0. Len(s) \in Nat /\ P \subseteq 1 .. Len(s) /\ P \subseteq Nat
  OBVIOUS
<1>1. PICK a \in 1 .. Len(s) + 1 : P = a .. Len(s)
  <2>1. CASE P = {}
    <3>1. P = Len(s) + 1 .. Len(s)
      BY <1>0, <2>1
    <3>. QED BY <1>0, <3>1
  <2>2. CASE P # {}
    <3>1. PICK a \in P : \A i \in P : a <= i
      BY <1>0, <2>2, LeastNumber
    <3>2. \A i \in 1 .. Len(s) : i \in P <=> i >= a
      BY <1>0, <3>1
    <3>3. a \in 1 .. Len(s)
      BY <1>0
    <3>4. \A i \in P : i \in a .. Len(s)
      BY <1>0, <3>2
    <3>5. \A i \in a .. Len(s) : i \in P
      BY <1>0, <3>2, <3>3
    <3>6. a \in 1 .. Len(s) + 1
      BY <1>0, <3>3
    <3>. QED BY <3>4, <3>5, <3>6, Zenon
  <2>. QED BY <2>1, <2>2
<1>2. Chosen(s, P) = [n \in 1 .. Len(s) - a + 1 |-> s[a + n - 1]]
  BY <1>1, ChosenSuffix
<1> DEFINE n == Len(s) - a + 1
<1>3. n \in 0 .. Len(s) /\ a = Len(s) - n + 1
  BY <1>0
<1>4. Chosen(s, P) = [i \in 1 .. n |-> s[Len(s) - n + i]]
  <2>1. \A i \in 1 .. n : Len(s) - n + i = a + i - 1
    BY <1>0
  <2>. QED BY <1>2, <2>1
<1>. HIDE DEF n
<1>. QED BY <1>1, <1>3, <1>4

-----------------------------------------------------------------------------
(* One session: its numbering and its resume buffer.                       *)

Body ==
  [kind : {"snapshot"}, view : World]
    \cup [kind : {"added", "updated"}, item : Item, version : Version]
    \cup [kind : {"removed"}, item : Item]
    \cup [kind : {"zone", "other"}]
FrameType == [seq : Nat, body : Body]
Entry == [frame : FrameType, age : Nat]
Adapter == [seq : Nat, ring : Seq(Entry)]

(* The end of a list, n elements long.                                     *)
End(s, n) == [i \in 1 .. n |-> s[Len(s) - n + i]]

LEMMA EndOfSeq ==
  ASSUME NEW S, NEW s \in Seq(S), NEW n \in 0 .. Len(s)
  PROVE  /\ End(s, n) \in Seq(S) /\ Len(End(s, n)) = n /\ DOMAIN End(s, n) = 1 .. n
         /\ \A i \in 1 .. n : End(s, n)[i] = s[Len(s) - n + i]
<1>1. End(s, n) \in [1 .. n -> S]
  BY DEF End
<1>2. End(s, n) \in Seq(S)
  BY <1>1, IsASeq
<1>3. Len(End(s, n)) = n
  BY <1>1, <1>2, LenProperties
<1>. QED BY <1>1, <1>2, <1>3 DEF End

(* An unbroken run of numbers up to n.                                     *)
Numbered(frames, top) ==
  \A i \in DOMAIN frames : frames[i].seq = top - Len(frames) + i

LEMMA FramesOf ==
  ASSUME NEW r \in Seq(Entry)
  PROVE  /\ Frames(r) \in Seq(FrameType) /\ Len(Frames(r)) = Len(r)
         /\ DOMAIN Frames(r) = 1 .. Len(r) /\ DOMAIN r = 1 .. Len(r)
         /\ \A i \in 1 .. Len(r) : Frames(r)[i] = r[i].frame
<1>0. Len(r) \in Nat /\ DOMAIN r = 1 .. Len(r) /\ \A i \in 1 .. Len(r) : r[i] \in Entry
  OBVIOUS
<1>1. Frames(r) \in [1 .. Len(r) -> FrameType]
  BY <1>0 DEF Frames, Entry
<1>2. Frames(r) \in Seq(FrameType)
  BY <1>1, IsASeq
<1>3. Len(Frames(r)) = Len(r)
  BY <1>1, <1>2, LenProperties
<1>. QED BY <1>0, <1>1, <1>2, <1>3 DEF Frames

LEMMA PrunedEnd ==
  ASSUME NEW r \in Seq(Entry), r # <<>>, r[Len(r)].age = 0
  PROVE  \E n \in 1 .. Len(r) : Pruned(r) = End(r, n)
<1> DEFINE P == {i \in DOMAIN r : /\ \E j \in 1 .. i : r[j].age <= RingWindow
                                  /\ i > Len(r) - RingCap}
<1>1. P \in SUBSET (1 .. Len(r))
  OBVIOUS
<1>2. \A i \in P : \A j \in i .. Len(r) : j \in P
  BY RingAssumption
<1>3. Len(r) \in P
  BY RingAssumption
<1>4. PICK n \in 0 .. Len(r) : /\ Chosen(r, P) = [i \in 1 .. n |-> r[Len(r) - n + i]]
                               /\ P = Len(r) - n + 1 .. Len(r)
  <2>. HIDE DEF P
  <2>. QED BY <1>1, <1>2, ChosenUpward
<1>5. n \in 1 .. Len(r)
  BY <1>3, <1>4
<1>6. Pruned(r) = Chosen(r, P)
  BY DEF Pruned
<1>. QED BY <1>4, <1>5, <1>6 DEF End

LEMMA EmitStep ==
  ASSUME NEW a \in Adapter, NEW body \in Body, Numbered(Frames(a.ring), a.seq)
  PROVE  LET b == emitEnvelope(a, body) IN
         /\ b \in Adapter /\ b.seq = a.seq + 1 /\ b.ring # <<>>
         /\ Numbered(Frames(b.ring), b.seq)
         /\ \A i \in DOMAIN b.ring :
              \/ b.ring[i].frame = Frame(a.seq + 1, body)
              \/ \E j \in DOMAIN a.ring : b.ring[i].frame = a.ring[j].frame
<1> DEFINE e == [frame |-> Frame(a.seq + 1, body), age |-> 0]
           r == Append(a.ring, e)
           b == emitEnvelope(a, body)
<1>1. e \in Entry /\ a.ring \in Seq(Entry) /\ a.seq \in Nat
  BY DEF Entry, Frame, FrameType, Adapter
<1>2. /\ r \in Seq(Entry) /\ r # <<>> /\ Len(r) = Len(a.ring) + 1
      /\ r[Len(r)] = e /\ \A i \in 1 .. Len(a.ring) : r[i] = a.ring[i]
  <2>. HIDE DEF e
  <2>. QED BY <1>1, AppendProperties
<1>3. PICK n \in 1 .. Len(r) : Pruned(r) = End(r, n)
  <2>1. r[Len(r)].age = 0
    BY <1>2
  <2>. HIDE DEF r, e
  <2>. QED BY <1>2, <2>1, PrunedEnd
<1>4. b.seq = a.seq + 1 /\ b.ring = End(r, n) /\ b = [seq |-> a.seq + 1, ring |-> End(r, n)]
  BY <1>3 DEF emitEnvelope
<1>5. /\ b.ring \in Seq(Entry) /\ Len(b.ring) = n /\ DOMAIN b.ring = 1 .. n
      /\ \A i \in 1 .. n : b.ring[i] = r[Len(r) - n + i]
  <2>. HIDE DEF r, b, e
  <2>1. n \in 0 .. Len(r)
    BY <1>2
  <2>2. /\ End(r, n) \in Seq(Entry) /\ Len(End(r, n)) = n /\ DOMAIN End(r, n) = 1 .. n
        /\ \A i \in 1 .. n : End(r, n)[i] = r[Len(r) - n + i]
    BY <1>2, <2>1, EndOfSeq
  <2>. QED BY <1>4, <2>2
<1>6. \A i \in 1 .. Len(r) : /\ r[i].frame.seq = a.seq - Len(a.ring) + i
                             /\ \/ r[i].frame = Frame(a.seq + 1, body)
                                \/ \E j \in DOMAIN a.ring : r[i].frame = a.ring[j].frame
  <2>1. \A i \in 1 .. Len(a.ring) : a.ring[i].frame.seq = a.seq - Len(a.ring) + i
    BY <1>1, FramesOf DEF Numbered
  <2>2. e.frame = Frame(a.seq + 1, body) /\ e.frame.seq = a.seq + 1
    BY DEF Frame
  <2>. HIDE DEF e, r
  <2>3. DOMAIN a.ring = 1 .. Len(a.ring) /\ Len(a.ring) \in Nat
    BY <1>1
  <2> SUFFICES ASSUME NEW i \in 1 .. Len(r)
               PROVE  /\ r[i].frame.seq = a.seq - Len(a.ring) + i
                      /\ \/ r[i].frame = Frame(a.seq + 1, body)
                         \/ \E j \in DOMAIN a.ring : r[i].frame = a.ring[j].frame
    OBVIOUS
  <2>4. CASE i = Len(r)
    <3>1. r[i] = e /\ a.seq - Len(a.ring) + i = a.seq + 1
      BY <1>1, <1>2, <2>3, <2>4
    <3>. QED BY <2>2, <3>1
  <2>5. CASE i # Len(r)
    <3>1. i \in 1 .. Len(a.ring) /\ r[i] = a.ring[i]
      BY <1>2, <2>3, <2>5
    <3>. QED BY <2>1, <2>3, <3>1
  <2>. QED BY <2>4, <2>5
<1>7. b \in Adapter /\ b.ring # <<>>
  <2>. HIDE DEF r, e
  <2>. QED BY <1>1, <1>4, <1>5 DEF Adapter
<1>8. Numbered(Frames(b.ring), b.seq)
  <2>. HIDE DEF r, e, b
  <2>1. \A i \in 1 .. n : Frames(b.ring)[i].seq = b.seq - n + i
    <3> SUFFICES ASSUME NEW i \in 1 .. n PROVE Frames(b.ring)[i].seq = b.seq - n + i
      OBVIOUS
    <3>1. Frames(b.ring)[i] = r[Len(r) - n + i].frame
      BY <1>5, FramesOf
    <3>2. Len(r) - n + i \in 1 .. Len(r) /\ Len(a.ring) \in Nat
      BY <1>1, <1>2
    <3>3. r[Len(r) - n + i].frame.seq = a.seq - Len(a.ring) + (Len(r) - n + i)
      BY <1>6, <3>2
    <3>. QED BY <1>1, <1>2, <1>4, <3>1, <3>2, <3>3, SMTT(30)
  <2>. QED BY <1>5, <2>1, FramesOf DEF Numbered
<1>9. \A i \in DOMAIN b.ring :
              \/ b.ring[i].frame = Frame(a.seq + 1, body)
              \/ \E j \in DOMAIN a.ring : b.ring[i].frame = a.ring[j].frame
  <2>. HIDE DEF r, e, b
  <2> SUFFICES ASSUME NEW i \in 1 .. n
               PROVE  \/ b.ring[i].frame = Frame(a.seq + 1, body)
                      \/ \E j \in DOMAIN a.ring : b.ring[i].frame = a.ring[j].frame
    BY <1>5
  <2>1. Len(r) - n + i \in 1 .. Len(r)
    BY <1>2
  <2>. QED BY <1>5, <1>6, <2>1
<1>. QED BY <1>4, <1>7, <1>8, <1>9

(* What a resume sends continues up to the newest number, and starts after *)
(* the last one the client has, unless the buffer does not reach so far.   *)
LEMMA ReplayStep ==
  ASSUME NEW a \in Adapter, Numbered(Frames(a.ring), a.seq), NEW last \in Nat
  PROVE  LET w == replaySince(a, last) IN
         /\ w \in Seq(FrameType) /\ Numbered(w, a.seq)
         /\ \A i \in DOMAIN w : \E j \in DOMAIN a.ring : w[i] = a.ring[j].frame
         /\ last <= a.seq /\ a.ring # <<>> => /\ last <= a.seq - Len(w)
                                              /\ w = <<>> => last = a.seq
<1> DEFINE r == a.ring
           P == {i \in DOMAIN r : r[i].frame.seq > last}
           w == replaySince(a, last)
<1>1. r \in Seq(Entry) /\ a.seq \in Nat /\ Len(r) \in Nat /\ DOMAIN r = 1 .. Len(r)
  BY DEF Adapter
<1>2. \A i \in 1 .. Len(r) : r[i].frame.seq = a.seq - Len(r) + i
  BY <1>1, FramesOf DEF Numbered
<1>3. P \in SUBSET (1 .. Len(r)) /\ \A i \in P : \A j \in i .. Len(r) : j \in P
  <2>. HIDE DEF r
  <2>. QED BY <1>1, <1>2
<1>4. PICK n \in 0 .. Len(r) : Chosen(r, P) = End(r, n) /\ P = Len(r) - n + 1 .. Len(r)
  <2>. HIDE DEF P, r
  <2>. QED BY <1>1, <1>3, ChosenUpward DEF End
<1>5. /\ End(r, n) \in Seq(Entry) /\ Len(End(r, n)) = n
      /\ \A i \in 1 .. n : End(r, n)[i] = r[Len(r) - n + i]
  BY <1>1, EndOfSeq
<1>6. w = Frames(End(r, n))
  BY <1>4 DEF replaySince
<1>7. /\ w \in Seq(FrameType) /\ Len(w) = n /\ DOMAIN w = 1 .. n
      /\ \A i \in 1 .. n : w[i] = r[Len(r) - n + i].frame
  <2>. HIDE DEF w, r
  <2>. QED BY <1>5, <1>6, FramesOf
<1>8. Numbered(w, a.seq)
  <2>. HIDE DEF w, r
  <2> SUFFICES ASSUME NEW i \in 1 .. n PROVE w[i].seq = a.seq - n + i
    BY <1>7 DEF Numbered
  <2>1. Len(r) - n + i \in 1 .. Len(r)
    BY <1>1
  <2>2. r[Len(r) - n + i].frame.seq = a.seq - Len(r) + (Len(r) - n + i)
    BY <1>2, <2>1
  <2>. QED BY <1>1, <1>7, <2>2
<1>9. \A i \in DOMAIN w : \E j \in DOMAIN r : w[i] = r[j].frame
  <2>. HIDE DEF w, r
  <2>. QED BY <1>1, <1>7
<1>10. last <= a.seq /\ r # <<>> => last <= a.seq - Len(w) /\ (w = <<>> => last = a.seq)
  <2> SUFFICES ASSUME last <= a.seq, r # <<>>
               PROVE  last <= a.seq - n /\ (n = 0 => last = a.seq)
    BY <1>7
  <2>1. n # 0 => Len(r) - n + 1 \in P
    BY <1>1, <1>4
  <2>2. n # 0 => r[Len(r) - n + 1].frame.seq > last
    BY <2>1
  <2>3. n # 0 => last <= a.seq - n
    <3>. HIDE DEF r, P
    <3>. QED BY <1>1, <1>2, <2>2
  <2>4. n = 0 => Len(r) \notin P
    BY <1>1, <1>4
  <2>5. Len(r) \in 1 .. Len(r)
    BY <1>1
  <2>6. n = 0 => ~(r[Len(r)].frame.seq > last)
    BY <1>1, <2>4, <2>5
  <2>7. n = 0 => last = a.seq
    <3>. HIDE DEF r, P
    <3>. QED BY <1>1, <1>2, <2>5, <2>6
  <2>. QED BY <1>1, <2>3, <2>7
<1>. QED BY <1>7, <1>8, <1>9, <1>10

-----------------------------------------------------------------------------
(* The whole. A frame carries the items from what they were at the number  *)
(* before it to what they were at its own; g[n] is what they were when the *)
(* session gave out the number n.                                          *)

Fits(g, frame) ==
  frame.seq # 0 /\ Apply(g[frame.seq - 1], frame.body) = g[frame.seq]

ClientType ==
  [sock : Sock \cup {NoSock}, sid : SessionId \cup {NoId}, last : Nat,
   view : World, gap : BOOLEAN]

SessionTypes ==
  /\ world \in World
  /\ adapter \in [SessionId -> Adapter]
  /\ wire \in [Sock -> Seq(FrameType)]
  /\ client \in [Client -> ClientType]
  /\ synced \in [SessionId -> SUBSET Client]

(* A client's socket is open and its own, and nothing is under way on one  *)
(* without a session.                                                      *)
Connected ==
  /\ \A c \in Client : client[c].sock # NoSock => conn[client[c].sock] = "up"
  /\ \A c, d \in Client : client[c].sock = client[d].sock /\ client[c].sock # NoSock => c = d
  /\ \A k \in Sock : ~Sending(k) => wire[k] = <<>>

(* A client of a session it has the snapshot of asks for it by its name,   *)
(* and what is under way goes on where the client is, or after a gap. A    *)
(* client that does not know its session's name is about to learn it.      *)
Follows ==
  \A c \in Client : LET k == client[c].sock IN
    Subscribed(c) =>
      /\ c \in synced[bind[k]] =>
           /\ client[c].sid = bind[k]
           /\ client[c].last <= adapter[bind[k]].seq - Len(wire[k])
           /\ wire[k] = <<>> => client[c].last = adapter[bind[k]].seq
      /\ client[c].sid # bind[k] => wire[k] # <<>> /\ wire[k][1].body.kind = "snapshot"

RingsRun ==
  \A id \in live : adapter[id].ring # <<>> /\ Numbered(Frames(adapter[id].ring), adapter[id].seq)
WiresRun ==
  \A k \in Sock : Sending(k) => Numbered(wire[k], adapter[bind[k]].seq)

(* What a session remembers, what is under way and what a client without a *)
(* gap shows are parts of one history.                                     *)
RingFits(id, g) == \A i \in DOMAIN adapter[id].ring : Fits(g, adapter[id].ring[i].frame)
WireFits(id, g) ==
  \A k \in Sock : Sending(k) /\ bind[k] = id => \A i \in DOMAIN wire[k] : Fits(g, wire[k][i])
ViewFits(id, g) ==
  \A c \in Client : client[c].sid = id /\ c \in synced[id] =>
    /\ client[c].last <= adapter[id].seq
    /\ ~client[c].gap => client[c].view = g[client[c].last]
Tells(id, g) ==
  g[adapter[id].seq] = world /\ RingFits(id, g) /\ WireFits(id, g) /\ ViewFits(id, g)

History == [Nat -> World]
Told == \A id \in live : \E g \in History : Tells(id, g)

SessionInv ==
  BrokerInv /\ SessionTypes /\ Connected /\ Follows /\ RingsRun /\ WiresRun /\ Told

(* What the broker's tables give to all of this.                           *)
LEMMA BoundIsLive ==
  ASSUME BrokerInv, NEW k \in Sock, Sending(k)
  PROVE  bind[k] \in live /\ bind[k] \in SessionId /\ sockOf[bind[k]] = k
  BY DEF BrokerInv, TablesAgree, WsTypeOK, Sending

LEMMA OneSocket ==
  ASSUME BrokerInv, NEW k \in Sock, NEW j \in Sock, Sending(k), Sending(j), bind[k] = bind[j]
  PROVE  k = j
  BY BoundIsLive

LEMMA ApplyType ==
  ASSUME NEW w \in World, NEW body \in Body
  PROVE  Apply(w, body) \in World
<1>1. CASE body \in [kind : {"snapshot"}, view : World]
  BY <1>1 DEF Apply
<1>2. CASE body \in [kind : {"added", "updated"}, item : Item, version : Version]
  BY <1>2 DEF Apply, World
<1>3. CASE body \in [kind : {"removed"}, item : Item]
  BY <1>3 DEF Apply, World, Version
<1>4. CASE body \in [kind : {"zone", "other"}]
  BY <1>4 DEF Apply, World, Version, Empty
<1>. QED BY <1>1, <1>2, <1>3, <1>4 DEF Body

LEMMA SnapshotIsAll ==
  ASSUME NEW w, NEW v, NEW body, body.kind = "snapshot"
  PROVE  Apply(w, body) = Apply(v, body)
  BY DEF Apply

LEMMA FitsKept ==
  ASSUME NEW g \in History, NEW n \in Nat, NEW w \in World, NEW frame \in FrameType,
         frame.seq <= n, Fits(g, frame)
  PROVE  Fits([g EXCEPT ![n + 1] = w], frame)
  BY DEF Fits, FrameType, History

LEMMA FitsNew ==
  ASSUME NEW g \in History, NEW n \in Nat, NEW body \in Body, NEW w \in World,
         Apply(g[n], body) = w
  PROVE  Fits([g EXCEPT ![n + 1] = w], Frame(n + 1, body))
  BY DEF Fits, Frame, History

LEMMA SessionInit == Init => SessionInv
<1> SUFFICES ASSUME Init PROVE SessionInv
  OBVIOUS
<1>1. BrokerInv
  BY BrokerInit DEF Init
<1>2. Empty \in World /\ NewAdapter \in Adapter /\ NewClient \in ClientType
  BY DEF Empty, World, Version, NewAdapter, Adapter, NewClient, ClientType
<1>3. SessionTypes
  BY <1>2 DEF Init, SessionTypes
<1>4. \A k \in Sock : ~Sending(k)
  BY DEF Init, WsInit, Sending
<1>5. Connected /\ Follows
  BY <1>4, PruneAssumption DEF Init, Connected, Follows, NewClient, Subscribed
<1>. QED BY <1>1, <1>3, <1>4, <1>5 DEF SessionInv, Init, WsInit, RingsRun, WiresRun, Told

-----------------------------------------------------------------------------
(* What the managers send: one envelope to some of the live sessions.      *)

SentTo(ids, body) ==
  /\ adapter' = [i \in SessionId |->
                   IF i \in ids THEN emitEnvelope(adapter[i], body) ELSE adapter[i]]
  /\ wire' = [k \in Sock |->
                IF Sending(k) /\ bind[k] \in ids
                THEN Append(wire[k], Frame(adapter[bind[k]].seq + 1, body))
                ELSE wire[k]]
  /\ UNCHANGED <<wsVars, client, synced>>

LEMMA BrokerKept == ASSUME BrokerInv, UNCHANGED wsVars PROVE BrokerInv'
  BY DEF BrokerInv, wsVars, WsTypeOK, TablesAgree, FullGrace, Detached

LEMMA SendingKept ==
  ASSUME UNCHANGED wsVars
  PROVE  /\ \A k : Sending(k)' = Sending(k)
         /\ UNCHANGED <<conn, pending, live, sockOf, bind>>
  BY DEF wsVars, Sending

(* What it does to one session.                                            *)
LEMMA AdapterSent ==
  ASSUME SessionInv, NEW ids \in SUBSET live, NEW body \in Body, SentTo(ids, body), NEW id \in ids
  PROVE  /\ adapter'[id] \in Adapter /\ adapter'[id].seq = adapter[id].seq + 1
         /\ adapter[id].seq \in Nat
         /\ adapter'[id].ring # <<>> /\ Numbered(Frames(adapter'[id].ring), adapter'[id].seq)
         /\ \A i \in DOMAIN adapter'[id].ring :
              \/ adapter'[id].ring[i].frame = Frame(adapter[id].seq + 1, body)
              \/ \E j \in DOMAIN adapter[id].ring :
                    adapter'[id].ring[i].frame = adapter[id].ring[j].frame
<1>1. id \in live /\ id \in SessionId
  BY DEF SessionInv, BrokerInv, WsTypeOK
<1>2. adapter[id] \in Adapter /\ Numbered(Frames(adapter[id].ring), adapter[id].seq)
  BY <1>1 DEF SessionInv, SessionTypes, RingsRun
<1>3. adapter'[id] = emitEnvelope(adapter[id], body)
  BY <1>1 DEF SentTo
<1>4. adapter[id].seq \in Nat
  BY <1>2 DEF Adapter
<1>. QED BY <1>2, <1>3, <1>4, EmitStep

(* What it does to one socket.                                             *)
LEMMA WireSent ==
  ASSUME SessionInv, NEW ids \in SUBSET live, NEW body \in Body, SentTo(ids, body),
         NEW k \in Sock, Sending(k), bind[k] \in ids
  PROVE  /\ wire[k] \in Seq(FrameType) /\ wire'[k] \in Seq(FrameType)
         /\ Len(wire'[k]) = Len(wire[k]) + 1 /\ wire'[k] # <<>>
         /\ wire'[k][Len(wire[k]) + 1] = Frame(adapter[bind[k]].seq + 1, body)
         /\ \A i \in 1 .. Len(wire[k]) : wire'[k][i] = wire[k][i]
         /\ Numbered(wire'[k], adapter'[bind[k]].seq)
<1> DEFINE n == adapter[bind[k]].seq
           f == Frame(n + 1, body)
<1>1. n \in Nat /\ adapter'[bind[k]].seq = n + 1
  BY AdapterSent
<1>2. f \in FrameType /\ f.seq = n + 1
  BY <1>1 DEF Frame, FrameType
<1>3. wire[k] \in Seq(FrameType) /\ wire'[k] = Append(wire[k], f) /\ Numbered(wire[k], n)
  BY DEF SessionInv, SessionTypes, SentTo, WiresRun
<1>. HIDE DEF f, n
<1>4. /\ wire'[k] \in Seq(FrameType)
      /\ Len(wire'[k]) = Len(wire[k]) + 1 /\ wire'[k] # <<>>
      /\ wire'[k][Len(wire[k]) + 1] = f
      /\ \A i \in 1 .. Len(wire[k]) : wire'[k][i] = wire[k][i]
  BY <1>2, <1>3, AppendProperties
<1>5. Numbered(wire'[k], n + 1)
  <2>1. Len(wire[k]) \in Nat /\ DOMAIN (wire'[k]) = 1 .. Len(wire[k]) + 1
    BY <1>3, <1>4
  <2>2. ASSUME NEW i \in 1 .. Len(wire[k]) + 1
        PROVE  wire'[k][i].seq = (n + 1) - Len(wire'[k]) + i
    <3>1. (n + 1) - Len(wire'[k]) + i = n - Len(wire[k]) + i
      BY <1>1, <1>4, <2>1
    <3>2. CASE i = Len(wire[k]) + 1
      <4>1. wire'[k][i].seq = n + 1
        BY <1>2, <1>4, <3>2
      <4>2. n - Len(wire[k]) + i = n + 1
        <5>1. \A m, l \in Nat : m - l + (l + 1) = m + 1
          OBVIOUS
        <5>. QED BY <1>1, <2>1, <3>2, <5>1
      <4>. QED BY <3>1, <4>1, <4>2
    <3>3. CASE i \in 1 .. Len(wire[k])
      <4>1. wire[k][i].seq = n - Len(wire[k]) + i
        BY <1>3, <3>3 DEF Numbered
      <4>. QED BY <1>4, <3>1, <3>3, <4>1
    <3>. QED BY <2>1, <3>2, <3>3
  <2>. QED BY <2>1, <2>2 DEF Numbered
<1>. QED BY <1>1, <1>3, <1>4, <1>5 DEF f, n

LEMMA SentTypes ==
  ASSUME SessionInv, NEW ids \in SUBSET live, NEW body \in Body, SentTo(ids, body),
         world' \in World
  PROVE  SessionTypes'
<1>1. adapter' \in [SessionId -> Adapter]
  BY AdapterSent, ZenonT(60) DEF SentTo, SessionInv, SessionTypes
<1>2. wire' \in [Sock -> Seq(FrameType)]
  <2>1. \A k \in Sock : wire'[k] \in Seq(FrameType)
    BY WireSent DEF SentTo, SessionInv, SessionTypes
  <2>. QED BY <2>1 DEF SentTo
<1>. QED BY <1>1, <1>2 DEF SentTo, SessionInv, SessionTypes

LEMMA SentRuns ==
  ASSUME SessionInv, NEW ids \in SUBSET live, NEW body \in Body, SentTo(ids, body)
  PROVE  RingsRun' /\ WiresRun' /\ Connected' /\ Follows'
<1>0. /\ UNCHANGED <<wsVars, client, synced, conn, pending, live, sockOf, bind>>
      /\ \A k : Sending(k)' = Sending(k)
      /\ \A c : Subscribed(c)' = Subscribed(c)
  BY SendingKept DEF SentTo, Subscribed
<1>1. \A id \in SessionId \ ids : adapter'[id] = adapter[id]
  BY DEF SentTo
<1>2. \A k \in Sock : ~(Sending(k) /\ bind[k] \in ids) => wire'[k] = wire[k]
  BY DEF SentTo
<1>3. RingsRun'
  <2> SUFFICES ASSUME NEW id \in live
               PROVE  adapter'[id].ring # <<>> /\ Numbered(Frames(adapter'[id].ring), adapter'[id].seq)
    BY <1>0 DEF RingsRun
  <2>1. CASE id \in ids
    BY <2>1, AdapterSent
  <2>2. CASE id \notin ids
    <3>1. id \in SessionId
      BY DEF SessionInv, BrokerInv, WsTypeOK
    <3>. QED BY <1>1, <2>2, <3>1 DEF SessionInv, RingsRun
  <2>. QED BY <2>1, <2>2
<1>4. WiresRun'
  <2> SUFFICES ASSUME NEW k \in Sock, Sending(k) PROVE Numbered(wire'[k], adapter'[bind[k]].seq)
    BY <1>0 DEF WiresRun
  <2>1. CASE bind[k] \in ids
    BY <2>1, WireSent
  <2>2. CASE bind[k] \notin ids
    <3>1. bind[k] \in SessionId
      BY BoundIsLive DEF SessionInv
    <3>. QED BY <1>1, <1>2, <2>2, <3>1 DEF SessionInv, WiresRun
  <2>. QED BY <2>1, <2>2
<1>5. Connected'
  BY <1>0, <1>2 DEF SessionInv, Connected
<1>6. Follows'
  <2> SUFFICES ASSUME NEW c \in Client, Subscribed(c)
               PROVE  LET k == client[c].sock IN
                      /\ c \in synced[bind[k]] =>
                           /\ client[c].sid = bind[k]
                           /\ client[c].last <= adapter'[bind[k]].seq - Len(wire'[k])
                           /\ wire'[k] = <<>> => client[c].last = adapter'[bind[k]].seq
                      /\ client[c].sid # bind[k] => wire'[k] # <<>> /\ wire'[k][1].body.kind = "snapshot"
    BY <1>0 DEF Follows
  <2> DEFINE k == client[c].sock
  <2>1. k \in Sock /\ Sending(k) /\ bind[k] \in SessionId
    BY BoundIsLive DEF Subscribed, SessionInv, SessionTypes, ClientType
  <2>2. /\ c \in synced[bind[k]] =>
             /\ client[c].sid = bind[k]
             /\ client[c].last <= adapter[bind[k]].seq - Len(wire[k])
             /\ wire[k] = <<>> => client[c].last = adapter[bind[k]].seq
        /\ client[c].sid # bind[k] => wire[k] # <<>> /\ wire[k][1].body.kind = "snapshot"
    BY DEF SessionInv, Follows
  <2>. HIDE DEF k
  <2>3. CASE bind[k] \in ids
    <3>1. /\ adapter'[bind[k]].seq = adapter[bind[k]].seq + 1 /\ adapter[bind[k]].seq \in Nat
          /\ wire[k] \in Seq(FrameType) /\ Len(wire'[k]) = Len(wire[k]) + 1 /\ wire'[k] # <<>>
          /\ \A i \in 1 .. Len(wire[k]) : wire'[k][i] = wire[k][i]
      BY <2>1, <2>3, AdapterSent, WireSent, ZenonT(60)
    <3>2. Len(wire[k]) \in Nat /\ (wire[k] # <<>> => wire'[k][1] = wire[k][1])
      BY <3>1
    <3>3. adapter'[bind[k]].seq - Len(wire'[k]) = adapter[bind[k]].seq - Len(wire[k])
      <4>1. \A m, l \in Nat : (m + 1) - (l + 1) = m - l
        OBVIOUS
      <4>. QED BY <3>1, <3>2, <4>1
    <3>. QED BY <2>2, <3>1, <3>2, <3>3 DEF k
  <2>4. CASE bind[k] \notin ids
    <3>1. adapter'[bind[k]] = adapter[bind[k]] /\ wire'[k] = wire[k]
      BY <1>1, <1>2, <2>1, <2>4
    <3>. QED BY <2>2, <3>1 DEF k
  <2>. QED BY <2>3, <2>4
<1>. QED BY <1>3, <1>4, <1>5, <1>6

LEMMA SentTold ==
  ASSUME SessionInv, NEW ids \in SUBSET live, NEW body \in Body, SentTo(ids, body),
         world' \in World, Apply(world, body) = world', ids = live \/ world' = world
  PROVE  Told'
<1>0. /\ UNCHANGED <<wsVars, client, synced, conn, pending, live, sockOf, bind>>
      /\ \A k : Sending(k)' = Sending(k)
  BY SendingKept DEF SentTo
<1> SUFFICES ASSUME NEW id \in live PROVE \E g \in History : Tells(id, g)'
  BY <1>0 DEF Told
<1>1. PICK g \in History : Tells(id, g)
  BY DEF SessionInv, Told
<1>2. id \in SessionId
  BY DEF SessionInv, BrokerInv, WsTypeOK
<1>3. CASE id \notin ids
  <2>1. adapter'[id] = adapter[id] /\ world' = world
    BY <1>2, <1>3 DEF SentTo
  <2>2. \A k \in Sock : bind[k] = id => wire'[k] = wire[k]
    BY <1>3 DEF SentTo
  <2>3. Tells(id, g)'
    BY <1>0, <1>1, <2>1, <2>2 DEF Tells, RingFits, WireFits, ViewFits
  <2>. QED BY <2>3
<1>4. CASE id \in ids
  <2> DEFINE n == adapter[id].seq
  <2>1. n \in Nat /\ adapter'[id].seq = n + 1
    BY <1>4, AdapterSent
  <2>a. PICK h \in History : h = [g EXCEPT ![n + 1] = world']
    BY <2>1 DEF History
  <2>2. h[n + 1] = world' /\ \A i \in Nat : i <= n => h[i] = g[i]
    BY <2>1, <2>a DEF History
  <2>3. Fits(h, Frame(n + 1, body))
    BY <1>1, <2>1, <2>a, FitsNew DEF Tells
  <2>4. \A frame \in FrameType : frame.seq <= n /\ Fits(g, frame) => Fits(h, frame)
    BY <2>1, <2>a, FitsKept
  <2>. HIDE DEF n
  <2>5. RingFits(id, h)'
    <3> SUFFICES ASSUME NEW i \in DOMAIN adapter'[id].ring
                 PROVE  Fits(h, adapter'[id].ring[i].frame)
      BY DEF RingFits
    <3>1. CASE adapter'[id].ring[i].frame = Frame(n + 1, body)
      BY <2>3, <3>1
    <3>2. CASE \E j \in DOMAIN adapter[id].ring :
                  adapter'[id].ring[i].frame = adapter[id].ring[j].frame
      <4>1. PICK j \in DOMAIN adapter[id].ring :
                  adapter'[id].ring[i].frame = adapter[id].ring[j].frame
        BY <3>2
      <4> DEFINE r == adapter[id].ring
      <4>2. r \in Seq(Entry) /\ Numbered(Frames(r), n)
        BY <1>2 DEF SessionInv, SessionTypes, Adapter, RingsRun, n
      <4>. HIDE DEF r
      <4>a. j \in DOMAIN r
        BY DEF r
      <4>b. j \in 1 .. Len(r)
        BY <4>2, <4>a
      <4>3. r[j].frame \in FrameType
        <5>1. r[j] \in Entry
          BY <4>2, <4>b, ElementOfSeq
        <5>. QED BY <5>1 DEF Entry
      <4>4. r[j].frame.seq <= n
        <5>1. r[j].frame.seq = n - Len(r) + j
          BY <4>2, <4>b, FramesOf DEF Numbered
        <5>. QED BY <2>1, <4>2, <4>b, <5>1
      <4>5. Fits(g, adapter[id].ring[j].frame)
        BY <1>1 DEF Tells, RingFits
      <4>. QED BY <2>4, <4>1, <4>3, <4>4, <4>5 DEF r
    <3>. QED BY <1>4, <3>1, <3>2, AdapterSent DEF n
  <2>6. WireFits(id, h)'
    <3> SUFFICES ASSUME NEW k \in Sock, Sending(k), bind[k] = id, NEW i \in DOMAIN (wire'[k])
                 PROVE  Fits(h, wire'[k][i])
      BY <1>0 DEF WireFits
    <3>1. /\ wire[k] \in Seq(FrameType) /\ wire'[k] \in Seq(FrameType)
          /\ Len(wire'[k]) = Len(wire[k]) + 1
          /\ wire'[k][Len(wire[k]) + 1] = Frame(n + 1, body)
          /\ \A j \in 1 .. Len(wire[k]) : wire'[k][j] = wire[k][j]
      BY <1>4, WireSent, ZenonT(60) DEF n
    <3>2. CASE i = Len(wire[k]) + 1
      BY <2>3, <3>1, <3>2
    <3>3. CASE i \in 1 .. Len(wire[k])
      <4>1. wire[k][i] \in FrameType /\ Fits(g, wire[k][i])
        BY <1>1, <3>1, <3>3 DEF Tells, WireFits
      <4>2. wire[k][i].seq <= n
        <5>1. wire[k][i].seq = n - Len(wire[k]) + i
          BY <3>1, <3>3 DEF SessionInv, WiresRun, Numbered, n
        <5>. QED BY <2>1, <3>1, <3>3, <5>1
      <4>. QED BY <2>4, <3>1, <3>3, <4>1, <4>2
    <3>. QED BY <3>1, <3>2, <3>3
  <2>7. ViewFits(id, h)'
    <3>1. \A c \in Client : client[c].last \in Nat
      BY DEF SessionInv, SessionTypes, ClientType
    <3>. QED BY <1>0, <1>1, <2>1, <2>2, <3>1 DEF Tells, ViewFits, n
  <2>8. Tells(id, h)'
    BY <2>1, <2>2, <2>5, <2>6, <2>7 DEF Tells
  <2>. QED BY <2>8
<1>. QED BY <1>3, <1>4

LEMMA SentStep ==
  ASSUME SessionInv, NEW ids \in SUBSET live, NEW body \in Body, SentTo(ids, body),
         world' \in World, Apply(world, body) = world', ids = live \/ world' = world
  PROVE  SessionInv'
<1>1. BrokerInv'
  BY BrokerKept DEF SessionInv, SentTo
<1>. QED BY <1>1, SentTypes, SentRuns, SentTold DEF SessionInv

LEMMA BodyTypes ==
  /\ \A w \in World : Snapshot(w) \in Body
  /\ \A x \in Item, v \in Version : Added(x, v) \in Body /\ Updated(x, v) \in Body
  /\ \A x \in Item : Removed(x) \in Body
  /\ ZoneChanged \in Body /\ Other \in Body
  BY DEF Body, Snapshot, Added, Updated, Removed, ZoneChanged, Other

LEMMA BroadcastIsSent ==
  ASSUME SessionInv, NEW body, Broadcast(body)
  PROVE  SentTo(live, body)
<1>1. \A k \in Sock : Sending(k) => bind[k] \in live
  BY BoundIsLive DEF SessionInv
<1>. QED BY <1>1 DEF Broadcast, SentTo, Hears

LEMMA ReplyIsSent ==
  ASSUME SessionInv, NEW id \in SessionId, sendReply(id)
  PROVE  SentTo({id}, Other) /\ id \in live
<1>1. sockOf[id] \in Sock /\ bind[sockOf[id]] = id
  BY DEF sendReply, SessionInv, BrokerInv, WsTypeOK, TablesAgree
<1>2. \A k \in Sock : Sending(k) /\ bind[k] = id <=> k = sockOf[id]
  BY <1>1, OneSocket DEF SessionInv, sendReply
<1>3. adapter' = [i \in SessionId |->
                    IF i \in {id} THEN emitEnvelope(adapter[i], Other) ELSE adapter[i]]
  BY DEF sendReply, SessionInv, SessionTypes
<1>4. wire' = [k \in Sock |->
                IF Sending(k) /\ bind[k] \in {id}
                THEN Append(wire[k], Frame(adapter[bind[k]].seq + 1, Other))
                ELSE wire[k]]
  BY <1>1, <1>2 DEF sendReply, SessionInv, SessionTypes
<1>. QED BY <1>3, <1>4 DEF sendReply, SentTo

LEMMA ManagersStep == ASSUME SessionInv, ManagerStep PROVE SessionInv'
<1>0. world \in World
  BY DEF SessionInv, SessionTypes
<1>1. ASSUME NEW body \in Body, Broadcast(body), world' \in World, Apply(world, body) = world'
      PROVE  SessionInv'
  BY <1>1, BroadcastIsSent, SentStep
<1>2. ASSUME NEW x \in Item, onAddItem(x) PROVE SessionInv'
  <2>1. Added(x, 1) \in Body
    BY BodyTypes DEF Version
  <2>2. world' \in World /\ Apply(world, Added(x, 1)) = world'
    BY <1>0, <1>2 DEF onAddItem, World, Version, Apply, Added
  <2>. QED BY <1>1, <1>2, <2>1, <2>2 DEF onAddItem
<1>3. ASSUME NEW x \in Item, onDelItem(x) PROVE SessionInv'
  <2>1. Removed(x) \in Body
    BY BodyTypes
  <2>2. world' \in World /\ Apply(world, Removed(x)) = world'
    BY <1>0, <1>3 DEF onDelItem, World, Version, Apply, Removed
  <2>. QED BY <1>1, <1>3, <2>1, <2>2 DEF onDelItem
<1>4. ASSUME NEW x \in Item, NEW full \in BOOLEAN, onChangeItem(x, full) PROVE SessionInv'
  <2> DEFINE v == 3 - world[x]
  <2>1. v \in Version /\ world[x] # 0 /\ world' = [world EXCEPT ![x] = v]
    BY <1>0, <1>4 DEF onChangeItem, World, Version
  <2>2. world' \in World
    BY <1>0, <2>1 DEF World
  <2>3. Added(x, v) \in Body /\ Updated(x, v) \in Body
    BY <2>1, BodyTypes
  <2>4. Apply(world, Added(x, v)) = world' /\ Apply(world, Updated(x, v)) = world'
    BY <2>1 DEF Apply, Added, Updated
  <2>. QED BY <1>1, <1>4, <2>2, <2>3, <2>4 DEF onChangeItem
<1>5. CASE onZoneBegin
  <2>1. world' \in World /\ Apply(world, ZoneChanged) = world'
    BY <1>5 DEF onZoneBegin, World, Version, Empty, Apply, ZoneChanged
  <2>. QED BY <1>1, <1>5, <2>1, BodyTypes DEF onZoneBegin
<1>6. CASE onPlayerIdChanged
  <2>1. Snapshot(world) \in Body /\ world' = world
    BY <1>0, <1>6, BodyTypes DEF onPlayerIdChanged
  <2>2. Apply(world, Snapshot(world)) = world'
    BY <2>1 DEF Apply, Snapshot
  <2>. QED BY <1>0, <1>1, <1>6, <2>1, <2>2 DEF onPlayerIdChanged
<1>7. ASSUME NEW id \in SessionId, sendReply(id) PROVE SessionInv'
  <2>1. world' = world /\ Apply(world, Other) = world
    BY <1>7 DEF sendReply, Apply, Other
  <2>2. {id} \in SUBSET live /\ SentTo({id}, Other)
    BY <1>7, ReplyIsSent
  <2>. QED BY <1>0, <2>1, <2>2, BodyTypes, SentStep
<1>. QED BY <1>2, <1>3, <1>4, <1>5, <1>6, <1>7 DEF ManagerStep

-----------------------------------------------------------------------------
(* Connections.                                                            *)

(* A step that opens or closes connections and leaves the sessions alone.  *)
LEMMA LinksStep ==
  ASSUME SessionInv, BrokerInv', UNCHANGED <<live, world, adapter, synced>>,
         wire' \in [Sock -> Seq(FrameType)], client' \in [Client -> ClientType],
         Connected',
         \A k \in Sock : Sending(k)' => Sending(k) /\ bind'[k] = bind[k] /\ wire'[k] = wire[k],
         \A c \in Client : /\ client'[c].sid = client[c].sid /\ client'[c].last = client[c].last
                           /\ client'[c].view = client[c].view /\ client'[c].gap = client[c].gap
                           /\ Subscribed(c)' => Subscribed(c) /\ client'[c].sock = client[c].sock
  PROVE  SessionInv'
<1>1. SessionTypes' /\ RingsRun'
  BY DEF SessionInv, SessionTypes, RingsRun
<1>2. WiresRun'
  BY DEF SessionInv, WiresRun
<1>3. Follows'
  <2> SUFFICES ASSUME NEW c \in Client, Subscribed(c)'
               PROVE  LET k == client'[c].sock IN
                      /\ c \in synced'[bind'[k]] =>
                           /\ client'[c].sid = bind'[k]
                           /\ client'[c].last <= adapter'[bind'[k]].seq - Len(wire'[k])
                           /\ wire'[k] = <<>> => client'[c].last = adapter'[bind'[k]].seq
                      /\ client'[c].sid # bind'[k] => wire'[k] # <<>> /\ wire'[k][1].body.kind = "snapshot"
    BY DEF Follows
  <2>1. Subscribed(c) /\ client'[c].sock = client[c].sock
    OBVIOUS
  <2>2. client[c].sock \in Sock /\ Sending(client[c].sock)'
    BY <2>1 DEF Subscribed, SessionInv, SessionTypes, ClientType
  <2>3. bind'[client[c].sock] = bind[client[c].sock] /\ wire'[client[c].sock] = wire[client[c].sock]
    BY <2>2
  <2>. QED BY <2>1, <2>3 DEF SessionInv, Follows
<1>4. Told'
  <2> SUFFICES ASSUME NEW id \in live PROVE \E g \in History : Tells(id, g)'
    BY DEF Told
  <2>1. PICK g \in History : Tells(id, g)
    BY DEF SessionInv, Told
  <2>2. Tells(id, g)'
    BY <2>1 DEF Tells, RingFits, WireFits, ViewFits
  <2>. QED BY <2>2
<1>. QED BY <1>1, <1>2, <1>3, <1>4 DEF SessionInv

LEMMA ConnectStep ==
  ASSUME SessionInv, NEW c \in Client, NEW k \in Sock, Connect(c, k)
  PROVE  SessionInv'
<1>1. BrokerInv'
  BY ConnectionStep DEF SessionInv, Connect
<1>2. /\ conn[k] = "free" /\ conn' = [conn EXCEPT ![k] = "up"] /\ client[c].sock = NoSock
      /\ client' = [client EXCEPT ![c].sock = k]
      /\ UNCHANGED <<live, bind, world, adapter, wire, synced>>
      /\ conn \in [Sock -> {"free", "up", "down"}] /\ client \in [Client -> ClientType]
      /\ wire \in [Sock -> Seq(FrameType)]
  BY DEF Connect, onNewConnection, SessionInv, SessionTypes, BrokerInv, WsTypeOK
<1>3. bind[k] = NoId
  BY <1>2 DEF SessionInv, BrokerInv, TablesAgree
<1>4. \A j \in Sock : Sending(j)' = Sending(j)
  BY <1>2, <1>3 DEF Sending
<1>5. ~Sending(k)'
  BY <1>2, <1>3 DEF Sending
<1>6. client' \in [Client -> ClientType]
  BY <1>2 DEF ClientType
<1>7. Connected'
  BY <1>2, <1>4, PruneAssumption DEF SessionInv, Connected, ClientType
<1>8. \A d \in Client : /\ client'[d].sid = client[d].sid /\ client'[d].last = client[d].last
                        /\ client'[d].view = client[d].view /\ client'[d].gap = client[d].gap
                        /\ Subscribed(d)' => Subscribed(d) /\ client'[d].sock = client[d].sock
  BY <1>2, <1>4, <1>5 DEF Subscribed, ClientType
<1>. QED BY <1>1, <1>2, <1>4, <1>6, <1>7, <1>8, LinksStep

LEMMA LoseStep ==
  ASSUME SessionInv, NEW c \in Client, Lose(c) \/ SendBadFrame(c)
  PROVE  SessionInv'
<1>0. PICK k \in Sock : k = client[c].sock
  BY DEF Lose, SendBadFrame, SessionInv, SessionTypes, ClientType
<1>1. BrokerInv'
  BY <1>0, ConnectionStep DEF SessionInv, Lose, SendBadFrame
<1>2. /\ conn' = [conn EXCEPT ![k] = "down"]
      /\ client' = [client EXCEPT ![c].sock = NoSock]
      /\ UNCHANGED <<live, bind, world, adapter, synced>>
      /\ conn \in [Sock -> {"free", "up", "down"}] /\ client \in [Client -> ClientType]
      /\ wire \in [Sock -> Seq(FrameType)]
  BY <1>0 DEF Lose, SendBadFrame, Disconnect, RejectFirstFrame, SessionInv, SessionTypes,
         BrokerInv, WsTypeOK
<1>3. wire' = [wire EXCEPT ![k] = <<>>]
  <2>1. CASE Lose(c)
    BY <1>0, <2>1 DEF Lose
  <2>2. CASE SendBadFrame(c)
    <3>1. ~Sending(k) /\ wire' = wire
      BY <1>0, <2>2 DEF SendBadFrame, RejectFirstFrame, Readable, Sending, SessionInv,
         BrokerInv, TablesAgree
    <3>2. wire[k] = <<>>
      BY <1>0, <3>1 DEF SessionInv, Connected
    <3>. QED BY <1>2, <3>1, <3>2
  <2>. QED BY <2>1, <2>2
<1>4. /\ \A j \in Sock \ {k} : Sending(j)' = Sending(j) /\ wire'[j] = wire[j]
      /\ ~Sending(k)' /\ wire'[k] = <<>>
  BY <1>0, <1>2, <1>3 DEF Sending
<1>5. wire' \in [Sock -> Seq(FrameType)] /\ client' \in [Client -> ClientType]
  <2>1. <<>> \in Seq(FrameType)
    OBVIOUS
  <2>. QED BY <1>0, <1>2, <1>3, <2>1 DEF ClientType
<1>7. \A d \in Client : /\ client'[d].sid = client[d].sid /\ client'[d].last = client[d].last
                        /\ client'[d].view = client[d].view /\ client'[d].gap = client[d].gap
                        /\ d # c => client'[d].sock = client[d].sock /\ client[d].sock # k
                        /\ d = c => client'[d].sock = NoSock
  BY <1>0, <1>2, PruneAssumption DEF ClientType, SessionInv, Connected
<1>6. Connected'
  <2>1. \A j \in Sock : ~Sending(j)' => wire'[j] = <<>>
    BY <1>4 DEF SessionInv, Connected
  <2>2. \A d \in Client : client'[d].sock # NoSock => conn'[client'[d].sock] = "up"
    BY <1>2, <1>7 DEF SessionInv, Connected, ClientType
  <2>3. \A d, e \in Client : client'[d].sock = client'[e].sock /\ client'[d].sock # NoSock => d = e
    BY <1>7 DEF SessionInv, Connected
  <2>. QED BY <2>1, <2>2, <2>3 DEF Connected
<1>8. \A d \in Client : Subscribed(d)' => Subscribed(d) /\ client'[d].sock = client[d].sock
  BY <1>4, <1>7 DEF Subscribed, SessionInv, SessionTypes, ClientType
<1>9. \A j \in Sock : Sending(j)' => Sending(j) /\ bind'[j] = bind[j] /\ wire'[j] = wire[j]
  BY <1>2, <1>4
<1>. QED BY <1>1, <1>2, <1>5, <1>6, <1>7, <1>8, <1>9, LinksStep

LEMMA ReportStep ==
  ASSUME SessionInv, NEW k \in Sock, ReportLost(k)
  PROVE  SessionInv'
<1>1. BrokerInv'
  BY ConnectionStep, DetachStep DEF SessionInv, ReportLost, SocketGone
<1>2. /\ conn[k] = "down" /\ conn' = [conn EXCEPT ![k] = "free"]
      /\ \A j \in Sock \ {k} : bind'[j] = bind[j]
      /\ UNCHANGED <<live, world, adapter, wire, client, synced>>
      /\ conn \in [Sock -> {"free", "up", "down"}]
  BY DEF ReportLost, SocketGone, DropPending, DropBound, SessionInv, BrokerInv, WsTypeOK
<1>3. /\ \A j \in Sock \ {k} : Sending(j)' = Sending(j)
      /\ ~Sending(k)' /\ ~Sending(k)
  BY <1>2 DEF Sending
<1>4. Connected'
  BY <1>2, <1>3 DEF SessionInv, Connected
<1>5. \A d \in Client : Subscribed(d)' => Subscribed(d)
  BY <1>2, <1>3 DEF Subscribed, SessionInv, SessionTypes, ClientType
<1>6. wire' \in [Sock -> Seq(FrameType)] /\ client' \in [Client -> ClientType]
  BY <1>2 DEF SessionInv, SessionTypes
<1>. QED BY <1>1, <1>2, <1>3, <1>4, <1>5, <1>6, LinksStep

(* A resume: what is sent is what the client misses, as far as the buffer  *)
(* goes.                                                                   *)
LEMMA ResumeSessionStep ==
  ASSUME SessionInv, NEW c \in Client, Resume(c)
  PROVE  SessionInv'
<1>0. PICK k \in Sock : k = client[c].sock
  BY DEF Resume, SessionInv, SessionTypes, ClientType
<1>1. PICK id \in SessionId : id = client[c].sid
  BY PruneAssumption DEF Resume, SubscribeResume, Resumable, SessionInv, SessionTypes, ClientType,
     BrokerInv, WsTypeOK
<1>2. /\ SubscribeResume(k, id) /\ id \in live
      /\ wire' = [wire EXCEPT ![k] = replaySince(adapter[id], client[c].last)]
      /\ UNCHANGED <<world, adapter, client, synced, conn, live>>
      /\ bind' = [bind EXCEPT ![k] = id] /\ conn[k] = "up" /\ k \in pending
  BY <1>0, <1>1 DEF Resume, SubscribeResume, resumeSession, Resumable, Readable
<1>3. BrokerInv'
  BY <1>2, ResumeStep DEF SessionInv
<1>4. /\ bind[k] = NoId /\ bind \in [Sock -> SessionId \cup {NoId}]
      /\ client[c] \in ClientType /\ wire \in [Sock -> Seq(FrameType)]
      /\ adapter[id] \in Adapter /\ adapter[id].ring # <<>>
      /\ Numbered(Frames(adapter[id].ring), adapter[id].seq)
  BY <1>2 DEF SessionInv, SessionTypes, BrokerInv, TablesAgree, WsTypeOK, RingsRun
<1> DEFINE w == replaySince(adapter[id], client[c].last)
<1>5. /\ w \in Seq(FrameType) /\ Numbered(w, adapter[id].seq)
      /\ \A i \in DOMAIN w : \E j \in DOMAIN adapter[id].ring : w[i] = adapter[id].ring[j].frame
      /\ client[c].last <= adapter[id].seq => /\ client[c].last <= adapter[id].seq - Len(w)
                                              /\ w = <<>> => client[c].last = adapter[id].seq
  BY <1>4, ReplayStep DEF ClientType
<1>6. /\ wire'[k] = w /\ bind'[k] = id /\ Sending(k)'
      /\ \A j \in Sock \ {k} : wire'[j] = wire[j] /\ bind'[j] = bind[j] /\ Sending(j)' = Sending(j)
  BY <1>2, <1>4, PruneAssumption DEF Sending
<1>. HIDE DEF w
<1>7. SessionTypes' /\ RingsRun'
  BY <1>2, <1>4, <1>5, <1>6 DEF SessionInv, SessionTypes, RingsRun, w
<1>8. WiresRun'
  BY <1>2, <1>5, <1>6 DEF SessionInv, WiresRun
<1>9. Connected'
  BY <1>2, <1>6 DEF SessionInv, Connected
<1>10. Follows'
  <2> SUFFICES ASSUME NEW d \in Client, Subscribed(d)'
               PROVE  LET j == client[d].sock IN
                      /\ d \in synced[bind'[j]] =>
                           /\ client[d].sid = bind'[j]
                           /\ client[d].last <= adapter[bind'[j]].seq - Len(wire'[j])
                           /\ wire'[j] = <<>> => client[d].last = adapter[bind'[j]].seq
                      /\ client[d].sid # bind'[j] => wire'[j] # <<>> /\ wire'[j][1].body.kind = "snapshot"
    BY <1>2 DEF Follows
  <2>1. CASE d = c
    <3>1. c \in synced[id] => client[c].last <= adapter[id].seq
      BY <1>1, <1>2 DEF SessionInv, Told, Tells, ViewFits
    <3>. QED BY <1>0, <1>1, <1>5, <1>6, <2>1, <3>1
  <2>2. CASE d # c
    <3>1. client[d].sock \in Sock \ {k} /\ client'[d].sock = client[d].sock
      BY <1>0, <1>2, <2>2 DEF Subscribed, SessionInv, SessionTypes, ClientType, Connected
    <3>2. Subscribed(d)
      BY <1>6, <3>1 DEF Subscribed
    <3>. QED BY <1>6, <3>1, <3>2 DEF SessionInv, Follows
  <2>. QED BY <2>1, <2>2
<1>11. Told'
  <2> SUFFICES ASSUME NEW s \in live PROVE \E g \in History : Tells(s, g)'
    BY <1>2 DEF Told
  <2>1. PICK g \in History : Tells(s, g)
    BY DEF SessionInv, Told
  <2>2. RingFits(s, g)' /\ ViewFits(s, g)' /\ g[adapter'[s].seq] = world'
    BY <1>2, <2>1 DEF Tells, RingFits, ViewFits
  <2>3. WireFits(s, g)'
    <3> SUFFICES ASSUME NEW j \in Sock, Sending(j)', bind'[j] = s, NEW i \in DOMAIN (wire'[j])
                 PROVE  Fits(g, wire'[j][i])
      BY DEF WireFits
    <3>1. CASE j = k
      BY <1>5, <1>6, <2>1, <3>1 DEF Tells, RingFits
    <3>2. CASE j # k
      BY <1>6, <2>1, <3>2 DEF Tells, WireFits
    <3>. QED BY <3>1, <3>2
  <2>. QED BY <2>2, <2>3 DEF Tells
<1>. QED BY <1>3, <1>7, <1>8, <1>9, <1>10, <1>11 DEF SessionInv

(* A new session begins with a snapshot.                                   *)
LEMMA FirstStep ==
  ASSUME NEW w \in World
  PROVE  LET a == startStreaming(w) IN
         /\ a \in Adapter /\ a.seq = 2 /\ a.ring # <<>> /\ Numbered(Frames(a.ring), 2)
         /\ \A i \in DOMAIN a.ring : a.ring[i].frame \in {Frame(1, Snapshot(w)), Frame(2, Other)}
<1> DEFINE a == emitEnvelope(NewAdapter, Snapshot(w))
           b == startStreaming(w)
<1>1. NewAdapter \in Adapter /\ NewAdapter.seq = 0 /\ NewAdapter.ring = <<>>
  BY DEF NewAdapter, Adapter
<1>2. Frames(NewAdapter.ring) = <<>> /\ Numbered(Frames(NewAdapter.ring), NewAdapter.seq)
  BY <1>1 DEF Frames, Numbered
<1>3. Snapshot(w) \in Body /\ Other \in Body
  BY BodyTypes
<1>4. /\ a \in Adapter /\ a.seq = 0 + 1 /\ Numbered(Frames(a.ring), a.seq)
      /\ \A i \in DOMAIN a.ring : a.ring[i].frame = Frame(1, Snapshot(w))
  <2>1. /\ a \in Adapter /\ a.seq = NewAdapter.seq + 1 /\ Numbered(Frames(a.ring), a.seq)
        /\ \A i \in DOMAIN a.ring :
             \/ a.ring[i].frame = Frame(NewAdapter.seq + 1, Snapshot(w))
             \/ \E j \in DOMAIN NewAdapter.ring : a.ring[i].frame = NewAdapter.ring[j].frame
    BY <1>1, <1>2, <1>3, EmitStep
  <2>2. DOMAIN NewAdapter.ring = {} /\ NewAdapter.seq + 1 = 1
    BY <1>1
  <2>. HIDE DEF a
  <2>. QED BY <1>1, <2>1, <2>2
<1>5. b = emitEnvelope(a, Other)
  BY DEF startStreaming
<1>. HIDE DEF a, b
<1>6. /\ b \in Adapter /\ b.seq = a.seq + 1 /\ b.ring # <<>> /\ Numbered(Frames(b.ring), b.seq)
      /\ \A i \in DOMAIN b.ring :
           \/ b.ring[i].frame = Frame(a.seq + 1, Other)
           \/ \E j \in DOMAIN a.ring : b.ring[i].frame = a.ring[j].frame
  BY <1>3, <1>4, <1>5, EmitStep
<1>7. a.seq = 1 /\ a.seq + 1 = 2
  BY <1>4
<1>8. /\ b \in Adapter /\ b.seq = 2 /\ b.ring # <<>> /\ Numbered(Frames(b.ring), 2)
      /\ \A i \in DOMAIN b.ring : b.ring[i].frame \in {Frame(1, Snapshot(w)), Frame(2, Other)}
  BY <1>4, <1>6, <1>7
<1>. QED BY <1>8 DEF b

LEMMA StartSessionStep ==
  ASSUME SessionInv, NEW c \in Client, NEW wanted \in SessionId \cup {NoId}, NEW id \in SessionId,
         StartSession(c, wanted, id)
  PROVE  SessionInv'
<1>0. PICK k \in Sock : k = client[c].sock
  BY DEF StartSession, SessionInv, SessionTypes, ClientType
<1>1. /\ SubscribeFresh(k, wanted, id) /\ id \notin live /\ live' = live \cup {id}
      /\ adapter' = [adapter EXCEPT ![id] = startStreaming(world)]
      /\ wire' = [wire EXCEPT ![k] = FirstFrames(world)]
      /\ synced' = [synced EXCEPT ![id] = {}]
      /\ client' = [client EXCEPT ![c].sid = IF wanted = id THEN id ELSE @]
      /\ wanted = id \/ \A d \in Client : client[d].sid # id
      /\ bind' = [bind EXCEPT ![k] = id] /\ conn[k] = "up" /\ k \in pending
      /\ UNCHANGED <<world, conn>>
  BY <1>0 DEF StartSession, SubscribeFresh, attachNewSession, FreshId, Readable
<1>2. BrokerInv'
  BY <1>1, FreshStep DEF SessionInv
<1>3. /\ bind[k] = NoId /\ bind \in [Sock -> SessionId \cup {NoId}]
      /\ adapter \in [SessionId -> Adapter] /\ wire \in [Sock -> Seq(FrameType)]
      /\ client \in [Client -> ClientType] /\ synced \in [SessionId -> SUBSET Client]
      /\ world \in World /\ live \subseteq SessionId
  BY <1>1 DEF SessionInv, SessionTypes, BrokerInv, TablesAgree, WsTypeOK
<1> DEFINE w == FirstFrames(world)
           a == startStreaming(world)
           f1 == Frame(1, Snapshot(world))
           f2 == Frame(2, Other)
<1>4. f1 \in FrameType /\ f2 \in FrameType /\ f1.seq = 1 /\ f2.seq = 2 /\ f1.body.kind = "snapshot"
  BY <1>3, BodyTypes DEF Frame, FrameType, Snapshot
<1>5. /\ w \in Seq(FrameType) /\ Len(w) = 2 /\ DOMAIN w = 1 .. 2 /\ w[1] = f1 /\ w[2] = f2
      /\ w # <<>>
  <2>1. w = <<f1, f2>>
    BY DEF FirstFrames
  <2>. HIDE DEF f1, f2, w
  <2>. QED BY <1>4, <2>1
<1>6. /\ a \in Adapter /\ a.seq = 2 /\ a.ring # <<>> /\ Numbered(Frames(a.ring), 2)
      /\ \A i \in DOMAIN a.ring : a.ring[i].frame \in {f1, f2}
  BY <1>3, FirstStep
<1>7. /\ wire'[k] = w /\ bind'[k] = id /\ Sending(k)' /\ adapter'[id] = a
      /\ \A j \in Sock \ {k} : /\ wire'[j] = wire[j] /\ bind'[j] = bind[j]
                               /\ Sending(j)' = Sending(j)
      /\ \A s \in SessionId \ {id} : adapter'[s] = adapter[s] /\ synced'[s] = synced[s]
      /\ synced'[id] = {}
  BY <1>1, <1>3, PruneAssumption DEF Sending
<1>8. \A d \in Client :
        /\ client'[d].sock = client[d].sock /\ client'[d].last = client[d].last
        /\ client'[d].view = client[d].view /\ client'[d].gap = client[d].gap
        /\ client'[d].sid = client[d].sid \/ (d = c /\ client'[d].sid = id /\ wanted = id)
  BY <1>1, <1>3 DEF ClientType
<1>. HIDE DEF w, a, f1, f2
<1>9. SessionTypes'
  <2> DEFINE new == IF wanted = id THEN id ELSE client[c].sid
  <2>1. new \in SessionId \cup {NoId} /\ client' = [client EXCEPT ![c].sid = new]
    BY <1>1, <1>3 DEF ClientType
  <2>. HIDE DEF new
  <2>2. client' \in [Client -> ClientType]
    BY <1>3, <2>1, ZenonT(60) DEF ClientType
  <2>. QED BY <1>1, <1>3, <1>5, <1>6, <2>2 DEF SessionTypes, w, a
<1>10. RingsRun'
  BY <1>1, <1>3, <1>6, <1>7 DEF SessionInv, RingsRun
<1>11. WiresRun'
  <2> SUFFICES ASSUME NEW j \in Sock, Sending(j)' PROVE Numbered(wire'[j], adapter'[bind'[j]].seq)
    BY DEF WiresRun
  <2>1. CASE j = k
    <3>1. \A i \in 1 .. 2 : w[i].seq = 2 - 2 + i
      BY <1>4, <1>5
    <3>2. Numbered(w, 2)
      BY <1>5, <3>1 DEF Numbered
    <3>. QED BY <1>6, <1>7, <2>1, <3>2
  <2>2. CASE j # k
    <3>1. Sending(j) /\ bind[j] \in SessionId \ {id}
      BY <1>1, <1>7, <2>2, BoundIsLive DEF SessionInv
    <3>. QED BY <1>7, <2>2, <3>1 DEF SessionInv, WiresRun
  <2>. QED BY <2>1, <2>2
<1>12. Connected'
  BY <1>1, <1>7, <1>8 DEF SessionInv, Connected
<1>13. Follows'
  <2> SUFFICES ASSUME NEW d \in Client, Subscribed(d)'
               PROVE  LET j == client'[d].sock IN
                      /\ d \in synced'[bind'[j]] =>
                           /\ client'[d].sid = bind'[j]
                           /\ client'[d].last <= adapter'[bind'[j]].seq - Len(wire'[j])
                           /\ wire'[j] = <<>> => client'[d].last = adapter'[bind'[j]].seq
                      /\ client'[d].sid # bind'[j] => wire'[j] # <<>> /\ wire'[j][1].body.kind = "snapshot"
    BY DEF Follows
  <2>1. CASE d = c
    BY <1>0, <1>4, <1>5, <1>7, <1>8, <2>1
  <2>2. CASE d # c
    <3>1. client[d].sock \in Sock \ {k} /\ client'[d].sock = client[d].sock /\ client'[d].sid = client[d].sid
      BY <1>0, <1>3, <1>8, <2>2 DEF Subscribed, SessionInv, ClientType, Connected
    <3>2. Subscribed(d) /\ Sending(client[d].sock)
      BY <1>7, <3>1 DEF Subscribed
    <3>3. bind[client[d].sock] \in SessionId \ {id}
      BY <1>1, <3>1, <3>2, BoundIsLive DEF SessionInv
    <3>. QED BY <1>7, <1>8, <3>1, <3>2, <3>3 DEF SessionInv, Follows
  <2>. QED BY <2>1, <2>2
<1>14. Told'
  <2> SUFFICES ASSUME NEW s \in live' PROVE \E g \in History : Tells(s, g)'
    BY DEF Told
  <2>1. CASE s = id
    <3>1. PICK g \in History : g = [n \in Nat |-> world]
      BY <1>3 DEF History
    <3>2. Fits(g, f1) /\ Fits(g, f2)
      BY <1>3, <1>4, <3>1 DEF Fits, Frame, f1, f2, Apply, Snapshot, Other
    <3>3. g[adapter'[id].seq] = world'
      BY <1>1, <1>6, <1>7, <3>1
    <3>4. RingFits(id, g)'
      BY <1>6, <1>7, <3>2 DEF RingFits
    <3>5. WireFits(id, g)'
      <4> SUFFICES ASSUME NEW j \in Sock, Sending(j)', bind'[j] = id, NEW i \in DOMAIN (wire'[j])
                   PROVE  Fits(g, wire'[j][i])
        BY DEF WireFits
      <4>1. j = k
        BY <1>1, <1>7, BoundIsLive DEF SessionInv
      <4>. QED BY <1>5, <1>7, <3>2, <4>1
    <3>6. ViewFits(id, g)'
      BY <1>7 DEF ViewFits
    <3>. QED BY <2>1, <3>3, <3>4, <3>5, <3>6 DEF Tells
  <2>2. CASE s # id
    <3>1. s \in live /\ s \in SessionId \ {id}
      BY <1>1, <1>3, <2>2
    <3>2. PICK g \in History : Tells(s, g)
      BY <3>1 DEF SessionInv, Told
    <3>3. RingFits(s, g)' /\ g[adapter'[s].seq] = world'
      BY <1>1, <1>7, <3>1, <3>2 DEF Tells, RingFits
    <3>4. WireFits(s, g)'
      BY <1>7, <2>2, <3>2 DEF Tells, WireFits
    <3>5. ViewFits(s, g)'
      BY <1>7, <1>8, <2>2, <3>1, <3>2 DEF Tells, ViewFits
    <3>. QED BY <3>3, <3>4, <3>5 DEF Tells
  <2>. QED BY <2>1, <2>2
<1>. QED BY <1>2, <1>9, <1>10, <1>11, <1>12, <1>13, <1>14 DEF SessionInv

(* The client takes the first of the frames under way.                     *)
LEMMA ReceiveStep ==
  ASSUME SessionInv, NEW c \in Client, Receive(c)
  PROVE  SessionInv'
<1>0. PICK k \in Sock : k = client[c].sock /\ wire[k] # <<>>
  BY DEF Receive, SessionInv, SessionTypes, ClientType
<1>1. Sending(k) /\ Subscribed(c)
  BY <1>0, PruneAssumption DEF SessionInv, Connected, Subscribed
<1>2. PICK id \in SessionId : id = bind[k] /\ id \in live
  BY <1>1, BoundIsLive DEF SessionInv
<1> DEFINE cl == client[c]
           n == adapter[id].seq
           l == Len(wire[k])
           f == Head(wire[k])
           snap == f.body.kind = "snapshot"
<1>3. /\ client \in [Client -> ClientType] /\ cl \in ClientType /\ wire[k] \in Seq(FrameType)
      /\ n \in Nat /\ wire \in [Sock -> Seq(FrameType)] /\ Numbered(wire[k], n)
      /\ synced \in [SessionId -> SUBSET Client]
  BY <1>1, <1>2 DEF SessionInv, SessionTypes, Adapter, WiresRun
<1>4. /\ l \in Nat \ {0} /\ f \in FrameType /\ f = wire[k][1] /\ f.seq = n - l + 1
      /\ DOMAIN wire[k] = 1 .. l
  <2>1. l \in Nat \ {0} /\ DOMAIN wire[k] = 1 .. l /\ f \in FrameType /\ f = wire[k][1]
    BY <1>0, <1>3
  <2>2. 1 \in DOMAIN wire[k]
    BY <2>1
  <2>. QED BY <1>3, <2>1, <2>2 DEF Numbered
<1>5. /\ UNCHANGED <<wsVars, world, adapter, conn, pending, live, sockOf, bind>>
      /\ \A j : Sending(j)' = Sending(j)
  BY SendingKept DEF Receive
<1>6. /\ wire'[k] = Tail(wire[k]) /\ \A j \in Sock \ {k} : wire'[j] = wire[j]
      /\ wire' \in [Sock -> Seq(FrameType)] /\ Len(wire'[k]) = l - 1
      /\ DOMAIN (wire'[k]) = 1 .. l - 1 /\ \A i \in 1 .. l - 1 : wire'[k][i] = wire[k][i + 1]
  <2>1. wire' = [wire EXCEPT ![k] = Tail(wire[k])]
    BY <1>0 DEF Receive
  <2>2. /\ Tail(wire[k]) \in Seq(FrameType) /\ Len(Tail(wire[k])) = l - 1
        /\ DOMAIN Tail(wire[k]) = 1 .. l - 1
        /\ \A i \in 1 .. l - 1 : Tail(wire[k])[i] = wire[k][i + 1]
    BY <1>0, <1>3
  <2>. QED BY <1>3, <2>1, <2>2
<1>7. /\ client' = [client EXCEPT ![c] = [Received(cl, f) EXCEPT !.sid = IF snap THEN id ELSE @]]
      /\ synced' = IF snap THEN [synced EXCEPT ![id] = @ \cup {c}] ELSE synced
  <2>1. /\ client' = [client EXCEPT
               ![c] = [Received(cl, f) EXCEPT !.sid = IF snap THEN bind[k] ELSE @]]
        /\ synced' = IF snap THEN [synced EXCEPT ![bind[k]] = @ \cup {c}] ELSE synced
    BY <1>0, Zenon DEF Receive
  <2>2. bind[k] = id
    BY <1>2
  <2>. HIDE DEF f, snap, cl
  <2>3. synced' = IF snap THEN [synced EXCEPT ![id] = @ \cup {c}] ELSE synced
    BY <2>1, <2>2
  <2>5. client' = [client EXCEPT ![c] = [Received(cl, f) EXCEPT !.sid = IF snap THEN id ELSE @]]
    BY <2>1, <2>2
  <2>. QED BY <2>3, <2>5
<1>8. /\ client'[c].sock = k /\ client'[c].last = f.seq
      /\ client'[c].view = Apply(cl.view, f.body)
      /\ client'[c].gap = (~snap /\ (cl.gap \/ f.seq # cl.last + 1))
      /\ client'[c].sid = IF snap THEN id ELSE cl.sid
      /\ \A d \in Client \ {c} : client'[d] = client[d]
  BY <1>0, <1>3, <1>7 DEF Received, ClientType
<1>9. SessionTypes'
  <2>1. Apply(cl.view, f.body) \in World
    BY <1>3, <1>4, ApplyType DEF ClientType, FrameType
  <2>2. f.seq \in Nat
    BY <1>4 DEF FrameType
  <2> DEFINE new == [Received(cl, f) EXCEPT !.sid = IF snap THEN id ELSE @]
  <2>3. new = [sock |-> cl.sock, sid |-> IF snap THEN id ELSE cl.sid, last |-> f.seq,
               view |-> Apply(cl.view, f.body), gap |-> ~snap /\ (cl.gap \/ f.seq # cl.last + 1)]
    <3> DEFINE gap == ~snap /\ (cl.gap \/ f.seq # cl.last + 1)
               shown == Apply(cl.view, f.body)
               sid == IF snap THEN id ELSE cl.sid
    <3>1. Received(cl, f) = [cl EXCEPT !.last = f.seq, !.view = shown, !.gap = gap]
      BY Zenon DEF Received
    <3>. HIDE DEF gap, shown, f, snap
    <3>2. Received(cl, f).sid = cl.sid
      BY <1>3, <3>1 DEF ClientType
    <3>3. new = [Received(cl, f) EXCEPT !.sid = sid]
      BY <3>2
    <3>. HIDE DEF sid, new
    <3>4. new = [sock |-> cl.sock, sid |-> sid, last |-> f.seq, view |-> shown, gap |-> gap]
      BY <1>3, <3>1, <3>3 DEF ClientType
    <3>. QED BY <3>4 DEF sid, gap, shown
  <2>4. new \in ClientType
    <3>. HIDE DEF f, snap, new
    <3>. QED BY <1>3, <2>1, <2>2, <2>3 DEF ClientType
  <2>5. client' \in [Client -> ClientType]
    <3>. HIDE DEF new
    <3>. QED BY <1>3, <1>7, <2>4 DEF new
  <2>6. synced' \in [SessionId -> SUBSET Client]
    BY <1>3, <1>7
  <2>. QED BY <1>5, <1>6, <2>5, <2>6 DEF SessionInv, SessionTypes
<1>. HIDE DEF n, l, f, snap, cl
<1>10. RingsRun'
  BY <1>5 DEF SessionInv, RingsRun
<1>11. WiresRun'
  <2> SUFFICES ASSUME NEW j \in Sock, Sending(j) PROVE Numbered(wire'[j], adapter[bind[j]].seq)
    BY <1>5 DEF WiresRun
  <2>1. CASE j = k
    <3>1. ASSUME NEW i \in 1 .. l - 1 PROVE wire'[k][i].seq = n - (l - 1) + i
      <4>1. i + 1 \in DOMAIN wire[k]
        BY <1>4
      <4>2. wire[k][i + 1].seq = n - l + (i + 1)
        BY <1>3, <4>1 DEF Numbered, l
      <4>. QED BY <1>3, <1>4, <1>6, <4>2
    <3>. QED BY <1>2, <1>6, <2>1, <3>1 DEF Numbered, n
  <2>2. CASE j # k
    BY <1>6, <2>2 DEF SessionInv, WiresRun
  <2>. QED BY <2>1, <2>2
<1>12. Connected'
  <2>1. \A d \in Client : client'[d].sock = client[d].sock
    BY <1>0, <1>8
  <2>2. \A j \in Sock : ~Sending(j)' => wire'[j] = <<>>
    BY <1>1, <1>5, <1>6 DEF SessionInv, Connected
  <2>. QED BY <1>5, <2>1, <2>2 DEF SessionInv, Connected
<1>13. cl.sid = id \/ snap
  BY <1>0, <1>1, <1>2, <1>4 DEF SessionInv, Follows, cl, snap
<1>14. /\ \A s \in SessionId, d \in Client : d # c => (d \in synced'[s] <=> d \in synced[s])
       /\ \A s \in SessionId : ~(snap /\ s = id) => synced'[s] = synced[s]
  BY <1>3, <1>7
<1>15. Follows'
  <2> SUFFICES ASSUME NEW d \in Client, Subscribed(d)'
               PROVE  LET j == client'[d].sock IN
                      /\ d \in synced'[bind'[j]] =>
                           /\ client'[d].sid = bind'[j]
                           /\ client'[d].last <= adapter'[bind'[j]].seq - Len(wire'[j])
                           /\ wire'[j] = <<>> => client'[d].last = adapter'[bind'[j]].seq
                      /\ client'[d].sid # bind'[j] => wire'[j] # <<>> /\ wire'[j][1].body.kind = "snapshot"
    BY DEF Follows
  <2>1. CASE d = c
    <3>1. client'[c].sid = id
      BY <1>8, <1>13
    <3>2. client'[c].last = n - (l - 1) /\ n - l + 1 = n - (l - 1)
      BY <1>3, <1>4, <1>8
    <3>3. wire'[k] = <<>> => n - l + 1 = n
      <4>1. wire'[k] = <<>> => l - 1 = 0
        BY <1>6
      <4>. QED BY <1>3, <1>4, <4>1
    <3>4. n - (l - 1) <= n - (l - 1)
      BY <1>3, <1>4
    <3>. QED BY <1>2, <1>5, <1>6, <1>8, <2>1, <3>1, <3>2, <3>3, <3>4 DEF n
  <2>2. CASE d # c
    <3>1. client'[d] = client[d] /\ client[d].sock \in Sock
      BY <1>3, <1>8, <2>2 DEF Subscribed, ClientType
    <3>2. client[d].sock \in Sock \ {k}
      BY <1>0, <2>2, <3>1, PruneAssumption DEF SessionInv, Connected
    <3>3. Subscribed(d) /\ Sending(client[d].sock)
      BY <1>5, <3>1 DEF Subscribed
    <3>4. bind[client[d].sock] \in SessionId
      BY <3>2, <3>3, BoundIsLive DEF SessionInv
    <3>5. d \in synced'[bind[client[d].sock]] <=> d \in synced[bind[client[d].sock]]
      BY <1>14, <2>2, <3>4
    <3>. QED BY <1>5, <1>6, <3>1, <3>2, <3>3, <3>5 DEF SessionInv, Follows
  <2>. QED BY <2>1, <2>2
<1>16. Told'
  <2> SUFFICES ASSUME NEW s \in live PROVE \E g \in History : Tells(s, g)'
    BY <1>5 DEF Told
  <2>1. PICK g \in History : Tells(s, g)
    BY DEF SessionInv, Told
  <2>2. RingFits(s, g)' /\ g[adapter'[s].seq] = world'
    BY <1>5, <2>1 DEF Tells, RingFits
  <2>3. WireFits(s, g)'
    <3> SUFFICES ASSUME NEW j \in Sock, Sending(j), bind[j] = s, NEW i \in DOMAIN (wire'[j])
                 PROVE  Fits(g, wire'[j][i])
      BY <1>5 DEF WireFits
    <3>1. CASE j = k
      <4>1. i \in 1 .. l - 1 /\ i + 1 \in DOMAIN wire[k] /\ wire'[k][i] = wire[k][i + 1]
        BY <1>4, <1>6, <3>1
      <4>. QED BY <2>1, <3>1, <4>1 DEF Tells, WireFits
    <3>2. CASE j # k
      BY <1>6, <2>1, <3>2 DEF Tells, WireFits
    <3>. QED BY <3>1, <3>2
  <2>4. ViewFits(s, g)'
    <3> SUFFICES ASSUME NEW d \in Client, client'[d].sid = s, d \in synced'[s]
                 PROVE  /\ client'[d].last <= adapter[s].seq
                        /\ ~client'[d].gap => client'[d].view = g[client'[d].last]
      BY <1>5 DEF ViewFits
    <3>0. s \in SessionId
      BY DEF SessionInv, BrokerInv, WsTypeOK
    <3>1. CASE d # c
      BY <1>8, <1>14, <2>1, <3>0, <3>1 DEF Tells, ViewFits
    <3>2. CASE d = c
      <4>1. s = id
        BY <1>8, <1>13, <3>2
      <4>2. Fits(g, f)
        <5>1. 1 \in DOMAIN wire[k]
          BY <1>4
        <5>. QED BY <1>1, <1>2, <1>4, <2>1, <4>1, <5>1 DEF Tells, WireFits
      <4>3. f.seq <= n
        BY <1>3, <1>4
      <4>4. CASE snap
        BY <1>8, <3>2, <4>1, <4>2, <4>3, <4>4, SnapshotIsAll DEF Fits, n, snap
      <4>5. CASE ~snap
        <5>1. c \in synced[id] /\ cl.sid = id
          BY <1>13, <1>14, <3>2, <4>1, <4>5
        <5>2. ~cl.gap => cl.view = g[cl.last]
          BY <2>1, <4>1, <5>1 DEF Tells, ViewFits, cl
        <5>3. f.seq = cl.last + 1 => f.seq - 1 = cl.last
          BY <1>3 DEF ClientType
        <5>. QED BY <1>8, <3>2, <4>1, <4>2, <4>3, <4>5, <5>2, <5>3 DEF Fits, n
      <4>. QED BY <4>4, <4>5
    <3>. QED BY <3>1, <3>2
  <2>. QED BY <2>2, <2>3, <2>4 DEF Tells
<1>17. BrokerInv'
  BY <1>5, BrokerKept DEF SessionInv
<1>. QED BY <1>9, <1>10, <1>11, <1>12, <1>15, <1>16, <1>17 DEF SessionInv

(* Only a session without a socket is pruned, so nothing is under way on   *)
(* it.                                                                     *)
LEMMA PruneSessionStep ==
  ASSUME SessionInv, NEW id \in SessionId, Prune(id)
  PROVE  SessionInv'
<1>1. BrokerInv'
  BY PruneStep DEF SessionInv, Prune
<1>2. Detached(id)
  BY DEF Prune, pruneSession, Expired, SessionInv, BrokerInv, FullGrace, NoTimer
<1>3. /\ live' = live \ {id} /\ UNCHANGED <<conn, pending, sockOf, bind, world, wire, client, synced>>
      /\ adapter' = [adapter EXCEPT ![id] = NewAdapter]
  BY <1>2 DEF Prune, pruneSession
<1>4. \A k \in Sock : Sending(k)' = Sending(k)
  BY <1>3 DEF Sending
<1>5. \A k \in Sock : Sending(k) => bind[k] \in SessionId \ {id}
  BY <1>2, BoundIsLive, PruneAssumption DEF SessionInv, Detached
<1>6. /\ \A s \in SessionId \ {id} : adapter'[s] = adapter[s]
      /\ \A s \in live' : s \in live /\ s \in SessionId \ {id}
  BY <1>3 DEF SessionInv, SessionTypes, BrokerInv, WsTypeOK
<1>7. SessionTypes'
  <2>1. NewAdapter \in Adapter
    BY DEF NewAdapter, Adapter
  <2>. QED BY <1>3, <2>1 DEF SessionInv, SessionTypes
<1>8. RingsRun'
  BY <1>6 DEF SessionInv, RingsRun
<1>9. WiresRun'
  BY <1>3, <1>4, <1>5, <1>6 DEF SessionInv, WiresRun
<1>10. Connected'
  BY <1>3, <1>4 DEF SessionInv, Connected
<1>11. Follows'
  <2> SUFFICES ASSUME NEW c \in Client, Subscribed(c)'
               PROVE  LET k == client[c].sock IN
                      /\ c \in synced[bind[k]] =>
                           /\ client[c].sid = bind[k]
                           /\ client[c].last <= adapter'[bind[k]].seq - Len(wire[k])
                           /\ wire[k] = <<>> => client[c].last = adapter'[bind[k]].seq
                      /\ client[c].sid # bind[k] => wire[k] # <<>> /\ wire[k][1].body.kind = "snapshot"
    BY <1>3 DEF Follows
  <2>1. client[c].sock \in Sock
    BY <1>3 DEF Subscribed, SessionInv, SessionTypes, ClientType
  <2>2. Subscribed(c) /\ Sending(client[c].sock)
    BY <1>3, <1>4, <2>1 DEF Subscribed
  <2>3. bind[client[c].sock] \in SessionId \ {id}
    BY <1>5, <2>1, <2>2
  <2>. QED BY <1>6, <2>2, <2>3 DEF SessionInv, Follows
<1>12. Told'
  <2> SUFFICES ASSUME NEW s \in live' PROVE \E g \in History : Tells(s, g)'
    BY DEF Told
  <2>1. PICK g \in History : Tells(s, g)
    BY <1>6 DEF SessionInv, Told
  <2>2. Tells(s, g)'
    BY <1>3, <1>4, <1>6, <2>1 DEF Tells, RingFits, WireFits, ViewFits
  <2>. QED BY <2>2
<1>. QED BY <1>1, <1>7, <1>8, <1>9, <1>10, <1>11, <1>12 DEF SessionInv

(* Time changes the ages in the buffers, and no frame.                     *)
LEMMA AgedKeepsFrames ==
  ASSUME NEW a \in Adapter
  PROVE  /\ Aged(a) \in Adapter /\ Aged(a).seq = a.seq /\ Len(Aged(a).ring) = Len(a.ring)
         /\ DOMAIN Aged(a).ring = DOMAIN a.ring
         /\ \A i \in DOMAIN a.ring : Aged(a).ring[i].frame = a.ring[i].frame
         /\ a.ring # <<>> => Aged(a).ring # <<>>
<1> DEFINE old(i) == a.ring[i]
           new(i) == [old(i) EXCEPT !.age = IF @ <= RingWindow THEN @ + 1 ELSE @]
           r == [i \in DOMAIN a.ring |-> new(i)]
<1>1. a \in [seq : Nat, ring : Seq(Entry)] /\ Len(a.ring) \in Nat /\ DOMAIN a.ring = 1 .. Len(a.ring)
  BY DEF Adapter
<1>2. Aged(a) = [a EXCEPT !.ring = r]
  BY DEF Aged
<1>3. ASSUME NEW i \in DOMAIN a.ring PROVE new(i) \in Entry /\ new(i).frame = a.ring[i].frame
  <2>0. a.ring[i] \in Entry
    BY <1>1, ElementOfSeq
  <2>1. a.ring[i] \in [frame : FrameType, age : Nat]
    BY <2>0 DEF Entry
  <2> DEFINE age == IF old(i).age <= RingWindow THEN old(i).age + 1 ELSE old(i).age
  <2>2. age \in Nat /\ new(i) = [old(i) EXCEPT !.age = age]
    BY <2>1
  <2>. HIDE DEF age, new
  <2>. QED BY <2>1, <2>2 DEF Entry
<1>4. r \in [1 .. Len(a.ring) -> Entry] /\ \A i \in DOMAIN a.ring : r[i].frame = a.ring[i].frame
  <2>. HIDE DEF new
  <2>. QED BY <1>1, <1>3
<1>. HIDE DEF r
<1>5. r \in Seq(Entry) /\ Len(r) = Len(a.ring) /\ DOMAIN r = DOMAIN a.ring
  BY <1>1, <1>4, IsASeq, LenProperties
<1>6. Aged(a).ring = r /\ Aged(a).seq = a.seq /\ Aged(a) \in Adapter
  BY <1>1, <1>2, <1>5 DEF Adapter
<1>7. a.ring # <<>> => r # <<>>
  BY <1>1, <1>5
<1>. QED BY <1>4, <1>5, <1>6, <1>7

LEMMA TimeStep ==
  ASSUME SessionInv, TimePasses
  PROVE  SessionInv'
<1>1. BrokerInv'
  BY TickStep DEF SessionInv, TimePasses
<1>2. UNCHANGED <<conn, pending, live, sockOf, bind, world, wire, client, synced>>
  BY DEF TimePasses, Tick
<1>3. \A k : Sending(k)' = Sending(k)
  BY <1>2 DEF Sending
<1>4. /\ \A id \in SessionId : adapter'[id] = Aged(adapter[id]) /\ adapter[id] \in Adapter
      /\ \A id \in live : id \in SessionId
      /\ \A k \in Sock : Sending(k) => bind[k] \in SessionId
  BY BoundIsLive DEF TimePasses, SessionInv, SessionTypes, BrokerInv, WsTypeOK
<1>5. \A id \in SessionId :
        LET a == adapter[id]  b == adapter'[id] IN
        /\ b \in Adapter /\ b.seq = a.seq /\ Len(b.ring) = Len(a.ring)
        /\ DOMAIN b.ring = DOMAIN a.ring
        /\ \A i \in DOMAIN a.ring : b.ring[i].frame = a.ring[i].frame
        /\ a.ring # <<>> => b.ring # <<>>
  BY <1>4, AgedKeepsFrames
<1>6. SessionTypes'
  BY <1>2, <1>5 DEF SessionInv, SessionTypes, TimePasses
<1>7. RingsRun'
  <2> SUFFICES ASSUME NEW id \in live
               PROVE  adapter'[id].ring # <<>> /\ Numbered(Frames(adapter'[id].ring), adapter'[id].seq)
    BY <1>2 DEF RingsRun
  <2>0. id \in SessionId
    BY <1>4
  <2>1. adapter[id].ring # <<>> /\ Numbered(Frames(adapter[id].ring), adapter[id].seq)
    BY DEF SessionInv, RingsRun
  <2>2. Frames(adapter'[id].ring) = Frames(adapter[id].ring)
    BY <1>5, <2>0 DEF Frames
  <2>. QED BY <1>5, <2>0, <2>1, <2>2
<1>8. WiresRun'
  BY <1>2, <1>3, <1>4, <1>5 DEF SessionInv, WiresRun
<1>9. Connected'
  BY <1>2, <1>3 DEF SessionInv, Connected
<1>10. \A c \in Client : Subscribed(c) => bind[client[c].sock] \in SessionId
  BY <1>4 DEF Subscribed, SessionInv, SessionTypes, ClientType
<1>11. Follows'
  BY <1>2, <1>3, <1>5, <1>10 DEF SessionInv, Follows, Subscribed
<1>12. Told'
  <2> SUFFICES ASSUME NEW id \in live PROVE \E g \in History : Tells(id, g)'
    BY <1>2 DEF Told
  <2>1. PICK g \in History : Tells(id, g)
    BY DEF SessionInv, Told
  <2>2. id \in SessionId
    BY <1>4
  <2>3. Tells(id, g)'
    BY <1>2, <1>3, <1>5, <2>1, <2>2 DEF Tells, RingFits, WireFits, ViewFits
  <2>. QED BY <2>3
<1>. QED BY <1>1, <1>6, <1>7, <1>8, <1>9, <1>11, <1>12 DEF SessionInv

LEMMA SessionStep == SessionInv /\ [Next]_vars => SessionInv'
<1> SUFFICES ASSUME SessionInv, [Next]_vars PROVE SessionInv'
  OBVIOUS
<1>1. CASE ManagerStep
  BY <1>1, ManagersStep
<1>2. ASSUME NEW c \in Client, ClientStep(c) PROVE SessionInv'
  <2>1. CASE \E k \in Sock : Connect(c, k)
    BY <2>1, ConnectStep
  <2>2. CASE Lose(c) \/ SendBadFrame(c)
    BY <2>2, LoseStep
  <2>3. CASE Resume(c)
    BY <2>3, ResumeSessionStep
  <2>4. CASE \E wanted \in SessionId \cup {NoId}, id \in SessionId : StartSession(c, wanted, id)
    BY <2>4, StartSessionStep
  <2>5. CASE Receive(c)
    BY <2>5, ReceiveStep
  <2>. QED BY <1>2, <2>1, <2>2, <2>3, <2>4, <2>5 DEF ClientStep
<1>3. CASE \E k \in Sock : ReportLost(k)
  BY <1>3, ReportStep
<1>4. CASE \E id \in SessionId : Prune(id)
  BY <1>4, PruneSessionStep
<1>5. CASE TimePasses
  BY <1>5, TimeStep
<1>6. CASE UNCHANGED vars
  <2>1. BrokerInv'
    BY <1>6, BrokerKept DEF SessionInv, vars
  <2>2. /\ UNCHANGED <<conn, pending, live, sockOf, bind, world, adapter, wire, client, synced>>
        /\ \A k : Sending(k)' = Sending(k)
    BY <1>6, SendingKept DEF vars
  <2>. QED BY <2>1, <2>2 DEF SessionInv, SessionTypes, Connected, Follows, Subscribed, RingsRun,
          WiresRun, Told, Tells, RingFits, WireFits, ViewFits
<1>. QED BY <1>1, <1>2, <1>3, <1>4, <1>5, <1>6 DEF Next

THEOREM SessionInvariant == Spec => []SessionInv
  BY SessionInit, SessionStep, PTL DEF Spec

(* The tables of the broker agree, and no session ends early, also when    *)
(* the sessions' output, the managers and the clients are composed with it.*)
THEOREM SessionsKeepTheTables == Spec => [](WsTypeOK /\ TablesAgree /\ FullGrace)
  BY SessionInvariant, PTL DEF SessionInv, BrokerInv

LEMMA Runs == SessionInv => Unbroken
<1> SUFFICES ASSUME SessionInv PROVE Unbroken
  OBVIOUS
<1>1. ASSUME NEW k \in Sock, Sending(k), NEW i \in DOMAIN wire[k]
      PROVE  wire[k][i].seq = adapter[bind[k]].seq - Len(wire[k]) + i
  BY <1>1 DEF SessionInv, WiresRun, Numbered
<1>2. ASSUME NEW id \in live
      PROVE  /\ adapter[id].ring # <<>>
             /\ \A i \in DOMAIN adapter[id].ring :
                  adapter[id].ring[i].frame.seq = adapter[id].seq - Len(adapter[id].ring) + i
  <2>1. adapter[id].ring \in Seq(Entry)
    BY DEF SessionInv, SessionTypes, Adapter, BrokerInv, WsTypeOK
  <2>2. Numbered(Frames(adapter[id].ring), adapter[id].seq) /\ adapter[id].ring # <<>>
    BY DEF SessionInv, RingsRun
  <2>. QED BY <2>1, <2>2, FramesOf DEF Numbered
<1>. QED BY <1>1, <1>2 DEF Unbroken

(* The envelopes of a session reach a socket numbered without a gap up to  *)
(* the session's own count, and so do those its resume buffer holds:       *)
(* emitEnvelope, the replay of resumeSession and the pruning of the ring   *)
(* never lose, repeat or swap one.                                         *)
THEOREM FramesAreUnbroken == Spec => []Unbroken
  BY SessionInvariant, Runs, PTL

LEMMA Onward == SessionInv => NoRepeat
<1> SUFFICES ASSUME SessionInv, NEW c \in Client, Subscribed(c),
                    c \in synced[bind[client[c].sock]], wire[client[c].sock] # <<>>
             PROVE  Head(wire[client[c].sock]).seq > client[c].last
  BY DEF NoRepeat
<1>1. PICK k \in Sock : k = client[c].sock /\ Sending(k)
  BY DEF Subscribed, SessionInv, SessionTypes, ClientType
<1>2. wire[k] \in Seq(FrameType) /\ wire[k] # <<>> /\ Numbered(wire[k], adapter[bind[k]].seq)
  BY <1>1 DEF SessionInv, SessionTypes, WiresRun
<1>3. client[c].last \in Nat /\ adapter[bind[k]].seq \in Nat
  BY <1>1, BoundIsLive DEF SessionInv, SessionTypes, ClientType, Adapter
<1>4. client[c].last <= adapter[bind[k]].seq - Len(wire[k])
  BY <1>1 DEF SessionInv, Follows
<1>5. Head(wire[k]).seq = adapter[bind[k]].seq - Len(wire[k]) + 1
  <2>1. 1 \in DOMAIN wire[k] /\ Head(wire[k]) = wire[k][1]
    BY <1>2
  <2>. QED BY <1>2, <2>1 DEF Numbered
<1>6. Len(wire[k]) \in Nat
  BY <1>2
<1>. QED BY <1>1, <1>3, <1>4, <1>5, <1>6

(* replaySince and the live frames after it never send a client that has   *)
(* the session's snapshot an envelope it already received.                 *)
THEOREM NothingIsSentTwice == Spec => []NoRepeat
  BY SessionInvariant, Onward, PTL

(* The client after each of the frames under way.                          *)
LEMMA AfterEach ==
  ASSUME NEW c \in Client, wire[client[c].sock] \in Seq(FrameType)
  PROVE  LET frames == wire[client[c].sock] IN
         \E after : /\ after[0] = client[c] /\ CaughtUp(c) = after[Len(frames)]
                    /\ \A n \in 1 .. Len(frames) : after[n] = Received(after[n - 1], frames[n])
<1> DEFINE frames == wire[client[c].sock]
           m == Len(frames)
           Step(f, n) == IF n = 0 THEN client[c] ELSE Received(f[n - 1], frames[n])
           T == {n \in Nat : n <= m => \E f : f = [i \in 0 .. n |-> Step(f, i)]}
<1>1. m \in Nat
  OBVIOUS
<1>2. 0 \in T
  <2> DEFINE f == [i \in 0 .. 0 |-> client[c]]
  <2>1. f = [i \in 0 .. 0 |-> Step(f, i)]
    OBVIOUS
  <2>. HIDE DEF f, Step
  <2>. QED BY <2>1
<1>3. ASSUME NEW n \in Nat, n \in T PROVE n + 1 \in T
  <2> SUFFICES ASSUME n + 1 <= m PROVE \E h : h = [i \in 0 .. n + 1 |-> Step(h, i)]
    OBVIOUS
  <2>1. PICK f : f = [i \in 0 .. n |-> Step(f, i)]
    BY <1>1, <1>3
  <2> DEFINE h == [i \in 0 .. n + 1 |-> IF i <= n THEN f[i] ELSE Received(f[n], frames[n + 1])]
  <2>2. \A i \in 0 .. n + 1 : h[i] = Step(h, i)
    <3> SUFFICES ASSUME NEW i \in 0 .. n + 1 PROVE h[i] = Step(h, i)
      OBVIOUS
    <3>1. CASE i = 0
      BY <2>1, <3>1
    <3>2. CASE i \in 1 .. n
      <4>1. h[i] = f[i] /\ h[i - 1] = f[i - 1] /\ i # 0 /\ i \in 0 .. n
        BY <3>2
      <4>2. f[i] = Step(f, i)
        BY <2>1, <4>1
      <4>. QED BY <4>1, <4>2
    <3>3. CASE i = n + 1
      BY <3>3
    <3>. QED BY <3>1, <3>2, <3>3
  <2>3. h = [i \in 0 .. n + 1 |-> h[i]]
    OBVIOUS
  <2>. HIDE DEF h, Step
  <2>4. h = [i \in 0 .. n + 1 |-> Step(h, i)]
    BY <2>2, <2>3
  <2>. QED BY <2>4
<1>4. Nat \subseteq T
  <2>. HIDE DEF T
  <2>. QED BY <1>2, <1>3, NumbersFrom0
<1>5. \E f : f = [i \in 0 .. m |-> Step(f, i)]
  <2>1. m \in T /\ m <= m
    <3>. HIDE DEF T, m
    <3>. QED BY <1>1, <1>4
  <2>. HIDE DEF Step, m
  <2>. QED BY <2>1
<1> DEFINE after == CHOOSE f : f = [i \in 0 .. m |-> Step(f, i)]
<1>6. after = [i \in 0 .. m |-> Step(after, i)]
  <2>. HIDE DEF Step, m
  <2>. QED BY <1>5
<1>7. CaughtUp(c) = after[m]
  BY Zenon DEF CaughtUp
<1>. HIDE DEF after, m
<1>8. after[0] = client[c] /\ \A n \in 1 .. m : after[n] = Received(after[n - 1], frames[n])
  <2>1. \A n \in 0 .. m : after[n] = Step(after, n)
    <3>. HIDE DEF Step
    <3>. QED BY <1>6
  <2>2. 0 \in 0 .. m /\ \A n \in 1 .. m : n \in 0 .. m /\ n # 0
    BY <1>1
  <2>. QED BY <2>1, <2>2
<1>. QED BY <1>7, <1>8 DEF m

(* Through all that is under way, a client that has a snapshot and sees no *)
(* gap shows the items as they were at the last number it received.        *)
LEMMA CatchingUp ==
  ASSUME SessionInv, NEW c \in Client, Subscribed(c),
         c \in synced[bind[client[c].sock]] \/ SnapshotUnderWay(c)
  PROVE  ~CaughtUp(c).gap => CaughtUp(c).view = world
<1>1. PICK k \in Sock : k = client[c].sock /\ Sending(k)
  BY DEF Subscribed, SessionInv, SessionTypes, ClientType
<1>2. PICK id \in SessionId : id = bind[k] /\ id \in live
  BY <1>1, BoundIsLive DEF SessionInv
<1> DEFINE frames == wire[k]
           m == Len(frames)
           top == adapter[id].seq
           has(n) == c \in synced[id] \/ \E i \in 1 .. n : frames[i].body.kind = "snapshot"
<1>3. /\ frames \in Seq(FrameType) /\ m \in Nat /\ top \in Nat /\ DOMAIN frames = 1 .. m
      /\ client[c] \in ClientType
      /\ \A i \in 1 .. m : frames[i] \in FrameType /\ frames[i].seq = top - m + i
  <2>1. /\ frames \in Seq(FrameType) /\ top \in Nat /\ client[c] \in ClientType
        /\ Numbered(frames, top)
    BY <1>1, <1>2 DEF SessionInv, SessionTypes, Adapter, WiresRun
  <2>. QED BY <2>1 DEF Numbered
<1>4. PICK g \in History : Tells(id, g)
  BY <1>2 DEF SessionInv, Told
<1>5. \A i \in 1 .. m : Fits(g, frames[i])
  BY <1>1, <1>2, <1>3, <1>4 DEF Tells, WireFits
<1>6. c \in synced[id] => /\ client[c].sid = id
                          /\ client[c].last <= top - m
                          /\ frames = <<>> => client[c].last = top
  BY <1>1, <1>2 DEF SessionInv, Follows
<1>7. PICK after : /\ after[0] = client[c] /\ CaughtUp(c) = after[m]
                   /\ \A n \in 1 .. m : after[n] = Received(after[n - 1], frames[n])
  BY <1>1, <1>3, AfterEach
<1> DEFINE Good(n) ==
             /\ after[n] \in ClientType
             /\ n = 0 => after[n].last = client[c].last
             /\ n # 0 => after[n].last = frames[n].seq
             /\ has(n) /\ ~after[n].gap => after[n].view = g[after[n].last]
           T == {n \in Nat : n <= m => Good(n)}
<1>. HIDE DEF frames, m, top
<1>8. 0 \in T
  <2>1. c \in synced[id] /\ ~client[c].gap => client[c].view = g[client[c].last]
    BY <1>4, <1>6 DEF Tells, ViewFits
  <2>. QED BY <1>3, <1>7, <2>1
<1>9. ASSUME NEW n \in Nat, n \in T PROVE n + 1 \in T
  <2> SUFFICES ASSUME n + 1 <= m PROVE Good(n + 1)
    OBVIOUS
  <2>1. Good(n) /\ n + 1 \in 1 .. m /\ n + 1 # 0 /\ (n + 1) - 1 = n
    BY <1>3, <1>9
  <2> DEFINE old == after[n]
             new == after[n + 1]
             f == frames[n + 1]
  <2>2. old \in ClientType /\ f \in FrameType /\ Fits(g, f)
    BY <1>3, <1>5, <2>1
  <2>3. new = Received(old, f)
    BY <1>7, <2>1
  <2>. HIDE DEF old, new, f
  <2>4. Apply(old.view, f.body) \in World /\ f.seq \in Nat
    BY <2>2, ApplyType DEF ClientType, FrameType
  <2> DEFINE snap == f.body.kind = "snapshot"
             gap == ~snap /\ (old.gap \/ f.seq # old.last + 1)
             shown == Apply(old.view, f.body)
  <2>5. new = [old EXCEPT !.last = f.seq, !.view = shown, !.gap = gap]
    BY <2>3, Zenon DEF Received
  <2>6. gap \in BOOLEAN
    OBVIOUS
  <2>7. new \in ClientType /\ new.last = f.seq /\ new.view = shown /\ new.gap = gap
    <3>. HIDE DEF gap, shown
    <3>. QED BY <2>2, <2>4, <2>5, <2>6 DEF ClientType, shown
  <2>8. has(n + 1) /\ ~gap => shown = g[f.seq]
    <3>1. CASE snap
      BY <2>2, <3>1, SnapshotIsAll DEF Fits
    <3>2. CASE ~snap
      <4> SUFFICES ASSUME has(n + 1), ~gap PROVE shown = g[f.seq]
        OBVIOUS
      <4>1. has(n)
        <5>1. \A i \in 1 .. n + 1 : i = n + 1 \/ i \in 1 .. n
          OBVIOUS
        <5>. QED BY <3>2, <5>1 DEF f
      <4>2. ~old.gap /\ f.seq = old.last + 1
        BY <3>2
      <4>3. old.view = g[old.last]
        BY <2>1, <4>1, <4>2 DEF old
      <4>4. f.seq - 1 = old.last
        BY <2>2, <4>2 DEF ClientType
      <4>. QED BY <2>2, <4>3, <4>4 DEF Fits
    <3>. QED BY <3>1, <3>2
  <2>. QED BY <2>1, <2>7, <2>8 DEF new, f
<1>10. Nat \subseteq T
  <2>. HIDE DEF T
  <2>. QED BY <1>8, <1>9, NumbersFrom0
<1>11. Good(m)
  <2>1. m \in T /\ m <= m
    <3>. HIDE DEF T
    <3>. QED BY <1>3, <1>10
  <2>. HIDE DEF Good
  <2>. QED BY <2>1
<1>12. has(m)
  BY <1>1, <1>2, <1>3 DEF SnapshotUnderWay, frames
<1>13. after[m].last = top
  <2>1. CASE m = 0
    <3>1. c \in synced[id] /\ frames = <<>>
      BY <1>3, <1>12, <2>1 DEF m
    <3>. QED BY <1>6, <1>11, <2>1, <3>1
  <2>2. CASE m # 0
    <3>1. m \in 1 .. m /\ top - m + m = top
      BY <1>3, <2>2
    <3>. QED BY <1>3, <1>11, <2>2, <3>1
  <2>. QED BY <2>1, <2>2
<1>14. g[top] = world
  BY <1>4 DEF Tells, top
<1>. QED BY <1>7, <1>11, <1>12, <1>13, <1>14

(* After any number of losses and resumes within the grace period and the  *)
(* resume buffer, the items a client without a gap shows are those the     *)
(* managers hold: the replay of resumeSession and the snapshot of a new    *)
(* session meet the live frames without anything missing between them.     *)
THEOREM ResumesLoseNothing == Spec => []ResumedViewIsCurrent
<1>1. SessionInv => ResumedViewIsCurrent
  BY CatchingUp DEF ResumedViewIsCurrent
<1>. QED BY <1>1, SessionInvariant, PTL
=============================================================================
