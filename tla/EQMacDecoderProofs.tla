------------------------- MODULE EQMacDecoderProofs -------------------------
(***************************************************************************)
(* Proofs about EQMacDecoder, for every number of flows, every sender      *)
(* stream and every width of the ARQ number.                               *)
(***************************************************************************)
EXTENDS EQMacDecoder, TLAPS

(* The int16 cast recovers the distance of two packets from their numbers, *)
(* as long as it is less than half the number space.                       *)
LEMMA DeltaIsDistance ==
  ASSUME NEW M \in Nat, NEW a \in Int, NEW x \in Int, NEW y \in Int,
         2 * (x - y) < M, 2 * (y - x) <= M, M > 0
  PROVE  LET d == (((a + x) % M) - ((a + y) % M)) % M
         IN  /\ d \in 0 .. M - 1
             /\ x >= y => d = x - y
             /\ x < y => d = x - y + M
<1> DEFINE p == (a + x) \div M
           q == (a + y) \div M
           r == (a + x) % M
           s == (a + y) % M
           d == (r - s) % M
           e == (r - s) \div M
<1>1. /\ p \in Int
      /\ q \in Int
      /\ r \in 0 .. M - 1
      /\ s \in 0 .. M - 1
  OBVIOUS
<1>2. a + x = M * p + r
  OBVIOUS
<1>3. a + y = M * q + s
  OBVIOUS
<1>4. d \in 0 .. M - 1 /\ e \in Int
  BY <1>1
<1>5. r - s = M * e + d
  BY <1>1
<1> DEFINE n == p - q + e
<1>6. x - y = M * n + d
  BY <1>1, <1>2, <1>3, <1>4, <1>5, SMTT(30)
<1>7. n \in Int
  BY <1>1, <1>4
<1> HIDE DEF p, q, r, s, d, e, n
<1>8. CASE x >= y
  <2>1. n = 0
    BY <1>4, <1>6, <1>7, <1>8, SMTT(30)
  <2>2. d = x - y
    BY <1>4, <1>6, <1>7, <2>1
  <2>. QED BY <1>4, <1>8, <2>2 DEF d, r, s
<1>9. CASE x < y
  <2>1. n = -1
    BY <1>4, <1>6, <1>7, <1>9, SMTT(30)
  <2>2. d = x - y + M
    BY <1>4, <1>6, <1>7, <2>1
  <2>. QED BY <1>4, <1>9, <2>2 DEF d, r, s
<1>. QED BY <1>8, <1>9

(* A decoder's mark is the number of the newest packet it accepted.        *)
MarkInv ==
  \A f \in Flow :
    lastArq[f] = IF top[f] = 0 THEN -1 ELSE ArqOf(f, top[f])

(* The filter lets a packet through exactly when it is newer than every    *)
(* packet accepted before.                                                 *)
LEMMA FreshIsNewer ==
  ASSUME TypeOK, MarkInv, NEW f \in Flow, NEW i \in Index, InWindow(f, i)
  PROVE  /\ ArqOf(f, i) \in Arq
         /\ IsFresh(f, ArqOf(f, i)) <=> i > top[f]
<1>0. /\ isn[f] \in 0 .. ArqMod - 1
      /\ top[f] \in 0 .. NPackets
      /\ lastArq[f] = IF top[f] = 0 THEN -1 ELSE (isn[f] + top[f]) % ArqMod
      /\ ArqMod \in Nat
      /\ ArqMod > 0
      /\ Window \in Nat
      /\ 2 * Window <= ArqMod
      /\ NPackets \in Nat
      /\ i \in 1 .. NPackets
  BY SenderAssumption, WidthAssumption
     DEF TypeOK, StreamAssumption, ArqAssumption, Index, Arq, MarkInv, ArqOf
<1>1. ArqOf(f, i) \in Arq
  BY <1>0 DEF ArqOf, Arq
<1>2. CASE top[f] = 0
  BY <1>0, <1>1, <1>2 DEF IsFresh
<1>3. CASE top[f] # 0
  <2> DEFINE t == top[f]
             d == (((isn[f] + i) % ArqMod) - ((isn[f] + t) % ArqMod)) % ArqMod
  <2>1. /\ t \in Int
        /\ i \in Int
        /\ isn[f] \in Int
        /\ 2 * (i - t) < ArqMod
        /\ 2 * (t - i) < ArqMod
    BY <1>0, <1>3 DEF InWindow
  <2>2. /\ d \in 0 .. ArqMod - 1
        /\ i >= t => d = i - t
        /\ i < t => d = i - t + ArqMod
    <3>1. /\ t \in Int
          /\ i \in Int
          /\ isn[f] \in Int
          /\ ArqMod \in Nat
          /\ ArqMod > 0
          /\ 2 * (i - t) < ArqMod
          /\ 2 * (t - i) <= ArqMod
      BY <1>0, <2>1
    <3> HIDE DEF t
    <3>. QED BY ONLY <3>1, DeltaIsDistance DEF d
  <2>3. /\ lastArq[f] = (isn[f] + t) % ArqMod
        /\ lastArq[f] \in Nat
    BY <1>0, <1>3
  <2>4. ArqDelta(ArqOf(f, i), lastArq[f]) = IF 2 * d < ArqMod THEN d ELSE d - ArqMod
    BY <2>3 DEF ArqDelta, ArqOf
  <2> HIDE DEF d, t
  <2>5. ArqDelta(ArqOf(f, i), lastArq[f]) > 0 <=> i > t
    BY <1>0, <2>1, <2>2, <2>4
  <2>. QED BY <1>1, <2>3, <2>5 DEF IsFresh, t
<1>. QED BY <1>2, <1>3

(* The pieces a decoder works with have their types.                       *)
LEMMA StreamTypes ==
  ASSUME NEW i \in Index
  PROVE  /\ Stream[i] \in Packet
         /\ Stream[i].seq \in FragSeq
         /\ Chunk(i) \in ChunkSet
         /\ i \in 1 .. NPackets
BY SenderAssumption DEF StreamAssumption, FragSeq, ChunkSet, Index

LEMMA GroupTypes ==
  ASSUME TypeOK, NEW f \in Flow, NEW i \in Index
  PROVE  /\ EmptyGroup \in Group
         /\ GroupFor(f, Stream[i]) \in Group
         /\ Collect(GroupFor(f, Stream[i]), i) \in Group
<1>1. EmptyGroup \in Group
  BY DEF EmptyGroup, Group
<1>2. GroupFor(f, Stream[i]) \in Group
  BY StreamTypes, SMTT(30) DEF GroupFor, NewGroup, Group, TypeOK, Packet
<1>3. ASSUME NEW g \in Group PROVE Collect(g, i) \in Group
  <2>1. /\ g.body \in Seq(ChunkSet)
        /\ Chunk(i) \in ChunkSet
        /\ Stream[i].curr \in Nat
    BY StreamTypes DEF Group, Packet
  <2>2. Append(g.body, Chunk(i)) \in Seq(ChunkSet)
    BY <2>1
  <2>. QED BY <2>1, <2>2 DEF Collect, Group
<1>. QED BY <1>1, <1>2, <1>3

LEMMA StoreTypes ==
  ASSUME TypeOK, NEW f \in Flow, NEW i \in Index, NEW g \in Group,
         StoreGroup(f, Stream[i].seq, g)
  PROVE  groups' \in [Flow -> [FragSeq -> Group]]
BY StreamTypes DEF StoreGroup, TypeOK

LEMMA EmitTypes ==
  ASSUME TypeOK, NEW f \in Flow, NEW o \in Nat, NEW b \in Seq(ChunkSet),
         emitWithDecode(f, o, b)
  PROVE  dispatched' \in [Flow -> Seq(AppMessage)]
<1>1. Message(o, b) \in AppMessage
  BY DEF Message, AppMessage
<1>2. dispatched \in [Flow -> Seq(AppMessage)]
  BY DEF TypeOK
<1>3. Append(dispatched[f], Message(o, b)) \in Seq(AppMessage)
  BY <1>1, <1>2
<1>. QED BY <1>2, <1>3 DEF emitWithDecode

-----------------------------------------------------------------------------

(* Accepting a packet keeps the types of the filter and moves its mark     *)
(* forward to that packet.                                                 *)
LEMMA AcceptStep ==
  ASSUME TypeOK, MarkInv, NEW f \in Flow, NEW i \in Index, AcceptArq(f, i)
  PROVE  /\ isn' \in [Flow -> Arq]
         /\ top' \in [Flow -> 0 .. NPackets]
         /\ lastArq' \in [Flow -> -1 .. ArqMod - 1]
         /\ datagrams' \in [Flow -> Nat]
         /\ MarkInv'
         /\ i > top[f]
         /\ top' = [top EXCEPT ![f] = i]
<1>1. /\ ArqOf(f, i) \in Arq
      /\ i > top[f]
  BY FreshIsNewer DEF AcceptArq
<1>2. /\ isn' = isn
      /\ datagrams' = datagrams
      /\ top' = [top EXCEPT ![f] = i]
      /\ lastArq' = [lastArq EXCEPT ![f] = ArqOf(f, i)]
  BY DEF AcceptArq
<1>3. /\ i \in 1 .. NPackets
      /\ NPackets \in Nat
      /\ ArqMod \in Nat
  BY SenderAssumption, WidthAssumption
     DEF StreamAssumption, ArqAssumption, Index
<1>4. /\ top' \in [Flow -> 0 .. NPackets]
      /\ lastArq' \in [Flow -> -1 .. ArqMod - 1]
  BY <1>1, <1>2, <1>3 DEF TypeOK, Arq
<1>5. ASSUME NEW g \in Flow
      PROVE  lastArq'[g] = IF top'[g] = 0 THEN -1 ELSE ArqOf(g, top[g])'
  BY <1>2, <1>3 DEF MarkInv, TypeOK, ArqOf
<1>. QED BY <1>1, <1>2, <1>4, <1>5 DEF TypeOK, MarkInv, ArqOf

LEMMA WholeStep ==
  ASSUME TypeOK, MarkInv, NEW f \in Flow, NEW i \in Index, AcceptWhole(f, i)
  PROVE  /\ AcceptArq(f, i)
         /\ whole' \in [Flow -> SUBSET Index]
BY DEF AcceptWhole, TypeOK

LEMMA InitType == Init => TypeOK /\ MarkInv
<1> SUFFICES ASSUME Init PROVE TypeOK /\ MarkInv
  OBVIOUS
<1>1. /\ NPackets \in Nat
      /\ ArqMod \in Nat
  BY SenderAssumption, WidthAssumption DEF StreamAssumption, ArqAssumption
<1>2. EmptyGroup \in Group
  BY DEF EmptyGroup, Group
<1>3. << >> \in Seq(AppMessage)
  OBVIOUS
<1>. QED BY <1>1, <1>2, <1>3 DEF Init, TypeOK, MarkInv, Arq

LEMMA NextType == TypeOK /\ MarkInv /\ [Next]_vars => TypeOK' /\ MarkInv'
<1> SUFFICES ASSUME TypeOK, MarkInv, [Next]_vars PROVE TypeOK' /\ MarkInv'
  OBVIOUS
<1>1. ASSUME NEW f \in Flow, NEW i \in Index, DropRetransmit(f, i)
      PROVE  TypeOK' /\ MarkInv'
  BY <1>1 DEF DropRetransmit, TypeOK, MarkInv, ArqOf, vars
<1>2. ASSUME NEW f \in Flow, NEW i \in Index, HeaderOnly(f, i)
      PROVE  TypeOK' /\ MarkInv'
  BY <1>2, AcceptStep DEF HeaderOnly, TypeOK
<1>3. ASSUME NEW f \in Flow, NEW i \in Index, SinglePacket(f, i)
      PROVE  TypeOK' /\ MarkInv'
  <2>1. /\ AcceptWhole(f, i)
        /\ groups' = groups
        /\ emitWithDecode(f, Stream[i].op, <<Chunk(i)>>)
    BY <1>3 DEF SinglePacket
  <2>2. Stream[i].op \in Nat /\ <<Chunk(i)>> \in Seq(ChunkSet)
    BY StreamTypes DEF Packet
  <2>3. dispatched' \in [Flow -> Seq(AppMessage)]
    BY <2>1, <2>2, EmitTypes
  <2>. QED BY <2>1, <2>3, WholeStep, AcceptStep DEF TypeOK
<1>4. ASSUME NEW f \in Flow, NEW i \in Index, DropGroup(f, i)
      PROVE  TypeOK' /\ MarkInv'
  <2>1. /\ AcceptWhole(f, i)
        /\ dispatched' = dispatched
        /\ StoreGroup(f, Stream[i].seq, EmptyGroup)
    BY <1>4 DEF DropGroup
  <2>2. groups' \in [Flow -> [FragSeq -> Group]]
    BY <2>1, GroupTypes, StoreTypes
  <2>. QED BY <2>1, <2>2, WholeStep, AcceptStep DEF TypeOK
<1>5. ASSUME NEW f \in Flow, NEW i \in Index, DropFragment(f, i)
      PROVE  TypeOK' /\ MarkInv'
  <2>1. /\ AcceptWhole(f, i)
        /\ dispatched' = dispatched
        /\ StoreGroup(f, Stream[i].seq, GroupFor(f, Stream[i]))
    BY <1>5 DEF DropFragment
  <2>2. groups' \in [Flow -> [FragSeq -> Group]]
    BY <2>1, GroupTypes, StoreTypes
  <2>. QED BY <2>1, <2>2, WholeStep, AcceptStep DEF TypeOK
<1>6. ASSUME NEW f \in Flow, NEW i \in Index, AddFragment(f, i)
      PROVE  TypeOK' /\ MarkInv'
  <2> DEFINE h == Collect(GroupFor(f, Stream[i]), i)
  <2>1. /\ AcceptWhole(f, i)
        /\ \/ /\ StoreGroup(f, Stream[i].seq, h)
              /\ dispatched' = dispatched
           \/ /\ StoreGroup(f, Stream[i].seq, EmptyGroup)
              /\ emitWithDecode(f, h.op, h.body)
    BY <1>6 DEF AddFragment
  <2>2. h \in Group /\ EmptyGroup \in Group
    BY GroupTypes
  <2>3. h.op \in Nat /\ h.body \in Seq(ChunkSet)
    BY <2>2 DEF Group
  <2> HIDE DEF h
  <2>4. groups' \in [Flow -> [FragSeq -> Group]]
    BY <2>1, <2>2, StoreTypes
  <2>5. dispatched' \in [Flow -> Seq(AppMessage)]
    <3>1. dispatched \in [Flow -> Seq(AppMessage)]
      BY DEF TypeOK
    <3>. QED BY <2>1, <2>3, <3>1, EmitTypes
  <2>. QED BY <2>1, <2>4, <2>5, WholeStep, AcceptStep DEF TypeOK
<1>7. ASSUME NEW f \in Flow, Datagram(f)
      PROVE  TypeOK' /\ MarkInv'
  BY <1>7 DEF Datagram, TypeOK, MarkInv, ArqOf
<1>8. CASE reset
  <2>1. EmptyGroup \in Group /\ << >> \in Seq(AppMessage)
    BY DEF EmptyGroup, Group
  <2>2. NPackets \in Nat /\ ArqMod \in Nat
    BY SenderAssumption, WidthAssumption DEF StreamAssumption, ArqAssumption
  <2>. QED BY <1>8, <2>1, <2>2 DEF reset, TypeOK, MarkInv
<1>9. CASE UNCHANGED vars
  BY <1>9 DEF TypeOK, MarkInv, ArqOf, vars
<1>. QED BY <1>1, <1>2, <1>3, <1>4, <1>5, <1>6, <1>7, <1>8, <1>9
         DEF Next, process

(* The state of every decoder is well typed, and its mark is the number of *)
(* the newest packet it accepted (EQMacDecoder::process).                  *)
THEOREM TypeCorrect == Spec => []TypeOK
<1>1. Spec => [](TypeOK /\ MarkInv)
  BY InitType, NextType, PTL DEF Spec
<1>. QED BY <1>1, PTL

-----------------------------------------------------------------------------

(* The bytes collected so far are fragments of the message of packet c, in *)
(* order: the k-th is at least fragment k-1, and there is room after it    *)
(* for those collected later.                                              *)
InOrder(b, c) ==
  \A k \in 1 .. Len(b) :
    /\ b[k][1] = Stream[c].msg
    /\ k - 1 <= b[k][2]
    /\ b[k][2] <= Stream[c].curr - (Len(b) - k)

HoldsPartOf(g, c) ==
  /\ g.total = Stream[c].total
  /\ g.op = Stream[c].op
  /\ g.count = Len(g.body)
  /\ InOrder(g.body, c)

(* One message at most uses the group number s.                            *)
SeqIsOwn(s) ==
  \A i, j \in Index : /\ Stream[i].frag /\ Stream[i].seq = s
                      /\ Stream[j].frag /\ Stream[j].seq = s
                      => Stream[i].msg = Stream[j].msg

LEMMA OwnGroup ==
  ASSUME NEW i \in Index, Stream[i].frag, GroupIsOwn(Stream[i].msg)
  PROVE  SeqIsOwn(Stream[i].seq)
BY DEF GroupIsOwn, SeqIsOwn

(* Every open group whose number is not used twice collects the message of *)
(* one packet accepted before.                                             *)
GroupInv ==
  \A f \in Flow, s \in FragSeq :
    groups[f][s].total # 0 /\ SeqIsOwn(s) =>
      \E c \in Index : /\ c <= top[f]
                       /\ Stream[c].frag
                       /\ Stream[c].seq = s
                       /\ HoldsPartOf(groups[f][s], c)

LEMMA ChunkPair ==
  ASSUME NEW b \in Seq(ChunkSet), NEW k \in 1 .. Len(b)
  PROVE  /\ b[k] = <<b[k][1], b[k][2]>>
         /\ b[k][1] \in Nat
         /\ b[k][2] \in Nat
<1>1. PICK i \in Index : b[k] = Chunk(i)
  BY DEF ChunkSet
<1>2. /\ Stream[i].msg \in Nat
      /\ Stream[i].curr \in Nat
      /\ Chunk(i) = <<Stream[i].msg, Stream[i].curr>>
  BY StreamTypes DEF Chunk, Packet
<1> HIDE DEF Chunk
<1>. QED BY ONLY <1>1, <1>2

(* A fragment joins a group that holds what came before it in its message. *)
LEMMA CollectInOrder ==
  ASSUME TypeOK, GroupInv, NEW f \in Flow, NEW i \in Index,
         i > top[f], Stream[i].frag, SeqIsOwn(Stream[i].seq),
         Stream[i].curr < GroupFor(f, Stream[i]).total
  PROVE  HoldsPartOf(Collect(GroupFor(f, Stream[i]), i), i)
<1> DEFINE g == GroupFor(f, Stream[i])
           h == Collect(g, i)
<1>1. /\ g \in Group
      /\ g.body \in Seq(ChunkSet)
      /\ g.total \in Nat
      /\ Stream[i] \in Packet
      /\ Stream[i].curr \in Nat
      /\ Chunk(i) = <<Stream[i].msg, Stream[i].curr>>
  BY GroupTypes, StreamTypes DEF Group, Packet, Chunk
<1>2. /\ h.total = g.total
      /\ h.op = g.op
      /\ h.count = g.count + 1
      /\ h.body = Append(g.body, Chunk(i))
  BY DEF Collect
<1>3. CASE Stream[i].curr = 0
  <2>1. g = NewGroup(Stream[i])
    BY <1>3 DEF GroupFor
  <2>2. /\ h.body = <<Chunk(i)>>
        /\ h.count = 1
        /\ h.total = Stream[i].total
        /\ h.op = Stream[i].op
    BY <1>2, <2>1 DEF NewGroup
  <2> HIDE DEF h, g
  <2>3. InOrder(h.body, i)
    BY <1>1, <1>3, <2>2 DEF InOrder
  <2>. QED BY <2>2, <2>3 DEF HoldsPartOf, h, g
<1>4. CASE Stream[i].curr # 0
  <2>1. g = groups[f][Stream[i].seq] /\ g.total # 0
    BY <1>1, <1>4 DEF GroupFor
  <2>2. PICK c \in Index : /\ c <= top[f]
                           /\ Stream[c].frag
                           /\ Stream[c].seq = Stream[i].seq
                           /\ HoldsPartOf(g, c)
    BY <2>1, StreamTypes DEF GroupInv
  <2>3. /\ Stream[c].msg = Stream[i].msg
        /\ c < i
    BY <2>2 DEF SeqIsOwn, TypeOK, Index
  <2>4. /\ Stream[c].total = Stream[i].total
        /\ Stream[c].op = Stream[i].op
        /\ Stream[c].curr < Stream[i].curr
        /\ Stream[c].curr \in Nat
    BY <2>3, SenderAssumption, StreamTypes DEF StreamAssumption, Packet
  <2> DEFINE n == Len(g.body)
  <2>5. /\ n \in Nat
        /\ Len(h.body) = n + 1
        /\ \A k \in 1 .. n : h.body[k] = g.body[k]
        /\ h.body[n + 1] = Chunk(i)
    BY <1>1, <1>2
  <2>6. /\ n <= Stream[c].curr + 1
        /\ \A k \in 1 .. n : /\ g.body[k][1] = Stream[i].msg
                             /\ g.body[k][2] \in Nat
                             /\ k - 1 <= g.body[k][2]
                             /\ g.body[k][2] <= Stream[c].curr - (n - k)
    <3>1. \A k \in 1 .. n : g.body[k][2] \in Nat
      BY <1>1, ChunkPair
    <3>2. \A k \in 1 .. n : /\ g.body[k][1] = Stream[i].msg
                            /\ k - 1 <= g.body[k][2]
                            /\ g.body[k][2] <= Stream[c].curr - (n - k)
      BY <2>2, <2>3 DEF HoldsPartOf, InOrder
    <3>3. n <= Stream[c].curr + 1
      <4>1. CASE n = 0
        BY <4>1, <2>4
      <4>2. CASE n # 0
        <5>1. n \in 1 .. n
          BY <4>2, <2>5
        <5>2. /\ n - 1 <= g.body[n][2]
              /\ g.body[n][2] <= Stream[c].curr - (n - n)
              /\ g.body[n][2] \in Nat
          BY <3>1, <3>2, <5>1
        <5> HIDE DEF n, g
        <5>. QED BY <5>2, <2>4, <2>5
      <4>. QED BY <4>1, <4>2
    <3>. QED BY <3>1, <3>2, <3>3
  <2> HIDE DEF n, h, g
  <2>7. InOrder(h.body, i)
    <3>0. ASSUME NEW k \in 1 .. n + 1
          PROVE  /\ h.body[k][1] = Stream[i].msg
                 /\ k - 1 <= h.body[k][2]
                 /\ h.body[k][2] <= Stream[i].curr - (n + 1 - k)
      <4>1. CASE k = n + 1
        BY <1>1, <2>4, <2>5, <2>6, <4>1
      <4>2. CASE k # n + 1
        <5>1. k \in 1 .. n
          BY <2>5, <4>2
        <5>2. h.body[k] = g.body[k]
          BY <2>5, <5>1
        <5>3. /\ g.body[k][1] = Stream[i].msg
              /\ g.body[k][2] \in Nat
              /\ k - 1 <= g.body[k][2]
              /\ g.body[k][2] <= Stream[c].curr - (n - k)
          BY <2>6, <5>1
        <5>4. /\ n \in Nat
              /\ Stream[c].curr \in Nat
              /\ Stream[i].curr \in Nat
              /\ Stream[c].curr < Stream[i].curr
          BY <1>1, <2>4, <2>5
        <5>. QED BY ONLY <5>1, <5>2, <5>3, <5>4
      <4>. QED BY <4>1, <4>2
    <3>1. Len(h.body) = n + 1 /\ n \in Nat
      BY <2>5
    <3> DEFINE b == h.body
    <3> HIDE DEF b
    <3>2. \A k \in 1 .. Len(b) : /\ b[k][1] = Stream[i].msg
                                 /\ k - 1 <= b[k][2]
                                 /\ b[k][2] <= Stream[i].curr - (Len(b) - k)
      BY <3>0, <3>1 DEF b
    <3>3. InOrder(b, i)
      BY ONLY <3>2 DEF InOrder
    <3>. QED BY <3>3 DEF b
  <2>8. g.count = n /\ g.total = Stream[i].total /\ g.op = Stream[i].op
    BY <2>2, <2>4 DEF HoldsPartOf, n
  <2>. QED BY <1>2, <2>5, <2>7, <2>8 DEF HoldsPartOf, h, g
<1>. QED BY <1>3, <1>4

(* As many fragments, in order, as the message has are the whole message.  *)
LEMMA FullIsWhole ==
  ASSUME NEW i \in Index, NEW b \in Seq(ChunkSet),
         InOrder(b, i), Len(b) = Stream[i].total
  PROVE  b = Whole(i)
<1>1. /\ Stream[i].total \in Nat
      /\ Stream[i].curr \in Nat
      /\ Stream[i].curr < Stream[i].total
  BY SenderAssumption, StreamTypes DEF StreamAssumption, Packet
<1>2. ASSUME NEW k \in 1 .. Len(b)
      PROVE  b[k] = <<Stream[i].msg, k - 1>>
  <2>1. b[k][2] = k - 1
    BY <1>1, ChunkPair, SMTT(30) DEF InOrder
  <2>. QED BY <2>1, ChunkPair DEF InOrder
<1>3. b = [k \in 1 .. Len(b) |-> b[k]]
  OBVIOUS
<1>. QED BY <1>2, <1>3 DEF Whole

LEMMA MsgOfAppend ==
  ASSUME NEW o, NEW b \in Seq(ChunkSet), NEW i \in Index
  PROVE  /\ MsgOf(Message(o, Append(b, Chunk(i)))) = Stream[i].msg
         /\ MsgOf(Message(o, <<Chunk(i)>>)) = Stream[i].msg
<1>1. Chunk(i) \in ChunkSet /\ Chunk(i)[1] = Stream[i].msg
  BY StreamTypes DEF Chunk
<1> HIDE DEF Chunk
<1>. QED BY <1>1 DEF MsgOf, Message

BodyInv == TypeOK /\ MarkInv /\ GroupInv /\ BodyIntact

(* Emitting a body that is whole if its message shares no group number.    *)
LEMMA EmitWhole ==
  ASSUME TypeOK, BodyIntact, NEW f \in Flow, NEW i \in Index, NEW o, NEW b,
         emitWithDecode(f, o, b),
         GroupIsOwn(MsgOf(Message(o, b))) => o = Stream[i].op /\ b = Whole(i)
  PROVE  BodyIntact'
<1> DEFINE m == Message(o, b)
<1>1. dispatched \in [Flow -> Seq(AppMessage)]
  BY DEF TypeOK
<1>2. \/ dispatched' = dispatched
      \/ dispatched' = [dispatched EXCEPT ![f] = Append(@, m)]
  BY <1>1 DEF emitWithDecode
<1>3. CASE dispatched' = dispatched
  BY <1>3 DEF BodyIntact, GroupIsOwn, MsgOf
<1>4. CASE dispatched' = [dispatched EXCEPT ![f] = Append(@, m)]
  <2>0. GroupIsOwn(MsgOf(m)) => m = Message(Stream[i].op, Whole(i))
    OBVIOUS
  <2> HIDE DEF m
  <2> SUFFICES ASSUME NEW g \in Flow, NEW k \in DOMAIN dispatched'[g],
                      GroupIsOwn(MsgOf(dispatched'[g][k]))
               PROVE  \E j \in Index :
                        dispatched'[g][k] = Message(Stream[j].op, Whole(j))
    BY DEF BodyIntact, Whole, Message, GroupIsOwn, MsgOf
  <2>1. \/ k \in DOMAIN dispatched[g] /\ dispatched'[g][k] = dispatched[g][k]
        \/ dispatched'[g][k] = m
    BY <1>1, <1>4
  <2>. QED BY <2>0, <2>1 DEF BodyIntact
<1>. QED BY <1>2, <1>3, <1>4

(* Storing a group that is empty, or holds part of packet i's message,     *)
(* keeps every open group to one message.                                  *)
LEMMA StoreKeepsGroups ==
  ASSUME TypeOK, MarkInv, GroupInv, NEW f \in Flow, NEW i \in Index,
         AcceptWhole(f, i), Stream[i].frag, NEW g \in Group,
         StoreGroup(f, Stream[i].seq, g),
         g.total # 0 /\ SeqIsOwn(Stream[i].seq) => HoldsPartOf(g, i)
  PROVE  GroupInv'
<1> SUFFICES ASSUME NEW h \in Flow, NEW s \in FragSeq,
                    groups'[h][s].total # 0, SeqIsOwn(s)
             PROVE  \E c \in Index : /\ c <= top'[h]
                                     /\ Stream[c].frag
                                     /\ Stream[c].seq = s
                                     /\ HoldsPartOf(groups'[h][s], c)
  BY DEF GroupInv, HoldsPartOf, InOrder
<1>0. i > top[f] /\ top' = [top EXCEPT ![f] = i]
  BY WholeStep, AcceptStep
<1>1. /\ i > top[f]
      /\ top' = [top EXCEPT ![f] = i]
      /\ top \in [Flow -> 0 .. NPackets]
      /\ \A c \in Index : c \in Nat
  BY <1>0 DEF TypeOK, Index
<1>2. /\ groups \in [Flow -> [FragSeq -> Group]]
      /\ groups' = [groups EXCEPT ![f][Stream[i].seq] = g]
      /\ Stream[i].seq \in FragSeq
  BY StreamTypes DEF TypeOK, StoreGroup
<1>3. CASE h = f /\ s = Stream[i].seq
  <2>1. groups'[h][s] = g /\ i <= top'[h]
    BY <1>1, <1>2, <1>3
  <2>. QED BY <1>3, <2>1
<1>4. CASE ~(h = f /\ s = Stream[i].seq)
  <2>1. groups'[h][s] = groups[h][s]
    BY <1>2, <1>4
  <2>2. PICK c \in Index : /\ c <= top[h]
                           /\ Stream[c].frag
                           /\ Stream[c].seq = s
                           /\ HoldsPartOf(groups[h][s], c)
    BY <2>1 DEF GroupInv
  <2>3. c <= top'[h]
    BY <1>1, <2>2
  <2>. QED BY <2>1, <2>2, <2>3
<1>. QED BY <1>3, <1>4

(* Moving the mark forward alone keeps the groups.                         *)
LEMMA GroupsKept ==
  ASSUME TypeOK, GroupInv, groups' = groups,
         \A f \in Flow : top'[f] \in Nat /\ top[f] <= top'[f]
  PROVE  GroupInv'
<1> SUFFICES ASSUME NEW f \in Flow, NEW s \in FragSeq,
                    groups[f][s].total # 0, SeqIsOwn(s)
             PROVE  \E c \in Index : /\ c <= top'[f]
                                     /\ Stream[c].frag
                                     /\ Stream[c].seq = s
                                     /\ HoldsPartOf(groups[f][s], c)
  BY DEF GroupInv, HoldsPartOf, InOrder
<1>1. PICK c \in Index : /\ c <= top[f]
                         /\ Stream[c].frag
                         /\ Stream[c].seq = s
                         /\ HoldsPartOf(groups[f][s], c)
  BY DEF GroupInv
<1>2. c <= top'[f]
  BY <1>1 DEF TypeOK, Index
<1>. QED BY <1>1, <1>2

LEMMA BodyInit == Init => BodyInv
<1>1. Init => GroupInv /\ BodyIntact
  BY DEF Init, GroupInv, BodyIntact, EmptyGroup
<1>. QED BY <1>1, InitType DEF BodyInv

LEMMA BodyNext == BodyInv /\ [Next]_vars => BodyInv'
<1> SUFFICES ASSUME BodyInv, [Next]_vars PROVE BodyInv'
  OBVIOUS
<1>0. /\ TypeOK
      /\ MarkInv
      /\ GroupInv
      /\ BodyIntact
      /\ TypeOK'
      /\ MarkInv'
  BY NextType DEF BodyInv
<1> SUFFICES GroupInv' /\ BodyIntact'
  BY <1>0 DEF BodyInv
<1>1. ASSUME groups' = groups, dispatched' = dispatched, top' = top
      PROVE  GroupInv' /\ BodyIntact'
  BY <1>0, <1>1 DEF GroupInv, HoldsPartOf, InOrder, BodyIntact, GroupIsOwn, MsgOf
<1>2. ASSUME NEW f \in Flow, NEW i \in Index, AcceptArq(f, i)
      PROVE  /\ i > top[f]
             /\ \A g \in Flow : top'[g] \in Nat /\ top[g] <= top'[g]
  <2>1. i > top[f] /\ top' = [top EXCEPT ![f] = i]
    BY <1>0, <1>2, AcceptStep
  <2>. QED BY <1>0, <2>1 DEF TypeOK, Index
<1>3. ASSUME NEW f \in Flow, NEW i \in Index, HeaderOnly(f, i)
      PROVE  GroupInv' /\ BodyIntact'
  BY <1>0, <1>2, <1>3, GroupsKept DEF HeaderOnly, BodyIntact
<1>4. ASSUME NEW f \in Flow, NEW i \in Index, SinglePacket(f, i)
      PROVE  GroupInv' /\ BodyIntact'
  <2>1. /\ AcceptArq(f, i)
        /\ groups' = groups
        /\ emitWithDecode(f, Stream[i].op, <<Chunk(i)>>)
        /\ ~Stream[i].frag
    BY <1>4 DEF SinglePacket, AcceptWhole
  <2>2. /\ Stream[i].total = 1
        /\ Stream[i].curr = 0
    BY <2>1, SenderAssumption, StreamTypes DEF StreamAssumption, Packet
  <2>3. <<Chunk(i)>> = Whole(i)
    BY <2>2 DEF Chunk, Whole
  <2>. QED BY <1>0, <1>2, <2>1, <2>3, GroupsKept, EmitWhole
<1>5. ASSUME NEW f \in Flow, NEW i \in Index, DropGroup(f, i)
      PROVE  GroupInv' /\ BodyIntact'
  <2>1. EmptyGroup \in Group /\ EmptyGroup.total = 0
    BY <1>0, GroupTypes DEF EmptyGroup
  <2>. QED BY <1>0, <1>5, <2>1, StoreKeepsGroups DEF DropGroup, BodyIntact
<1>6. ASSUME NEW f \in Flow, NEW i \in Index, DropFragment(f, i)
      PROVE  GroupInv' /\ BodyIntact'
  <2> DEFINE g == GroupFor(f, Stream[i])
  <2>1. /\ AcceptWhole(f, i)
        /\ AcceptArq(f, i)
        /\ Stream[i].frag
        /\ Stream[i].curr \in g.got
        /\ groups' = [groups EXCEPT ![f][Stream[i].seq] = g]
        /\ dispatched' = dispatched
    BY <1>6 DEF DropFragment, StoreGroup, AcceptWhole
  <2>2. g = groups[f][Stream[i].seq]
    BY <2>1 DEF GroupFor, NewGroup
  <2>3. groups' = groups
    BY <1>0, <2>1, <2>2, StreamTypes DEF TypeOK
  <2>. QED BY <1>0, <1>2, <2>1, <2>3, GroupsKept DEF BodyIntact
<1>7. ASSUME NEW f \in Flow, NEW i \in Index, AddFragment(f, i)
      PROVE  GroupInv' /\ BodyIntact'
  <2> DEFINE h == Collect(GroupFor(f, Stream[i]), i)
  <2>1. /\ AcceptWhole(f, i)
        /\ AcceptArq(f, i)
        /\ Stream[i].frag
        /\ Stream[i].curr < GroupFor(f, Stream[i]).total
        /\ \/ /\ StoreGroup(f, Stream[i].seq, h)
              /\ dispatched' = dispatched
           \/ /\ h.count = h.total
              /\ StoreGroup(f, Stream[i].seq, EmptyGroup)
              /\ emitWithDecode(f, h.op, h.body)
    BY <1>7 DEF AddFragment, AcceptWhole
  <2>2. /\ h \in Group
        /\ EmptyGroup \in Group
        /\ EmptyGroup.total = 0
    BY <1>0, GroupTypes DEF EmptyGroup
  <2>3. SeqIsOwn(Stream[i].seq) => HoldsPartOf(h, i)
    BY <1>0, <1>2, <2>1, CollectInOrder
  <2>0. MsgOf(Message(h.op, h.body)) = Stream[i].msg
    BY <1>0, GroupTypes, MsgOfAppend DEF Group, Collect
  <2> HIDE DEF h
  <2>4. GroupInv'
    BY <1>0, <2>1, <2>2, <2>3, StoreKeepsGroups
  <2>5. CASE dispatched' = dispatched
    BY <1>0, <2>4, <2>5 DEF BodyIntact
  <2>6. CASE h.count = h.total /\ emitWithDecode(f, h.op, h.body)
    <3>1. h.body \in Seq(ChunkSet)
      BY <2>2 DEF Group
    <3>2. GroupIsOwn(MsgOf(Message(h.op, h.body))) => h.op = Stream[i].op /\ h.body = Whole(i)
      BY <2>0, <2>1, <2>3, <2>6, <3>1, OwnGroup, FullIsWhole DEF HoldsPartOf
    <3>. QED BY <1>0, <2>4, <2>6, <3>2, EmitWhole
  <2>. QED BY <2>1, <2>5, <2>6
<1>8. CASE reset
  BY <1>8 DEF reset, GroupInv, BodyIntact, EmptyGroup
<1>. QED BY <1>1, <1>3, <1>4, <1>5, <1>6, <1>7, <1>8
         DEF Next, process, DropRetransmit, Datagram, vars

(* Every body handed to the payload dispatcher is the body of one sent     *)
(* message under its own opcode (EQMacDecoder::process appends fragments   *)
(* in arrival order), whatever was lost, repeated or overtaken, unless     *)
(* another message of the session used the same assembly group number.     *)
THEOREM BodiesAreIntact == Spec => []BodyIntact
<1>1. BodyInv /\ [Next]_vars => BodyInv'
  BY BodyNext
<1>2. BodyInv => BodyIntact
  BY DEF BodyInv
<1>. QED BY <1>1, <1>2, BodyInit, PTL DEF Spec

-----------------------------------------------------------------------------

(* Every message dispatched was completed by a packet accepted before, and *)
(* none of its packets can complete it again: what is left of it finds no  *)
(* open group.                                                             *)
DoneInv ==
  \A f \in Flow : \A k \in DOMAIN dispatched[f] :
    /\ \E c \in Index : /\ c <= top[f]
                        /\ Stream[c].msg = MsgOf(dispatched[f][k])
    /\ \A i \in Index :
         (i > top[f] /\ Stream[i].msg = MsgOf(dispatched[f][k]))
           => groups[f][Stream[i].seq].total = 0

OrderInv == TypeOK /\ MarkInv /\ DoneInv

(* A packet of the message of an earlier one is a later fragment of it.    *)
LEMMA LaterFragment ==
  ASSUME NEW c \in Index, NEW i \in Index, c < i,
         Stream[c].msg = Stream[i].msg
  PROVE  /\ Stream[i].frag
         /\ Stream[i].curr # 0
BY SenderAssumption, StreamTypes DEF StreamAssumption, Packet

(* Packet i completes a message that no earlier dispatch reached.          *)
LEMMA CompletesNewer ==
  ASSUME TypeOK, DoneInv, NEW f \in Flow, NEW i \in Index, i > top[f],
         ~Stream[i].frag \/ Stream[i].curr < GroupFor(f, Stream[i]).total,
         NEW k \in DOMAIN dispatched[f]
  PROVE  MsgOf(dispatched[f][k]) < Stream[i].msg
<1>1. PICK c \in Index : /\ c <= top[f]
                         /\ Stream[c].msg = MsgOf(dispatched[f][k])
  BY DEF DoneInv
<1>2. c < i
  BY <1>1 DEF TypeOK, Index
<1>3. /\ Stream[c].msg \in Nat
      /\ Stream[i].msg \in Nat
      /\ Stream[i].curr \in Nat
      /\ Stream[c].msg < Stream[i].msg \/ Stream[c].msg = Stream[i].msg
  BY <1>2, SenderAssumption, StreamTypes DEF StreamAssumption, Packet
<1>4. ASSUME Stream[c].msg = Stream[i].msg PROVE FALSE
  <2>1. Stream[i].frag /\ Stream[i].curr # 0
    BY <1>2, <1>4, LaterFragment
  <2>2. GroupFor(f, Stream[i]).total = 0
    BY <1>1, <1>4, <2>1 DEF DoneInv, GroupFor
  <2>. QED BY <1>3, <2>1, <2>2
<1>. QED BY <1>1, <1>3, <1>4

(* What emitting a body that packet i completed does to the log.           *)
LEMMA EmitDelivers ==
  ASSUME TypeOK, MarkInv, DoneInv, NEW f \in Flow, NEW i \in Index, i > top[f],
         ~Stream[i].frag \/ Stream[i].curr < GroupFor(f, Stream[i]).total,
         NEW o, NEW b, MsgOf(Message(o, b)) = Stream[i].msg,
         emitWithDecode(f, o, b)
  PROVE  [Channel!Next]_Delivered
<1> DEFINE m == Message(o, b)
<1>1. dispatched \in [Flow -> Seq(AppMessage)]
  BY DEF TypeOK
<1>2. \/ dispatched' = dispatched
      \/ dispatched' = [dispatched EXCEPT ![f] = Append(@, m)]
  BY <1>1 DEF emitWithDecode
<1>3. CASE dispatched' = dispatched
  BY <1>3 DEF Delivered, MsgOf
<1>4. CASE dispatched' = [dispatched EXCEPT ![f] = Append(@, m)]
  <2>1. Stream[i].msg \in Msg
    BY DEF Msg
  <2>2. \A k \in DOMAIN Delivered[f] : Delivered[f][k] < Stream[i].msg
    BY CompletesNewer DEF Delivered
  <2>3. MsgOf(m) = Stream[i].msg
    OBVIOUS
  <2> HIDE DEF m
  <2>4. Delivered' = [Delivered EXCEPT ![f] = Append(@, Stream[i].msg)]
    <3>1. ASSUME NEW g \in Flow, g # f
          PROVE  Delivered'[g] = Delivered[g]
      BY <1>1, <1>4, <3>1 DEF Delivered, MsgOf
    <3>2. Delivered'[f] = Append(Delivered[f], Stream[i].msg)
      <4> DEFINE s == dispatched[f]
      <4>1. /\ s \in Seq(AppMessage)
            /\ dispatched'[f] = Append(s, m)
            /\ Len(Append(s, m)) = Len(s) + 1
            /\ \A k \in 1 .. Len(s) : Append(s, m)[k] = s[k]
            /\ Append(s, m)[Len(s) + 1] = m
            /\ Len(s) \in Nat
        BY <1>1, <1>4
      <4>2. Delivered[f] = [k \in 1 .. Len(s) |-> MsgOf(s[k])]
        BY <4>1 DEF Delivered
      <4>3. Delivered'[f] = [k \in 1 .. Len(s) + 1 |-> MsgOf(Append(s, m)[k])]
        BY <4>1, SMTT(30) DEF Delivered, MsgOf
      <4>4. Len([k \in 1 .. Len(s) |-> MsgOf(s[k])]) = Len(s)
        BY <4>1
      <4> HIDE DEF s
      <4>. QED BY <2>3, <4>1, <4>2, <4>3, <4>4
    <3>. QED BY <3>1, <3>2 DEF Delivered
  <2>. QED BY <2>1, <2>2, <2>4 DEF Channel!Next, Channel!Deliver
<1>. QED BY <1>2, <1>3, <1>4

(* What the handling of packet i may do to the groups and to the log.      *)
TouchesGroup(f, i) ==
  \/ groups' = groups
  \/ \E g \in Group :
       /\ Stream[i].frag
       /\ StoreGroup(f, Stream[i].seq, g)
       /\ g.total = 0 \/ Stream[i].curr < GroupFor(f, Stream[i]).total

Completes(f, i) ==
  \/ dispatched' = dispatched
  \/ \E m \in AppMessage :
       /\ dispatched' = [dispatched EXCEPT ![f] = Append(@, m)]
       /\ MsgOf(m) = Stream[i].msg
       /\ ~Stream[i].frag \/ groups'[f][Stream[i].seq].total = 0

LEMMA DoneStep ==
  ASSUME TypeOK, TypeOK', DoneInv, NEW f \in Flow, NEW i \in Index, i > top[f],
         top' = [top EXCEPT ![f] = i], TouchesGroup(f, i), Completes(f, i)
  PROVE  DoneInv'
<1> SUFFICES ASSUME NEW g \in Flow, NEW k \in DOMAIN dispatched'[g]
             PROVE  /\ \E c \in Index :
                         /\ c <= top'[g]
                         /\ Stream[c].msg = MsgOf(dispatched'[g][k])
                    /\ \A j \in Index :
                         (j > top'[g] /\ Stream[j].msg = MsgOf(dispatched'[g][k]))
                           => groups'[g][Stream[j].seq].total = 0
  BY DEF DoneInv, MsgOf
<1>1. /\ top \in [Flow -> 0 .. NPackets]
      /\ top' = [top EXCEPT ![f] = i]
      /\ groups \in [Flow -> [FragSeq -> Group]]
      /\ dispatched \in [Flow -> Seq(AppMessage)]
      /\ \A j \in Index : j \in Nat /\ Stream[j].seq \in FragSeq
  BY StreamTypes, SMTT(30) DEF TypeOK, Index
<1>2. \/ k \in DOMAIN dispatched[g] /\ dispatched'[g][k] = dispatched[g][k]
      \/ /\ g = f
         /\ MsgOf(dispatched'[g][k]) = Stream[i].msg
         /\ ~Stream[i].frag \/ groups'[f][Stream[i].seq].total = 0
  <2>1. CASE dispatched' = dispatched
    BY <2>1
  <2>2. ASSUME NEW m \in AppMessage,
               dispatched' = [dispatched EXCEPT ![f] = Append(@, m)],
               MsgOf(m) = Stream[i].msg,
               ~Stream[i].frag \/ groups'[f][Stream[i].seq].total = 0
        PROVE  \/ k \in DOMAIN dispatched[g] /\ dispatched'[g][k] = dispatched[g][k]
               \/ /\ g = f
                  /\ MsgOf(dispatched'[g][k]) = Stream[i].msg
                  /\ ~Stream[i].frag \/ groups'[f][Stream[i].seq].total = 0
    <3>1. \/ k \in DOMAIN dispatched[g] /\ dispatched'[g][k] = dispatched[g][k]
          \/ g = f /\ dispatched'[g][k] = m
      BY <1>1, <2>2
    <3>. QED BY <2>2, <3>1
  <2>. QED BY <2>1, <2>2 DEF Completes
<1>3. CASE k \in DOMAIN dispatched[g] /\ dispatched'[g][k] = dispatched[g][k]
  <2> DEFINE e == MsgOf(dispatched[g][k])
  <2>1. PICK c \in Index : c <= top[g] /\ Stream[c].msg = e
    BY <1>3 DEF DoneInv
  <2>2. c <= top'[g]
    BY <1>1, <2>1
  <2>3. ASSUME NEW j \in Index, j > top'[g], Stream[j].msg = e
        PROVE  groups'[g][Stream[j].seq].total = 0
    <3>1. j > top[g]
      BY <1>1, <2>3
    <3>2. groups[g][Stream[j].seq].total = 0
      BY <1>3, <2>3, <3>1 DEF DoneInv
    <3>3. CASE groups' = groups
      BY <3>2, <3>3
    <3>4. ASSUME NEW h \in Group, Stream[i].frag,
                 StoreGroup(f, Stream[i].seq, h),
                 h.total = 0 \/ Stream[i].curr < GroupFor(f, Stream[i]).total
          PROVE  groups'[g][Stream[j].seq].total = 0
      <4>1. CASE ~(g = f /\ Stream[j].seq = Stream[i].seq)
        BY <1>1, <3>2, <3>4, <4>1 DEF StoreGroup
      <4>2. CASE h.total = 0
        BY <1>1, <3>2, <3>4, <4>2 DEF StoreGroup
      <4>3. CASE g = f /\ Stream[i].curr < GroupFor(f, Stream[i]).total
        <5>1. e < Stream[i].msg
          BY <1>3, <4>3, CompletesNewer
        <5>2. i < j
          BY <1>1, <2>3, <4>3
        <5>3. /\ Stream[i].msg <= Stream[j].msg
              /\ Stream[i].msg \in Nat
              /\ Stream[j].msg \in Nat
          BY <5>2, SenderAssumption, StreamTypes DEF StreamAssumption, Packet
        <5>. QED BY <2>3, <5>1, <5>3
      <4>. QED BY <3>4, <4>1, <4>2, <4>3
    <3>. QED BY <3>3, <3>4 DEF TouchesGroup
  <2>. QED BY <1>3, <2>1, <2>2, <2>3
<1>4. CASE /\ g = f
           /\ MsgOf(dispatched'[g][k]) = Stream[i].msg
           /\ ~Stream[i].frag \/ groups'[f][Stream[i].seq].total = 0
  <2>1. i <= top'[g]
    BY <1>1, <1>4
  <2>2. ASSUME NEW j \in Index, j > top'[g], Stream[j].msg = Stream[i].msg
        PROVE  groups'[g][Stream[j].seq].total = 0
    <3>1. i < j
      BY <1>1, <1>4, <2>2
    <3>2. /\ Stream[j].seq = Stream[i].seq
          /\ Stream[j].frag = Stream[i].frag
          /\ Stream[j].frag
      BY <2>2, <3>1, LaterFragment, SenderAssumption DEF StreamAssumption
    <3>. QED BY <1>4, <3>2
  <2>. QED BY <1>4, <2>1, <2>2
<1>. QED BY <1>2, <1>3, <1>4

(* Emitting a message that packet i completed counts as completing it.     *)
LEMMA EmitCompletes ==
  ASSUME TypeOK, NEW f \in Flow, NEW i \in Index,
         NEW o \in Nat, NEW b \in Seq(ChunkSet),
         MsgOf(Message(o, b)) = Stream[i].msg, emitWithDecode(f, o, b),
         ~Stream[i].frag \/ groups'[f][Stream[i].seq].total = 0
  PROVE  Completes(f, i)
<1>1. Message(o, b) \in AppMessage
  BY DEF Message, AppMessage
<1>2. \/ dispatched' = dispatched
      \/ dispatched' = [dispatched EXCEPT ![f] = Append(@, Message(o, b))]
  BY DEF emitWithDecode, TypeOK
<1>. QED BY <1>1, <1>2 DEF Completes

LEMMA OrderInit == Init => OrderInv /\ Channel!Init
<1>1. Init => DoneInv /\ Channel!Init
  BY DEF Init, DoneInv, Channel!Init, Delivered
<1>. QED BY <1>1, InitType DEF OrderInv

LEMMA OrderNext ==
  OrderInv /\ [Next]_vars => OrderInv' /\ [Channel!Next]_Delivered
<1> SUFFICES ASSUME OrderInv, [Next]_vars
             PROVE  OrderInv' /\ [Channel!Next]_Delivered
  OBVIOUS
<1>0. /\ TypeOK
      /\ MarkInv
      /\ DoneInv
      /\ TypeOK'
      /\ MarkInv'
  BY NextType DEF OrderInv
<1> SUFFICES DoneInv' /\ [Channel!Next]_Delivered
  BY <1>0 DEF OrderInv
<1>1. ASSUME groups' = groups, dispatched' = dispatched, top' = top
      PROVE  DoneInv' /\ [Channel!Next]_Delivered
  BY <1>0, <1>1 DEF DoneInv, Delivered, MsgOf
<1>2. ASSUME NEW f \in Flow, NEW i \in Index, AcceptArq(f, i),
             TouchesGroup(f, i), Completes(f, i)
      PROVE  DoneInv'
  BY <1>0, <1>2, AcceptStep, DoneStep
<1>3. ASSUME dispatched' = dispatched PROVE [Channel!Next]_Delivered
  BY <1>3 DEF Delivered, MsgOf
<1>4. ASSUME NEW f \in Flow, NEW i \in Index, HeaderOnly(f, i)
      PROVE  DoneInv' /\ [Channel!Next]_Delivered
  BY <1>2, <1>3, <1>4 DEF HeaderOnly, TouchesGroup, Completes
<1>5. ASSUME NEW f \in Flow, NEW i \in Index, SinglePacket(f, i)
      PROVE  DoneInv' /\ [Channel!Next]_Delivered
  <2>1. /\ AcceptArq(f, i)
        /\ groups' = groups
        /\ emitWithDecode(f, Stream[i].op, <<Chunk(i)>>)
        /\ ~Stream[i].frag
    BY <1>5 DEF SinglePacket, AcceptWhole
  <2>2. /\ <<Chunk(i)>> \in Seq(ChunkSet)
        /\ Stream[i].op \in Nat
        /\ MsgOf(Message(Stream[i].op, <<Chunk(i)>>)) = Stream[i].msg
    <3>1. Chunk(i) \in ChunkSet /\ Stream[i].op \in Nat
      BY StreamTypes DEF Packet
    <3>2. << >> \in Seq(ChunkSet) /\ <<Chunk(i)>> \in Seq(ChunkSet)
      BY <3>1
    <3>3. MsgOf(Message(Stream[i].op, <<Chunk(i)>>)) = Stream[i].msg
      BY <3>2, MsgOfAppend
    <3>. QED BY <3>1, <3>2, <3>3
  <2>3. i > top[f]
    BY <1>0, <2>1, AcceptStep
  <2>4. Completes(f, i)
    BY <1>0, <2>1, <2>2, EmitCompletes
  <2>5. [Channel!Next]_Delivered
    BY <1>0, <2>1, <2>2, <2>3, EmitDelivers
  <2>. QED BY <1>2, <2>1, <2>4, <2>5 DEF TouchesGroup
<1>6. ASSUME NEW f \in Flow, NEW i \in Index, DropGroup(f, i)
      PROVE  DoneInv' /\ [Channel!Next]_Delivered
  <2>1. EmptyGroup \in Group /\ EmptyGroup.total = 0
    BY <1>0, GroupTypes DEF EmptyGroup
  <2>2. TouchesGroup(f, i)
    BY <1>6, <2>1 DEF DropGroup, TouchesGroup
  <2>. QED BY <1>2, <1>3, <1>6, <2>2 DEF DropGroup, AcceptWhole, Completes
<1>7. ASSUME NEW f \in Flow, NEW i \in Index, DropFragment(f, i)
      PROVE  DoneInv' /\ [Channel!Next]_Delivered
  <2>1. GroupFor(f, Stream[i]) \in Group
    BY <1>0, GroupTypes
  <2>2. TouchesGroup(f, i)
    BY <1>7, <2>1 DEF DropFragment, TouchesGroup
  <2>. QED BY <1>2, <1>3, <1>7, <2>2 DEF DropFragment, AcceptWhole, Completes
<1>8. ASSUME NEW f \in Flow, NEW i \in Index, AddFragment(f, i)
      PROVE  DoneInv' /\ [Channel!Next]_Delivered
  <2> DEFINE h == Collect(GroupFor(f, Stream[i]), i)
  <2>1. /\ AcceptArq(f, i)
        /\ Stream[i].frag
        /\ Stream[i].curr < GroupFor(f, Stream[i]).total
        /\ \/ /\ StoreGroup(f, Stream[i].seq, h)
              /\ dispatched' = dispatched
           \/ /\ StoreGroup(f, Stream[i].seq, EmptyGroup)
              /\ emitWithDecode(f, h.op, h.body)
    BY <1>8 DEF AddFragment, AcceptWhole
  <2>2. /\ h \in Group
        /\ EmptyGroup \in Group
        /\ EmptyGroup.total = 0
    BY <1>0, GroupTypes DEF EmptyGroup
  <2>3. /\ h.op \in Nat
        /\ h.body \in Seq(ChunkSet)
    BY <2>2 DEF Group
  <2>4. MsgOf(Message(h.op, h.body)) = Stream[i].msg
    <3>1. GroupFor(f, Stream[i]).body \in Seq(ChunkSet)
      BY <1>0, GroupTypes DEF Group
    <3>2. h.body = Append(GroupFor(f, Stream[i]).body, Chunk(i))
      BY DEF Collect
    <3>. QED BY <3>1, <3>2, MsgOfAppend
  <2> HIDE DEF h
  <2>5. i > top[f]
    BY <1>0, <2>1, AcceptStep
  <2>6. CASE StoreGroup(f, Stream[i].seq, h) /\ dispatched' = dispatched
    <3>1. TouchesGroup(f, i)
      BY <2>1, <2>2, <2>6 DEF TouchesGroup
    <3>. QED BY <1>2, <1>3, <2>1, <2>6, <3>1 DEF Completes
  <2>7. CASE /\ StoreGroup(f, Stream[i].seq, EmptyGroup)
             /\ emitWithDecode(f, h.op, h.body)
    <3>1. TouchesGroup(f, i)
      BY <2>1, <2>2, <2>7 DEF TouchesGroup
    <3>2. groups'[f][Stream[i].seq].total = 0
      BY <1>0, <2>2, <2>7, StreamTypes DEF StoreGroup, TypeOK
    <3>3. Completes(f, i)
      BY <1>0, <2>3, <2>4, <2>7, <3>2, EmitCompletes
    <3>4. [Channel!Next]_Delivered
      BY <1>0, <2>1, <2>4, <2>5, <2>7, EmitDelivers
    <3>. QED BY <1>2, <2>1, <3>1, <3>3, <3>4
  <2>. QED BY <2>1, <2>6, <2>7
<1>9. CASE reset
  <2>1. DoneInv'
    BY <1>9 DEF reset, DoneInv
  <2>2. Channel!Reset
    BY <1>9 DEF reset, Channel!Reset, Delivered
  <2>. QED BY <2>1, <2>2 DEF Channel!Next
<1>. QED BY <1>1, <1>4, <1>5, <1>6, <1>7, <1>8, <1>9
         DEF Next, process, DropRetransmit, Datagram, vars

(* The decoder table implements the abstract channel: on every flow each   *)
(* sent message reaches the dispatcher at most once and in sending order,  *)
(* whatever the network loses, repeats or reorders inside the window, and  *)
(* across the wrap-around of the ARQ number (the signed difference in      *)
(* EQMacDecoder::process).                                                 *)
THEOREM DecoderImplementsChannel == Spec => AtMostOnceInOrder
<1>. QED BY OrderInit, OrderNext, PTL
         DEF Spec, AtMostOnceInOrder, Channel!Spec

-----------------------------------------------------------------------------

(* What a group holds of packet i's message after its first n fragments.   *)
Part(i, n) ==
  [op |-> Stream[i].op, total |-> Stream[i].total, got |-> 0 .. n - 1, count |-> n,
   body |-> [k \in 1 .. n |-> <<Stream[i].msg, k - 1>>]]

(* A packet seen is not newer than the mark, and while every fragment so   *)
(* far of the newest packet's message got through, its group holds them.   *)
SeenInv == \A f \in Flow : \A j \in whole[f] : j <= top[f]

PartInv ==
  \A f \in Flow, i \in Index :
    /\ top[f] = i /\ Stream[i].frag
    /\ Captured(f, i, Stream[i].curr)
    /\ Stream[i].curr + 1 < Stream[i].total
    => groups[f][Stream[i].seq] = Part(i, Stream[i].curr + 1)

CompleteInv == SeenInv /\ PartInv /\ CompleteIfCaptured

LEMMA SentInOrder ==
  ASSUME NEW i \in Index, NEW j \in Index
  PROVE  /\ Stream[i].msg \in Nat /\ Stream[i].curr \in Nat /\ Stream[i].total \in Nat
         /\ Stream[i].curr < Stream[i].total /\ i \in Nat
         /\ i < j => \/ Stream[i].msg < Stream[j].msg
                     \/ Stream[i].msg = Stream[j].msg /\ Stream[i].curr < Stream[j].curr
         /\ Stream[i].msg = Stream[j].msg => /\ Stream[i].op = Stream[j].op
                                             /\ Stream[i].frag = Stream[j].frag
                                             /\ Stream[i].seq = Stream[j].seq
                                             /\ Stream[i].total = Stream[j].total
<1>1. Stream[i] \in Packet /\ i \in Nat
  BY StreamTypes DEF Index
<1>. QED BY <1>1, SenderAssumption DEF StreamAssumption, Packet

(* No packet is sent between two fragments that follow each other.         *)
LEMMA BeforeIsTop ==
  ASSUME TypeOK, SeenInv, NEW f \in Flow, NEW i \in Index, i > top[f],
         NEW j \in whole[f],
         Stream[j].msg = Stream[i].msg, Stream[j].curr = Stream[i].curr - 1
  PROVE  j = top[f]
<1>1. j \in Index /\ j <= top[f] /\ top[f] \in 0 .. NPackets
  BY DEF TypeOK, SeenInv
<1>2. j \in Nat /\ j >= 1 /\ NPackets \in Nat
  BY <1>1, SenderAssumption DEF Index, StreamAssumption
<1>3. top[f] \in Index
  BY <1>1, <1>2 DEF Index
<1>4. ASSUME j < top[f] PROVE FALSE
  <2> DEFINE t == top[f]
  <2>1. t \in Index /\ j < t /\ t < i /\ t \in Nat /\ i \in Nat
    BY <1>1, <1>2, <1>3, <1>4 DEF Index
  <2>2. /\ \/ Stream[j].msg < Stream[t].msg
           \/ Stream[j].msg = Stream[t].msg /\ Stream[j].curr < Stream[t].curr
        /\ \/ Stream[t].msg < Stream[i].msg
           \/ Stream[t].msg = Stream[i].msg /\ Stream[t].curr < Stream[i].curr
        /\ Stream[j].msg \in Nat /\ Stream[t].msg \in Nat /\ Stream[i].msg \in Nat
        /\ Stream[j].curr \in Nat /\ Stream[t].curr \in Nat /\ Stream[i].curr \in Nat
    BY <1>1, <2>1, SentInOrder
  <2>. HIDE DEF t
  <2>. QED BY <2>2
<1>. QED BY <1>1, <1>2, <1>4

(* The next fragment finds what came before it of its message.             *)
LEMMA FoundGroup ==
  ASSUME TypeOK, SeenInv, PartInv, NEW f \in Flow, NEW i \in Index, i > top[f],
         Stream[i].frag, Captured(f, i, Stream[i].curr - 1)
  PROVE  GroupFor(f, Stream[i]) = Part(i, Stream[i].curr)
<1>1. /\ Stream[i].curr \in Nat /\ Stream[i].total \in Nat
      /\ Stream[i].curr < Stream[i].total
  BY SentInOrder
<1>2. CASE Stream[i].curr = 0
  <2>1. 0 .. 0 - 1 = {} /\ 1 .. 0 = {}
    OBVIOUS
  <2>2. [k \in 1 .. 0 |-> <<Stream[i].msg, k - 1>>] = <<>>
    BY <2>1
  <2>. QED BY <1>2, <2>1, <2>2 DEF GroupFor, NewGroup, Part
<1>3. CASE Stream[i].curr # 0
  <2>1. PICK j \in whole[f] : /\ Stream[j].msg = Stream[i].msg
                              /\ Stream[j].curr = Stream[i].curr - 1
    BY <1>1, <1>3 DEF Captured
  <2>2. j = top[f] /\ j \in Index
    BY <2>1, BeforeIsTop DEF TypeOK
  <2>3. /\ Stream[j].op = Stream[i].op /\ Stream[j].frag = Stream[i].frag
        /\ Stream[j].seq = Stream[i].seq /\ Stream[j].total = Stream[i].total
    BY <2>1, <2>2, SentInOrder
  <2>4. Captured(f, j, Stream[j].curr) /\ Stream[j].curr + 1 < Stream[j].total
        /\ Stream[j].curr + 1 = Stream[i].curr
    BY <1>1, <2>1, <2>3 DEF Captured
  <2>5. groups[f][Stream[j].seq] = Part(j, Stream[i].curr)
    BY <2>2, <2>3, <2>4 DEF PartInv
  <2>6. Part(j, Stream[i].curr) = Part(i, Stream[i].curr)
    BY <2>1, <2>3 DEF Part
  <2>. QED BY <1>3, <2>3, <2>5, <2>6 DEF GroupFor
<1>. QED BY <1>2, <1>3

LEMMA CollectPart ==
  ASSUME NEW i \in Index
  PROVE  /\ Collect(Part(i, Stream[i].curr), i) = Part(i, Stream[i].curr + 1)
         /\ Part(i, Stream[i].total).body = Whole(i)
<1> DEFINE n == Stream[i].curr
           b == [k \in 1 .. n |-> <<Stream[i].msg, k - 1>>]
<1>1. n \in Nat /\ Stream[i].msg \in Nat
  BY SentInOrder
<1>2. b \in Seq(Nat \X Int) /\ Len(b) = n
  <2>1. b \in [1 .. n -> Nat \X Int]
    BY <1>1
  <2>. HIDE DEF n
  <2>. QED BY <1>1, <2>1
<1>3. Append(b, Chunk(i)) = [k \in 1 .. n + 1 |-> <<Stream[i].msg, k - 1>>]
  <2>1. Append(b, Chunk(i)) = [k \in 1 .. n + 1 |-> IF k = n + 1 THEN Chunk(i) ELSE b[k]]
    <3> DEFINE a == Append(b, Chunk(i))
    <3>1. Chunk(i) \in Nat \X Int
      BY <1>1 DEF Chunk
    <3>. HIDE DEF b
    <3>2. /\ a \in Seq(Nat \X Int) /\ DOMAIN a = 1 .. n + 1
          /\ \A k \in 1 .. n : a[k] = b[k]
          /\ a[n + 1] = Chunk(i)
      BY <1>1, <1>2, <3>1
    <3>3. a = [k \in DOMAIN a |-> a[k]]
      <4>. HIDE DEF a
      <4>. QED BY <3>2
    <3>4. \A k \in 1 .. n + 1 : k = n + 1 \/ k \in 1 .. n
      BY <1>1
    <3>. HIDE DEF a, n
    <3>5. a = [k \in 1 .. n + 1 |-> IF k = n + 1 THEN Chunk(i) ELSE b[k]]
      BY <3>2, <3>3, <3>4
    <3>. QED BY <3>5 DEF a
  <2>2. \A k \in 1 .. n + 1 : (IF k = n + 1 THEN Chunk(i) ELSE b[k]) = <<Stream[i].msg, k - 1>>
    <3> SUFFICES ASSUME NEW k \in 1 .. n + 1
                 PROVE  (IF k = n + 1 THEN Chunk(i) ELSE b[k]) = <<Stream[i].msg, k - 1>>
      OBVIOUS
    <3>1. CASE k = n + 1
      <4>1. k - 1 = n
        BY <1>1, <3>1
      <4>. QED BY <3>1, <4>1 DEF Chunk
    <3>2. CASE k # n + 1
      <4>1. k \in 1 .. n
        BY <1>1, <3>2
      <4>. QED BY <3>2, <4>1
    <3>. QED BY <3>1, <3>2
  <2>. HIDE DEF b, n
  <2>. QED BY <2>1, <2>2
<1>4. (0 .. n - 1) \cup {n} = 0 .. (n + 1) - 1
  BY <1>1
<1>. HIDE DEF n
<1>5. Collect(Part(i, n), i) = Part(i, n + 1)
  BY <1>3, <1>4 DEF Collect, Part, n
<1>. QED BY <1>5 DEF Part, Whole, n

(* What packet i adds to the fragments captured.                           *)
LEMMA CapturedNow ==
  ASSUME TypeOK, SeenInv, NEW f \in Flow, NEW i \in Index, i > top[f],
         whole' = [whole EXCEPT ![f] = whole[f] \cup {i}],
         NEW j \in Index, NEW n \in Nat, Captured(f, j, n)'
  PROVE  /\ Stream[j].msg # Stream[i].msg => Captured(f, j, n)
         /\ Stream[j].msg = Stream[i].msg /\ n >= Stream[i].curr =>
              n = Stream[i].curr /\ Captured(f, i, Stream[i].curr - 1)
<1>1. \A k \in 0 .. n : \E l \in whole[f] \cup {i} :
        Stream[l].msg = Stream[j].msg /\ Stream[l].curr = k
  BY DEF Captured, TypeOK
<1>2. CASE Stream[j].msg # Stream[i].msg
  BY <1>1, <1>2 DEF Captured
<1>3. CASE Stream[j].msg = Stream[i].msg /\ n >= Stream[i].curr
  <2>0. Stream[i].curr \in Nat /\ i \in Nat
    BY SentInOrder
  <2>1. Captured(f, i, Stream[i].curr - 1)
    <3> SUFFICES ASSUME NEW k \in 0 .. Stream[i].curr - 1
                 PROVE  \E l \in whole[f] : Stream[l].msg = Stream[i].msg /\ Stream[l].curr = k
      BY DEF Captured
    <3>1. k \in 0 .. n /\ k # Stream[i].curr
      BY <1>3, <2>0
    <3>. QED BY <1>1, <1>3, <3>1
  <2>2. ASSUME n > Stream[i].curr PROVE FALSE
    <3>1. PICK l \in whole[f] \cup {i} : Stream[l].msg = Stream[j].msg /\ Stream[l].curr = n
      BY <1>1
    <3>2. l \in Index /\ l \in whole[f]
      BY <2>0, <2>2, <3>1 DEF TypeOK
    <3>3. l <= top[f] /\ top[f] \in Nat /\ l \in Nat
      BY <3>2 DEF SeenInv, TypeOK, Index
    <3>4. l < i
      BY <2>0, <3>3
    <3>5. Stream[l].curr < Stream[i].curr
      BY <1>3, <3>1, <3>2, <3>4, SentInOrder
    <3>. QED BY <2>0, <2>2, <3>1, <3>5
  <2>. QED BY <1>3, <2>0, <2>1, <2>2
<1>. QED BY <1>2, <1>3

(* What handling packet i, captured with its payload or not, must do for   *)
(* its message if everything before it of the message got through.         *)
LEMMA CompleteStep ==
  ASSUME TypeOK, CompleteInv, NEW f \in Flow, NEW i \in Index, i > top[f],
         top' = [top EXCEPT ![f] = i],
         \/ whole' = whole
         \/ whole' = [whole EXCEPT ![f] = whole[f] \cup {i}],
         \A g \in Flow : g # f => groups'[g] = groups[g] /\ dispatched'[g] = dispatched[g],
         \A k \in DOMAIN dispatched[f] : /\ k \in DOMAIN dispatched'[f]
                                         /\ dispatched'[f][k] = dispatched[f][k],
         whole' # whole /\ Captured(f, i, Stream[i].curr - 1) =>
           /\ Stream[i].frag /\ Stream[i].curr + 1 < Stream[i].total
                => groups'[f][Stream[i].seq] = Part(i, Stream[i].curr + 1)
           /\ Stream[i].curr + 1 = Stream[i].total
                => \E k \in DOMAIN dispatched'[f] :
                     dispatched'[f][k] = Message(Stream[i].op, Whole(i))
  PROVE  CompleteInv'
<1>0. /\ top \in [Flow -> 0 .. NPackets] /\ whole \in [Flow -> SUBSET Index]
      /\ i \in Nat /\ Stream[i].curr \in Nat /\ Stream[i].total \in Nat
      /\ Stream[i].curr < Stream[i].total
      /\ \A j \in Index : j \in Nat
  BY SentInOrder DEF TypeOK
<1>1. ASSUME NEW g \in Flow, g # f
      PROVE  top'[g] = top[g] /\ whole'[g] = whole[g]
  BY <1>0, <1>1
<1>2. top'[f] = i /\ whole'[f] \in {whole[f], whole[f] \cup {i}}
  BY <1>0
<1>3. SeenInv'
  <2> SUFFICES ASSUME NEW g \in Flow, NEW j \in whole'[g] PROVE j <= top'[g]
    BY DEF SeenInv
  <2>1. CASE g # f
    BY <1>1, <2>1 DEF CompleteInv, SeenInv
  <2>2. CASE g = f
    <3>1. j \in whole[f] \/ j = i
      BY <1>2, <2>2
    <3>2. j \in whole[f] => j <= top[f] /\ j \in Nat /\ top[f] \in Nat
      BY <1>0 DEF CompleteInv, SeenInv
    <3>. QED BY <1>0, <1>2, <2>2, <3>1, <3>2
  <2>. QED BY <2>1, <2>2
<1>4. ASSUME NEW n \in Nat, n >= Stream[i].curr, NEW j \in Index,
             Stream[j].msg = Stream[i].msg, Captured(f, j, n)'
      PROVE  whole' # whole /\ n = Stream[i].curr /\ Captured(f, i, Stream[i].curr - 1)
  <2>1. CASE whole' = whole
    <3>1. PICK l \in whole[f] : Stream[l].msg = Stream[j].msg /\ Stream[l].curr = Stream[i].curr
      BY <1>0, <1>4, <2>1 DEF Captured
    <3>2. l \in Index /\ l <= top[f] /\ top[f] \in Nat /\ l \in Nat
      <4>1. l \in Index
        BY <1>0
      <4>2. l <= top[f]
        BY DEF CompleteInv, SeenInv
      <4>3. top[f] \in 0 .. NPackets
        BY <1>0
      <4>4. top[f] \in Nat
        BY <4>3, SenderAssumption
      <4>. QED BY <1>0, <4>1, <4>2, <4>4
    <3>3. l < i
      BY <1>0, <3>2
    <3>4. /\ \/ Stream[l].msg < Stream[i].msg
             \/ Stream[l].msg = Stream[i].msg /\ Stream[l].curr < Stream[i].curr
          /\ Stream[i].msg \in Nat /\ Stream[l].msg = Stream[i].msg
      BY <1>4, <3>1, <3>2, <3>3, SentInOrder
    <3>. QED BY <1>0, <3>1, <3>4
  <2>2. CASE whole' # whole
    BY <1>4, <2>2, CapturedNow DEF CompleteInv
  <2>. QED BY <2>1, <2>2
<1>5. PartInv'
  <2> SUFFICES ASSUME NEW g \in Flow, NEW j \in Index, top'[g] = j, Stream[j].frag,
                      Captured(g, j, Stream[j].curr)', Stream[j].curr + 1 < Stream[j].total
               PROVE  groups'[g][Stream[j].seq] = Part(j, Stream[j].curr + 1)
    BY DEF PartInv, Part
  <2>1. CASE g # f
    <3>1. Captured(g, j, Stream[j].curr)
      BY <1>1, <2>1 DEF Captured
    <3>. QED BY <1>1, <2>1, <3>1 DEF CompleteInv, PartInv
  <2>2. CASE g = f
    <3>1. j = i
      BY <1>2, <2>2
    <3>2. whole' # whole /\ Captured(f, i, Stream[i].curr - 1)
      BY <1>0, <1>4, <2>2, <3>1
    <3>. QED BY <2>2, <3>1, <3>2
  <2>. QED BY <2>1, <2>2
<1>6. CompleteIfCaptured'
  <2> SUFFICES ASSUME NEW g \in Flow, NEW j \in Index, Captured(g, j, Stream[j].total - 1)'
               PROVE  \E k \in DOMAIN dispatched'[g] :
                        dispatched'[g][k] = Message(Stream[j].op, Whole(j))
    BY DEF CompleteIfCaptured, Message, Whole
  <2>0. Stream[j].total - 1 \in Nat
    BY SentInOrder
  <2>1. CASE g # f
    <3>1. Captured(g, j, Stream[j].total - 1)
      BY <1>1, <2>1 DEF Captured
    <3>. QED BY <2>1, <3>1 DEF CompleteInv, CompleteIfCaptured
  <2>2. CASE g = f /\ Stream[j].msg # Stream[i].msg
    <3>1. Captured(f, j, Stream[j].total - 1)
      <4>1. CASE whole' = whole
        BY <2>2, <4>1 DEF Captured
      <4>2. CASE whole' # whole
        BY <2>0, <2>2, <4>2, CapturedNow DEF CompleteInv
      <4>. QED BY <4>1, <4>2
    <3>2. PICK k \in DOMAIN dispatched[f] :
            dispatched[f][k] = Message(Stream[j].op, Whole(j))
      BY <3>1 DEF CompleteInv, CompleteIfCaptured
    <3>. QED BY <2>2, <3>2
  <2>3. CASE g = f /\ Stream[j].msg = Stream[i].msg
    <3>1. Stream[j].total = Stream[i].total /\ Stream[j].op = Stream[i].op
      BY <2>3, SentInOrder
    <3>2. /\ whole' # whole /\ Captured(f, i, Stream[i].curr - 1)
          /\ Stream[i].total - 1 = Stream[i].curr
      <4>1. Stream[i].total - 1 >= Stream[i].curr
        BY <1>0
      <4>. QED BY <1>4, <2>0, <2>3, <3>1, <4>1
    <3>3. Stream[i].curr + 1 = Stream[i].total
      BY <1>0, <3>2
    <3>4. Whole(j) = Whole(i)
      BY <2>3, <3>1 DEF Whole
    <3>. QED BY <2>3, <3>1, <3>2, <3>3, <3>4
  <2>. QED BY <2>1, <2>2, <2>3
<1>. QED BY <1>3, <1>5, <1>6 DEF CompleteInv

(* Emitting adds at the end, and a whole message is never swallowed.       *)
LEMMA EmitAdds ==
  ASSUME TypeOK, NEW f \in Flow, NEW o, NEW b, emitWithDecode(f, o, b)
  PROVE  /\ \A g \in Flow : g # f => dispatched'[g] = dispatched[g]
         /\ \A k \in DOMAIN dispatched[f] : /\ k \in DOMAIN dispatched'[f]
                                            /\ dispatched'[f][k] = dispatched[f][k]
         /\ \A i \in Index : b = Whole(i) =>
              \E k \in DOMAIN dispatched'[f] : dispatched'[f][k] = Message(o, b)
<1>1. dispatched \in [Flow -> Seq(AppMessage)]
  BY DEF TypeOK
<1>2. \/ dispatched' = dispatched
      \/ dispatched' = [dispatched EXCEPT ![f] = Append(dispatched[f], Message(o, b))]
  BY <1>1 DEF emitWithDecode
<1>3. ASSUME NEW i \in Index, b = Whole(i)
      PROVE  dispatched' = [dispatched EXCEPT ![f] = Append(dispatched[f], Message(o, b))]
  BY <1>1, <1>3 DEF emitWithDecode, Decodes, Inflates
<1> DEFINE s == dispatched[f]
           m == Message(o, b)
<1>4. /\ Len(s) \in Nat /\ DOMAIN s = 1 .. Len(s)
      /\ DOMAIN Append(s, m) = 1 .. Len(s) + 1
      /\ \A k \in 1 .. Len(s) : Append(s, m)[k] = s[k]
      /\ Append(s, m)[Len(s) + 1] = m
  <2>1. s \in Seq(AppMessage)
    BY <1>1
  <2>. HIDE DEF s, m
  <2>. QED BY <2>1
<1>. HIDE DEF m
<1>. QED BY <1>1, <1>2, <1>3, <1>4 DEF m

LEMMA CompleteInit == Init => CompleteInv
<1> SUFFICES ASSUME Init PROVE CompleteInv
  OBVIOUS
<1>1. ASSUME NEW f \in Flow, NEW i \in Index
      PROVE  whole[f] = {} /\ top[f] = 0 /\ i # 0 /\ 0 \in 0 .. Stream[i].total - 1
  BY SentInOrder DEF Init, Index
<1>2. SeenInv /\ PartInv
  <2>1. SeenInv
    BY DEF Init, SeenInv
  <2>2. PartInv
    BY <1>1 DEF PartInv
  <2>. QED BY <2>1, <2>2
<1>3. CompleteIfCaptured
  BY <1>1 DEF CompleteIfCaptured, Captured
<1>. QED BY <1>2, <1>3 DEF CompleteInv

LEMMA CompleteNext ==
  TypeOK /\ MarkInv /\ CompleteInv /\ [Next]_vars => CompleteInv'
<1> SUFFICES ASSUME TypeOK, MarkInv, CompleteInv, [Next]_vars PROVE CompleteInv'
  OBVIOUS
<1>1. ASSUME UNCHANGED <<top, whole, groups, dispatched>> PROVE CompleteInv'
  BY <1>1 DEF CompleteInv, SeenInv, PartInv, CompleteIfCaptured, Captured
<1>2. ASSUME NEW f \in Flow, NEW i \in Index, AcceptArq(f, i)
      PROVE  i > top[f] /\ top' = [top EXCEPT ![f] = i]
  BY <1>2, AcceptStep
<1>3. ASSUME NEW f \in Flow, NEW i \in Index, AcceptWhole(f, i)
      PROVE  whole' = [whole EXCEPT ![f] = whole[f] \cup {i}]
  BY <1>3 DEF AcceptWhole
<1>4. ASSUME NEW f \in Flow, NEW i \in Index, Stream[i].frag,
             Captured(f, i, Stream[i].curr - 1), i > top[f]
      PROVE  GroupFor(f, Stream[i]) = Part(i, Stream[i].curr)
  BY <1>4, FoundGroup DEF CompleteInv
<1>5. ASSUME NEW f \in Flow, NEW i \in Index, NEW g, StoreGroup(f, Stream[i].seq, g)
      PROVE  /\ groups'[f][Stream[i].seq] = g
             /\ \A h \in Flow : h # f => groups'[h] = groups[h]
  BY <1>5, StreamTypes DEF StoreGroup, TypeOK
<1>6. ASSUME NEW f \in Flow, NEW i \in Index, HeaderOnly(f, i) PROVE CompleteInv'
  BY <1>2, <1>6, CompleteStep DEF HeaderOnly
<1>7. ASSUME NEW f \in Flow, NEW i \in Index, SinglePacket(f, i) PROVE CompleteInv'
  <2>1. /\ AcceptArq(f, i) /\ AcceptWhole(f, i) /\ groups' = groups /\ ~Stream[i].frag
        /\ emitWithDecode(f, Stream[i].op, <<Chunk(i)>>)
    BY <1>7 DEF SinglePacket, AcceptWhole
  <2>2. Stream[i].total = 1 /\ Stream[i].curr = 0
    BY <2>1, SenderAssumption, SentInOrder DEF StreamAssumption
  <2>3. <<Chunk(i)>> = Whole(i)
    BY <2>2 DEF Chunk, Whole
  <2>. QED BY <1>2, <1>3, <2>1, <2>3, EmitAdds, CompleteStep
<1>8. ASSUME NEW f \in Flow, NEW i \in Index, DropGroup(f, i) PROVE CompleteInv'
  <2>1. /\ AcceptArq(f, i) /\ AcceptWhole(f, i) /\ dispatched' = dispatched /\ Stream[i].frag
        /\ StoreGroup(f, Stream[i].seq, EmptyGroup)
        /\ Stream[i].curr >= GroupFor(f, Stream[i]).total
    BY <1>8 DEF DropGroup, AcceptWhole
  <2>2. ~Captured(f, i, Stream[i].curr - 1)
    <3> SUFFICES ASSUME Captured(f, i, Stream[i].curr - 1) PROVE FALSE
      OBVIOUS
    <3>1. GroupFor(f, Stream[i]).total = Stream[i].total
      <4>1. GroupFor(f, Stream[i]) = Part(i, Stream[i].curr)
        BY <1>2, <1>4, <2>1
      <4>. QED BY <4>1 DEF Part
    <3>. QED BY <2>1, <3>1, SentInOrder
  <2>. QED BY <1>2, <1>3, <1>5, <2>1, <2>2, CompleteStep
<1>9. ASSUME NEW f \in Flow, NEW i \in Index, DropFragment(f, i) PROVE CompleteInv'
  <2>1. /\ AcceptArq(f, i) /\ AcceptWhole(f, i) /\ dispatched' = dispatched /\ Stream[i].frag
        /\ StoreGroup(f, Stream[i].seq, GroupFor(f, Stream[i]))
        /\ Stream[i].curr \in GroupFor(f, Stream[i]).got
    BY <1>9 DEF DropFragment, AcceptWhole
  <2>2. ~Captured(f, i, Stream[i].curr - 1)
    <3> SUFFICES ASSUME Captured(f, i, Stream[i].curr - 1) PROVE FALSE
      OBVIOUS
    <3>1. GroupFor(f, Stream[i]).got = 0 .. Stream[i].curr - 1
      <4>1. GroupFor(f, Stream[i]) = Part(i, Stream[i].curr)
        BY <1>2, <1>4, <2>1
      <4>. QED BY <4>1 DEF Part
    <3>. QED BY <2>1, <3>1, SentInOrder
  <2>. QED BY <1>2, <1>3, <1>5, <2>1, <2>2, CompleteStep
<1>10. ASSUME NEW f \in Flow, NEW i \in Index, AddFragment(f, i) PROVE CompleteInv'
  <2> DEFINE h == Collect(GroupFor(f, Stream[i]), i)
             n == Stream[i].curr + 1
  <2>1. /\ AcceptArq(f, i) /\ AcceptWhole(f, i) /\ Stream[i].frag
        /\ \/ /\ h.count # h.total
              /\ StoreGroup(f, Stream[i].seq, h)
              /\ dispatched' = dispatched
           \/ /\ h.count = h.total
              /\ StoreGroup(f, Stream[i].seq, EmptyGroup)
              /\ emitWithDecode(f, h.op, h.body)
    BY <1>10 DEF AddFragment, AcceptWhole
  <2>2. Captured(f, i, Stream[i].curr - 1) =>
          /\ h = Part(i, n) /\ h.count = n /\ h.total = Stream[i].total /\ h.op = Stream[i].op
          /\ n = Stream[i].total => h.body = Whole(i)
    <3>1. SUFFICES ASSUME Captured(f, i, Stream[i].curr - 1)
                   PROVE  /\ h = Part(i, n) /\ h.count = n
                          /\ h.total = Stream[i].total /\ h.op = Stream[i].op
                          /\ n = Stream[i].total => h.body = Whole(i)
      OBVIOUS
    <3>2. h = Part(i, n)
      BY <1>2, <1>4, <2>1, <3>1, CollectPart
    <3>3. Part(i, n).count = n /\ Part(i, n).total = Stream[i].total
          /\ Part(i, n).op = Stream[i].op
      BY DEF Part
    <3>. HIDE DEF h, n
    <3>. QED BY <3>2, <3>3, CollectPart
  <2>3. Stream[i].curr \in Nat /\ Stream[i].total \in Nat
    BY SentInOrder
  <2>. HIDE DEF h
  <2>4. CASE h.count # h.total /\ StoreGroup(f, Stream[i].seq, h) /\ dispatched' = dispatched
    <3>1. /\ \A g \in Flow : g # f => groups'[g] = groups[g]
          /\ groups'[f][Stream[i].seq] = h
      BY <1>5, <2>4
    <3>2. Captured(f, i, Stream[i].curr - 1) =>
            groups'[f][Stream[i].seq] = Part(i, Stream[i].curr + 1) /\ n # Stream[i].total
      BY <2>2, <2>4, <3>1
    <3>. QED BY <1>2, <1>3, <2>1, <2>4, <3>1, <3>2, CompleteStep
  <2>5. CASE /\ h.count = h.total /\ StoreGroup(f, Stream[i].seq, EmptyGroup)
             /\ emitWithDecode(f, h.op, h.body)
    <3>1. /\ \A g \in Flow : g # f => dispatched'[g] = dispatched[g]
          /\ \A k \in DOMAIN dispatched[f] : /\ k \in DOMAIN dispatched'[f]
                                             /\ dispatched'[f][k] = dispatched[f][k]
          /\ h.body = Whole(i) => \E k \in DOMAIN dispatched'[f] :
                                    dispatched'[f][k] = Message(h.op, h.body)
      BY <2>5, EmitAdds
    <3>2. \A g \in Flow : g # f => groups'[g] = groups[g]
      BY <1>5, <2>5
    <3>3. Captured(f, i, Stream[i].curr - 1) =>
            /\ n = Stream[i].total
            /\ \E k \in DOMAIN dispatched'[f] :
                 dispatched'[f][k] = Message(Stream[i].op, Whole(i))
      BY <2>2, <2>5, <3>1
    <3>4. ~(Stream[i].total < Stream[i].total)
      BY <2>3
    <3>. QED BY <1>2, <1>3, <2>1, <3>1, <3>2, <3>3, <3>4, CompleteStep
  <2>. QED BY <2>1, <2>4, <2>5
<1>11. CASE reset
  <2>1. ASSUME NEW f \in Flow, NEW i \in Index
        PROVE  whole'[f] = {} /\ top'[f] = 0 /\ i # 0 /\ 0 \in 0 .. Stream[i].total - 1
    BY <1>11, SentInOrder DEF reset, Index
  <2>2. SeenInv'
    BY <1>11 DEF reset, SeenInv
  <2>3. PartInv'
    BY <2>1 DEF PartInv
  <2>4. CompleteIfCaptured'
    BY <2>1 DEF CompleteIfCaptured, Captured
  <2>. QED BY <2>2, <2>3, <2>4 DEF CompleteInv
<1>. QED BY <1>1, <1>6, <1>7, <1>8, <1>9, <1>10, <1>11
         DEF Next, process, DropRetransmit, Datagram, vars

(* EQMacDecoder::process loses nothing it was given: a message of which    *)
(* every fragment passed the ARQ filter is dispatched with its own opcode  *)
(* and body.  A first fragment starts its group over, so neither an        *)
(* earlier message of the group number nor a lost fragment of it matters.  *)
THEOREM CapturedIsDispatched == Spec => []CompleteIfCaptured
<1>1. Init => TypeOK /\ MarkInv /\ CompleteInv
  BY InitType, CompleteInit
<1>2. TypeOK /\ MarkInv /\ CompleteInv /\ [Next]_vars => (TypeOK /\ MarkInv /\ CompleteInv)'
  BY NextType, CompleteNext
<1>3. CompleteInv => CompleteIfCaptured
  BY DEF CompleteInv
<1>. QED BY <1>1, <1>2, <1>3, PTL DEF Spec

=============================================================================
