---------------------------- MODULE EQMacDecoder ----------------------------
(***************************************************************************)
(* The EQ Mac wire decoder of one EQPacketStream (eqmac_decoder.cpp) and   *)
(* the per-flow decoder table that feeds it (EQPacketStream::handlePacket).*)
(*                                                                         *)
(* The daemon is a passive sniffer: it never acknowledges anything, so on  *)
(* every flow (a <source port, destination port> tuple) it sees the        *)
(* reliable packets of one sender with gaps (capture loss), repeats        *)
(* (retransmissions until the real peer acknowledges) and overtaking.      *)
(* A decoder keeps a high-water mark of the 16-bit ARQ number to drop      *)
(* repeats, and one assembly group for every fragment sequence number.     *)
(*                                                                         *)
(* The sender is EQMacEmu's EQOldStream, outside the repository: Stream[i] *)
(* is its i-th reliable packet, numbered isn + i modulo ArqMod.            *)
(***************************************************************************)
EXTENDS Integers, Sequences, FiniteSets

CONSTANTS
  Flow,           \* the <source port, destination port> tuples of the stream
  ArqMod,         \* the number of ARQ values (2^16 in the code)
  Window,         \* how far an arriving packet is from the newest accepted
  NPackets,       \* bound: reliable packets per flow
  Stream,         \* [1..NPackets -> Packet], what the sender sends
  Obfuscated,     \* opcodes sent encrypted and deflated
  MaxDatagrams    \* bound: unreliable messages per flow

Index == 1 .. NPackets
Arq   == 0 .. ArqMod - 1

(* A reliable packet: fragment curr of total of message msg, in assembly   *)
(* group seq. frag is the a3_Fragment header bit.                          *)
Packet == [msg : Nat, op : Nat, frag : BOOLEAN,
           seq : Nat, curr : Nat, total : Nat]

FragSeq == { Stream[i].seq : i \in Index }

(* The chunk of payload that packet i carries, and the whole body of a     *)
(* message as its sender cut it up.                                        *)
Chunk(i)  == <<Stream[i].msg, Stream[i].curr>>
ChunkSet  == { Chunk(i) : i \in Index }
Whole(i)  == [k \in 1 .. Stream[i].total |-> <<Stream[i].msg, k - 1>>]

(* EQOldStream sends a message's fragments in order, a message not cut up  *)
(* is one packet, and messages follow each other.                          *)
StreamAssumption ==
  /\ NPackets \in Nat
  /\ Stream \in [Index -> Packet]
  /\ \A i \in Index :
       /\ Stream[i].total >= 1
       /\ Stream[i].curr < Stream[i].total
       /\ ~Stream[i].frag => Stream[i].total = 1
       /\ Stream[i].op # 0
  /\ \A i, j \in Index :
       /\ i < j => \/ Stream[i].msg < Stream[j].msg
                   \/ /\ Stream[i].msg = Stream[j].msg
                      /\ Stream[i].curr < Stream[j].curr
       /\ Stream[i].msg = Stream[j].msg =>
            /\ Stream[i].op = Stream[j].op
            /\ Stream[i].frag = Stream[j].frag
            /\ Stream[i].seq = Stream[j].seq
            /\ Stream[i].total = Stream[j].total

ArqAssumption ==
  /\ ArqMod \in Nat
  /\ Window \in Nat
  /\ 0 < Window
  /\ 2 * Window <= ArqMod
  /\ MaxDatagrams \in Nat

ASSUME SenderAssumption == StreamAssumption
ASSUME WidthAssumption  == ArqAssumption

VARIABLES
  isn,         \* isn[f]: the sender's initial ARQ number
  top,         \* top[f]: newest packet index whose ARQ was accepted, or 0
  lastArq,     \* lastArq[f]: m_lastArq, -1 when no ARQ was seen
  groups,      \* groups[f][s]: m_fragments[s], EmptyGroup when absent
  whole,       \* whole[f]: the packets accepted with all their payload
  dispatched,  \* dispatched[f]: application messages since the last reset
  datagrams    \* datagrams[f]: unreliable messages dispatched

vars == <<isn, top, lastArq, groups, whole, dispatched, datagrams>>

(* A default-constructed FragmentGroup: operator[] creates it, so an       *)
(* absent entry and this one are the same to the code.                     *)
EmptyGroup == [op |-> 0, total |-> 0, got |-> {}, count |-> 0, body |-> <<>>]

NewGroup(p) ==
  [op |-> p.op, total |-> p.total, got |-> {}, count |-> 0, body |-> <<>>]

Message(o, b) == [op |-> o, body |-> b]

-----------------------------------------------------------------------------

ArqOf(f, i) == (isn[f] + i) % ArqMod

(* The signed difference of two ARQ numbers, as the int16_t cast computes  *)
(* it.                                                                     *)
ArqDelta(a, b) ==
  LET d == (a - b) % ArqMod
  IN  IF 2 * d < ArqMod THEN d ELSE d - ArqMod

(* Mutants: a repeated number counts as new; any other number is new.      *)
IsFreshOrSame(f, a) == lastArq[f] < 0 \/ ArqDelta(a, lastArq[f]) >= 0
IsFreshIfDifferent(f, a) == a # lastArq[f]

IsFresh(f, a) == lastArq[f] < 0 \/ ArqDelta(a, lastArq[f]) > 0

(* Decryption and inflation give the plaintext back exactly when the       *)
(* collected bytes are those one message was cut into.                     *)
Inflates(b) == \E i \in Index : b = Whole(i)

Decodes(o, b) == o \in Obfuscated => Inflates(b)

emitWithDecode(f, o, b) ==
  dispatched' = [dispatched EXCEPT ![f] =
                   IF Decodes(o, b) THEN Append(@, Message(o, b)) ELSE @]

(* The group a fragment finds: first fragments start it over.              *)
GroupFor(f, p) ==
  IF p.curr = 0 THEN NewGroup(p) ELSE groups[f][p.seq]

Collect(g, i) ==
  [op |-> g.op, total |-> g.total, got |-> g.got \cup {Stream[i].curr},
   count |-> g.count + 1, body |-> Append(g.body, Chunk(i))]

StoreGroup(f, s, g) == groups' = [groups EXCEPT ![f][s] = g]

-----------------------------------------------------------------------------

Init ==
  /\ isn \in [Flow -> Arq]
  /\ top = [f \in Flow |-> 0]
  /\ lastArq = [f \in Flow |-> -1]
  /\ groups = [f \in Flow |-> [s \in FragSeq |-> EmptyGroup]]
  /\ whole = [f \in Flow |-> {}]
  /\ dispatched = [f \in Flow |-> <<>>]
  /\ datagrams = [f \in Flow |-> 0]

(* Packet i may reach the sniffer: it is within the sender's window of     *)
(* unacknowledged packets around the newest one accepted. A packet skipped *)
(* is lost, or arrives later; one at or below top is a retransmission or   *)
(* was overtaken.                                                          *)
InWindow(f, i) ==
  top[f] > 0 => i - top[f] < Window /\ top[f] - i < Window

(* The ARQ was seen, or is older than the newest: the packet is dropped.   *)
DropRetransmit(f, i) ==
  /\ InWindow(f, i)
  /\ ~IsFresh(f, ArqOf(f, i))
  /\ UNCHANGED vars

AcceptArq(f, i) ==
  /\ InWindow(f, i)
  /\ IsFresh(f, ArqOf(f, i))
  /\ top' = [top EXCEPT ![f] = i]
  /\ lastArq' = [lastArq EXCEPT ![f] = ArqOf(f, i)]
  /\ UNCHANGED <<isn, datagrams>>

AcceptWhole(f, i) ==
  /\ AcceptArq(f, i)
  /\ whole' = [whole EXCEPT ![f] = @ \cup {i}]

(* A closing pair, or a packet cut off after its ARQ field: the ARQ number *)
(* is consumed and nothing is dispatched.                                  *)
HeaderOnly(f, i) ==
  /\ AcceptArq(f, i)
  /\ UNCHANGED <<groups, whole, dispatched>>

SinglePacket(f, i) ==
  /\ ~Stream[i].frag
  /\ AcceptWhole(f, i)
  /\ emitWithDecode(f, Stream[i].op, <<Chunk(i)>>)
  /\ UNCHANGED groups

(* A fragment beyond what its group was opened for (or of a group never    *)
(* opened): the group is erased.                                           *)
DropGroup(f, i) ==
  /\ Stream[i].frag
  /\ AcceptWhole(f, i)
  /\ Stream[i].curr >= GroupFor(f, Stream[i]).total
  /\ StoreGroup(f, Stream[i].seq, EmptyGroup)
  /\ UNCHANGED dispatched

(* A fragment its group has already.                                       *)
DropFragment(f, i) ==
  LET g == GroupFor(f, Stream[i])
  IN  /\ Stream[i].frag
      /\ AcceptWhole(f, i)
      /\ Stream[i].curr < g.total
      /\ Stream[i].curr \in g.got
      /\ StoreGroup(f, Stream[i].seq, g)
      /\ UNCHANGED dispatched

(* Mutant: the message is complete one fragment too late.                  *)
AddFragmentLate(f, i) ==
  LET g == GroupFor(f, Stream[i])
      h == Collect(g, i)
  IN  /\ Stream[i].frag
      /\ AcceptWhole(f, i)
      /\ Stream[i].curr < g.total
      /\ Stream[i].curr \notin g.got
      /\ \/ /\ h.count <= h.total
            /\ StoreGroup(f, Stream[i].seq, h)
            /\ UNCHANGED dispatched
         \/ /\ h.count > h.total
            /\ StoreGroup(f, Stream[i].seq, EmptyGroup)
            /\ emitWithDecode(f, h.op, h.body)

AddFragment(f, i) ==
  LET g == GroupFor(f, Stream[i])
      h == Collect(g, i)
  IN  /\ Stream[i].frag
      /\ AcceptWhole(f, i)
      /\ Stream[i].curr < g.total
      /\ Stream[i].curr \notin g.got
      /\ \/ /\ h.count # h.total
            /\ StoreGroup(f, Stream[i].seq, h)
            /\ UNCHANGED dispatched
         \/ /\ h.count = h.total
            /\ StoreGroup(f, Stream[i].seq, EmptyGroup)
            /\ emitWithDecode(f, h.op, h.body)

(* A message without an ARQ field passes the filter as often as it comes.  *)
Datagram(f) ==
  /\ datagrams[f] < MaxDatagrams
  /\ datagrams' = [datagrams EXCEPT ![f] = @ + 1]
  /\ UNCHANGED <<isn, top, lastArq, groups, whole, dispatched>>

(* EQPacketStream::reset drops the whole decoder table.                    *)
reset ==
  /\ top' = [f \in Flow |-> 0]
  /\ lastArq' = [f \in Flow |-> -1]
  /\ groups' = [f \in Flow |-> [s \in FragSeq |-> EmptyGroup]]
  /\ whole' = [f \in Flow |-> {}]
  /\ dispatched' = [f \in Flow |-> <<>>]
  /\ UNCHANGED <<isn, datagrams>>

process(f, i) ==
  \/ DropRetransmit(f, i)
  \/ HeaderOnly(f, i)
  \/ SinglePacket(f, i)
  \/ DropGroup(f, i)
  \/ DropFragment(f, i)
  \/ AddFragment(f, i)

Next ==
  \/ \E f \in Flow, i \in Index : process(f, i)
  \/ \E f \in Flow : Datagram(f)
  \/ reset

Spec == Init /\ [][Next]_vars

-----------------------------------------------------------------------------

Group == [op : Nat, total : Nat, got : SUBSET Nat, count : Nat,
          body : Seq(ChunkSet)]
AppMessage == [op : Nat, body : Seq(ChunkSet)]

(* Every variable has its type: the state of every decoder is one the      *)
(* declarations of EQMacDecoder allow.                                     *)
TypeOK ==
  /\ isn \in [Flow -> Arq]
  /\ top \in [Flow -> 0 .. NPackets]
  /\ lastArq \in [Flow -> -1 .. ArqMod - 1]
  /\ groups \in [Flow -> [FragSeq -> Group]]
  /\ whole \in [Flow -> SUBSET Index]
  /\ dispatched \in [Flow -> Seq(AppMessage)]
  /\ datagrams \in [Flow -> Nat]

(* The message a dispatched body completed: that of its last fragment.     *)
MsgOf(m) == m.body[Len(m.body)][1]

GroupIsOwn(m) ==
  \A i, j \in Index : Stream[i].msg = m /\ Stream[i].seq = Stream[j].seq
                      /\ Stream[i].frag /\ Stream[j].frag => Stream[j].msg = m

(* The body handed to the payload dispatcher is byte for byte the body of  *)
(* one sent message, with that message's opcode: fragments are joined in   *)
(* order, none missing, none twice, none of another message, although the  *)
(* decoder appends in arrival order and never times a group out.  Only a   *)
(* message that shares its group number may get fragments of the other.    *)
BodyIntact ==
  \A f \in Flow : \A k \in DOMAIN dispatched[f] :
    GroupIsOwn(MsgOf(dispatched[f][k])) =>
      \E i \in Index : dispatched[f][k] = Message(Stream[i].op, Whole(i))

(* Every fragment of packet i's message got through up to the n-th.        *)
Captured(f, i, n) ==
  \A k \in 0 .. n : \E j \in whole[f] :
    Stream[j].msg = Stream[i].msg /\ Stream[j].curr = k

(* A message all of whose fragments passed the ARQ filter is dispatched,   *)
(* whatever was lost of the messages sent before, between and after them,  *)
(* and whatever an earlier message of its group number left in the group.  *)
CompleteIfCaptured ==
  \A f \in Flow, i \in Index :
    Captured(f, i, Stream[i].total - 1)
      => \E k \in DOMAIN dispatched[f] :
           dispatched[f][k] = Message(Stream[i].op, Whole(i))

(* The decoder table is a set of independent at-most-once, in-order        *)
(* channels (module AppStream): a retransmission or an overtaken packet    *)
(* never reaches the dispatcher a second time or out of order, and one     *)
(* flow's numbering never disturbs another's.                              *)
Delivered ==
  [f \in Flow |-> [k \in DOMAIN dispatched[f] |-> MsgOf(dispatched[f][k])]]

Msg == { Stream[i].msg : i \in Index }

Channel == INSTANCE AppStream WITH log <- Delivered

AtMostOnceInOrder == Channel!Spec

(* A flow whose session has not been heard yet takes its first packet      *)
(* whatever its ARQ number is ("the first ARQ packet always passes",       *)
(* eqmac_decoder.cpp:218), so no state of an earlier session filters it.   *)
FirstArqPasses ==
  \A f \in Flow, i \in Index : top[f] = 0 => IsFresh(f, ArqOf(f, i))

=============================================================================
