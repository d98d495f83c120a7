---------------------------- MODULE CaptureProofs ----------------------------
(***************************************************************************)
(* What holds of EQPacket for any devices, clients, hosts and number of    *)
(* packets: the tail of the shared list is alive, the capture goes on,     *)
(* no packet outlives its device, and a client's streams hold its          *)
(* packets only.  The list is reasoned about as the set of nodes that can  *)
(* be reached from the head, which each critical section changes by one.   *)
(***************************************************************************)
EXTENDS EQPacket, TLAPS, WellFoundedInduction, SequenceTheorems

Links == [Node -> Node \cup {None}]

\* The head is reached, with what follows a reached node, and nothing else is.
LEMMA ReachedFollows ==
  ASSUME NEW nx \in Links, NEW h \in Node
  PROVE  /\ h \in Reached(h, nx)
         /\ \A m \in Reached(h, nx) : nx[m] # None => nx[m] \in Reached(h, nx)
  BY DEF Reached, Links, Node, None

LEMMA ReachedLeast ==
  ASSUME NEW nx, NEW h, NEW S \in SUBSET Node,
         h \in S \/ h = None,
         \A m \in S : nx[m] # None => nx[m] \in S
  PROVE  Reached(h, nx) \subseteq S
  BY DEF Reached

LEMMA NothingReached == \A nx : Reached(None, nx) = {}
  BY DEF Reached

\* A fresh node that no link leads to changes nothing.
LEMMA FreshNode ==
  ASSUME NEW nx \in Links, NEW h \in Node \cup {None}, NEW k \in Node,
         h # k, \A n \in Node : nx[n] # k
  PROVE  Reached(h, [nx EXCEPT ![k] = None]) = Reached(h, nx)
<1> DEFINE nx2 == [nx EXCEPT ![k] = None]
<1>0. CASE h = None
  BY <1>0, NothingReached
<1>1. ASSUME h \in Node
      PROVE  Reached(h, nx2) \subseteq Reached(h, nx)
  <2>1. \A m \in Reached(h, nx) : nx2[m] # None => nx2[m] \in Reached(h, nx)
    BY <1>1, ReachedFollows DEF Links
  <2>. QED BY <1>1, <2>1, ReachedFollows, ReachedLeast DEF Reached
<1>2. ASSUME h \in Node, NEW n \in Reached(h, nx)
      PROVE  n \in Reached(h, nx2)
  <2> SUFFICES ASSUME NEW S \in SUBSET Node, h \in S,
                      \A m \in S : nx2[m] # None => nx2[m] \in S
               PROVE  n \in S
    BY <1>2 DEF Reached, None, Node
  <2>1. \A m \in S \ {k} : nx[m] # None => nx[m] \in S \ {k}
    BY DEF Links
  <2>2. Reached(h, nx) \subseteq S \ {k}
    BY <2>1, ReachedLeast
  <2>. QED BY <1>2, <2>2
<1>. QED BY <1>0, <1>1, <1>2

\* Linking a node behind the tail adds it and nothing else.
LEMMA LinkedNode ==
  ASSUME NEW nx \in Links, NEW h \in Node, NEW l \in Reached(h, nx), NEW k \in Node,
         nx[l] = None, nx[k] = None, l # k
  PROVE  /\ Reached(h, [nx EXCEPT ![l] = k]) \subseteq Reached(h, nx) \cup {k}
         /\ k \in Reached(h, [nx EXCEPT ![l] = k])
<1> DEFINE nx2 == [nx EXCEPT ![l] = k]
<1>0. l \in Node /\ k # None
  BY DEF Reached, Node, None
<1>1. Reached(h, nx2) \subseteq Reached(h, nx) \cup {k}
  <2>1. \A m \in Reached(h, nx) \cup {k} : nx2[m] # None => nx2[m] \in Reached(h, nx) \cup {k}
    BY <1>0, ReachedFollows DEF Links
  <2>2. Reached(h, nx) \cup {k} \in SUBSET Node /\ h \in Reached(h, nx)
    BY ReachedFollows DEF Reached
  <2>. QED BY <2>1, <2>2, ReachedLeast, ZenonT(60)
<1>2. k \in Reached(h, nx2)
  <2> SUFFICES ASSUME NEW S \in SUBSET Node, h \in S,
                      \A m \in S : nx2[m] # None => nx2[m] \in S
               PROVE  k \in S
    BY DEF Reached, None, Node
  <2>1. \A m \in S : nx[m] # None => nx[m] \in S
    BY <1>0 DEF Links
  <2>2. l \in S
    BY <2>1, ReachedLeast
  <2>3. nx2[l] = k
    BY <1>0 DEF Links
  <2>. QED BY <1>0, <2>2, <2>3
<1>. QED BY <1>1, <1>2

LEMMA LinkedAlone ==
  ASSUME NEW nx \in Links, NEW k \in Node, nx[k] = None
  PROVE  Reached(k, nx) = {k}
<1>1. \A m \in {k} : nx[m] # None => nx[m] \in {k}
  OBVIOUS
<1>2. Reached(k, nx) \subseteq {k}
  BY <1>1, ReachedLeast
<1>. QED BY <1>2, ReachedFollows

\* Handing out the head leaves the rest, the tail included.
LEMMA UnlinkedNode ==
  ASSUME NEW nx \in Links, NEW h \in Node, nx[h] # None
  PROVE  /\ Reached(nx[h], nx) \subseteq Reached(h, nx)
         /\ \A l \in Reached(h, nx) : l # h => l \in Reached(nx[h], nx)
<1>1. nx[h] \in Node
  BY DEF Links
<1>2. Reached(nx[h], nx) \subseteq Reached(h, nx)
  BY <1>1, ReachedFollows, ReachedLeast DEF Reached
<1>3. ASSUME NEW l \in Reached(h, nx), l # h
      PROVE  l \in Reached(nx[h], nx)
  <2> SUFFICES ASSUME NEW S \in SUBSET Node, nx[h] \in S,
                      \A m \in S : nx[m] # None => nx[m] \in S
               PROVE  l \in S
    BY <1>1 DEF Reached, None, Node
  <2>1. S \cup {h} \in SUBSET Node
    OBVIOUS
  <2>2. \A m \in S \cup {h} : nx[m] # None => nx[m] \in S \cup {h}
    OBVIOUS
  <2>3. Reached(h, nx) \subseteq S \cup {h}
    <3> DEFINE T == S \cup {h}
    <3>1. T \in SUBSET Node /\ h \in T /\ \A m \in T : nx[m] # None => nx[m] \in T
      BY <2>1, <2>2
    <3> HIDE DEF T
    <3>2. Reached(h, nx) \subseteq T
      BY <3>1, ReachedLeast
    <3>. QED BY <3>2 DEF T
  <2>. QED BY <1>3, <2>3
<1>. QED BY <1>2, <1>3

-----------------------------------------------------------------------------
Captured == 1 .. Len(data)
Dispatched == UNION {streams[s] : s \in StreamID}
ClientPackets == streams["client2world"] \cup streams["client2zone"]

ListInv ==
  /\ data \in Seq(Packet) /\ Len(data) <= MaxPackets
  /\ {first, last} \subseteq Captured \cup {None}
  /\ next \in Links
  /\ \A n \in Node : next[n] \in Captured \cup {None}
  /\ thread = "holding" => /\ hand \in Captured /\ hand = Len(data)
                           /\ next[hand] = None /\ last # hand
  /\ TailIsLive

\* What is queued, held or dispatched is of the open device.
OfDevice(n) == n \in Captured /\ data[n].dev = pcap
DeviceInv ==
  /\ HandleOutlivesLoop
  /\ device \in Devices /\ pcap \in Devices \cup {None}
  /\ main \in {"idle", "draining"} =>
       /\ pcap = device /\ ~quitting
       /\ thread \in {"reading", "holding"} /\ ~broken /\ ~closed
  /\ pcap # None => /\ \A n \in Queued \cup Dispatched : OfDevice(n)
                    /\ thread = "holding" => OfDevice(hand)
  /\ streams \in [StreamID -> SUBSET Captured]

ClientInv ==
  /\ detecting => client = AutoIP
  /\ filter \in {client, AutoIP}
  /\ ClientStreamsAreTheClients

Inv == ListInv /\ DeviceInv /\ ClientInv

LEMMA CapturedAreNodes == ListInv => Captured \subseteq Node /\ None \notin Captured
  BY PacketBound DEF ListInv, Captured, Node, None

LEMMA Initially == Init => Inv
<1> SUFFICES ASSUME Init PROVE Inv
  OBVIOUS
<1> USE DEF Init, CaptureInit, StartedOn, NoPackets, StreamID
<1>1. ListInv
  BY PacketBound DEF ListInv, Captured, TailIsLive, Links
<1>2. DeviceInv
  BY NothingReached, NoneIsNoDevice DEF DeviceInv, HandleOutlivesLoop, Queued, Dispatched
<1>3. ClientInv
  BY DEF ClientInv, ClientStreamsAreTheClients
<1>. QED BY <1>1, <1>2, <1>3 DEF Inv

\* What is kept of a packet is kept while packets are only added.
LEMMA ClientKept ==
  ASSUME ClientInv, DeviceInv, UNCHANGED <<client, detecting, streams, filter>>,
         \A n \in Captured : data'[n] = data[n]
  PROVE  ClientInv'
  BY DEF ClientInv, DeviceInv, ClientStreamsAreTheClients, StreamID

-----------------------------------------------------------------------------
(* The capture thread. *)

LEMMA ReceiveStep ==
  ASSUME Inv, NEW out \in BOOLEAN, NEW port \in {"world", "zone", "chat"},
         NEW c \in Clients, Receive(out, port, c), UNCHANGED <<main, loopVars, eqVars>>
  PROVE  Inv'
<1> DEFINE k == Len(data) + 1
           p == [dev |-> pcap, client |-> c, out |-> out, port |-> port]
<1> USE DEF Inv, Receive, loopVars, eqVars, pcapVars
<1>1. pcap \in Devices
  BY DEF DeviceInv, HandleOutlivesLoop
<1>2. /\ data' = Append(data, p) /\ data' \in Seq(Packet) /\ Len(data') = k
      /\ data'[k] = p /\ \A n \in Captured : data'[n] = data[n]
  BY <1>1 DEF ListInv, Packet, Captured
<1>3. k \in Node /\ k \notin Captured /\ k # None /\ Captured' = Captured \cup {k}
  BY <1>2, PacketBound DEF ListInv, Node, Captured, None
<1>4. next' = [next EXCEPT ![k] = None] /\ next' \in Links
  BY <1>3 DEF ListInv, Links
<1>5. Queued' = Queued
  <2>1. /\ first \in Node \cup {None} /\ first # k
        /\ \A n \in Node : next[n] # k
    BY <1>3, CapturedAreNodes DEF ListInv
  <2>2. Reached(first, [next EXCEPT ![k] = None]) = Reached(first, next)
    BY <1>3, <2>1, FreshNode DEF ListInv
  <2>. QED BY <1>4, <2>2 DEF Queued
<1>6. ListInv'
  BY <1>2, <1>3, <1>4, <1>5, PacketBound DEF ListInv, TailIsLive, Captured, Node, Links
<1>7. DeviceInv'
  <2>1. \A n \in Captured : OfDevice(n) => OfDevice(n)'
    BY <1>2, <1>3 DEF OfDevice
  <2>2. OfDevice(hand)'
    BY <1>2, <1>3 DEF OfDevice
  <2>3. /\ Dispatched' = Dispatched
        /\ streams' \in [StreamID -> SUBSET Captured']
    BY <1>3 DEF DeviceInv, Dispatched
  <2>4. \A n \in (Queued \cup Dispatched)' : OfDevice(n)'
    BY <1>1, <1>5, <2>1, <2>3, NoneIsNoDevice DEF DeviceInv, OfDevice
  <2>. QED BY <1>1, <2>2, <2>3, <2>4, NoneIsNoDevice DEF DeviceInv, HandleOutlivesLoop
<1>8. ClientInv'
  BY <1>2, ClientKept
<1>. QED BY <1>6, <1>7, <1>8

LEMMA CallBackStep ==
  ASSUME Inv, packetCallBack, UNCHANGED <<main, loopVars, eqVars>>
  PROVE  Inv'
<1> USE DEF Inv, packetCallBack, loopVars, eqVars, pcapVars
<1>0. hand \in Node /\ next[hand] = None /\ hand # last /\ next \in Links /\ hand # None
  BY DEF ListInv, Captured, Node, None
<1>1. CASE closed
  <2>1. Queued' = Queued /\ Captured' = Captured
    BY <1>1 DEF listVars, Queued, Captured
  <2>2. ListInv'
    BY <1>1, <2>1 DEF ListInv, TailIsLive, listVars
  <2>3. DeviceInv'
    BY <1>1, <2>1 DEF DeviceInv, HandleOutlivesLoop, OfDevice, Dispatched
  <2>. QED BY <1>1, <2>2, <2>3, ClientKept
<1>2. CASE Link(hand)
  <2>1. /\ next' \in Links /\ Queued' \subseteq Queued \cup {hand}
        /\ hand \in Queued' /\ next'[hand] = None /\ last' = hand /\ first' # None
        /\ first' \in {first, hand}
        /\ \A n \in Node : next'[n] \in {next[n], hand}
    <3>1. CASE first = None
      BY <1>0, <1>2, <3>1, LinkedAlone, NothingReached DEF ListInv, TailIsLive, Link, Queued
    <3>2. CASE first # None
      <4>1. first \in Node /\ last \in Reached(first, next) /\ next[last] = None /\ last # None
        BY <3>2, CapturedAreNodes DEF ListInv, TailIsLive, Queued, Reached
      <4>2. next' = [next EXCEPT ![last] = hand] /\ first' = first /\ last' = hand
        BY <1>2, <3>2, <4>1 DEF Link
      <4>3. next' \in Links /\ next'[hand] = None /\ \A n \in Node : next'[n] \in {next[n], hand}
        BY <1>0, <4>1, <4>2 DEF Links
      <4>4. Queued' = Reached(first, [next EXCEPT ![last] = hand])
        BY <4>2 DEF Queued
      <4>. QED BY <1>0, <3>2, <4>1, <4>2, <4>3, <4>4, LinkedNode DEF Queued
    <3>. QED BY <3>1, <3>2
  <2>2. ListInv'
    BY <1>0, <2>1 DEF ListInv, TailIsLive, Captured
  <2>3. DeviceInv'
    BY <2>1 DEF DeviceInv, HandleOutlivesLoop, OfDevice, Dispatched, Captured
  <2>. QED BY <2>2, <2>3, ClientKept
<1>. QED BY <1>1, <1>2

\* A step that leaves the packets, the list and the thread's hand alone.
LEMMA ListKept ==
  ASSUME ListInv, UNCHANGED <<data, listVars, hand>>,
         thread' = thread \/ thread' # "holding"
  PROVE  ListInv' /\ Queued' = Queued /\ Captured' = Captured
  BY DEF ListInv, TailIsLive, Queued, Captured, listVars

LEMMA LoopReturnsStep ==
  ASSUME Inv, LoopReturns, UNCHANGED <<main, loopVars, eqVars>>
  PROVE  Inv'
<1> USE DEF Inv, LoopReturns, loopVars, eqVars, pcapVars
<1>1. ListInv' /\ Queued' = Queued /\ Captured' = Captured
  BY ListKept
<1>2. DeviceInv'
  BY <1>1 DEF DeviceInv, HandleOutlivesLoop, OfDevice, Dispatched
<1>. QED BY <1>1, <1>2, ClientKept

-----------------------------------------------------------------------------
(* The event loop. *)

LEMMA TimerStep ==
  ASSUME Inv, Tick \/ Drained
  PROVE  Inv'
<1> USE DEF Inv, Tick, Drained, captureVars, pcapVars, threadVars, eqVars
<1>1. ListInv' /\ Queued' = Queued /\ Captured' = Captured
  BY ListKept
<1>2. DeviceInv'
  BY <1>1 DEF DeviceInv, HandleOutlivesLoop, OfDevice, Dispatched
<1>. QED BY <1>1, <1>2, ClientKept

LEMMA ProcessPacketStep ==
  ASSUME Inv, processPacket
  PROVE  Inv'
<1> DEFINE n == first
           p == data[n]
<1> USE DEF Inv, processPacket, getPacket, dispatchPacket, loopVars, pcapVars, threadVars
<1>1. /\ n \in Node /\ n \in Captured /\ p \in Packet
      /\ next \in Links /\ n \in Queued
  BY CapturedAreNodes, ReachedFollows DEF ListInv, Captured, Queued
<1>2. Captured' = Captured /\ data' = data /\ next' = next /\ first' = next[n]
  BY DEF Captured, Unlink
<1>3. Queued' \subseteq Queued
  <2>1. CASE next[n] = None
    BY <1>2, <2>1, NothingReached DEF Queued
  <2>2. CASE next[n] # None
    BY <1>1, <1>2, <2>2, UnlinkedNode DEF Queued
  <2>. QED BY <2>1, <2>2
<1>4. ListInv'
  <2>1. TailIsLive'
    <3>1. CASE next[n] = None
      BY <3>1 DEF Unlink, TailIsLive
    <3>2. CASE next[n] # None
      <4>1. last' = last /\ last \in Queued /\ next[last] = None /\ last # n
        BY <3>2 DEF Unlink, ListInv, TailIsLive
      <4>. QED BY <1>1, <1>2, <3>2, <4>1, UnlinkedNode DEF Queued, TailIsLive
    <3>. QED BY <3>1, <3>2
  <2>2. {first', last'} \subseteq Captured \cup {None} /\ last' \in {last, None}
    BY <1>1 DEF ListInv, Unlink
  <2>3. thread' = "holding" => last' # hand'
    BY <2>2, CapturedAreNodes DEF ListInv
  <2>. QED BY <1>2, <2>1, <2>2, <2>3 DEF ListInv
<1>5. /\ streams' \in [StreamID -> SUBSET Captured]
      /\ Dispatched' \subseteq Dispatched \cup {n}
      /\ \A s \in StreamID : streams'[s] \subseteq streams[s] \cup {n}
  BY <1>1 DEF DeviceInv, Dispatched, StreamID, StreamOf, Packet
<1>6. DeviceInv'
  BY <1>1, <1>2, <1>3, <1>5 DEF DeviceInv, HandleOutlivesLoop, OfDevice
<1>7. ClientInv'
  <2>1. CASE Detects(p)
    <3>1. /\ detecting' = FALSE /\ client' = p.client
          /\ client = AutoIP /\ p.port = "world"
      BY <2>1 DEF Detects, ClientAfter, ClientInv
    <3>2. ClientPackets = {}
      <4> SUFFICES ASSUME NEW m \in ClientPackets PROVE FALSE
        OBVIOUS
      <4>1. m \in Captured /\ data[m].client = AutoIP
        BY <3>1 DEF ClientPackets, DeviceInv, StreamID, ClientInv, ClientStreamsAreTheClients
      <4>2. data[m] \in Packet
        BY <4>1 DEF ListInv, Captured
      <4>. QED BY <4>1, <4>2, AutoIsNoClient DEF Packet
    <3>3. ClientPackets' \subseteq {n} /\ (n \in ClientPackets' => FromClient(p))
      BY <3>1, <3>2, <1>5 DEF ClientPackets, StreamOf, StreamID, DeviceInv
    <3>. QED BY <1>2, <3>1, <3>3
             DEF ClientInv, ClientStreamsAreTheClients, ClientPackets, FromClient, ClientAfter
  <2>2. CASE ~Detects(p)
    <3>1. (detecting' => detecting) /\ client' = client
      BY <2>2 DEF ClientAfter
    <3>2. \A m \in ClientPackets' : m \in ClientPackets \/ (m = n /\ FromClient(p))
      BY <1>1 DEF ClientPackets, StreamOf, StreamID, DeviceInv, Packet
    <3>3. FromClient(p) => p.out /\ p.client = client
      BY <2>2 DEF FromClient, ClientAfter
    <3>. QED BY <1>2, <3>1, <3>2, <3>3
             DEF ClientInv, ClientStreamsAreTheClients, ClientPackets
  <2>. QED BY <2>1, <2>2
<1>. QED BY <1>4, <1>6, <1>7

LEMMA MonitorClientStep ==
  ASSUME Inv, NEW host, monitorClient(host)
  PROVE  Inv'
<1> USE DEF Inv, monitorClient, setFilter, resetEQPacket, NoPackets, threadVars, loopVars
<1>1. ListInv' /\ Queued' = Queued /\ Captured' = Captured
  BY ListKept
<1>2. Dispatched' = {}
  BY DEF Dispatched
<1>3. DeviceInv'
  BY <1>1, <1>2 DEF DeviceInv, HandleOutlivesLoop, OfDevice
<1>4. ClientInv'
  BY DEF ClientInv, ClientStreamsAreTheClients, StreamID
<1>. QED BY <1>1, <1>3, <1>4

\* The steps of stop(), up to the join.
LEMMA StoppingStep ==
  ASSUME Inv, (\E dev \in Devices : monitorDevice(dev)) \/ Quit \/ Close \/ Break
  PROVE  Inv'
<1> USE DEF Inv, monitorDevice, Quit, Close, Break, stopMarkClosed, stopBreak,
            captureVars, pcapVars, threadVars, loopVars, eqVars
<1>1. UNCHANGED <<pcap, thread, hand, listVars, data, client, detecting, streams>>
  OBVIOUS
<1>2. ListInv' /\ Queued' = Queued /\ Captured' = Captured
  BY <1>1, ListKept
<1>3. DeviceInv'
  <2>1. main' \notin {"idle", "draining"} /\ device' \in Devices
    BY DEF DeviceInv
  <2>. QED BY <1>1, <1>2, <2>1 DEF DeviceInv, HandleOutlivesLoop, OfDevice, Dispatched
<1>. QED BY <1>1, <1>2, <1>3, ClientKept

\* The handle is opened again: nothing of the last capture is left.
LEMMA RestartStep ==
  ASSUME Inv, Restart
  PROVE  Inv'
<1> USE DEF Inv, Restart, start, Opened, EmptiesList, resetEQPacket, NoPackets, loopVars
<1>1. Queued' = {} /\ Dispatched' = {} /\ Captured' = Captured
  BY NothingReached DEF Queued, Dispatched, Captured
<1>2. ListInv'
  BY <1>1 DEF ListInv, TailIsLive
<1>3. DeviceInv'
  BY <1>1, NoneIsNoDevice DEF DeviceInv, HandleOutlivesLoop
<1>4. ClientInv'
  BY DEF ClientInv, ClientStreamsAreTheClients, StreamID
<1>. QED BY <1>2, <1>3, <1>4

LEMMA DestroyStep ==
  ASSUME Inv, CloseHandle \/ Destroy
  PROVE  Inv'
<1>1. CASE CloseHandle
  <2> USE <1>1 DEF Inv, CloseHandle, stopJoinAndClose, Joined, threadVars, loopVars, eqVars
  <2>1. ListInv' /\ Queued' = Queued /\ Captured' = Captured
    BY ListKept
  <2>2. DeviceInv'
    BY <2>1 DEF DeviceInv, HandleOutlivesLoop
  <2>. QED BY <2>1, <2>2, ClientKept
<1>2. CASE Destroy
  <2> USE <1>2 DEF Inv, Destroy, destroyProvider, resetEQPacket, NoPackets, pcapVars, loopVars
  <2>1. Captured' = Captured
    BY DEF Captured
  <2>2. ListInv'
    BY <2>1 DEF ListInv, TailIsLive
  <2>3. DeviceInv'
    BY <2>1 DEF DeviceInv, HandleOutlivesLoop
  <2>4. ClientInv'
    BY DEF ClientInv, ClientStreamsAreTheClients, StreamID
  <2>. QED BY <2>2, <2>3, <2>4
<1>. QED BY <1>1, <1>2

LEMMA InvIsInductive == Inv /\ [Next]_vars => Inv'
<1> SUFFICES ASSUME Inv, [Next]_vars PROVE Inv'
  OBVIOUS
<1>1. CASE CaptureThread /\ UNCHANGED <<main, loopVars, eqVars>>
  BY <1>1, ReceiveStep, CallBackStep, LoopReturnsStep DEF CaptureThread
<1>2. CASE EventLoop
  BY <1>2, TimerStep, ProcessPacketStep, MonitorClientStep, StoppingStep,
     RestartStep, DestroyStep DEF EventLoop
<1>3. CASE UNCHANGED vars
  <2> USE <1>3 DEF vars, captureVars, pcapVars, threadVars, loopVars, eqVars, Inv
  <2>1. ListInv' /\ Queued' = Queued /\ Captured' = Captured
    BY ListKept
  <2>2. DeviceInv'
    BY <2>1 DEF DeviceInv, HandleOutlivesLoop, OfDevice, Dispatched
  <2>. QED BY <2>1, <2>2, ClientKept
<1>. QED BY <1>1, <1>2, <1>3 DEF Next

LEMMA InvHolds == Spec => []Inv
  BY Initially, InvIsInductive, PTL DEF Spec

-----------------------------------------------------------------------------
(* The list as the queue it stands for.  A link leads to a later packet,   *)
(* so what is left from a node on is defined from the last node down, and  *)
(* a set of nodes on which two lists differ would have a greatest one.     *)

LEMMA LeastNumber ==
  ASSUME NEW T, T \subseteq Nat, T # {}
  PROVE  \E m \in T : \A n \in T : m <= n
<1> DEFINE R == OpToRel(<, Nat)
<1>1. IsWellFoundedOn(R, Nat)
  BY NatLessThanWellFounded
<1>2. PICK m \in T : \A n \in T : ~(<<n, m>> \in R)
  <2>. HIDE DEF R
  <2>. QED BY <1>1, WFMin
<1>3. \A n \in T : ~(n < m)
  BY <1>2 DEF OpToRel
<1>. QED BY <1>3

LEMMA GreatestNode ==
  ASSUME NEW T, T \subseteq Node, T # {}
  PROVE  \E m \in T : \A n \in T : n <= m
<1> DEFINE D == {MaxPackets - n : n \in T}
<1>1. D \subseteq Nat /\ D # {}
  <2>1. \A n \in T : n \in Nat /\ MaxPackets - n \in Nat
    BY PacketBound DEF Node
  <2>2. \A d \in D : d \in Nat
    BY <2>1
  <2>. QED BY <2>2
<1>2. PICK d \in D : \A e \in D : d <= e
  <2>. HIDE DEF D
  <2>. QED BY <1>1, LeastNumber
<1>3. PICK m \in T : d = MaxPackets - m
  OBVIOUS
<1>4. \A n \in T : MaxPackets - m <= MaxPackets - n
  BY <1>2, <1>3
<1>. QED BY <1>4, PacketBound DEF Node

NodeOrNone == Node \cup {None}
RestAt(nx, f, n) == IF n = None THEN <<>>
                    ELSE <<n>> \o (IF nx[n] > n THEN f[nx[n]] ELSE <<>>)
IsRest(nx, f) == f = [n \in NodeOrNone |-> RestAt(nx, f, n)]
Rest(nx) == CHOOSE f : IsRest(nx, f)

LEMMA QueueIsRest == Queue = Rest(next)[first]
  BY Zenon DEF Queue, Rest, IsRest, RestAt, NodeOrNone

\* The equation of the queue has a solution, whatever the links are.
LEMMA RestExists ==
  ASSUME NEW nx \in Links
  PROVE  IsRest(nx, Rest(nx))
<1> DEFINE From(d) == {None} \cup {n \in Node : n > MaxPackets - d}
           Solves(f, d) == f = [n \in From(d) |-> RestAt(nx, f, n)]
           D == {d \in 0 .. MaxPackets : ~ \E f : Solves(f, d)}
<1>1. D = {}
  <2> SUFFICES ASSUME D # {} PROVE FALSE
    OBVIOUS
  <2>1. PICK d \in D : \A e \in D : d <= e
    <3>1. D \subseteq Nat
      BY PacketBound
    <3>. HIDE DEF D
    <3>. QED BY <3>1, LeastNumber
  <2>2. CASE d = 0
    <3> DEFINE f == [n \in From(0) |-> <<>>]
    <3>1. From(0) = {None}
      BY PacketBound DEF Node
    <3>2. \A n \in From(0) : RestAt(nx, f, n) = <<>>
      BY <3>1 DEF RestAt
    <3>3. f = [n \in From(0) |-> RestAt(nx, f, n)]
      <4>. HIDE DEF From
      <4>. QED BY <3>2
    <3>4. Solves(f, 0)
      BY <3>3
    <3>. HIDE DEF f, Solves
    <3>. QED BY <2>1, <2>2, <3>4
  <2>3. CASE d > 0
    <3> DEFINE m == MaxPackets - d + 1
    <3>1. d - 1 \in 0 .. MaxPackets /\ d - 1 \notin D /\ m \in Node /\ m # None
      <4>1. d \in 0 .. MaxPackets /\ MaxPackets \in Nat
        BY <2>1, PacketBound
      <4>2. d - 1 \in 0 .. MaxPackets /\ ~(d <= d - 1) /\ m \in 1 .. MaxPackets /\ m # 0
        BY <2>3, <4>1
      <4>. HIDE DEF D
      <4>. QED BY <2>1, <4>2 DEF Node, None
    <3>2. PICK f : Solves(f, d - 1)
      <4>. HIDE DEF Solves
      <4>. QED BY <3>1
    <3>3. /\ From(d) = From(d - 1) \cup {m}
          /\ m \notin From(d - 1)
          /\ \A n \in From(d) : n # None /\ nx[n] > n => nx[n] \in From(d - 1)
      BY <2>1, <3>1, PacketBound DEF Node, None, Links
    <3> DEFINE h == [n \in From(d) |-> IF n = m THEN RestAt(nx, f, n) ELSE f[n]]
    <3>4. ASSUME NEW n \in From(d)
          PROVE  h[n] = RestAt(nx, h, n)
      <4>1. h[n] = RestAt(nx, f, n)
        <5>1. CASE n = m
          BY <5>1
        <5>2. CASE n # m
          <6>1. n \in From(d - 1)
            BY <3>3, <5>2
          <6>2. f[n] = RestAt(nx, f, n)
            <7>. HIDE DEF From, RestAt
            <7>. QED BY <3>2, <6>1
          <6>. QED BY <5>2, <6>2
        <5>. QED BY <5>1, <5>2
      <4>2. n # None /\ nx[n] > n => h[nx[n]] = f[nx[n]]
        <5>. HIDE DEF From, RestAt, m
        <5>. QED BY <3>3
      <4>. HIDE DEF h
      <4>. QED BY <4>1, <4>2 DEF RestAt
    <3>5. Solves(h, d)
      <4>1. h = [n \in From(d) |-> h[n]]
        OBVIOUS
      <4>. HIDE DEF h, From
      <4>. QED BY <3>4, <4>1
    <3>. HIDE DEF h, Solves
    <3>. QED BY <2>1, <3>5
  <2>4. d = 0 \/ d > 0
    BY <2>1, PacketBound
  <2>. QED BY <2>2, <2>3, <2>4
<1>2. From(MaxPackets) = NodeOrNone
  BY PacketBound DEF Node, NodeOrNone
<1>3. \E f : Solves(f, MaxPackets)
  <2>. HIDE DEF Solves
  <2>. QED BY <1>1, PacketBound
<1>4. \E f : IsRest(nx, f)
  <2>. HIDE DEF From
  <2>. QED BY <1>2, <1>3 DEF IsRest
<1>. QED BY <1>4, Zenon DEF Rest

LEMMA RestIs ==
  ASSUME NEW nx \in Links, NEW n \in NodeOrNone
  PROVE  Rest(nx)[n] = RestAt(nx, Rest(nx), n)
<1>1. Rest(nx) = [i \in NodeOrNone |-> RestAt(nx, Rest(nx), i)]
  BY RestExists DEF IsRest
<1>. QED BY <1>1, Zenon

Forward(nx) == \A n \in Node : nx[n] # None => nx[n] > n
Closed(nx, S) == \A n \in S : nx[n] # None => nx[n] \in S

\* What is left from the end of the list and from a node before it.
LEMMA RestUnfolds ==
  ASSUME NEW nx \in Links, Forward(nx), NEW n \in Node
  PROVE  /\ Rest(nx)[None] = <<>>
         /\ nx[n] = None => Rest(nx)[n] = <<n>>
         /\ nx[n] # None => Rest(nx)[n] = <<n>> \o Rest(nx)[nx[n]]
<1>1. Rest(nx)[None] = <<>>
  BY RestIs DEF RestAt, NodeOrNone
<1>2. n # None /\ n \in NodeOrNone /\ Rest(nx)[n] = RestAt(nx, Rest(nx), n)
  BY RestIs DEF NodeOrNone, Node, None
<1>3. CASE nx[n] = None
  <2>1. ~(nx[n] > n)
    BY <1>3 DEF Node, None
  <2>2. Rest(nx)[n] = <<n>> \o <<>>
    BY <1>2, <2>1, Zenon DEF RestAt
  <2>3. <<n>> \o <<>> = <<n>>
    OBVIOUS
  <2>. QED BY <1>1, <1>3, <2>2, <2>3
<1>4. CASE nx[n] # None
  <2>1. nx[n] > n
    BY <1>4 DEF Forward
  <2>. QED BY <1>1, <1>2, <1>4, <2>1, Zenon DEF RestAt
<1>. QED BY <1>3, <1>4

LEMMA RestIsSeq ==
  ASSUME NEW nx \in Links, Forward(nx), NEW n \in NodeOrNone
  PROVE  Rest(nx)[n] \in Seq(Node)
<1> DEFINE B == {m \in Node : Rest(nx)[m] \notin Seq(Node)}
<1>1. B = {}
  <2> SUFFICES ASSUME B # {} PROVE FALSE
    OBVIOUS
  <2>1. PICK m \in B : \A l \in B : l <= m
    <3>1. B \subseteq Node
      OBVIOUS
    <3>. HIDE DEF B
    <3>. QED BY <3>1, GreatestNode
  <2>2. CASE nx[m] = None
    <3>1. m \in Node /\ Rest(nx)[m] = <<m>>
      BY <2>1, <2>2, RestUnfolds
    <3>2. <<m>> \in Seq(Node)
      BY <3>1
    <3>. QED BY <2>1, <3>1, <3>2
  <2>3. CASE nx[m] # None
    <3>1. nx[m] \in Node /\ nx[m] > m /\ m \in Node
      BY <2>1, <2>3 DEF Links, Forward
    <3>2. nx[m] \notin B
      <4>1. ~(nx[m] <= m)
        BY <3>1 DEF Node
      <4>. HIDE DEF B
      <4>. QED BY <2>1, <4>1
    <3>3. Rest(nx)[nx[m]] \in Seq(Node)
      BY <3>1, <3>2
    <3>4. Rest(nx)[m] = <<m>> \o Rest(nx)[nx[m]]
      BY <2>3, <3>1, RestUnfolds
    <3>5. <<m>> \o Rest(nx)[nx[m]] \in Seq(Node)
      BY <3>1, <3>3
    <3>. QED BY <2>1, <3>4, <3>5
  <2>. QED BY <2>2, <2>3
<1>2. Rest(nx)[None] = <<>>
  BY RestIs DEF RestAt, NodeOrNone
<1>3. CASE n = None
  <2>1. <<>> \in Seq(Node)
    OBVIOUS
  <2>. QED BY <1>2, <1>3, <2>1
<1>4. CASE n \in Node
  BY <1>1, <1>4
<1>. QED BY <1>3, <1>4 DEF NodeOrNone

\* Two lists with the same links on a set of nodes have the same rest there.
LEMMA SameRest ==
  ASSUME NEW nx \in Links, Forward(nx), NEW nx2 \in Links, Forward(nx2),
         NEW S \in SUBSET Node, Closed(nx, S), \A n \in S : nx2[n] = nx[n]
  PROVE  \A n \in S : Rest(nx2)[n] = Rest(nx)[n]
<1> DEFINE B == {m \in S : Rest(nx2)[m] # Rest(nx)[m]}
<1> SUFFICES ASSUME B # {} PROVE FALSE
  OBVIOUS
<1>1. PICK m \in B : \A l \in B : l <= m
  <2>1. B \subseteq Node
    OBVIOUS
  <2>. HIDE DEF B
  <2>. QED BY <2>1, GreatestNode
<1>2. CASE nx[m] = None
  BY <1>1, <1>2, RestUnfolds
<1>3. CASE nx[m] # None
  <2>1. nx[m] \in S /\ nx[m] \in Node /\ nx[m] > m /\ m \in Node /\ nx2[m] = nx[m]
    BY <1>1, <1>3 DEF Closed, Forward
  <2>2. nx[m] \notin B
    <3>1. ~(nx[m] <= m)
      BY <2>1 DEF Node
    <3>. HIDE DEF B
    <3>. QED BY <1>1, <3>1
  <2>3. Rest(nx2)[nx[m]] = Rest(nx)[nx[m]]
    BY <2>1, <2>2
  <2>4. /\ Rest(nx)[m] = <<m>> \o Rest(nx)[nx[m]]
        /\ Rest(nx2)[m] = <<m>> \o Rest(nx2)[nx[m]]
    BY <1>3, <2>1, RestUnfolds
  <2>. QED BY <1>1, <2>3, <2>4
<1>. QED BY <1>2, <1>3

LEMMA AppendBehind ==
  ASSUME NEW n \in Node, NEW k \in Node, NEW q \in Seq(Node)
  PROVE  /\ <<n>> \o Append(q, k) = Append(<<n>> \o q, k)
         /\ Tail(<<n>> \o q) = q /\ <<n>> \o q # <<>>
  OBVIOUS

\* Linking a node behind the tail appends it to every rest.
LEMMA LinkedRest ==
  ASSUME NEW nx \in Links, Forward(nx), NEW S \in SUBSET Node, Closed(nx, S),
         NEW l \in S, nx[l] = None, \A n \in S : nx[n] = None => n = l,
         NEW k \in Node, nx[k] = None, k > l
  PROVE  \A n \in S : Rest([nx EXCEPT ![l] = k])[n] = Append(Rest(nx)[n], k)
<1> DEFINE nx2 == [nx EXCEPT ![l] = k]
           B == {m \in S : Rest(nx2)[m] # Append(Rest(nx)[m], k)}
<1>1. /\ nx2 \in Links /\ l \in Node /\ nx2[l] = k /\ nx2[k] = None /\ k # None
      /\ \A n \in Node : n # l => nx2[n] = nx[n]
  BY DEF Links, Node, None
<1>2. Forward(nx2)
  BY <1>1 DEF Forward
<1>. HIDE DEF nx2
<1> SUFFICES ASSUME B # {} PROVE FALSE
  BY DEF nx2
<1>3. PICK m \in B : \A i \in B : i <= m
  <2>1. B \subseteq Node
    OBVIOUS
  <2>. HIDE DEF B
  <2>. QED BY <2>1, GreatestNode
<1>4. CASE m = l
  <2>1. Rest(nx)[l] = <<l>> /\ Rest(nx2)[k] = <<k>> /\ Rest(nx2)[l] = <<l>> \o Rest(nx2)[k]
    BY <1>1, <1>2, RestUnfolds
  <2>2. <<l>> \o <<k>> = Append(<<l>>, k)
    BY <1>1
  <2>. QED BY <1>3, <1>4, <2>1, <2>2
<1>5. CASE m # l
  <2>1. m \in Node /\ nx2[m] = nx[m] /\ nx[m] # None
        /\ nx[m] \in S /\ nx[m] \in Node /\ nx[m] > m
    BY <1>1, <1>3, <1>5 DEF Closed, Forward
  <2>2. nx[m] \notin B
    <3>1. ~(nx[m] <= m)
      BY <2>1 DEF Node
    <3>. HIDE DEF B
    <3>. QED BY <1>3, <3>1
  <2>3. Rest(nx2)[nx[m]] = Append(Rest(nx)[nx[m]], k)
    BY <2>1, <2>2
  <2>4. /\ Rest(nx)[m] = <<m>> \o Rest(nx)[nx[m]]
        /\ Rest(nx2)[m] = <<m>> \o Rest(nx2)[nx[m]]
    BY <1>1, <1>2, <2>1, RestUnfolds
  <2>5. Rest(nx)[nx[m]] \in Seq(Node)
    BY <2>1, RestIsSeq DEF NodeOrNone
  <2>6. Rest(nx2)[m] = Append(Rest(nx)[m], k)
    BY <2>1, <2>3, <2>4, <2>5, AppendBehind
  <2>. QED BY <1>3, <2>6
<1>. QED BY <1>4, <1>5

\* A link leads onward, and only the tail has none.
QueueInv ==
  /\ Forward(next)
  /\ \A n \in Queued : next[n] = None => n = last

LEMMA QueuedIsClosed ==
  ASSUME ListInv
  PROVE  /\ Queued \in SUBSET Node /\ Closed(next, Queued)
         /\ first # None => first \in Queued
<1>1. first \in NodeOrNone /\ next \in Links
  BY CapturedAreNodes DEF ListInv, NodeOrNone
<1>2. CASE first = None
  BY <1>2, NothingReached DEF Queued, Closed
<1>3. CASE first \in Node
  BY <1>1, <1>3, ReachedFollows DEF Queued, Closed, Reached, Node, None
<1>. QED BY <1>1, <1>2, <1>3 DEF NodeOrNone

LEMMA QueueKept ==
  ASSUME QueueInv, UNCHANGED listVars
  PROVE  QueueInv' /\ Queue' = Queue
<1>1. UNCHANGED <<first, last, next>>
  BY DEF listVars
<1>2. Queue' = Rest(next')[first']
  BY Zenon DEF Queue, Rest, IsRest, RestAt, NodeOrNone
<1>. QED BY <1>1, <1>2, QueueIsRest DEF QueueInv, Forward, Queued

LEMMA QueueReceives ==
  ASSUME Inv, QueueInv, NEW out \in BOOLEAN, NEW port, NEW c, Receive(out, port, c)
  PROVE  QueueInv' /\ Queue' = Queue
<1> DEFINE k == Len(data) + 1
<1>1. k \in Node /\ k \notin Captured /\ k # None
  BY PacketBound DEF Inv, ListInv, Receive, Node, Captured, None
<1>2. /\ next' = [next EXCEPT ![k] = None] /\ UNCHANGED <<first, last>>
      /\ next \in Links /\ next' \in Links
      /\ \A n \in Node : next'[n] = IF n = k THEN None ELSE next[n]
  BY <1>1 DEF Inv, ListInv, Receive, Links
<1>. HIDE DEF k
<1>3. Queued' = Queued /\ first # k /\ first \in NodeOrNone
  <2>1. /\ first \in NodeOrNone /\ first # k
        /\ \A n \in Node : next[n] # k
    BY <1>1, CapturedAreNodes DEF Inv, ListInv, NodeOrNone
  <2>2. Reached(first, [next EXCEPT ![k] = None]) = Reached(first, next)
    BY <1>1, <1>2, <2>1, FreshNode DEF NodeOrNone
  <2>. QED BY <1>2, <2>1, <2>2 DEF Queued
<1>4. k \notin Queued
  <2>1. Queued \subseteq Node \ {k}
    <3>1. \A m \in Node \ {k} : next[m] # None => next[m] \in Node \ {k}
      BY <1>1, <1>2, CapturedAreNodes DEF Inv, ListInv
    <3>2. first \in Node \ {k} \/ first = None
      BY <1>3 DEF NodeOrNone
    <3>. QED BY <3>1, <3>2, ReachedLeast DEF Queued
  <2>. QED BY <2>1
<1>5. QueueInv'
  <2>1. Forward(next)'
    BY <1>2 DEF QueueInv, Forward
  <2>2. \A n \in Queued : next'[n] = next[n]
    BY <1>2, <1>4 DEF Queued, Reached
  <2>. QED BY <1>2, <1>3, <2>1, <2>2 DEF QueueInv
<1>6. Queue' = Queue
  <2>1. Queue' = Rest(next')[first']
    BY Zenon DEF Queue, Rest, IsRest, RestAt, NodeOrNone
  <2>2. CASE first = None
    <3>1. Rest(next')[None] = <<>> /\ Rest(next)[None] = <<>>
      BY <1>2, RestIs DEF RestAt, NodeOrNone
    <3>. QED BY <1>2, <2>1, <2>2, <3>1, QueueIsRest
  <2>3. CASE first # None
    <3>1. first \in Queued /\ Queued \in SUBSET Node /\ Closed(next, Queued)
      BY <2>3, QueuedIsClosed DEF Inv
    <3>2. Forward(next) /\ Forward(next')
      BY <1>5 DEF QueueInv, Forward
    <3>3. \A n \in Queued : next'[n] = next[n]
      BY <1>2, <1>4, <3>1
    <3>4. Rest(next')[first] = Rest(next)[first]
      BY <1>2, <3>1, <3>2, <3>3, SameRest
    <3>. QED BY <1>2, <2>1, <3>4, QueueIsRest
  <2>. QED BY <2>2, <2>3
<1>. QED BY <1>5, <1>6

LEMMA QueuePuts ==
  ASSUME Inv, QueueInv, thread = "holding", Link(hand)
  PROVE  QueueInv' /\ Fifo!Put(hand)
<1>0. /\ hand \in Node /\ next[hand] = None /\ hand # last /\ next \in Links /\ hand # None
      /\ \A n \in Captured : n <= hand
  BY PacketBound DEF Inv, ListInv, Captured, Node, None
<1>1. Queue' = Rest(next')[first']
  BY Zenon DEF Queue, Rest, IsRest, RestAt, NodeOrNone
<1>2. CASE first = None
  <2>1. first' = hand /\ last' = hand /\ next' = next
    BY <1>2 DEF Link, Inv, ListInv, TailIsLive
  <2>2. Queued' = {hand}
    BY <1>0, <2>1, LinkedAlone DEF Queued
  <2>3. QueueInv'
    BY <2>1, <2>2 DEF QueueInv, Forward
  <2>4. Queue = <<>> /\ Queue' = <<hand>>
    <3>1. Rest(next)[None] = <<>> /\ Rest(next)[hand] = <<hand>>
      BY <1>0, RestUnfolds DEF QueueInv
    <3>. QED BY <1>1, <1>2, <2>1, <3>1, QueueIsRest
  <2>5. Append(<<>>, hand) = <<hand>>
    OBVIOUS
  <2>. QED BY <2>3, <2>4, <2>5 DEF Fifo!Put
<1>3. CASE first # None
  <2>1. first \in Queued /\ Queued \in SUBSET Node /\ Closed(next, Queued)
    BY <1>3, QueuedIsClosed DEF Inv
  <2>2. last \in Queued /\ last \in Node /\ next[last] = None /\ last # None /\ hand > last
    <3>1. last \in Queued /\ next[last] = None
      BY <1>3 DEF Inv, ListInv, TailIsLive
    <3>2. last \in Captured /\ last \in Node /\ last # None
      BY <2>1, <3>1 DEF Inv, ListInv, Node, None
    <3>3. last <= hand /\ last # hand
      BY <1>0, <3>2
    <3>. QED BY <1>0, <3>1, <3>2, <3>3, PacketBound DEF Node
  <2>3. next' = [next EXCEPT ![last] = hand] /\ first' = first /\ last' = hand
    BY <1>3, <2>2 DEF Link
  <2>4. /\ next'[last] = hand
        /\ \A n \in Node : n # last => next'[n] = next[n]
    BY <1>0, <2>2, <2>3 DEF Links
  <2>5. Queued' \subseteq Queued \cup {hand}
    <3>1. first \in Node /\ last \in Reached(first, next)
      BY <2>1, <2>2 DEF Queued
    <3>2. Queued' = Reached(first, [next EXCEPT ![last] = hand])
      BY <2>3 DEF Queued
    <3>. QED BY <1>0, <2>2, <3>1, <3>2, LinkedNode DEF Queued
  <2>6. QueueInv'
    <3>1. Forward(next)'
      BY <1>0, <2>2, <2>4 DEF QueueInv, Forward
    <3>2. ASSUME NEW n \in Queued', next'[n] = None
          PROVE  n = last'
      BY <1>0, <2>1, <2>2, <2>3, <2>4, <2>5, <3>2 DEF QueueInv
    <3>. QED BY <3>1, <3>2 DEF QueueInv
  <2>7. Rest([next EXCEPT ![last] = hand])[first] = Append(Rest(next)[first], hand)
    BY <1>0, <2>1, <2>2, LinkedRest DEF QueueInv
  <2>8. Queue' = Append(Queue, hand)
    BY <1>1, <2>3, <2>7, QueueIsRest
  <2>. QED BY <2>6, <2>8 DEF Fifo!Put
<1>. QED BY <1>2, <1>3

LEMMA QueueTakes ==
  ASSUME Inv, QueueInv, getPacket
  PROVE  QueueInv' /\ Fifo!Take
<1>0. /\ first \in Node /\ first # None /\ next \in Links /\ next' = next /\ first' = next[first]
      /\ last' = IF next[first] = None THEN None ELSE last
  BY CapturedAreNodes DEF Inv, ListInv, getPacket, Unlink
<1>1. QueueInv'
  <2>1. CASE next[first] = None
    <3>1. Queued' = {}
      BY <1>0, <2>1, NothingReached DEF Queued
    <3>. QED BY <1>0, <3>1 DEF QueueInv, Forward
  <2>2. CASE next[first] # None
    <3>1. Queued' \subseteq Queued /\ last' = last
      BY <1>0, <2>2, UnlinkedNode DEF Queued
    <3>. QED BY <1>0, <3>1 DEF QueueInv, Forward
  <2>. QED BY <2>1, <2>2
<1>2. Queue' = Rest(next')[first']
  BY Zenon DEF Queue, Rest, IsRest, RestAt, NodeOrNone
<1>3. Rest(next)[next[first]] \in Seq(Node)
  BY <1>0, RestIsSeq DEF QueueInv, Links, NodeOrNone
<1>4. Queue = <<first>> \o Rest(next)[next[first]]
  <2>1. CASE next[first] = None
    <3>1. Rest(next)[first] = <<first>> /\ Rest(next)[None] = <<>>
      BY <1>0, <2>1, RestUnfolds DEF QueueInv
    <3>2. <<first>> \o <<>> = <<first>>
      OBVIOUS
    <3>. QED BY <2>1, <3>1, <3>2, QueueIsRest
  <2>2. CASE next[first] # None
    BY <1>0, <2>2, RestUnfolds, QueueIsRest DEF QueueInv
  <2>. QED BY <2>1, <2>2
<1>5. Queue # <<>> /\ Queue' = Tail(Queue)
  <2>1. /\ Tail(<<first>> \o Rest(next)[next[first]]) = Rest(next)[next[first]]
        /\ <<first>> \o Rest(next)[next[first]] # <<>>
    BY <1>0, <1>3, AppendBehind
  <2>. QED BY <1>0, <1>2, <1>4, <2>1
<1>. QED BY <1>1, <1>5 DEF Fifo!Take

LEMMA QueueDrops ==
  ASSUME Inv, QueueInv, first' = None, last' = None, next' = next
  PROVE  QueueInv' /\ Fifo!DropAll
<1>1. Queued' = {}
  BY NothingReached DEF Queued
<1>2. QueueInv'
  BY <1>1 DEF QueueInv, Forward
<1>3. Queue' = Rest(next')[first']
  BY Zenon DEF Queue, Rest, IsRest, RestAt, NodeOrNone
<1>4. Rest(next)[None] = <<>>
  BY RestIs DEF RestAt, NodeOrNone, Inv, ListInv
<1>. QED BY <1>2, <1>3, <1>4 DEF Fifo!DropAll

FifoStep == (\E p \in Node : Fifo!Put(p)) \/ Fifo!Take \/ Fifo!DropAll

LEMMA QueueStep ==
  ASSUME Inv, QueueInv, [Next]_vars
  PROVE  QueueInv' /\ [FifoStep]_Queue
<1>1. ASSUME NEW out \in BOOLEAN, NEW port \in {"world", "zone", "chat"}, NEW c \in Clients,
             Receive(out, port, c)
      PROVE  QueueInv' /\ Queue' = Queue
  BY <1>1, QueueReceives
<1>2. CASE packetCallBack
  <2>1. CASE closed
    BY <1>2, <2>1, QueueKept DEF packetCallBack
  <2>2. CASE ~closed
    <3>1. QueueInv' /\ Fifo!Put(hand)
      BY <1>2, <2>2, QueuePuts DEF packetCallBack
    <3>2. hand \in Node
      BY <1>2, CapturedAreNodes DEF packetCallBack, Inv, ListInv
    <3>. QED BY <3>1, <3>2 DEF FifoStep
  <2>. QED BY <2>1, <2>2
<1>3. CASE processPacket
  BY <1>3, QueueTakes DEF processPacket, FifoStep
<1>4. CASE Restart
  BY <1>4, QueueDrops DEF Restart, start, EmptiesList, FifoStep
<1>5. CASE Destroy
  BY <1>5, QueueDrops DEF Destroy, destroyProvider, FifoStep
<1>6. CASE \/ LoopReturns \/ Tick \/ Drained \/ Close \/ Break \/ Quit \/ CloseHandle
           \/ \E host \in Hosts : monitorClient(host)
           \/ \E dev \in Devices : monitorDevice(dev)
  <2>1. UNCHANGED listVars
    BY <1>6 DEF LoopReturns, Tick, Drained, Close, Break, Quit, CloseHandle, monitorClient,
                monitorDevice, stopMarkClosed, stopBreak, stopJoinAndClose, setFilter,
                captureVars
  <2>. QED BY <2>1, QueueKept
<1>7. CASE UNCHANGED vars
  <2>1. UNCHANGED listVars
    BY <1>7 DEF vars, captureVars
  <2>. QED BY <2>1, QueueKept
<1>. QED BY <1>1, <1>2, <1>3, <1>4, <1>5, <1>6, <1>7 DEF Next, CaptureThread, EventLoop

LEMMA QueueInitially == Init => QueueInv /\ Fifo!Init
<1> SUFFICES ASSUME Init PROVE QueueInv /\ Fifo!Init
  OBVIOUS
<1>1. first = None /\ next = [n \in Node |-> None] /\ next \in Links
  BY DEF Init, CaptureInit, StartedOn, Links
<1>2. QueueInv
  BY <1>1, NothingReached DEF QueueInv, Forward, Queued
<1>3. Rest(next)[None] = <<>>
  BY <1>1, RestIs DEF RestAt, NodeOrNone
<1>. QED BY <1>1, <1>2, <1>3, QueueIsRest DEF Fifo!Init

-----------------------------------------------------------------------------

(* packetCallBack always writes through m_pcache_last into a node that is  *)
(* still in the list, whatever getPacket, start and the destructor did     *)
(* between the packet's arrival and the callback's turn at the mutex.      *)
THEOREM TailStaysLive == Spec => []TailIsLive
<1>1. Inv => TailIsLive
  BY DEF Inv, ListInv
<1>. QED BY <1>1, InvHolds, PTL

(* However often the device and the client change while packets arrive:    *)
(* pcap_close never comes under a running pcap_loop, and every slot of the *)
(* event loop starts and ends with a capture that goes on, on the chosen   *)
(* device, with an open list and a filter the client's packets pass.       *)
THEOREM CaptureStaysOn == Spec => []CaptureGoesOn
<1>1. Inv => CaptureGoesOn
  BY DEF Inv, DeviceInv, ClientInv, CaptureGoesOn
<1>. QED BY <1>1, InvHolds, PTL

(* Once monitorDevice has returned, nothing captured on the device before  *)
(* is queued or in a stream, nor is it in the capture thread's hand.       *)
THEOREM DevicesDoNotMix == Spec => []OneDevice
<1>1. Inv => OneDevice
  <2> SUFFICES ASSUME Inv, main \in {"idle", "draining"},
                      NEW n \in Queued \cup Dispatched
               PROVE  data[n].dev = device
    BY DEF OneDevice, Dispatched
  <2>. QED BY NoneIsNoDevice DEF Inv, DeviceInv, OfDevice
<1>. QED BY <1>1, InvHolds, PTL

(* dispatchPacket hands a packet to a client-to-server stream only when it *)
(* left the monitored client, and monitorClient and monitorDevice empty    *)
(* the streams whenever they change who that is.                           *)
THEOREM ClientsDoNotMix == Spec => []ClientStreamsAreTheClients
<1>1. Inv => ClientStreamsAreTheClients
  BY DEF Inv, ClientInv
<1>. QED BY <1>1, InvHolds, PTL

(* The nodes that packetCallBack links and getPacket unlinks are handed to *)
(* the event loop in the order of their capture, each once and none in     *)
(* between left out, unless start or the destructor drops all of them.     *)
THEOREM ListIsFifo == Spec => QueueIsFifo
<1>1. Inv /\ QueueInv /\ [Next]_vars => QueueInv' /\ [FifoStep]_Queue
  BY QueueStep
<1>2. [FifoStep]_Queue => [(\E p \in Node : Fifo!Put(p)) \/ Fifo!Take \/ Fifo!DropAll]_Queue
  BY DEF FifoStep
<1>. QED BY <1>1, <1>2, QueueInitially, InvHolds, PTL DEF Spec, QueueIsFifo, Fifo!Spec
=============================================================================
