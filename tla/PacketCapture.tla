---------------------------- MODULE PacketCapture ----------------------------
(***************************************************************************)
(* PacketCaptureThread: the pcap handle, the thread that runs pcap_loop on *)
(* it, and the linked list of packets the two threads share under          *)
(* m_pcache_mutex.  A critical section is one action.  A packet is its     *)
(* serial number, which is also the node of the list that carries it.      *)
(* libpcap, as the code uses it: the loop hands the callback packets that  *)
(* pass the filter, and pcap_breakloop makes it return, blocked or not.    *)
(***************************************************************************)
EXTENDS Naturals, Sequences
CONSTANTS Devices, Clients, AutoIP, MaxPackets
ASSUME AutoIsNoClient == AutoIP \notin Clients
ASSUME PacketBound == MaxPackets \in Nat

Node == 1 .. MaxPackets
None == 0
ASSUME NoneIsNoDevice == None \notin Devices

\* What the rest of the daemon tells apart: where the packet was captured,
\* whose it is, whether the client sent it, and its kind of port.
Packet == [dev : Devices, client : Clients, out : BOOLEAN,
           port : {"world", "zone", "chat"}]

VARIABLES pcap,             \* m_pcache_pcap: None, or the device it is open on
          filter,           \* the host of the installed filter
          broken,           \* pcap_breakloop was called on the handle
          thread, hand,     \* the capture thread, and the packet it holds
          closed,           \* m_pcache_closed
          first, last, next,\* m_pcache_first, m_pcache_last, packetCache::next
          data              \* what was captured so far

pcapVars == <<pcap, filter, broken>>
threadVars == <<thread, hand>>
listVars == <<first, last, next>>
captureVars == <<pcapVars, threadVars, closed, listVars, data>>

CaptureTypeOK ==
  /\ pcap \in Devices \cup {None}
  /\ filter \in Clients \cup {AutoIP}
  /\ broken \in BOOLEAN /\ closed \in BOOLEAN
  /\ thread \in {"none", "reading", "holding", "exited"}
  /\ hand \in Node \cup {None}
  /\ {first, last} \subseteq Node \cup {None}
  /\ next \in [Node -> Node \cup {None}]
  /\ data \in Seq(Packet) /\ Len(data) <= MaxPackets

StartedOn(dev, host) ==
  /\ pcap = dev /\ filter = host /\ broken = FALSE
  /\ thread = "reading" /\ hand = None
  /\ closed = FALSE
  /\ first = None /\ last = None

CaptureInit(dev, host) == /\ StartedOn(dev, host)
                          /\ next = [n \in Node |-> None]
                          /\ data = <<>>

-----------------------------------------------------------------------------
(* The capture thread. *)

Receive(out, port, host) ==
  /\ thread = "reading" /\ ~broken
  /\ filter \in {host, AutoIP}
  /\ Len(data) < MaxPackets
  /\ data' = Append(data, [dev |-> pcap, client |-> host, out |-> out, port |-> port])
  /\ hand' = Len(data) + 1
  /\ thread' = "holding"
  /\ next' = [next EXCEPT ![Len(data) + 1] = None]
  /\ UNCHANGED <<pcapVars, closed, first, last>>

\* Mutant: the new node always becomes the head.
LinkAtHead(pc) ==
  /\ next' = IF last # None THEN [next EXCEPT ![last] = pc] ELSE next
  /\ last' = pc
  /\ first' = pc
Link(pc) ==
  /\ next' = IF last # None THEN [next EXCEPT ![last] = pc] ELSE next
  /\ last' = pc
  /\ first' = IF first = None THEN pc ELSE first

packetCallBack ==
  /\ thread = "holding"
  /\ IF closed THEN UNCHANGED listVars ELSE Link(hand)
  /\ thread' = "reading" /\ hand' = None
  /\ UNCHANGED <<pcapVars, closed, data>>

LoopReturns ==
  /\ thread = "reading" /\ broken
  /\ thread' = "exited"
  /\ UNCHANGED <<pcapVars, hand, closed, listVars, data>>

-----------------------------------------------------------------------------
(* The calls the event loop makes. *)

\* Mutant: the tail is left pointing at the node that was handed out.
UnlinkHeadOnly == /\ first' = next[first]
                  /\ last' = last
Unlink == /\ first' = next[first]
          /\ last' = IF next[first] = None THEN None ELSE last

getPacket ==
  /\ first # None
  /\ Unlink
  /\ UNCHANGED <<pcapVars, threadVars, closed, next, data>>

stopMarkClosed == /\ closed' = TRUE
                  /\ UNCHANGED <<pcapVars, threadVars, listVars, data>>

\* Mutant: the thread is left to find out by itself.
NoBreak == UNCHANGED <<captureVars>>
stopBreak == /\ broken' = TRUE
             /\ UNCHANGED <<pcap, filter, threadVars, closed, listVars, data>>

Joined == thread = "exited"

stopJoinAndClose ==
  /\ Joined
  /\ pcap' = None
  /\ UNCHANGED <<filter, broken, threadVars, closed, listVars, data>>

\* Mutant: the packets of the last capture stay in the list.
KeepsList == UNCHANGED <<first, last>>
EmptiesList == first' = None /\ last' = None

\* Mutant: the list stays closed, and the new capture's packets are dropped.
OpenedClosed(dev) == pcap' = dev /\ broken' = FALSE /\ closed' = closed
Opened(dev) == pcap' = dev /\ broken' = FALSE /\ closed' = FALSE

\* setFilter comes before pthread_create, so the new thread never sees the
\* handle without its filter.
start(dev, host) ==
  /\ Opened(dev)
  /\ EmptiesList
  /\ filter' = host
  /\ thread' = "reading" /\ hand' = None
  /\ UNCHANGED <<next, data>>

setFilter(host) ==
  /\ filter' = host
  /\ UNCHANGED <<pcap, broken, threadVars, closed, listVars, data>>

\* The provider's destructor: stop() has run, and what is queued is freed.
destroyProvider ==
  /\ pcap = None
  /\ thread' = "none"
  /\ first' = None /\ last' = None
  /\ closed' = TRUE
  /\ UNCHANGED <<pcapVars, hand, next, data>>

-----------------------------------------------------------------------------

\* The nodes that can be reached from the head.
Reached(head, nx) ==
  {n \in Node : head # None /\ \A S \in SUBSET Node :
     head \in S /\ (\A m \in S : nx[m] # None => nx[m] \in S) => n \in S}
Queued == Reached(first, next)

\* The list as the sequence it stands for: f[n] is what is left from node n,
\* and a node is always linked after one that was captured earlier.
Queue == LET f[n \in Node \cup {None}] ==
               IF n = None THEN <<>>
               ELSE <<n>> \o (IF next[n] > n THEN f[next[n]] ELSE <<>>)
         IN  f[first]

Fifo == INSTANCE PacketFifo WITH Packets <- Node, queue <- Queue

(* The list of nodes behaves as the queue of PacketFifo whatever the two   *)
(* threads interleave (packetCallBack, getPacket, start).                  *)
QueueIsFifo == Fifo!Spec

(* The tail is always the end of the list, never a node already handed out *)
(* and freed: packetCallBack writes through m_pcache_last.                 *)
TailIsLive ==
  IF first = None THEN last = None
                  ELSE last \in Queued /\ next[last] = None

(* pcap_close is never called under a thread that is still in pcap_loop:   *)
(* stop() joins first.                                                     *)
HandleOutlivesLoop == thread \in {"reading", "holding"} => pcap # None
=============================================================================
