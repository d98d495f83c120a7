------------------------------ MODULE EQPacket ------------------------------
(***************************************************************************)
(* EQPacket on a live capture: the timer that empties the capture queue,   *)
(* the detection of the client, the routing of each packet to one of four  *)
(* streams, and the two preferences that redirect the capture while its    *)
(* thread runs.  A stream is the set of the packets it has handled since   *)
(* its last reset.  The event loop is one thread: a slot runs to its end,  *)
(* but the capture thread goes on between two of its steps.                *)
(***************************************************************************)
EXTENDS PacketCapture

CONSTANT InitialHost,       \* the IP preference at startup
         Hosts              \* the hosts a preference update may name

StreamID == {"client2world", "world2client", "client2zone", "zone2client"}

VARIABLES main,             \* where the event loop is
          quitting,         \* the stop() in progress is the destructor's
          busy,             \* m_busy_decoding
          device,           \* m_device
          client,           \* m_ip and m_client_addr, which change together
          detecting,        \* m_detectingClient
          streams

eqVars == <<device, client, detecting, streams>>
loopVars == <<quitting, busy>>
vars == <<captureVars, main, loopVars, eqVars>>

TypeOK == /\ CaptureTypeOK
          /\ main \in {"idle", "draining", "closing", "breaking", "joining", "closed", "gone"}
          /\ {quitting, busy} \subseteq BOOLEAN
          /\ device \in Devices
          /\ client \in Clients \cup {AutoIP}
          /\ detecting \in BOOLEAN
          /\ streams \in [StreamID -> SUBSET Node]

NoPackets == [s \in StreamID |-> {}]

\* Mutant: only the streams of the world server are reset.
WorldReset == [s \in StreamID |->
                 IF s \in {"client2world", "world2client"} THEN {} ELSE streams[s]]
resetEQPacket == NoPackets

Init == \E dev \in Devices :
          /\ CaptureInit(dev, InitialHost)
          /\ main = "idle" /\ quitting = FALSE /\ busy = FALSE
          /\ device = dev
          /\ client = InitialHost
          /\ detecting = (InitialHost = AutoIP)
          /\ streams = NoPackets

-----------------------------------------------------------------------------
(* processPackets: from a timer tick until getPacket returns nothing. *)

Tick == /\ main = "idle" /\ ~busy
        /\ main' = "draining" /\ busy' = TRUE
        /\ UNCHANGED <<captureVars, quitting, eqVars>>

\* Mutant: the decoding flag is not cleared on the way out.
DrainedBusy == /\ main = "draining" /\ first = None
               /\ main' = "idle" /\ busy' = TRUE
               /\ UNCHANGED <<captureVars, quitting, eqVars>>
Drained == /\ main = "draining" /\ first = None
           /\ main' = "idle" /\ busy' = FALSE
           /\ UNCHANGED <<captureVars, quitting, eqVars>>

\* World-server traffic names the client; the address at the other end of
\* the world server's port is the client's, whichever way the packet goes.
Detects(p) == detecting /\ p.port = "world"
ClientAfter(p) == IF Detects(p) THEN p.client ELSE client

FromClient(p) == p.out /\ p.client = ClientAfter(p)
StreamOf(p) == CASE p.port = "world" -> IF FromClient(p) THEN "client2world" ELSE "world2client"
                 [] p.port = "zone"  -> IF FromClient(p) THEN "client2zone"  ELSE "zone2client"

dispatchPacket(n) ==
  LET p == data[n]
  IN  /\ client' = ClientAfter(p)
      /\ detecting' = (detecting /\ ~Detects(p))
      /\ streams' = IF p.port = "chat" THEN streams
                    ELSE [streams EXCEPT ![StreamOf(p)] = @ \cup {n}]

processPacket == /\ main = "draining"
                 /\ getPacket
                 /\ dispatchPacket(first)
                 /\ UNCHANGED <<main, loopVars, device>>

-----------------------------------------------------------------------------
(* The preferences.  PrefsBroker calls them from a WebSocket slot.  An     *)
(* empty address or AutoIP asks for the next client.                         *)

monitorClient(host) ==
  /\ main = "idle"
  /\ client' = host
  /\ detecting' = (host = AutoIP)
  /\ streams' = resetEQPacket
  /\ setFilter(host)
  /\ UNCHANGED <<main, loopVars, device>>

monitorDevice(dev) ==
  /\ main = "idle"
  /\ device' = dev
  /\ main' = "closing"
  /\ UNCHANGED <<captureVars, loopVars, client, detecting, streams>>

Close == /\ main = "closing"
         /\ stopMarkClosed
         /\ main' = "breaking"
         /\ UNCHANGED <<loopVars, eqVars>>

Break == /\ main = "breaking"
         /\ stopBreak
         /\ main' = "joining"
         /\ UNCHANGED <<loopVars, eqVars>>

CloseHandle == /\ main = "joining"
               /\ stopJoinAndClose
               /\ main' = "closed"
               /\ UNCHANGED <<loopVars, eqVars>>

\* stop() has returned, and monitorDevice goes on: validateIP, the reset, and
\* the capture on the new device.
Restart == /\ main = "closed" /\ ~quitting
           /\ detecting' = (client = AutoIP)
           /\ streams' = resetEQPacket
           /\ start(device, client)
           /\ main' = "idle"
           /\ UNCHANGED <<loopVars, device, client>>

\* The destructor: stop(), then delete m_packetCapture, whose own stop()
\* finds no handle, and resetEQPacket.
Quit == /\ main = "idle"
        /\ quitting' = TRUE
        /\ main' = "closing"
        /\ UNCHANGED <<captureVars, busy, eqVars>>

Destroy == /\ main = "closed" /\ quitting
           /\ destroyProvider
           /\ streams' = resetEQPacket
           /\ main' = "gone"
           /\ UNCHANGED <<loopVars, device, client, detecting>>

-----------------------------------------------------------------------------

CaptureThread ==
  \/ \E out \in BOOLEAN, port \in {"world", "zone", "chat"}, c \in Clients :
        Receive(out, port, c)
  \/ packetCallBack
  \/ LoopReturns

EventLoop ==
  \/ Tick \/ processPacket \/ Drained
  \/ \E host \in Hosts : monitorClient(host)
  \/ \E dev \in Devices : monitorDevice(dev)
  \/ Close \/ Break \/ CloseHandle \/ Restart
  \/ Quit \/ Destroy

Next == \/ CaptureThread /\ UNCHANGED <<main, loopVars, eqVars>>
        \/ EventLoop

Spec == Init /\ [][Next]_vars

(* The event loop serves its timer and finishes the slot it is in, and the *)
(* capture thread finishes its callback and sees the broken loop.  Nobody  *)
(* has to send a packet, change a preference or quit.                      *)
Fairness ==
  /\ WF_vars(Tick \/ processPacket \/ Drained)
  /\ WF_vars(Close \/ Break \/ CloseHandle \/ Restart \/ Destroy)
  /\ WF_vars((packetCallBack \/ LoopReturns) /\ UNCHANGED <<main, loopVars, eqVars>>)

FairSpec == Spec /\ Fairness

-----------------------------------------------------------------------------

(* The handle is open as long as the thread is in pcap_loop on it, and     *)
(* whenever the event loop is not in the middle of stop(), the capture     *)
(* goes on: the thread runs on the chosen device, its loop unbroken, its   *)
(* list open, behind a filter that lets the monitored client's packets     *)
(* through, whatever changes of device and client came before.             *)
CaptureGoesOn ==
  /\ HandleOutlivesLoop
  /\ main \in {"idle", "draining"} =>
       /\ thread \in {"reading", "holding"} /\ ~broken /\ ~closed
       /\ pcap = device /\ filter \in {client, AutoIP}

(* After a change of device nothing captured on the old one is queued or   *)
(* handed to a stream: monitorDevice stops and joins the thread, empties   *)
(* the list and resets the streams before the event loop goes on.          *)
OneDevice ==
  main \in {"idle", "draining"} =>
    \A n \in Queued \cup UNION {streams[s] : s \in StreamID} : data[n].dev = device

(* What the client-to-server streams hold is the monitored client's own    *)
(* traffic: the address changes only together with a reset, or on a        *)
(* detection, before which no packet can match it.                         *)
ClientStreamsAreTheClients ==
  \A n \in streams["client2world"] \cup streams["client2zone"] :
     data[n].client = client /\ data[n].out

\* Not so today: what was queued under the old filter is dispatched, after
\* the address changed, as traffic of the server.
(* "we know the rest is an IP udp packet concerning the host in question,  *)
(* because pcap takes care of that" (packet.cpp:422): with a host in       *)
(* question, every packet handed on is its own.                            *)
PcapTakesCare ==
  client # AutoIP =>
    \A n \in UNION {streams[s] : s \in StreamID} : data[n].client = client

(* A captured packet does not stay in the queue: the timer drains it, or a *)
(* restart of the capture drops it.                                        *)
QueuedIsServed == \A n \in Node : n \in Queued ~> n \notin Queued

(* stop() returns: the broken loop ends and the join succeeds, whatever    *)
(* the thread was doing.                                                   *)
StopReturns == main = "closing" ~> main \in {"idle", "gone"}
=============================================================================
