----------------------------- MODULE WsSessions -----------------------------
(***************************************************************************)
(* The sessions end to end: the broker (WsServer), the output of every     *)
(* session (SessionAdapter), the state managers that feed them all, the    *)
(* connections, and the web clients.                                       *)
(*                                                                         *)
(* The client is outside the repository. It is what the daemon's comments  *)
(* expect of one: it keys items by id, ignores an update of an item it     *)
(* does not have, clears its items on a zone change, takes its session id  *)
(* from the snapshot, and compares each sequence number with the last one  *)
(* to see a gap (WsServer::resumeSession). A gap is healed by a snapshot.  *)
(***************************************************************************)
EXTENDS WsServer, SessionAdapter

CONSTANTS Client, MaxSeq   \* MaxSeq bounds the envelopes of one session

ASSUME SeqAssumption == MaxSeq \in Nat

VARIABLES
  world,     \* the items the state managers hold
  adapter,   \* adapter[id]: the SessionAdapter of a live session
  wire,      \* wire[k]: frames sent on socket k and not yet received
  client,    \* client[c]: what the client knows
  synced     \* history: the clients that received a snapshot of the
             \*   session object that now has the id

vars == <<wsVars, world, adapter, wire, client, synced>>

Empty == [x \in Item |-> 0]

NewClient ==
  [sock |-> NoSock, sid |-> NoId, last |-> 0, view |-> Empty, gap |-> FALSE]

Init ==
  /\ WsInit
  /\ world = Empty
  /\ adapter = [id \in SessionId |-> NewAdapter]
  /\ wire = [k \in Sock |-> <<>>]
  /\ client = [c \in Client |-> NewClient]
  /\ synced = [id \in SessionId |-> {}]

-----------------------------------------------------------------------------
(* The client, as the daemon's comments describe it.                       *)

Apply(view, body) ==
  CASE body.kind = "snapshot" -> body.view
    [] body.kind = "added"    -> [view EXCEPT ![body.item] = body.version]
    [] body.kind = "updated"  -> IF view[body.item] = 0 THEN view
                                 ELSE [view EXCEPT ![body.item] = body.version]
    [] body.kind = "removed"  -> [view EXCEPT ![body.item] = 0]
    [] body.kind = "zone"     -> Empty
    [] OTHER                  -> view

Received(cl, frame) ==
  [cl EXCEPT !.last = frame.seq,
             !.view = Apply(@, frame.body),
             !.gap  = frame.body.kind # "snapshot" /\ (@ \/ frame.seq # cl.last + 1)]

(* The client once it has received all that is under way.                  *)
CaughtUp(c) ==
  LET frames == wire[client[c].sock]
      after[n \in 0 .. Len(frames)] ==
        IF n = 0 THEN client[c] ELSE Received(after[n - 1], frames[n])
  IN  after[Len(frames)]

-----------------------------------------------------------------------------
(* The state managers signal every session at once.                        *)

(* Mutant: a detached session does not hear the managers.                  *)
HearsIfAttached(id) == id \in live /\ sockOf[id] # NoSock

Hears(id) == id \in live

Sending(k) == conn[k] = "up" /\ bind[k] # NoId

Broadcast(body) ==
  /\ \A id \in live : adapter[id].seq < MaxSeq
  /\ adapter' = [id \in SessionId |->
                   IF Hears(id) THEN emitEnvelope(adapter[id], body) ELSE adapter[id]]
  /\ wire' = [k \in Sock |->
                IF Sending(k)
                THEN Append(wire[k], Frame(adapter[bind[k]].seq + 1, body))
                ELSE wire[k]]
  /\ UNCHANGED <<wsVars, client, synced>>

onAddItem(x) ==
  /\ world[x] = 0
  /\ world' = [world EXCEPT ![x] = 1]
  /\ Broadcast(Added(x, 1))

onDelItem(x) ==
  /\ world[x] # 0
  /\ world' = [world EXCEPT ![x] = 0]
  /\ Broadcast(Removed(x))

(* A change of position, HP or name; a full or filter change goes out as   *)
(* an added item.                                                          *)
onChangeItem(x, full) ==
  /\ world[x] # 0
  /\ world' = [world EXCEPT ![x] = 3 - @]
  /\ Broadcast(IF full THEN Added(x, 3 - world[x]) ELSE Updated(x, 3 - world[x]))

(* SpawnShell::clear runs on the same signal, before the handler.          *)
onZoneBegin ==
  /\ world' = Empty
  /\ Broadcast(ZoneChanged)

onPlayerIdChanged ==
  /\ UNCHANGED world
  /\ Broadcast(Snapshot(world))

(* A reply to one client (the device list): only its session numbers it.   *)
sendReply(id) ==
  /\ id \in live
  /\ sockOf[id] # NoSock
  /\ Sending(sockOf[id])
  /\ adapter[id].seq < MaxSeq
  /\ adapter' = [adapter EXCEPT ![id] = emitEnvelope(@, Other)]
  /\ wire' = [wire EXCEPT ![sockOf[id]] = Append(@, Frame(adapter[id].seq + 1, Other))]
  /\ UNCHANGED <<wsVars, world, client, synced>>

ManagerStep ==
  \/ \E x \in Item :
       \/ onAddItem(x)
       \/ onDelItem(x)
       \/ \E full \in BOOLEAN : onChangeItem(x, full)
  \/ onZoneBegin
  \/ onPlayerIdChanged
  \/ \E id \in SessionId : sendReply(id)

-----------------------------------------------------------------------------
(* Connections.                                                            *)

Connect(c, k) ==
  /\ client[c].sock = NoSock
  /\ onNewConnection(k)
  /\ client' = [client EXCEPT ![c].sock = k]
  /\ UNCHANGED <<world, adapter, wire, synced>>

(* The connection is lost, or the client closes it: what was under way is  *)
(* gone, and the server does not know yet.                                 *)
Lose(c) ==
  /\ client[c].sock # NoSock
  /\ Disconnect(client[c].sock)
  /\ client' = [client EXCEPT ![c].sock = NoSock]
  /\ wire' = [wire EXCEPT ![client[c].sock] = <<>>]
  /\ UNCHANGED <<world, adapter, synced>>

SendBadFrame(c) ==
  /\ client[c].sock # NoSock
  /\ RejectFirstFrame(client[c].sock)
  /\ client' = [client EXCEPT ![c].sock = NoSock]
  /\ UNCHANGED <<world, adapter, wire, synced>>

(* The client asks for the session it remembers, or for none.              *)
Resume(c) ==
  LET k == client[c].sock
      id == client[c].sid
  IN  /\ k # NoSock
      /\ SubscribeResume(k, id)
      /\ wire' = [wire EXCEPT ![k] = replaySince(adapter[id], client[c].last)]
      /\ UNCHANGED <<world, adapter, client, synced>>

(* A generated id is one nobody has or remembers.                          *)
StartSession(c, wanted, id) ==
  LET k == client[c].sock
  IN  /\ k # NoSock
      /\ wanted \in {NoId, client[c].sid}
      /\ SubscribeFresh(k, wanted, id)
      /\ id # wanted => \A d \in Client : client[d].sid # id
      /\ adapter' = [adapter EXCEPT ![id] = startStreaming(world)]
      /\ wire' = [wire EXCEPT ![k] = FirstFrames(world)]
      /\ synced' = [synced EXCEPT ![id] = {}]
      /\ client' = [client EXCEPT ![c].sid = IF wanted = id THEN id ELSE @]
      /\ UNCHANGED world

Receive(c) ==
  LET k == client[c].sock
  IN  /\ k # NoSock
      /\ wire[k] # <<>>
      /\ wire' = [wire EXCEPT ![k] = Tail(@)]
      /\ LET frame == Head(wire[k])
             snap  == frame.body.kind = "snapshot"
             id    == bind[k]
         IN  /\ client' = [client EXCEPT
                  ![c] = [Received(client[c], frame) EXCEPT !.sid = IF snap THEN id ELSE @]]
             /\ synced' = IF snap THEN [synced EXCEPT ![id] = @ \cup {c}] ELSE synced
      /\ UNCHANGED <<wsVars, world, adapter>>

ClientStep(c) ==
  \/ \E k \in Sock : Connect(c, k)
  \/ Lose(c)
  \/ SendBadFrame(c)
  \/ Resume(c)
  \/ \E wanted \in SessionId \cup {NoId}, id \in SessionId : StartSession(c, wanted, id)
  \/ Receive(c)

ReportLost(k) ==
  /\ SocketGone(k)
  /\ UNCHANGED <<world, adapter, wire, client, synced>>

Prune(id) ==
  /\ pruneSession(id)
  /\ adapter' = [adapter EXCEPT ![id] = IF id \in live' THEN @ ELSE NewAdapter]
  /\ UNCHANGED <<world, wire, client, synced>>

TimePasses ==
  /\ Tick
  /\ adapter' = [id \in SessionId |-> Aged(adapter[id])]
  /\ UNCHANGED <<world, wire, client, synced>>

Next ==
  \/ ManagerStep
  \/ \E c \in Client : ClientStep(c)
  \/ \E k \in Sock : ReportLost(k)
  \/ \E id \in SessionId : Prune(id)
  \/ TimePasses

Spec == Init /\ [][Next]_vars

-----------------------------------------------------------------------------

Subscribed(c) == client[c].sock # NoSock /\ Sending(client[c].sock)

(* Sequence numbers reach a client one after the other from the first      *)
(* frame of a connection on, up to the last number its session gave out,   *)
(* and the resume buffer holds an unbroken run of the newest ones.         *)
Unbroken ==
  /\ \A k \in Sock : Sending(k) =>
       \A i \in DOMAIN wire[k] :
         wire[k][i].seq = adapter[bind[k]].seq - Len(wire[k]) + i
  /\ \A id \in live : LET r == adapter[id].ring IN
       /\ r # <<>>
       /\ \A i \in DOMAIN r : r[i].frame.seq = adapter[id].seq - Len(r) + i

(* A client that has this session's snapshot is never sent an envelope it  *)
(* already has, whether it was replayed or is live.                        *)
NoRepeat ==
  \A c \in Client :
    /\ Subscribed(c)
    /\ c \in synced[bind[client[c].sock]]
    /\ wire[client[c].sock] # <<>>
    => Head(wire[client[c].sock]).seq > client[c].last

SnapshotUnderWay(c) ==
  \E i \in DOMAIN wire[client[c].sock] :
    wire[client[c].sock][i].body.kind = "snapshot"

(* However often a client loses its connection and resumes, a client that  *)
(* saw no gap since its last snapshot of this session object shows, once   *)
(* it has received what is under way, exactly the items the daemon holds.  *)
ResumedViewIsCurrent ==
  \A c \in Client :
    /\ Subscribed(c)
    /\ c \in synced[bind[client[c].sock]] \/ SnapshotUnderWay(c)
    /\ ~CaughtUp(c).gap
    => CaughtUp(c).view = world

\* Not so today: a pruned id is given to a new session, numbered from 1.
(* A client that resumes and sees no gap has lost nothing: what            *)
(* WsServer::resumeSession expects of the sequence numbers.                *)
LossIsVisible ==
  \A c \in Client : Subscribed(c) /\ ~CaughtUp(c).gap => CaughtUp(c).view = world

=============================================================================
