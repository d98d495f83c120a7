------------------------------ MODULE WsServer ------------------------------
(***************************************************************************)
(* The session broker of the daemon (wsserver.cpp): which accepted sockets *)
(* wait for their first frame, which session every other socket is bound   *)
(* to, and the prune timer that ends a session no socket came back to.     *)
(*                                                                         *)
(* Everything runs on one event loop, so a slot is one action; the order   *)
(* in which the loop delivers a client's frames, the loss of a connection  *)
(* and the timeouts of the timers is what the model leaves open. What the  *)
(* sessions send is the subject of WsSessions.                             *)
(***************************************************************************)
EXTENDS Integers, FiniteSets

CONSTANTS
  Sock,         \* QWebSocket objects; a deleted one may be allocated again
  SessionId,    \* session ids
  NoSock,       \* a null QWebSocket*
  NoId,         \* an empty session id
  PruneAfter    \* kPruneAfterMs, in ticks

NoTimer == -1   \* a null QTimer*

ASSUME PruneAssumption ==
  /\ PruneAfter \in Nat
  /\ NoSock \notin Sock
  /\ NoId \notin SessionId

VARIABLES
  conn,      \* conn[k]: no object, an open connection, or one that is lost
             \*   and whose disconnected() has not been delivered yet
  pending,   \* m_pending: the sockets that have not subscribed
  live,      \* the keys of m_sessions
  sockOf,    \* sockOf[id]: Session::sock, NoSock while detached
  bind,      \* m_socketToSession, NoId when the socket is not in it
  timer,     \* timer[id]: time left of the timer Session::pruneTimer names
  orphans,   \* running timers that no Session names any more
  idle       \* history: time since the session was detached, 0 if it is not

wsVars == <<conn, pending, live, sockOf, bind, timer, orphans, idle>>

Orphan == [id : SessionId, left : 0 .. PruneAfter]

WsInit ==
  /\ conn = [k \in Sock |-> "free"]
  /\ pending = {}
  /\ live = {}
  /\ sockOf = [id \in SessionId |-> NoSock]
  /\ bind = [k \in Sock |-> NoId]
  /\ timer = [id \in SessionId |-> NoTimer]
  /\ orphans = {}
  /\ idle = [id \in SessionId |-> 0]

Detached(id) == id \in live /\ sockOf[id] = NoSock

(* The frame of a pending socket whose disconnected() has not come yet.    *)
Readable(k) == k \in pending /\ conn[k] = "up"

-----------------------------------------------------------------------------

onNewConnection(k) ==
  /\ conn[k] = "free"
  /\ conn' = [conn EXCEPT ![k] = "up"]
  /\ pending' = pending \cup {k}
  /\ UNCHANGED <<live, sockOf, bind, timer, orphans, idle>>

(* The connection of k goes away; the server is told later.                *)
Disconnect(k) ==
  /\ conn[k] = "up"
  /\ conn' = [conn EXCEPT ![k] = "down"]
  /\ UNCHANGED <<pending, live, sockOf, bind, timer, orphans, idle>>

(* The first frame is malformed or not a Subscribe: the socket is closed   *)
(* and leaves m_pending when disconnected() is delivered.                  *)
RejectFirstFrame(k) ==
  /\ Readable(k)
  /\ conn' = [conn EXCEPT ![k] = "down"]
  /\ UNCHANGED <<pending, live, sockOf, bind, timer, orphans, idle>>

(* Mutant: the pointer is cleared and the timer left running.              *)
StopPruneTimerForget(id) ==
  /\ orphans' = orphans \cup {[id |-> id, left |-> timer[id]]}
  /\ timer' = [timer EXCEPT ![id] = NoTimer]

StopPruneTimer(id) ==
  /\ timer' = [timer EXCEPT ![id] = NoTimer]
  /\ UNCHANGED orphans

resumeSession(k, id) ==
  /\ StopPruneTimer(id)
  /\ sockOf' = [sockOf EXCEPT ![id] = k]
  /\ bind' = [bind EXCEPT ![k] = id]
  /\ idle' = [idle EXCEPT ![id] = 0]
  /\ UNCHANGED <<conn, live>>

attachNewSession(k, id) ==
  /\ live' = live \cup {id}
  /\ sockOf' = [sockOf EXCEPT ![id] = k]
  /\ bind' = [bind EXCEPT ![k] = id]
  /\ timer' = [timer EXCEPT ![id] = NoTimer]
  /\ idle' = [idle EXCEPT ![id] = 0]
  /\ UNCHANGED <<conn, orphans>>

(* Mutant: a session some socket still holds can be resumed.               *)
ResumableIfLive(id) == id \in live

Resumable(id) == id \in live /\ sockOf[id] = NoSock

(* The id of a new session: the wanted one, or a generated one if none is  *)
(* wanted or the wanted one is in use.                                     *)
FreshId(wanted, id) ==
  /\ id \notin live
  /\ wanted \notin live => wanted = NoId \/ id = wanted

(* onPendingFirstBinary with a Subscribe that names the session `wanted`.  *)
SubscribeResume(k, wanted) ==
  /\ Readable(k)
  /\ Resumable(wanted)
  /\ pending' = pending \ {k}
  /\ resumeSession(k, wanted)

SubscribeFresh(k, wanted, id) ==
  /\ Readable(k)
  /\ ~Resumable(wanted)
  /\ FreshId(wanted, id)
  /\ pending' = pending \ {k}
  /\ attachNewSession(k, id)

Detach(k) ==
  /\ sockOf' = [sockOf EXCEPT ![bind[k]] = NoSock]
  /\ timer' = [timer EXCEPT ![bind[k]] = PruneAfter]
  /\ orphans' = orphans \cup
                  { [id |-> bind[k], left |-> t] : t \in {timer[bind[k]]} \ {NoTimer} }

(* onSocketDisconnected, before and after the socket subscribed.           *)
DropPending(k) ==
  /\ conn[k] = "down"
  /\ k \in pending
  /\ pending' = pending \ {k}
  /\ conn' = [conn EXCEPT ![k] = "free"]
  /\ UNCHANGED <<live, sockOf, bind, timer, orphans, idle>>

DropBound(k) ==
  /\ conn[k] = "down"
  /\ k \notin pending
  /\ bind[k] # NoId
  /\ bind[k] \in live
  /\ Detach(k)
  /\ bind' = [bind EXCEPT ![k] = NoId]
  /\ conn' = [conn EXCEPT ![k] = "free"]
  /\ idle' = [idle EXCEPT ![bind[k]] = 0]
  /\ UNCHANGED <<pending, live>>

(* pruneSession: the slot of any timer of the session, named or not. It    *)
(* leaves a session alone that was resumed in the meantime.                *)
Expired(id) == timer[id] = 0 \/ [id |-> id, left |-> 0] \in orphans

pruneSession(id) ==
  /\ Expired(id)
  /\ orphans' = orphans \ {[id |-> id, left |-> 0]}
  /\ IF Detached(id)
     THEN /\ live' = live \ {id}
          /\ timer' = [timer EXCEPT ![id] = NoTimer]
          /\ idle' = [idle EXCEPT ![id] = 0]
     ELSE UNCHANGED <<live, timer, idle>>
  /\ UNCHANGED <<conn, pending, sockOf, bind>>

Elapse(t) == IF t > 0 THEN t - 1 ELSE t

Tick ==
  /\ timer' = [id \in SessionId |-> Elapse(timer[id])]
  /\ orphans' = { [o EXCEPT !.left = Elapse(@)] : o \in orphans }
  /\ idle' = [id \in SessionId |->
                IF Detached(id) /\ idle[id] < PruneAfter
                THEN idle[id] + 1 ELSE idle[id]]
  /\ UNCHANGED <<conn, pending, live, sockOf, bind>>

-----------------------------------------------------------------------------

SocketGone(k) == DropPending(k) \/ DropBound(k)

WsNext ==
  \/ \E k \in Sock :
       \/ onNewConnection(k)
       \/ Disconnect(k)
       \/ RejectFirstFrame(k)
       \/ SocketGone(k)
       \/ \E wanted \in SessionId \cup {NoId} :
            \/ SubscribeResume(k, wanted)
            \/ \E id \in SessionId : SubscribeFresh(k, wanted, id)
  \/ \E id \in SessionId : pruneSession(id)
  \/ Tick

WsSpec == WsInit /\ [][WsNext]_wsVars

-----------------------------------------------------------------------------

(* Every variable keeps its type.                                          *)
WsTypeOK ==
  /\ conn \in [Sock -> {"free", "up", "down"}]
  /\ pending \in SUBSET Sock
  /\ live \in SUBSET SessionId
  /\ sockOf \in [SessionId -> Sock \cup {NoSock}]
  /\ bind \in [Sock -> SessionId \cup {NoId}]
  /\ timer \in [SessionId -> 0 .. PruneAfter \cup {NoTimer}]
  /\ orphans \in SUBSET Orphan
  /\ idle \in [SessionId -> 0 .. PruneAfter]

(* The tables the slots look each other up in agree: a socket object is    *)
(* either waiting or bound, m_socketToSession and Session::sock name each  *)
(* other, so two sockets never drive one session, and no socket leaks.     *)
TablesAgree ==
  /\ \A k \in Sock :
       /\ conn[k] # "free" <=> k \in pending \/ bind[k] # NoId
       /\ k \in pending => bind[k] = NoId
       /\ bind[k] # NoId => bind[k] \in live /\ sockOf[bind[k]] = k
  /\ \A id \in live : sockOf[id] # NoSock => bind[sockOf[id]] = id

(* A session is only ever pruned by the timer of its own last detachment:  *)
(* no other timer runs, a session with a socket has none, and a detached   *)
(* one keeps its full grace period.                                        *)
FullGrace ==
  /\ orphans = {}
  /\ \A id \in SessionId :
       IF Detached(id) THEN timer[id] = PruneAfter - idle[id]
                       ELSE timer[id] = NoTimer

=============================================================================
