------------------------------ MODULE AppStream -----------------------------
(***************************************************************************)
(* What the packet stream promises the managers that connect to it: on     *)
(* every flow the messages of the sender arrive at most once and in the    *)
(* order they were sent. Messages may be missing, since a passive sniffer  *)
(* cannot ask for one again.                                               *)
(***************************************************************************)
EXTENDS Naturals, Sequences

CONSTANTS Flow, Msg   \* Msg: the numbers of the messages sent

VARIABLE log   \* log[f]: message numbers delivered since the last reset

Init == log = [f \in Flow |-> <<>>]

Deliver(f, m) ==
  /\ \A k \in DOMAIN log[f] : log[f][k] < m
  /\ log' = [log EXCEPT ![f] = Append(@, m)]

(* The stream forgets its sessions: delivery may start over.               *)
Reset == log' = [f \in Flow |-> <<>>]

Next ==
  \/ \E f \in Flow : \E m \in Msg : Deliver(f, m)
  \/ Reset

Spec == Init /\ [][Next]_log

=============================================================================
