----------------------------- MODULE PacketFifo -----------------------------
(***************************************************************************)
(* What the capture thread promises the event loop: packets come out in    *)
(* the order they were captured, each once, unless the capture is          *)
(* restarted, which drops all of them.                                     *)
(***************************************************************************)
EXTENDS Naturals, Sequences
CONSTANT Packets
VARIABLE queue

Init == queue = <<>>

Put(p) == queue' = Append(queue, p)
Take == queue # <<>> /\ queue' = Tail(queue)
DropAll == queue' = <<>>

Spec == Init /\ [][(\E p \in Packets : Put(p)) \/ Take \/ DropAll]_queue
=============================================================================
