---------------------------- MODULE EQMacRestart ----------------------------
(***************************************************************************)
(* EQMacDecoder with a peer that starts a new session on the same port     *)
(* tuple. Nothing tells the decoder: a closing packet is ignored by        *)
(* EQMacDecoder::process, EQMacDecoder::reset has no caller, and the       *)
(* session handling that calls EQPacketStream::reset on a stream close is  *)
(* off (DaemonApp passes sessionTracking = false).                         *)
(***************************************************************************)
EXTENDS MCDecoder

(* The peer picks a new initial ARQ number and sends its first packet      *)
(* next; top and whole are about the new session.                          *)
RestartPeer(f) ==
  /\ isn' \in [Flow -> Arq]
  /\ \A g \in Flow \ {f} : isn'[g] = isn[g]
  /\ top' = [top EXCEPT ![f] = 0]
  /\ whole' = [whole EXCEPT ![f] = {}]
  /\ UNCHANGED <<lastArq, groups, dispatched, datagrams>>

RestartNext == Next \/ \E f \in Flow : RestartPeer(f)

RestartSpec == Init /\ [][RestartNext]_vars

=============================================================================
