----------------------------- MODULE MCDecoder ------------------------------
(***************************************************************************)
(* Finite instances of EQMacDecoder for TLC.                               *)
(***************************************************************************)
EXTENDS EQMacDecoder

Part(m, o, s, c, n) ==
  [msg |-> m, op |-> o, frag |-> TRUE, seq |-> s, curr |-> c, total |-> n]
Lone(m, o) ==
  [msg |-> m, op |-> o, frag |-> FALSE, seq |-> 0, curr |-> 0, total |-> 1]

(* An obfuscated message (opcode 1) in three fragments, one that fits a    *)
(* packet, a plain one in a group of its own, and one that uses the first  *)
(* message's group number again, as after 65536 fragmented messages.       *)
MCStream == << Part(1, 1, 0, 0, 3), Part(1, 1, 0, 1, 3), Part(1, 1, 0, 2, 3),
               Lone(2, 2),
               Part(3, 2, 1, 0, 3), Part(3, 2, 1, 1, 3), Part(3, 2, 1, 2, 3),
               Part(4, 3, 0, 0, 2), Part(4, 3, 0, 1, 2) >>

=============================================================================
