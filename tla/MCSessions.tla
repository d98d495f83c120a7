----------------------------- MODULE MCSessions -----------------------------
(***************************************************************************)
(* Small instances of the sessions end to end.                             *)
(***************************************************************************)
EXTENDS WsSessions, TLC

Symmetric == Permutations(Sock) \cup Permutations(SessionId)

=============================================================================
