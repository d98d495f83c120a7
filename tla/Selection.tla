------------------------------ MODULE Selection ------------------------------
(***************************************************************************)
(* What a loop leaves of a list when it keeps some of the elements: those  *)
(* at a set of positions, in their order.                                  *)
(***************************************************************************)
EXTENDS Integers, Sequences, FiniteSets

(* The n-th position of P.                                                 *)
Rank(P, i) == Cardinality({j \in P : j <= i})
Nth(P, n) == CHOOSE i \in P : Rank(P, i) = n

Chosen(s, P) == [n \in 1 .. Cardinality(P) |-> s[Nth(P, n)]]

=============================================================================
