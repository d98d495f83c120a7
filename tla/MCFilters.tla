------------------------------- MODULE MCFilters -------------------------------
(***************************************************************************)
(* Finite instance of FilterMgr for TLC.                                   *)
(***************************************************************************)
EXTENDS FilterMgr

CONSTANTS plain, named, fixedNamed, twiceFixed,  \* patterns
          elf, z1

\* "Name:elf" compiles to "Name:#?elf", which a user may type as well.
MCFixed == (plain :> plain) @@ (named :> fixedNamed)
           @@ (fixedNamed :> twiceFixed) @@ (twiceFixed :> twiceFixed)
MCHits == {<<plain, elf>>, <<plain, Corpse>>, <<named, elf>>, <<named, Dying>>,
           <<fixedNamed, elf>>, <<fixedNamed, Dying>>, <<fixedNamed, Unknown>>}

\* A hand-made global file with a rule for one level, and one for zone z1.
MCShipped ==
  [f \in File |->
     CASE f = Global -> <<[type |-> 1, rule |-> [pattern |-> named, min |-> 1, max |-> 1, home |-> f]]>>
       [] f = z1 -> <<[type |-> 1, rule |-> [pattern |-> fixedNamed, min |-> 0, max |-> 0, home |-> f]]>>
       [] OTHER -> <<>>]
=============================================================================
