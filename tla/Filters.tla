-------------------------------- MODULE Filters --------------------------------
(***************************************************************************)
(* Filter rules as data: FilterItem, Filter and Filters with their XML     *)
(* file.  A pattern is what a client typed.  What the code compiles, and   *)
(* what remFilter and findFilter compare with, is Fixed[pattern]: the same *)
(* text with "Name:" turned into "Name:#?".  Whether the compiled pattern  *)
(* matches is a relation with what the spawn looks like.                   *)
(***************************************************************************)
EXTENDS Naturals, Sequences, FiniteSets, SequencesExt

CONSTANTS NType,     \* SIZEOF_FILTERS, 7 in the code
          MaxLevel,  \* 255 in the code
          Pattern,
          Fixed,     \* the text compiled for a pattern
          Markup,    \* patterns that have a '<' or a '&'
          File,      \* filter files; a rule's home is the file it was read from
                     \* or whose rules it was added to (no field of the code)
          Look,      \* filter strings a spawn may have
          Hits       \* the pairs of pattern and look that match

Type == 1 .. NType
Rule == [pattern : Pattern, min : 0 .. MaxLevel, max : 0 .. MaxLevel, home : File]
Rules == [Type -> Seq(Rule)]

ASSUME FiltersAssumption ==
  /\ NType \in Nat \ {0} /\ MaxLevel \in Nat
  /\ Markup \subseteq Pattern
  /\ Hits \subseteq Pattern \X Look

NoRules == [t \in Type |-> <<>>]

-----------------------------------------------------------------------------
(* Matching.  Equal bounds and a range are one case: level = min and       *)
(* min <= level <= max agree when min = max.                               *)

isFiltered(r, look, level) ==
  /\ <<r.pattern, look>> \in Hits
  /\ r.min > 0 \/ r.max > 0 => level \in r.min .. r.max

filterMask(rs, look, level) ==
  { t \in Type : \E i \in DOMAIN rs[t] : isFiltered(rs[t][i], look, level) }

-----------------------------------------------------------------------------
(* Editing.  *)

findFilter(list, p) == { i \in DOMAIN list : Fixed[list[i].pattern] = p }

addFilter(list, r) == IF findFilter(list, r.pattern) = {} THEN Append(list, r) ELSE list

First(S) == CHOOSE i \in S : \A j \in S : i <= j

remFilter(list, p) ==
  IF findFilter(list, p) = {} THEN list ELSE RemoveAt(list, First(findFilter(list, p)))

-----------------------------------------------------------------------------
(* The file: the rules by section.  Patterns are written as they are, so   *)
(* the reader stops at the first one that XML does not take for text, and  *)
(* what it had read stays.  A file that does not exist reads as an empty   *)
(* one.                                                                    *)

Entry == [type : Type, rule : Rule]

\* Mutant: the compiled pattern is written, not the one that was typed.
SectionFixed(rs, t) ==
  [i \in DOMAIN rs[t] |-> [type |-> t, rule |-> [rs[t][i] EXCEPT !.pattern = Fixed[@]]]]
Section(rs, t) == [i \in DOMAIN rs[t] |-> [type |-> t, rule |-> rs[t][i]]]

Saved(rs) ==
  LET upTo[t \in 0 .. NType] ==
        IF t = 0 THEN <<>> ELSE upTo[t - 1] \o Section(rs, t)
  IN  upTo[NType]

Spoilt(file) == { i \in DOMAIN file : file[i].rule.pattern \in Markup }
Readable(file) ==
  IF Spoilt(file) = {} THEN file ELSE SubSeq(file, 1, First(Spoilt(file)) - 1)

addEntry(rs, e) == [rs EXCEPT ![e.type] = addFilter(@, e.rule)]
load(file) ==
  LET read == Readable(file)
      after[n \in 0 .. Len(read)] ==
        IF n = 0 THEN NoRules ELSE addEntry(after[n - 1], read[n])
  IN  after[Len(read)]
=============================================================================
