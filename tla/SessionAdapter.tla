--------------------------- MODULE SessionAdapter ---------------------------
(***************************************************************************)
(* One client session's output (sessionadapter.cpp): the numbering of the  *)
(* envelopes, the resume buffer every envelope goes into, and what a       *)
(* resume replays of it. The state managers are abstracted to the items of *)
(* the world, each absent (0) or present in one of two versions; envelopes *)
(* that do not describe items are "other".                                 *)
(*                                                                         *)
(* Pure operators: the sessions are composed in WsSessions.                *)
(***************************************************************************)
EXTENDS Integers, Sequences, Selection

CONSTANTS
  Item,          \* spawns, drops, doors and players, by id
  RingCap,       \* kMaxEntries
  RingWindow     \* kWindowMs, in ticks

ASSUME RingAssumption ==
  /\ RingCap \in Nat \ {0}
  /\ RingWindow \in Nat

Version == 0 .. 2
World == [Item -> Version]

Snapshot(w)   == [kind |-> "snapshot", view |-> w]
Added(x, v)   == [kind |-> "added", item |-> x, version |-> v]
Updated(x, v) == [kind |-> "updated", item |-> x, version |-> v]
Removed(x)    == [kind |-> "removed", item |-> x]
ZoneChanged   == [kind |-> "zone"]
Other         == [kind |-> "other"]

Frame(n, body) == [seq |-> n, body |-> body]

(* m_seq and m_ringBuffer; an entry's age is the time since it was sent.   *)
NewAdapter == [seq |-> 0, ring |-> <<>>]

(* Mutant: the entries over the cap go from the wrong end.                 *)
PrunedNewest(ring) == Chosen(ring, {i \in DOMAIN ring : i <= RingCap})

(* The oldest entry goes while it was sent more than RingWindow before the *)
(* newest one, or there are more than RingCap.                             *)
Pruned(ring) ==
  Chosen(ring, {i \in DOMAIN ring :
                  /\ \E j \in 1 .. i : ring[j].age <= RingWindow
                  /\ i > Len(ring) - RingCap})

(* emitEnvelope, without the sink.                                         *)
emitEnvelope(a, body) ==
  [seq  |-> a.seq + 1,
   ring |-> Pruned(Append(a.ring, [frame |-> Frame(a.seq + 1, body), age |-> 0]))]

(* startStreaming runs in one slot: no manager signals between connecting  *)
(* the handlers and going live, so m_buffered holds the initial updates of *)
(* the other managers only (stats, group, buffs, ..., one of them here).   *)
startStreaming(w) == emitEnvelope(emitEnvelope(NewAdapter, Snapshot(w)), Other)
FirstFrames(w) == <<Frame(1, Snapshot(w)), Frame(2, Other)>>

Frames(entries) == [i \in DOMAIN entries |-> entries[i].frame]

(* Mutant: a resume replays the last envelope the client has again.        *)
replayInclusive(a, lastSeq) ==
  Frames(Chosen(a.ring, {i \in DOMAIN a.ring : a.ring[i].frame.seq >= lastSeq}))

replaySince(a, lastSeq) ==
  Frames(Chosen(a.ring, {i \in DOMAIN a.ring : a.ring[i].frame.seq > lastSeq}))

(* Time passes; ages past the window are not told apart.                   *)
Aged(a) ==
  [a EXCEPT !.ring = [ i \in DOMAIN a.ring |->
     [a.ring[i] EXCEPT !.age = IF @ <= RingWindow THEN @ + 1 ELSE @] ]]

=============================================================================
