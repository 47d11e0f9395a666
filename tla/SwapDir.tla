------------------------------- MODULE SwapDir -------------------------------
(***************************************************************************)
(* The directories of one target of image.extract or artifact.extract, and *)
(* the steps of swapDir (engine/extract.go).  A version has two halves: a  *)
(* directory with both is whole, one that was left behind by a failed or   *)
(* killed unpacking is not, and unpacking into leftovers mixes versions.   *)
(* A missing directory is the empty set.                                   *)
(***************************************************************************)
EXTENDS Naturals

CONSTANTS
  Versions   \* what the executions extract; 0 is what was there before

ASSUME VersionsAssumption == Versions \subseteq Nat /\ 0 \in Versions

VARIABLES to, old, new    \* <to>, <to>.old, <to>.new

dirs == <<to, old, new>>

Halves(v) == {<<v, "a">>, <<v, "b">>}
Content == UNION {Halves(v) : v \in Versions}
Whole(dir) == \E v \in Versions : dir = Halves(v)
Missing == {}

DirsOK == to \subseteq Content /\ old \subseteq Content /\ new \subseteq Content

DirsInit == to = Halves(0) /\ old = Missing /\ new = Missing

\* RemoveAll(<to>.new), so that nothing of an earlier try is left.
ClearedMut == new
Cleared == Missing
ClearNew == new' = Cleared /\ UNCHANGED <<to, old>>

\* docker cp or an unpacked archive, to the end or up to some point.
Unpacked(v) == new' = new \cup Halves(v) /\ UNCHANGED <<to, old>>
PartlyUnpacked(v) == (\E h \in SUBSET Halves(v) : new' = new \cup h) /\ UNCHANGED <<to, old>>

\* The steps of swapDir; each may be the last one before a crash.
DropOld == old' = Missing /\ UNCHANGED <<to, new>>

\* A removal that failed, or that a crash cut short, has removed some of it.
PartlyCleared == new' \in SUBSET new /\ UNCHANGED <<to, old>>
PartlyDropped == old' \in SUBSET old /\ UNCHANGED <<to, new>>

SetAside ==
  IF to = Missing THEN UNCHANGED dirs
  ELSE old' = to /\ to' = Missing /\ UNCHANGED new

Install == to' = new /\ new' = Missing /\ UNCHANGED old

\* Installing failed: the previous content goes back.
RollBackMut == UNCHANGED dirs
RollBack ==
  IF old = Missing THEN UNCHANGED dirs
  ELSE to' = old /\ old' = Missing /\ UNCHANGED new

=============================================================================
