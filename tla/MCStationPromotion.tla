------------------------- MODULE MCStationPromotion -------------------------
(***************************************************************************)
(* Instances of StationPromotion: one central and one local flood sensor   *)
(* next to each other, a sensor that is switched off, a frozen one.        *)
(***************************************************************************)
EXTENDS StationPromotion, TLC

CONSTANTS w1, w2, c1, l1, l2

TwoWorkers == {w1, w2}
Symmetry == Permutations(TwoWorkers)

R(t, v, f) == [obs |-> t, val |-> v, flag |-> f]
One(k, r) == [x \in {k} |-> r]
Two(j, r, k, s) == [x \in {j, k} |-> IF x = j THEN r ELSE s]

\* A central and a local sensor: replacement, duplicates, equal-time conflicts.
PairKeys == {c1, l1}
PairNear == {<<c1, l1>>}
PairSnapshots ==
  {One(c1, R(1, 1, "ok")), One(c1, R(1, 2, "ok")),
   One(l1, R(1, 1, "ok")), One(l1, R(2, 1, "ok"))}

\* A local sensor that is switched off, in its reading or in the station metadata.
OffSnapshots ==
  {One(l1, R(1, 1, "ok")), One(l1, R(1, 1, "rt_off")),
   One(l1, R(2, 1, "meta_off"))}

\* A frozen local station alone and beside a second one, which has no catalogue row, and
\* a central one that shows the same: overlapping cycles settle, promote and replace the
\* same rows, and a promotion can fail between two commits.  The station also sends a
\* reading without a valid value, and one that says it is switched off.
EndsKeys == {c1, l1, l2}
FrozenSnapshots ==
  {One(l1, R(1, 1, "ok")), Two(l1, R(1, 1, "ok"), l2, R(1, 1, "ok")), One(c1, R(1, 1, "ok")),
   One(l1, R(2, 1, "invalid")), One(l1, R(1, 1, "rt_off"))}
=============================================================================
