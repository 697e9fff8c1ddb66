-------------------------- MODULE MCWarningLifecycle --------------------------
(***************************************************************************)
(* Instances of WarningLifecycle: an Alert, its Update and Cancel on the   *)
(* two adapters; an Alert and empty polls; snapshots that grow and shrink. *)
(***************************************************************************)
EXTENDS WarningLifecycle, TLC

CONSTANTS w1, w2, cwa, ncdr, a1, b1, u1, c1

TwoWorkers == {w1, w2}
Symmetry == Permutations(TwoWorkers)

F(msgs) == [msgs |-> msgs, valid |-> "all"]
RefersToA1 == [m \in Updates \cup Cancels |-> {a1}]

\* The Alert or nothing on both adapters; its Update on one and its Cancel on the other.
CancelFeeds == [a \in Adapters |->
  IF a = cwa THEN {F({a1}), F({u1}), F({})} ELSE {F({a1}), F({c1}), [msgs |-> {c1}, valid |-> "few"], F({})}]

\* Complete snapshots with one warning, two or none.
SnapshotFeeds == [a \in Adapters |-> {F({a1}), F({a1, b1}), F({})}]

\* Complete snapshots that never run empty.
ShrinkingFeeds == [a \in Adapters |-> {F({a1}), F({a1, b1})}]
===============================================================================
