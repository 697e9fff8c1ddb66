------------------------------ MODULE StationMap ------------------------------
(***************************************************************************)
(* What the map promises about station readings, with no transactions in   *)
(* it: a station moves to strictly newer readings only, one reading is     *)
(* never shown by a central station and a local one next to it, and only   *)
(* local stations are ever taken from the map.                             *)
(* StationPromotion implements it, one commit at a time.                   *)
(***************************************************************************)
EXTENDS Naturals

CONSTANTS
  Keys,    \* station keys
  Local,   \* keys that a central neighbour or a switched-off device can take down
  Near,    \* <<central, local>> neighbours
  Times,   \* observed_at instants
  Values,  \* metric fingerprints
  None     \* a station without a reading

VARIABLE shown  \* the reading on the map: key -> [obs, val], or None

Init == shown = [k \in Keys |-> None]

\* A newer reading goes up.  A local one stays off while its central neighbour shows
\* it; a central one takes the place of the local neighbours that show it.
Show(k, r) ==
  /\ shown'[k] = r  \* (follows from the last conjunct; stated first, TLC is twice as fast)
  /\ shown[k] = None \/ shown[k].obs < r.obs
  /\ \A c \in Keys : <<c, k>> \in Near => shown[c] # r
  /\ shown' = [n \in Keys |-> IF n = k THEN r
                              ELSE IF <<k, n>> \in Near /\ shown[n] = r THEN None
                              ELSE shown[n]]

\* A local station disappears: switched off, or its central neighbour reports the same.
TakeDown(n) == shown[n] # None /\ shown' = [shown EXCEPT ![n] = None]

Next == \/ \E k \in Keys, r \in [obs : Times, val : Values] : Show(k, r)
        \/ \E n \in Local : TakeDown(n)
Spec == Init /\ [][Next]_shown
==============================================================================
