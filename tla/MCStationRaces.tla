--------------------------- MODULE MCStationRaces ---------------------------
(***************************************************************************)
(* Two scenes of MCStationPromotion in one run: a central and a local      *)
(* sensor whose readings compete, and a local sensor that is switched off. *)
(* A behaviour stays in its scene: its polls return nothing else.          *)
(***************************************************************************)
EXTENDS MCStationPromotion

VARIABLE scene

Scenes == [pair |-> PairSnapshots, off |-> OffSnapshots]
AllSnapshots == PairSnapshots \cup OffSnapshots

RacesInit == scene \in DOMAIN Scenes /\ Init
RacesNext ==
  /\ Next
  /\ \A w \in Workers : cycle'[w].raw \in Scenes[scene] \cup {None}
  /\ UNCHANGED scene
RacesSpec == RacesInit /\ [][RacesNext]_<<scene, vars>>
=============================================================================
