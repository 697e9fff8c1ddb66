----------------------------- MODULE RiskScoring -----------------------------
(***************************************************************************)
(* The scores behind an assessment: score_risk of                          *)
(* apps/api/app/domain/risk/scoring.py.  A signal keeps what the rules     *)
(* look at: its event, scope and precision, whether it is recent and       *)
(* within a kilometre, and its strength in percent (source weight,         *)
(* confidence, freshness, risk factor and distance factor, multiplied).    *)
(* Scores are in ten-thousandths of a point, so that nothing is rounded.   *)
(* Signals arrive one after another; the properties say what one more may  *)
(* change.                                                                 *)
(***************************************************************************)
EXTENDS Integers, FiniteSets, FiniteSetsExt, Sequences

CONSTANTS Signals   \* the signals that may arrive, told apart by their id

VARIABLES signals   \* those that have

Point == 10000

RealtimeWeight(e) ==
    CASE e = "rainfall" -> 40 [] e = "water_level" -> 35
      [] e = "flood_warning" -> 50
      [] e \in {"flood_report", "road_closure"} -> 20
      [] OTHER -> 0

HistoricalWeight(e) ==
    CASE e = "flood_potential" -> 40 [] e = "flood_report" -> 35
      [] e = "road_closure" -> 15 [] OTHER -> 0

ObservedEvents == {"flood_report", "road_closure"}
Correlated == {"rainfall", "water_level", "flood_warning"}

\* _precision_factor, in percent.
PrecisionFactor(s) ==
    CASE s.event \notin ObservedEvents -> 100
      [] s.event \in ObservedEvents /\ s.precision = "point" -> 100
      [] s.event \in ObservedEvents /\ s.precision = "road_or_lane" -> 70
      [] s.event \in ObservedEvents /\ s.precision = "inferred" -> 50
      [] s.event \in ObservedEvents /\ s.precision = "admin_area" -> 35
      [] OTHER -> 60

\* _is_weighted_signal_eligible with the six hours of the realtime score.
CurrentlyEligible(s) ==
    /\ RealtimeWeight(s.event) > 0
    /\ s.scope \notin {"historical", "context"}
    /\ s.recent

HistoricallyEligible(s) ==
    /\ HistoricalWeight(s.event) > 0
    /\ s.scope \notin {"current", "context"}

AtMostPoints(x, points) == IF x > points * Point THEN points * Point ELSE x

HighestOf(S) == IF S = {} THEN 0 ELSE Max(S)

\* What one signal brings: the weight times the strength; in the historical
\* score times the precision, and never below 25 for a flood report within a
\* kilometre.
RealtimeContribution(s) == RealtimeWeight(s.event) * s.strength * 100

HistoricalContribution(s) ==
    LET plain == HistoricalWeight(s.event) * s.strength * PrecisionFactor(s)
    IN  IF s.event = "flood_report" /\ s.near /\ plain < 25 * Point
        THEN 25 * Point ELSE plain

\* Any record of an event, however vague.
ObservedAny(S) ==
    \E s \in S : s.event \in ObservedEvents /\ HistoricallyEligible(s)

\* An observed event precise enough to make the flood-potential maps context.
ObservedHistory(S) ==
    \E s \in S : /\ s.event \in ObservedEvents
                 /\ s.precision \notin {"admin_area", "unknown"}
                 /\ HistoricallyEligible(s)

\* Stations counted one by one, up to the event's cap.
EventScoreSummed(S, e) ==
    AtMostPoints(MapThenSumSet(RealtimeContribution,
                               {s \in S : s.event = e /\ CurrentlyEligible(s)}),
                 IF e \in Correlated THEN RealtimeWeight(e) ELSE 100)

\* Stations measure the same weather: the strongest counts, not their number.
EventScore(S, e) ==
    LET of == {s \in S : s.event = e /\ CurrentlyEligible(s)}
    IN  IF e \in Correlated
        THEN AtMostPoints(HighestOf({RealtimeContribution(s) : s \in of}),
                          RealtimeWeight(e))
        ELSE MapThenSumSet(RealtimeContribution, of)

RealtimeScore(S) ==
    AtMostPoints(MapThenSumSet(LAMBDA e : EventScore(S, e),
                               Correlated \union ObservedEvents), 100)

HistoricalEventScore(S, e) ==
    LET total == MapThenSumSet(HistoricalContribution,
                    {s \in S : s.event = e /\ HistoricallyEligible(s)})
    IN  CASE e = "flood_potential" /\ ObservedHistory(S) -> AtMostPoints(total, 20)
          [] e = "flood_potential" /\ ~ObservedHistory(S) -> AtMostPoints(total, 40)
          [] OTHER -> total

\* _apply_admin_area_only_historical_cap
AdminAreaOnlyCap(S, score) ==
    LET eligible == {s \in S : HistoricallyEligible(s)}
    IN  IF eligible # {} /\ \A s \in eligible : s.precision = "admin_area"
        THEN AtMostPoints(score, 40) ELSE score

HistoricalScore(S) ==
    AdminAreaOnlyCap(S,
        AtMostPoints(MapThenSumSet(LAMBDA e : HistoricalEventScore(S, e),
                                   ObservedEvents \union {"flood_potential"}), 100))

ScoringInit == signals = {}

Arrives(s) == s \notin signals /\ signals' = signals \union {s}

ScoringNext == \E s \in Signals : Arrives(s)

ScoringSpec == ScoringInit /\ [][ScoringNext]_signals

(***************************************************************************)
(* Properties                                                              *)
(***************************************************************************)

\* "garbage evidence must never be able to lower the historical score": a
\* record that knows no more than the administrative area, or not even that,
\* leaves the score where it was or raises it.
GarbageNeverLowers ==
    [][\A s \in signals' \ signals :
          s.precision \in {"admin_area", "unknown"}
             => HistoricalScore(signals') >= HistoricalScore(signals)]_signals

\* "must not turn station density into higher risk": one more station that
\* measures no more than one already counted changes nothing, and no current
\* signal ever lowers the realtime score.
DensityIsNotRisk ==
    [][\A s \in signals' \ signals :
          /\ RealtimeScore(signals') >= RealtimeScore(signals)
          /\ (/\ s.event \in Correlated
              /\ \E t \in signals : /\ t.event = s.event
                                    /\ CurrentlyEligible(t)
                                    /\ t.strength >= s.strength)
                => RealtimeScore(signals') = RealtimeScore(signals)]_signals
==============================================================================
