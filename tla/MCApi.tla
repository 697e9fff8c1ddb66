-------------------------------- MODULE MCApi --------------------------------
(***************************************************************************)
(* Small instances of six parts of the API side, which share no            *)
(* variable.  A behaviour is one of one part: the others stay where they   *)
(* begin.                                                                  *)
(***************************************************************************)
EXTENDS RateLimit, UserReports, AssessmentCache, RiskScoring, NearbyDiagnosis,
        SchemaMigrations, TLC

CONSTANTS s1, s2, m1, m2

VARIABLE part

MCSkew == [r \in Replicas |-> IF r = "r1" THEN 0 ELSE 1]

\* A signal: near and recent or not, of a strength in percent.
Sig(id, event, scope, precision, near, recent, strength) ==
  [id |-> id, event |-> event, scope |-> scope, precision |-> precision,
   recent |-> recent, near |-> near, strength |-> strength]
MCSignals == {
  Sig(1, "rainfall", "current", "point", TRUE, TRUE, 100),
  Sig(2, "rainfall", "current", "point", FALSE, TRUE, 35),
  Sig(3, "flood_warning", "current", "polygon", TRUE, TRUE, 100),
  Sig(4, "flood_report", "current", "point", TRUE, TRUE, 80),
  Sig(5, "water_level", "unspecified", "point", TRUE, FALSE, 100),
  Sig(6, "flood_potential", "historical", "polygon", TRUE, FALSE, 100),
  Sig(7, "flood_report", "historical", "admin_area", TRUE, FALSE, 30),
  Sig(8, "flood_report", "historical", "admin_area", TRUE, FALSE, 90),
  Sig(9, "road_closure", "historical", "unknown", FALSE, FALSE, 10),
  Sig(10, "flood_report", "historical", "point", FALSE, FALSE, 60),
  Sig(12, "rainfall", "current", "point", FALSE, TRUE, 20),
  Sig(13, "flood_report", "historical", "admin_area", TRUE, FALSE, 50),
  Sig(11, "flood_report", "context", "road_or_lane", TRUE, TRUE, 90)}

\* A release and its successor, and an image of a branch whose second file differs.
Released == [c \in {"old", "new", "branch"} |->
  CASE c = "old" -> <<"f1", "f2">>
    [] c = "new" -> <<"f1", "f2", "f3">>
    [] c = "branch" -> <<"f1", "g2", "f3">>]

ApiSymmetry == Permutations(Servers) \cup Permutations(Moderators)

Rest(p) ==
  /\ p # "rate" => UNCHANGED rateVars
  /\ p # "reports" => UNCHANGED reportVars
  /\ p # "cache" => UNCHANGED cacheVars
  /\ p # "scoring" => UNCHANGED signals
  /\ p # "diagnosis" => UNCHANGED diagVars
  /\ p # "schema" => UNCHANGED migrationVars
  /\ UNCHANGED part

Init ==
  /\ part \in {"rate", "reports", "cache", "scoring", "diagnosis", "schema"}
  /\ RateInit /\ ReportsInit /\ CacheInit /\ ScoringInit /\ DiagnosisInit
  /\ MigrationsInit
  /\ part # "rate" => shared
  /\ part # "reports" => site = CHOOSE s \in Sites : TRUE

Next ==
  \/ part = "rate" /\ RateNext /\ Rest("rate")
  \/ part = "reports" /\ ReportsNext /\ Rest("reports")
  \/ part = "cache" /\ CacheNext /\ Rest("cache")
  \/ part = "scoring" /\ ScoringNext /\ Rest("scoring")
  \/ part = "diagnosis" /\ DiagnosisNext /\ Rest("diagnosis")
  \/ part = "schema" /\ MigrationsNext /\ Rest("schema")

Spec == Init /\ [][Next]_<<part, rateVars, reportVars, cacheVars, signals, diagVars,
                        migrationVars>>
==============================================================================
