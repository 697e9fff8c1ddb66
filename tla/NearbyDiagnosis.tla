--------------------------- MODULE NearbyDiagnosis ---------------------------
(***************************************************************************)
(* What the public is told about the stations near a point, and what the   *)
(* operators are told about the source behind them.  Both are read from    *)
(* the same rows the worker leaves in the database:                        *)
(*   - domain/realtime/nearby_coverage.py: the health of a source, and why *)
(*     a signal is missing at a point;                                     *)
(*   - domain/ingestion/readiness.py: the operators' verdict on it;        *)
(*   - domain/assessment/safety.py: whether a low risk may be said.        *)
(*                                                                         *)
(* One required source of a measured signal, its worker, and one reader,   *)
(* who reads the stations' rows before the source's health, each in a      *)
(* transaction of its own.  Instants are kept as ages, in units that are   *)
(* long against a request.                                                 *)
(***************************************************************************)
EXTENDS Integers, FiniteSets

CONSTANTS
    Stations,    \* the reviewed inventory of the source
    Remote,      \* those of them that are out of the point's range
    Delayed,     \* _SOURCE_WORKER_DELAYED
    Stopped,     \* _SOURCE_WORKER_STOPPED, and stale_after_seconds
    Fresh,       \* the freshness threshold of the source
    Active,      \* how long a silent station counts as active
    FetchErrors, \* what may go wrong in a fetch, and what in our own steps
    OwnErrors,
    AgeCap       \* bound: older observations are not told apart

Errors == {"none", "database", "config", "upstream"}

ASSUME DiagnosisAssumption ==
    /\ FetchErrors \cup OwnErrors \subseteq Errors \ {"none"}
    /\ IsFiniteSet(Stations) /\ Remote \subseteq Stations
    /\ Delayed \in Nat /\ Stopped \in Nat /\ Delayed <= Stopped
    /\ Fresh \in Nat /\ Active \in Nat /\ AgeCap \in Nat
    /\ 3 * Fresh <= Active /\ Active < AgeCap

VARIABLES
    selection,   \* runtime_enabled and the age of that report
    job,         \* the newest ingestion_jobs row, with its adapter run, and
                 \* whether its manifest is the reviewed inventory
    outcome,     \* runtime_pipeline_*, and which run they are of
    latest,      \* latest[s]: age of s's row in official_realtime_latest
    worker,      \* the cycle of the source
    reader,      \* a request that has read the stations' rows
    faulty       \* history: a failure newer than every batch was recorded

diagVars == <<selection, job, outcome, latest, worker, reader, faulty>>

None == -1
Report == Stopped + 1          \* bound: older reports are not told apart
Statuses == {"succeeded", "partial", "skipped", "failed"}

IdleWorker == [phase |-> "idle", age |-> 0, got |-> {}]
IdleReader == [phase |-> "idle", place |-> [s \in Stations |-> "beyond"],
               rows |-> [s \in Stations |-> "absent"], newly |-> FALSE]

DiagnosisInit ==
    /\ selection = [on |-> "none", age |-> 0]
    /\ job = [status |-> "none", error |-> "none", age |-> 0, whole |-> FALSE]
    /\ outcome = [status |-> "none", error |-> "none", run |-> "older"]
    /\ latest = [s \in Stations |-> None]
    /\ worker = IdleWorker
    /\ reader = IdleReader
    /\ faulty = FALSE

(***************************************************************************)
(* The health of the source                                                *)
(***************************************************************************)

Recorded == {s \in Stations : latest[s] # None}

Within(age) == {s \in Recorded : latest[s] <= age}

Newest(age) == Recorded # {} /\ Within(age) # {}

Judged(health, reason) == [health |-> health, reason |-> reason]

\* _pipeline_failure_decision
FailureDecision(error) ==
    CASE error = "database" -> Judged("degraded", "database_unavailable")
      [] error = "config"   -> Judged("failed", "source_misconfigured")
      [] error = "upstream" -> Judged("failed", "upstream_unavailable")
      [] error = "none"     -> Judged("failed", "pipeline_unavailable")

\* _upstream_stale_decision: the worker is on time, every observation is old.
UpstreamStale ==
    job.age <= Delayed /\ Recorded # {} /\ ~ Newest(3 * Fresh)

\* _observation_health_decision of a measured signal.
ObservationHealth ==
    LET active == Cardinality(Within(Active))
        fresh  == Cardinality(Within(Fresh))
        usable == Cardinality(Within(3 * Fresh))
    IN  CASE active = 0 /\ UpstreamStale -> Judged("degraded", "upstream_stale")
          [] active = 0 /\ ~ UpstreamStale ->
                Judged("degraded", "upstream_unavailable")
          [] active > 0 /\ 5 * fresh >= 4 * active ->
                Judged("healthy", "operational")
          [] active > 0 /\ 5 * fresh < 4 * active /\ 2 * usable >= active ->
                Judged("degraded", "delayed")
          [] active > 0 /\ 2 * usable < active /\ usable > 0 ->
                Judged("degraded", "upstream_unavailable")
          [] active > 0 /\ usable = 0 /\ UpstreamStale ->
                Judged("degraded", "upstream_stale")
          [] active > 0 /\ usable = 0 /\ ~ UpstreamStale ->
                Judged("failed", "upstream_unavailable")

\* _pipeline_outcome_matches_run: a failure before the fetch has no batch, and
\* is newer than the last one.  Mutant: it must be of the very batch.
MatchesSameRun == outcome.run = "same"

MatchesRun == outcome.run \in {"same", "newer"}

TooOld(age) == age > Stopped

PipelineDone == outcome.status = "succeeded" /\ outcome.run = "same"

\* _source_health_decision, of a registered source the catalogue enables.
HealthOfBatch ==
    CASE job.status = "none" -> Judged("unknown", "not_yet_observed")
      [] job.status # "none" /\ TooOld(job.age) ->
            Judged("failed", "pipeline_stalled")
      [] job.status = "succeeded" /\ ~ TooOld(job.age) ->
            IF selection.on = "yes" /\ ~ PipelineDone
            THEN IF job.age > Delayed
                 THEN Judged("failed", "pipeline_unavailable")
                 ELSE Judged("degraded", "delayed")
            ELSE IF job.age > Delayed /\ ObservationHealth.health = "healthy"
                 THEN Judged("degraded", "delayed")
                 ELSE ObservationHealth
      [] job.status = "failed" /\ ~ TooOld(job.age) ->
            FailureDecision(job.error)
      [] job.status = "partial" /\ ~ TooOld(job.age) ->
            IF job.age <= Delayed THEN ObservationHealth
            ELSE Judged("degraded", "delayed")
      [] job.status = "skipped" /\ ~ TooOld(job.age) ->
            Judged("degraded", "upstream_unavailable")

Health ==
    IF selection.on # "none" /\ TooOld(selection.age)
    THEN Judged("failed", "pipeline_stalled")
    ELSE IF selection.on = "no" THEN Judged("disabled", "disabled")
    ELSE IF outcome.status = "failed" /\ MatchesRun
    THEN FailureDecision(IF outcome.error # "none" THEN outcome.error
                         ELSE job.error)
    ELSE HealthOfBatch

(***************************************************************************)
(* The operators' verdict                                                  *)
(***************************************************************************)

\* _failed_run_decision
FailedRun(error, fallback) ==
    CASE error = "database" -> Judged("degraded", "database_unavailable")
      [] error = "upstream" -> Judged("failed", "upstream_unavailable")
      [] error \in {"none", "config"} -> Judged("failed", fallback)

\* _pipeline_failed_for_latest_run
FailedForLatestRun == outcome.status = "failed" /\ outcome.run # "older"

\* _source_readiness
ReadinessOfBatch ==
    IF job.status = "failed" THEN FailedRun(job.error, "run_failed")
    ELSE IF FailedForLatestRun
    THEN FailedRun(outcome.error, "pipeline_failed")
    ELSE IF job.status # "succeeded" THEN Judged("degraded", "run_incomplete")
    ELSE IF ~ PipelineDone THEN Judged("degraded", "pipeline_incomplete")
    ELSE IF Recorded # {} /\ ~ Newest(3 * Fresh)
    THEN Judged("degraded", "upstream_stale")
    ELSE Judged("operational", "operational")

Readiness ==
    IF selection.on = "none" THEN Judged("missing", "runtime_selection_missing")
    ELSE IF TooOld(selection.age) THEN Judged("stale", "runtime_selection_stale")
    ELSE IF selection.on = "no" THEN Judged("disabled", "runtime_disabled")
    ELSE IF job.status = "none" THEN Judged("missing", "run_missing")
    ELSE IF TooOld(job.age) THEN Judged("stale", "run_stale")
    ELSE ReadinessOfBatch

(***************************************************************************)
(* The worker                                                              *)
(***************************************************************************)

Proceeds(cycle) == worker' = cycle /\ UNCHANGED reader

\* record_runtime_selection at the start of a tick; a report that cannot be
\* written is only logged.
BeginCycle ==
    /\ worker.phase = "idle"
    /\ \/ selection' = [on |-> "yes", age |-> 0]
       \/ UNCHANGED selection
    /\ Proceeds([IdleWorker EXCEPT !.phase = "fetching"])
    /\ UNCHANGED <<job, outcome, latest, faulty>>

\* The source is switched off: it is not among those that are reported.
SwitchOff ==
    /\ worker.phase = "idle"
    /\ selection' = [on |-> "no", age |-> 0]
    /\ UNCHANGED <<job, outcome, latest, worker, reader, faulty>>

RecordFailure(run, error) ==
    /\ outcome' = [status |-> "failed", error |-> error, run |-> run]
    /\ faulty' = TRUE

\* A failure that cannot be written is only logged.
TryFailure(run, error) ==
    RecordFailure(run, error) \/ UNCHANGED <<outcome, faulty>>

\* The adapter cannot be built, or the cycle raises: there is no batch, and
\* the failure is as of now.
FailsWithoutBatch ==
    /\ worker.phase = "fetching"
    /\ \E error \in OwnErrors : TryFailure("newer", error)
    /\ Proceeds(IdleWorker)
    /\ UNCHANGED <<selection, job, latest>>

\* write_summary: the job row; a failed batch also fails the pipeline, whose
\* error code it leaves as it was.
WriteSummary(status, error, got) ==
    /\ job' = [status |-> status, error |-> error, age |-> worker.age,
               whole |-> status = "succeeded" /\ got = Stations]
    /\ faulty' = (status = "failed")
    /\ outcome' = IF status = "failed"
                  THEN [outcome EXCEPT !.status = "failed", !.run = "same"]
                  ELSE [outcome EXCEPT !.run = "older"]

\* The batch ends and its summary is written.
FinishBatch ==
    /\ worker.phase = "fetching"
    /\ \E status \in Statuses, error \in FetchErrors,
          got \in SUBSET Stations :
          /\ status \in {"skipped", "failed"} => got = {}
          /\ status = "partial" => got # Stations
          /\ WriteSummary(status, IF status = "failed" THEN error ELSE "none", got)
          /\ Proceeds([IdleWorker EXCEPT
                 !.phase = IF status = "failed" THEN "failed" ELSE "written",
                 !.got = got])
    /\ UNCHANGED <<selection, latest>>

\* A summary that cannot be written makes the batch a failed one.
SummaryLost ==
    /\ worker.phase = "fetching"
    /\ Proceeds([IdleWorker EXCEPT !.phase = "unwritten"])
    /\ UNCHANGED <<selection, job, outcome, latest, faulty>>

\* The runner records the failure of the batch, without an error code.
EndFailed ==
    /\ \/ worker.phase = "failed" /\ TryFailure("same", "none")
       \/ worker.phase = "unwritten" /\ TryFailure("newer", "none")
    /\ Proceeds(IdleWorker)
    /\ UNCHANGED <<selection, job, latest>>

\* The readings that were fetched become the latest ones; a feed that stands
\* still delivers again what it delivered before, or what is long past.
Promote ==
    /\ worker.phase = "written"
    /\ \E new \in SUBSET worker.got :
          latest' = [s \in Stations |->
                        IF s \in new THEN 0
                        ELSE IF s \in worker.got /\ latest[s] = None THEN AgeCap
                        ELSE latest[s]]
    /\ worker' = [IdleWorker EXCEPT !.phase = "promoted"]
    /\ reader' = IF reader.phase = "rows"
                 THEN [reader EXCEPT
                         !.newly = @ \/ \E s \in worker.got : latest[s] = None]
                 ELSE reader
    /\ UNCHANGED <<selection, job, outcome, faulty>>

PromotionFails ==
    /\ worker.phase = "written"
    /\ \E error \in OwnErrors : TryFailure("same", error)
    /\ Proceeds(IdleWorker)
    /\ UNCHANGED <<selection, job, latest>>

RecordSuccess ==
    /\ worker.phase = "promoted"
    /\ outcome' = [status |-> "succeeded", error |-> "none", run |-> "same"]
    /\ faulty' = FALSE
    /\ Proceeds(IdleWorker)
    /\ UNCHANGED <<selection, job, latest>>

Abandon ==
    /\ worker.phase # "idle"
    /\ Proceeds(IdleWorker)
    /\ UNCHANGED <<selection, job, outcome, latest, faulty>>

\* Bound: no fetch begins or ends between the two reads of a request.
WorkerNext ==
    \/ /\ reader.phase = "idle"
       /\ \/ BeginCycle \/ SwitchOff \/ FailsWithoutBatch
          \/ FinishBatch \/ SummaryLost \/ EndFailed \/ Abandon
    \/ Promote \/ PromotionFails \/ RecordSuccess

(***************************************************************************)
(* The reader                                                              *)
(***************************************************************************)

FreshnessOf(s, where) ==
    IF latest[s] = None \/ where = "beyond" THEN "absent"
    ELSE IF latest[s] <= Fresh THEN "fresh"
    ELSE IF latest[s] <= 3 * Fresh THEN "degraded" ELSE "stale"

\* query_nearby_realtime_coverage_rows, from any point.
ReadRows ==
    /\ reader.phase = "idle"
    /\ \E place \in [Stations -> {"local", "regional", "beyond"}] :
          /\ \A s \in Remote : place[s] = "beyond"
          /\ reader' = [phase |-> "rows", place |-> place, newly |-> FALSE,
                        rows |-> [s \in Stations |-> FreshnessOf(s, place[s])]]
    /\ UNCHANGED <<selection, job, outcome, latest, worker, faulty>>

\* Mutant: the rows are not compared with the manifest.
InventoryClaimed ==
    /\ selection.on = "yes" /\ ~ TooOld(selection.age)
    /\ PipelineDone /\ job.status = "succeeded"

\* inventory_complete of the health read.
InventoryComplete ==
    /\ selection.on = "yes" /\ ~ TooOld(selection.age)
    /\ PipelineDone /\ job.status = "succeeded"
    /\ job.whole
    /\ Recorded = Stations

Conclusive == InventoryComplete /\ Health = Judged("healthy", "operational")

\* _missing_cause, with a companion source that is not required for absence.
RuntimeCause ==
    CASE Health.health = "failed" ->
            IF Health.reason = "pipeline_stalled"
            THEN "update_pipeline_stalled" ELSE "source_failed"
      [] Health.health = "degraded" -> "source_degraded"
      [] Health.health = "unknown" -> "health_unknown"
      [] Health.health \in {"healthy", "disabled"} -> "none"

Causes(healthRead, verified, companion) ==
    LET seen == {reader.rows[s] : s \in Stations}
    IN  IF seen \cap {"fresh", "degraded"} # {} THEN "none"
        ELSE IF "stale" \in seen
        THEN IF healthRead /\ RuntimeCause # "none" THEN RuntimeCause
             ELSE "stale_observation"
        ELSE IF ~ healthRead THEN "health_unknown"
        ELSE IF RuntimeCause # "none" THEN RuntimeCause
        ELSE IF ~ verified THEN "jurisdiction_unverified"
        ELSE IF Conclusive THEN "no_station_in_range"
        ELSE IF "disabled" \in {Health.health, companion}
        THEN "source_not_configured"
        ELSE IF companion = "unknown" THEN "health_unknown"
        ELSE "inventory_unverified"

\* _availability_state counts a row as local up to five kilometres; a usable
\* row further away is a regional reference.
\* Mutant: a regional reference counts as local.
UsableInRange ==
    \E s \in Stations : reader.rows[s] \in {"fresh", "degraded"}

LocallyUsable ==
    \E s \in Stations :
        reader.place[s] = "local" /\ reader.rows[s] \in {"fresh", "degraded"}

\* can_support_low_realtime.  rain: a rain gauge nearby is usable.
CanSupportLow(healthRead, verified, companion, rain) ==
    /\ healthRead /\ verified
    /\ \/ Health.health \in {"healthy", "degraded"}
       \/ companion \in {"healthy", "degraded"}
    /\ rain /\ LocallyUsable

\* The request reads the health and is answered: with one of these causes, and
\* perhaps with a low risk.
Companions == {"none", "healthy", "failed", "unknown", "disabled"}

MaySay(cause) ==
    /\ reader.phase = "rows"
    /\ \E healthRead, verified \in BOOLEAN, companion \in Companions :
          cause = Causes(healthRead, verified, companion)

MaySayLow ==
    /\ reader.phase = "rows"
    /\ \E healthRead, verified, rain \in BOOLEAN, companion \in Companions :
          CanSupportLow(healthRead, verified, companion, rain)

AnswerPoint ==
    /\ reader.phase = "rows"
    /\ reader' = IdleReader
    /\ UNCHANGED <<selection, job, outcome, latest, worker, faulty>>

(***************************************************************************)
(* Time, in steps longer than a request                                    *)
(***************************************************************************)

Older(age, cap) == IF age = None \/ age = cap THEN age ELSE age + 1

Tick ==
    /\ reader.phase = "idle"
    /\ worker.age = 0          \* bound: a batch lasts into the next step at most
    /\ selection' = [selection EXCEPT !.age = Older(@, Report)]
    /\ job' = [job EXCEPT !.age = Older(@, Report)]
    /\ latest' = [s \in Stations |-> Older(latest[s], AgeCap)]
    /\ worker' = IF worker.phase = "fetching" THEN [worker EXCEPT !.age = 1]
                 ELSE worker
    /\ UNCHANGED <<outcome, reader, faulty>>

DiagnosisNext == WorkerNext \/ ReadRows \/ AnswerPoint \/ Tick

DiagnosisSpec == DiagnosisInit /\ [][DiagnosisNext]_diagVars

(***************************************************************************)
(* Properties                                                              *)
(***************************************************************************)

\* "A pre-fetch failure has no ingestion row, so its generation is newer than
\* the previous run and must remain authoritative until a later run starts":
\* while nothing newer than a recorded failure is known, neither reader of the
\* rows finds the source in order.
FaultShows ==
    faulty => Health.health # "healthy" /\ Readiness.health # "operational"

\* The two diagnoses of one source do not contradict each other: what the
\* operators see as failed is not healthy for the public, and what they see as
\* in order has not failed for it.
DiagnosesAgree ==
    /\ Readiness.health \in {"failed", "stale"} => Health.health # "healthy"
    /\ Readiness.health = "operational" => Health.health # "failed"

\* "No station in range" is said only if none of the inventory is: unless the
\* first reading of one came between the two reads of the request.
AbsenceIsReal ==
    (~ reader.newly /\ \E s \in Stations : reader.place[s] # "beyond")
        => ~ MaySay("no_station_in_range")

\* "A fresh station elsewhere in Taiwan is not query-local coverage": a low
\* risk rests on a station near the point that reported recently, however the
\* sources are.
LowIsLocal ==
    (\A s \in Stations : reader.place[s] = "local" => latest[s] \notin 0 .. 3 * Fresh)
        => ~ MaySayLow
==============================================================================
