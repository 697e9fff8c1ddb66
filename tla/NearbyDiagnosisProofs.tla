------------------------ MODULE NearbyDiagnosisProofs ------------------------
(***************************************************************************)
(* Theorems about NearbyDiagnosis, for every inventory of stations, every  *)
(* set of failures and every choice of the thresholds.                     *)
(***************************************************************************)
EXTENDS NearbyDiagnosis, FiniteSetTheorems, TLAPS

Ages == {None} \cup 0 .. AgeCap
Places == [Stations -> {"local", "regional", "beyond"}]
RowStates == {"fresh", "degraded", "stale", "absent"}

SelectionRows == [on : {"none", "yes", "no"}, age : Nat]
JobRows == [status : Statuses \cup {"none"}, error : Errors, age : Nat, whole : BOOLEAN]
OutcomeRows == [status : {"none", "succeeded", "failed"}, error : Errors,
                run : {"same", "newer", "older"}]
Cycles == [phase : {"idle", "fetching", "failed", "unwritten", "written", "promoted"},
           age : Nat, got : SUBSET Stations]
Requests == [phase : {"idle", "rows"}, place : Places, rows : [Stations -> RowStates],
             newly : BOOLEAN]

DiagTypeOK ==
  /\ selection \in SelectionRows /\ job \in JobRows /\ outcome \in OutcomeRows
  /\ latest \in [Stations -> Ages] /\ worker \in Cycles /\ reader \in Requests
  /\ faulty \in BOOLEAN

\* A recorded failure is in the outcome until a newer batch or a success replaces it.
FaultRecorded == faulty => outcome.status = "failed" /\ outcome.run \in {"same", "newer"}

\* What a request has read of a station still holds when it reads the health: no reading
\* grows old in between, and of a station without one the first has not come, unless it
\* is known to have.
RowsHold ==
  reader.phase = "rows" =>
    \A s \in Stations :
      /\ reader.rows[s] \in {"fresh", "degraded"} => latest[s] \in 0 .. 3 * Fresh
      /\ (reader.rows[s] = "absent" /\ reader.place[s] # "beyond" /\ ~ reader.newly)
           => latest[s] = None

DInv == DiagTypeOK /\ FaultRecorded /\ RowsHold

(***************************************************************************)
(* The steps                                                               *)
(***************************************************************************)
\* An empty database, with nothing running, satisfies the invariant.
LEMMA DInvInit == DiagnosisInit => DInv
<1> SUFFICES ASSUME DiagnosisInit PROVE DInv
  OBVIOUS
<1>1. IdleWorker \in Cycles /\ IdleReader \in Requests /\ IdleReader.phase = "idle"
  BY DEF IdleWorker, IdleReader, Cycles, Requests, Places, RowStates
<1>2. latest \in [Stations -> Ages]
  BY DEF DiagnosisInit, Ages
<1> QED
  BY <1>1, <1>2
  DEF DiagnosisInit, DInv, DiagTypeOK, FaultRecorded, RowsHold, SelectionRows, JobRows,
      OutcomeRows, Errors

\* A step that leaves the stations' readings and the request alone.
LEMMA RowsUntouched ==
  ASSUME DInv, UNCHANGED <<latest, reader>>
  PROVE  RowsHold'
BY DEF DInv, RowsHold

\* The worker's steps before the promotion.
LEMMA IdleIsCycle == IdleWorker \in Cycles
BY DEF IdleWorker, Cycles

\* Trying to record a failure: either the outcome shows it, or a newer one stands in the way.
LEMMA FailureKept ==
  ASSUME DInv, NEW run \in {"same", "newer"}, NEW error \in Errors, TryFailure(run, error)
  PROVE  outcome' \in OutcomeRows /\ faulty' \in BOOLEAN /\ FaultRecorded'
<1>1. CASE RecordFailure(run, error)
  BY <1>1 DEF RecordFailure, FaultRecorded, OutcomeRows
<1>2. CASE UNCHANGED <<outcome, faulty>>
  BY <1>2 DEF DInv, DiagTypeOK, FaultRecorded
<1> QED
  BY <1>1, <1>2 DEF TryFailure

\* The worker's steps that record no failure.
LEMMA WorkerKept ==
  ASSUME DInv, BeginCycle \/ SwitchOff \/ SummaryLost \/ Abandon \/ RecordSuccess
  PROVE  DInv'
<1>1. selection' \in SelectionRows
  BY DEF BeginCycle, SwitchOff, SummaryLost, Abandon, RecordSuccess, DInv, DiagTypeOK,
         SelectionRows
<1>2. worker' \in Cycles
  BY IdleIsCycle
  DEF BeginCycle, SwitchOff, SummaryLost, Abandon, RecordSuccess, Proceeds, DInv,
      DiagTypeOK, Cycles, IdleWorker
<1>3. outcome' \in OutcomeRows /\ faulty' \in BOOLEAN /\ FaultRecorded'
  <2>1. CASE RecordSuccess
    BY <2>1 DEF RecordSuccess, FaultRecorded, OutcomeRows, Errors
  <2>2. CASE UNCHANGED <<outcome, faulty>>
    BY <2>2 DEF DInv, DiagTypeOK, FaultRecorded
  <2> QED
    BY <2>1, <2>2 DEF BeginCycle, SwitchOff, SummaryLost, Abandon
<1>4. UNCHANGED <<job, latest, reader>>
  BY DEF BeginCycle, SwitchOff, SummaryLost, Abandon, RecordSuccess, Proceeds
<1> QED
  BY <1>1, <1>2, <1>3, <1>4, RowsUntouched DEF DInv, DiagTypeOK

\* The worker's steps that record one.
LEMMA FailureStepsKept ==
  ASSUME DInv, FailsWithoutBatch \/ EndFailed \/ PromotionFails
  PROVE  DInv'
<1>1. PICK run \in {"same", "newer"}, error \in Errors : TryFailure(run, error)
  BY DiagnosisAssumption DEF FailsWithoutBatch, EndFailed, PromotionFails, Errors
<1>2. UNCHANGED <<selection, job, latest, reader>> /\ worker' = IdleWorker
  BY DEF FailsWithoutBatch, EndFailed, PromotionFails, Proceeds
<1> QED
  BY <1>1, <1>2, FailureKept, IdleIsCycle, RowsUntouched DEF DInv, DiagTypeOK

\* The end of a batch writes the job row, and with it the outcome's place before or after it.
LEMMA FinishBatchKept ==
  ASSUME DInv, FinishBatch
  PROVE  DInv'
<1>1. PICK status \in Statuses, error \in Errors, got \in SUBSET Stations :
        /\ WriteSummary(status, error, got)
        /\ Proceeds([IdleWorker EXCEPT
                 !.phase = IF status = "failed" THEN "failed" ELSE "written", !.got = got])
  BY DiagnosisAssumption DEF FinishBatch, Errors
<1>2. job' \in JobRows
  BY <1>1 DEF WriteSummary, DInv, DiagTypeOK, Cycles, JobRows
<1>3. outcome' \in OutcomeRows /\ faulty' \in BOOLEAN /\ FaultRecorded'
  BY <1>1 DEF WriteSummary, DInv, DiagTypeOK, FaultRecorded, OutcomeRows
<1>4. worker' \in Cycles
  BY <1>1 DEF Proceeds, IdleWorker, Cycles
<1>5. UNCHANGED <<selection, latest, reader>>
  BY <1>1 DEF FinishBatch, Proceeds
<1> QED
  BY <1>2, <1>3, <1>4, <1>5, RowsUntouched DEF DInv, DiagTypeOK

\* A promotion makes readings younger, and is noted when it brings the first of a station.
LEMMA PromoteKept ==
  ASSUME DInv, Promote
  PROVE  DInv'
<1>1. PICK new \in SUBSET worker.got :
        latest' = [s \in Stations |->
                     IF s \in new THEN 0
                     ELSE IF s \in worker.got /\ latest[s] = None THEN AgeCap
                     ELSE latest[s]]
  BY DEF Promote
<1>2. \A s \in Stations :
        /\ latest'[s] \in {0, AgeCap, latest[s]}
        /\ latest[s] # None => latest'[s] \in {0, latest[s]}
        /\ s \notin worker.got => latest'[s] = latest[s]
  BY <1>1
<1>3. latest' \in [Stations -> Ages]
  BY <1>1, DiagnosisAssumption DEF DInv, DiagTypeOK, Ages
<1>4. worker' \in Cycles
  BY DEF Promote, IdleWorker, Cycles
<1>5. reader' = IF reader.phase = "rows"
                THEN [reader EXCEPT
                        !.newly = @ \/ \E s \in worker.got : latest[s] = None]
                ELSE reader
  BY DEF Promote
<1>6. /\ reader' \in Requests
      /\ reader'.phase = reader.phase /\ reader'.rows = reader.rows
      /\ reader'.place = reader.place
      /\ reader.phase = "rows" => (reader'.newly <=> (reader.newly \/
                                     \E s \in worker.got : latest[s] = None))
  BY <1>5 DEF DInv, DiagTypeOK, Requests
<1>7. RowsHold'
  <2> SUFFICES ASSUME reader.phase = "rows", NEW s \in Stations
               PROVE  /\ reader.rows[s] \in {"fresh", "degraded"} => latest'[s] \in 0 .. 3 * Fresh
                      /\ (/\ reader.rows[s] = "absent" /\ reader.place[s] # "beyond"
                          /\ ~ reader'.newly) => latest'[s] = None
    BY <1>6 DEF RowsHold
  <2>1. ASSUME reader.rows[s] \in {"fresh", "degraded"} PROVE latest'[s] \in 0 .. 3 * Fresh
    <3>1. latest[s] \in 0 .. 3 * Fresh
      BY <2>1 DEF DInv, RowsHold
    <3> QED
      BY <1>2, <3>1, DiagnosisAssumption DEF None
  <2>2. ASSUME reader.rows[s] = "absent", reader.place[s] # "beyond", ~ reader'.newly
        PROVE  latest'[s] = None
    BY <1>2, <1>6, <2>2 DEF DInv, RowsHold
  <2> QED
    BY <2>1, <2>2
<1>8. UNCHANGED <<selection, job, outcome, faulty>>
  BY DEF Promote
<1> QED
  BY <1>3, <1>4, <1>6, <1>7, <1>8 DEF DInv, DiagTypeOK, FaultRecorded

\* The request's first read takes the rows of one instant.
LEMMA ReadRowsKept ==
  ASSUME DInv, ReadRows
  PROVE  DInv'
<1>1. PICK place \in Places :
        reader' = [phase |-> "rows", place |-> place, newly |-> FALSE,
                   rows |-> [s \in Stations |-> FreshnessOf(s, place[s])]]
  BY DEF ReadRows, Places
<1>2. \A s \in Stations : FreshnessOf(s, place[s]) \in RowStates
  BY DEF FreshnessOf, RowStates
<1>3. reader' \in Requests
  BY <1>1, <1>2 DEF Requests
<1>4. \A s \in Stations :
        /\ FreshnessOf(s, place[s]) \in {"fresh", "degraded"} => latest[s] \in 0 .. 3 * Fresh
        /\ FreshnessOf(s, place[s]) = "absent" /\ place[s] # "beyond" => latest[s] = None
  BY DiagnosisAssumption DEF FreshnessOf, DInv, DiagTypeOK, Ages
<1>5. UNCHANGED <<selection, job, outcome, latest, worker, faulty>>
  BY DEF ReadRows
<1>6. RowsHold'
  BY <1>1, <1>4, <1>5 DEF RowsHold
<1> QED
  BY <1>3, <1>5, <1>6 DEF DInv, DiagTypeOK, FaultRecorded

\* The request's last read changes nothing but the request.
LEMMA AnswerPointKept ==
  ASSUME DInv, AnswerPoint
  PROVE  DInv'
<1>1. IdleReader \in Requests /\ IdleReader.phase = "idle"
  BY DEF IdleReader, Requests, Places, RowStates
<1> QED
  BY <1>1 DEF AnswerPoint, DInv, DiagTypeOK, FaultRecorded, RowsHold

\* Readings and summaries grow older together; a request in hand bounds how far.
LEMMA TickKept ==
  ASSUME DInv, Tick
  PROVE  DInv'
<1>1. \A age \in Nat : Older(age, Report) \in Nat
  BY DEF Older
<1>2. \A age \in Ages : Older(age, AgeCap) \in Ages
  BY DiagnosisAssumption DEF Older, Ages, None
<1>3. selection' \in SelectionRows /\ job' \in JobRows
  BY <1>1 DEF Tick, DInv, DiagTypeOK, SelectionRows, JobRows
<1>4. latest' \in [Stations -> Ages]
  BY <1>2 DEF Tick, DInv, DiagTypeOK
<1>5. worker' \in Cycles
  BY DEF Tick, DInv, DiagTypeOK, Cycles
<1>6. UNCHANGED <<outcome, reader, faulty>> /\ reader.phase = "idle"
  BY DEF Tick
<1> QED
  BY <1>3, <1>4, <1>5, <1>6 DEF DInv, DiagTypeOK, FaultRecorded, RowsHold

\* The invariant of ingestion and reader is inductive.
LEMMA DInvNext == DInv /\ [DiagnosisNext]_diagVars => DInv'
<1>1. ASSUME DInv, UNCHANGED diagVars PROVE DInv'
  BY <1>1 DEF diagVars, DInv, DiagTypeOK, FaultRecorded, RowsHold
<1> QED
  BY <1>1, WorkerKept, FailureStepsKept, FinishBatchKept, PromoteKept, ReadRowsKept,
     AnswerPointKept, TickKept
  DEF DiagnosisNext, WorkerNext

\* So it holds in every state of every run.
LEMMA DInvHolds == DiagnosisSpec => []DInv
BY DInvInit, DInvNext, PTL DEF DiagnosisSpec
(***************************************************************************)
(* What follows of the verdicts                                            *)
(***************************************************************************)

\* FaultShows
LEMMA FailuresAreNotHealthy ==
  ASSUME NEW error \in Errors
  PROVE  /\ FailureDecision(error).health \in {"degraded", "failed"}
         /\ \A fallback : FailedRun(error, fallback).health \in {"degraded", "failed"}
BY DEF FailureDecision, FailedRun, Judged, Errors

\* A recorded failure is the newest outcome the health query finds.
LEMMA FaultIsSeen ==
  ASSUME DInv
  PROVE  FaultShows
<1> SUFFICES ASSUME faulty PROVE Health.health # "healthy" /\ Readiness.health # "operational"
  BY DEF FaultShows
<1>1. outcome.status = "failed" /\ MatchesRun /\ FailedForLatestRun
      /\ outcome.error \in Errors /\ job.error \in Errors
  BY DEF DInv, DiagTypeOK, FaultRecorded, MatchesRun, FailedForLatestRun, OutcomeRows, JobRows
<1>2. Health.health # "healthy"
  BY <1>1, FailuresAreNotHealthy DEF Health, Judged
<1>3. ReadinessOfBatch.health # "operational"
  BY <1>1, FailuresAreNotHealthy DEF ReadinessOfBatch
<1> QED
  BY <1>2, <1>3 DEF Readiness, Judged

\* DiagnosesAgree
LEMMA StationCounts ==
  ASSUME DInv
  PROVE  \A age \in Nat : /\ IsFiniteSet(Within(age)) /\ Cardinality(Within(age)) \in Nat
                          /\ Cardinality(Within(age)) = 0 <=> Within(age) = {}
<1>1. \A age : Within(age) \in SUBSET Stations
  BY DEF Within, Recorded
<1> QED
  BY <1>1, FS_Subset, FS_CardinalityType, FS_EmptySet, DiagnosisAssumption

\* A station with a reading young enough to be seen keeps the health from being failed.
LEMMA SeenIsNotFailed ==
  ASSUME DInv, Recorded = {} \/ Newest(3 * Fresh)
  PROVE  ObservationHealth.health # "failed"
<1> DEFINE active == Cardinality(Within(Active))
           fresh  == Cardinality(Within(Fresh))
           usable == Cardinality(Within(3 * Fresh))
<1>1. active \in Nat /\ fresh \in Nat /\ usable \in Nat
      /\ (active = 0 <=> Within(Active) = {}) /\ (usable = 0 <=> Within(3 * Fresh) = {})
  BY StationCounts, DiagnosisAssumption
<1>2. active = 0 \/ usable > 0
  BY <1>1 DEF Newest, Within
<1>3. CASE active = 0
  BY <1>3 DEF ObservationHealth, Judged
<1>4. CASE active > 0 /\ usable > 0
  <2> HIDE DEF active, fresh, usable
  <2>1. ~ (active = 0) /\ ~ (usable = 0)
    BY <1>1, <1>4
  <2>2. \/ 5 * fresh >= 4 * active
        \/ 5 * fresh < 4 * active /\ 2 * usable >= active
        \/ 2 * usable < active /\ usable > 0
    BY <1>1, <1>4
  <2> QED
    BY <1>4, <2>1, <2>2 DEF ObservationHealth, Judged, active, fresh, usable
<1> QED
  BY <1>1, <1>2, <1>3, <1>4

\* Hence the point answer and the readiness report do not contradict one another.
LEMMA DiagnosesMeet ==
  ASSUME DInv
  PROVE  DiagnosesAgree
<1>0. /\ job.status \in Statuses \cup {"none"} /\ job.error \in Errors /\ job.age \in Nat
      /\ selection.on \in {"none", "yes", "no"} /\ selection.age \in Nat
      /\ outcome.error \in Errors
  BY DEF DInv, DiagTypeOK, JobRows, SelectionRows, OutcomeRows
<1>1. ASSUME Readiness.health \in {"failed", "stale"} PROVE Health.health # "healthy"
  <2>1. CASE selection.on # "none" /\ TooOld(selection.age)
    BY <2>1 DEF Health, Judged
  <2>2. CASE selection.on = "no"
    BY <2>2 DEF Health, Judged
  <2>3. CASE outcome.status = "failed" /\ MatchesRun
    BY <1>0, <2>3, FailuresAreNotHealthy DEF Health, Judged
  <2>4. CASE /\ selection.on = "yes" /\ ~ TooOld(selection.age)
             /\ ~ (outcome.status = "failed" /\ MatchesRun)
    <3>1. Health = HealthOfBatch
      BY <2>4 DEF Health
    <3>2. job.status # "none"
      BY <1>1, <2>4 DEF Readiness, Judged
    <3>3. CASE TooOld(job.age)
      BY <3>1, <3>2, <3>3 DEF HealthOfBatch, Judged
    <3>4. CASE ~ TooOld(job.age)
      <4>1. ~ FailedForLatestRun
        BY <2>4 DEF FailedForLatestRun, MatchesRun, DInv, DiagTypeOK, OutcomeRows
      <4>2. job.status = "failed"
        BY <1>1, <2>4, <3>2, <3>4, <4>1 DEF Readiness, ReadinessOfBatch, Judged
      <4>3. HealthOfBatch = FailureDecision(job.error)
        BY <3>4, <4>2 DEF HealthOfBatch
      <4> QED
        BY <1>0, <3>1, <4>3, FailuresAreNotHealthy
    <3> QED
      BY <3>3, <3>4
  <2> QED
    BY <1>0, <1>1, <2>1, <2>2, <2>3, <2>4 DEF Readiness, Judged
<1>2. ASSUME Readiness.health = "operational" PROVE Health.health # "failed"
  <2>1. /\ selection.on = "yes" /\ ~ TooOld(selection.age)
        /\ job.status # "none" /\ ~ TooOld(job.age)
        /\ ReadinessOfBatch.health = "operational"
    BY <1>0, <1>2 DEF Readiness, Judged
  <2>2. /\ job.status = "succeeded" /\ PipelineDone
        /\ Recorded = {} \/ Newest(3 * Fresh)
    BY <1>0, <2>1, FailuresAreNotHealthy DEF ReadinessOfBatch, Judged
  <2>3. Health = HealthOfBatch
    BY <2>1, <2>2 DEF Health, PipelineDone
  <2>4. HealthOfBatch = IF job.age > Delayed /\ ObservationHealth.health = "healthy"
                        THEN Judged("degraded", "delayed") ELSE ObservationHealth
    BY <2>1, <2>2 DEF HealthOfBatch
  <2> QED
    BY <2>2, <2>3, <2>4, SeenIsNotFailed DEF Judged
<1> QED
  BY <1>1, <1>2 DEF DiagnosesAgree

\* AbsenceIsReal and LowIsLocal
LEMMA ObservationIsJudged ==
  ASSUME DInv
  PROVE  ObservationHealth.health \in {"degraded", "healthy", "failed"}
<1> DEFINE active == Cardinality(Within(Active))
           fresh  == Cardinality(Within(Fresh))
           usable == Cardinality(Within(3 * Fresh))
<1>1. active \in Nat /\ fresh \in Nat /\ usable \in Nat
  BY StationCounts, DiagnosisAssumption
<1> HIDE DEF active, fresh, usable
<1>2. CASE active = 0
  BY <1>2 DEF ObservationHealth, Judged, active, fresh, usable
<1>3. CASE active > 0
  <2>1. \/ 5 * fresh >= 4 * active
        \/ 5 * fresh < 4 * active /\ 2 * usable >= active
        \/ 2 * usable < active /\ usable > 0
        \/ usable = 0
    BY <1>1, <1>3
  <2>2. active > 0 /\ ~ (active = 0)
    BY <1>1, <1>3
  <2> QED
    BY <2>1, <2>2 DEF ObservationHealth, Judged, active, fresh, usable
<1> QED
  BY <1>1, <1>2, <1>3

\* The health classification answers with one of five words.
LEMMA HealthIsKnown ==
  ASSUME DInv
  PROVE  Health.health \in {"failed", "degraded", "unknown", "healthy", "disabled"}
<1>1. /\ job.status \in Statuses \cup {"none"} /\ job.error \in Errors
      /\ outcome.error \in Errors
  BY DEF DInv, DiagTypeOK, JobRows, OutcomeRows
<1>2. HealthOfBatch.health \in {"failed", "degraded", "unknown", "healthy"}
  BY <1>1, ObservationIsJudged, FailuresAreNotHealthy DEF HealthOfBatch, Judged, Statuses
<1> QED
  BY <1>1, <1>2, FailuresAreNotHealthy DEF Health, Judged

\* The reader names "no station in range" only when every station is recorded and it found
\* none of their rows.
LEMMA AbsenceIsChecked ==
  ASSUME DInv, reader.phase = "rows", NEW healthRead \in BOOLEAN, NEW verified \in BOOLEAN,
         NEW companion \in Companions,
         Causes(healthRead, verified, companion) = "no_station_in_range"
  PROVE  Recorded = Stations /\ \A s \in Stations : reader.rows[s] = "absent"
<1>1. RuntimeCause # "no_station_in_range"
  <2>1. Health.health \in {"failed", "degraded", "unknown", "healthy", "disabled"}
    BY HealthIsKnown
  <2> QED
    BY <2>1 DEF RuntimeCause
<1>2. \A s \in Stations : reader.rows[s] = "absent"
  BY <1>1 DEF Causes, DInv, DiagTypeOK, Requests, RowStates
<1>3. Conclusive
  BY <1>1 DEF Causes
<1> QED
  BY <1>2, <1>3 DEF Conclusive, InventoryComplete

\* Hence that answer is true of the stations, unless a first reading
\* came between the two reads.
LEMMA AbsenceMeansAbsent ==
  ASSUME DInv
  PROVE  AbsenceIsReal
<1> SUFFICES ASSUME ~ reader.newly, NEW s \in Stations, reader.place[s] # "beyond",
                    MaySay("no_station_in_range")
             PROVE  FALSE
  BY DEF AbsenceIsReal
<1>1. reader.phase = "rows" /\ Recorded = Stations /\ reader.rows[s] = "absent"
  BY AbsenceIsChecked DEF MaySay
<1> QED
  BY <1>1 DEF DInv, RowsHold, Recorded

\* A low risk is answered only where a station close by was seen.
LEMMA LowMeansLocal ==
  ASSUME DInv
  PROVE  LowIsLocal
BY DEF LowIsLocal, MaySayLow, CanSupportLow, LocallyUsable, DInv, RowsHold

\* "A pre-fetch failure has no ingestion row, so its generation is newer than the previous
\* run and must remain authoritative until a later run starts": for any stations, failures
\* and thresholds, neither diagnosis finds a source in order while a failure newer than
\* every batch is recorded.
THEOREM FailuresShow == DiagnosisSpec => []FaultShows
BY DInvHolds, FaultIsSeen, PTL

\* The public health of a source and the operators' readiness do not contradict each other.
THEOREM DiagnosesDoNotContradict == DiagnosisSpec => []DiagnosesAgree
BY DInvHolds, DiagnosesMeet, PTL

\* No point is told that no station is in range while the inventory has one there, unless
\* its first reading came between the two reads of the request.
THEOREM AbsenceIsNeverGuessed == DiagnosisSpec => []AbsenceIsReal
BY DInvHolds, AbsenceMeansAbsent, PTL

\* A low risk rests on a station near the point that reported recently, although the
\* readings are replaced between the read of the rows and the answer.
THEOREM LowRiskIsLocal == DiagnosisSpec => []LowIsLocal
BY DInvHolds, LowMeansLocal, PTL
===============================================================================
