---------------------------- MODULE PipelineStatus ----------------------------
(***************************************************************************)
(* What the cycles of one adapter record about themselves: a row in        *)
(* ingestion_jobs for each batch, and in the adapter's data_sources row    *)
(* the health of the newest batch and the outcome of the newest pipeline   *)
(* run (fetch, staging and promotion).  Cycles overlap when a scheduler    *)
(* loses its lease or an operator runs one by hand; every record says      *)
(* which run it is of, and an older run must not overwrite a newer one.    *)
(* Instants are numbered in the order in which they are taken.             *)
(***************************************************************************)
EXTENDS Naturals, FiniteSets

CONSTANTS
  MaxCycles,   \* bound: the cycles that are run, numbered as they begin
  MaxOverlap   \* how many of them can be under way at once

ASSUME CyclesAssumption == MaxCycles \in Nat /\ MaxOverlap \in Nat

Cycles == 1..MaxCycles

VARIABLES
  now,       \* the next instant
  phase,     \* where each cycle is
  cycleAt,   \* cycle_started_at
  batchAt,   \* started_at of its batch
  outcome,   \* status of its AdapterBatchRunSummary
  jobs,      \* ingestion_jobs: started_at and status of each batch
  health,    \* data_sources.health_status
  pipeline,  \* runtime_pipeline_status
  pipeAt,    \* runtime_pipeline_run_at
  snapshot   \* the batch instant of metadata.active_snapshot_raw_ref

pipeVars == <<now, phase, cycleAt, batchAt, outcome, jobs, health, pipeline, pipeAt, snapshot>>
source == <<jobs, health, pipeline, pipeAt, snapshot>>

Outcomes == {"succeeded", "partial", "skipped", "failed"}

PipelineInit ==
  /\ now = 1
  /\ phase = [c \in Cycles |-> "new"]
  /\ cycleAt = [c \in Cycles |-> 0] /\ batchAt = [c \in Cycles |-> 0]
  /\ outcome = [c \in Cycles |-> "skipped"]
  /\ jobs = {} /\ health = "unknown"
  /\ pipeline = "none" /\ pipeAt = 0 /\ snapshot = 0

Underway == {c \in Cycles : phase[c] \notin {"new", "done"}}
Proceed(c, p) == phase' = [phase EXCEPT ![c] = p]
\* A cycle that is over leaves its variables.
Leaves(c) ==
  /\ Proceed(c, "done")
  /\ cycleAt' = [cycleAt EXCEPT ![c] = 0] /\ batchAt' = [batchAt EXCEPT ![c] = 0]
  /\ outcome' = [outcome EXCEPT ![c] = "skipped"]

-----------------------------------------------------------------------------
\* write_pipeline_status: neither a newer recorded run nor a newer batch.
\* Mutant: neither is looked for.
NotOvertakenAny(t) == TRUE
NotOvertaken(t) == pipeAt <= t /\ \A j \in jobs : j.at <= t

RecordSuccess(t, ref) ==
  /\ IF NotOvertaken(t)
     THEN /\ pipeline' = "succeeded" /\ pipeAt' = t
          /\ snapshot' = IF ref THEN t ELSE snapshot
     ELSE UNCHANGED <<pipeline, pipeAt, snapshot>>
  /\ UNCHANGED <<jobs, health>>

RecordFailure(t) ==
  /\ IF NotOvertaken(t)
     THEN pipeline' = "failed" /\ pipeAt' = t
     ELSE UNCHANGED <<pipeline, pipeAt>>
  /\ UNCHANGED <<jobs, health, snapshot>>

\* A failure that cannot be written is only logged.
TryFailure(t) == RecordFailure(t) \/ UNCHANGED source

\* write_summary, one transaction: the job row, and the health unless a newer batch has
\* been recorded.  Mutant: a newer batch is not looked for.
NewestAny(t) == TRUE
Newest(t) == \A j \in jobs : j.at <= t

HealthOf(o) ==
  CASE o = "succeeded" -> "healthy" [] o = "partial" -> "degraded"
    [] o = "failed" -> "failed" [] o = "skipped" -> "unknown"

WriteSummary(c, o) ==
  LET t == batchAt[c]
  IN  /\ jobs' = jobs \cup {[at |-> t, status |-> o]}
      /\ health' = IF Newest(t) THEN HealthOf(o) ELSE health
      /\ IF o = "failed" /\ Newest(t)
         THEN pipeline' = "failed" /\ pipeAt' = t
         ELSE UNCHANGED <<pipeline, pipeAt>>
      /\ UNCHANGED snapshot

-----------------------------------------------------------------------------
BeginCycle(c) ==
  /\ phase[c] = "new" /\ \A d \in 1..(c - 1) : phase[d] # "new"
  /\ Cardinality(Underway) < MaxOverlap
  /\ Proceed(c, "begun")
  /\ cycleAt' = [cycleAt EXCEPT ![c] = now] /\ now' = now + 1
  /\ UNCHANGED <<batchAt, outcome, source>>

\* The catalogue is unavailable: a failure as of the cycle's start.  It has the source
\* disabled: nothing.  The adapter cannot be built: a failure as of now.
EndEarly(c) ==
  /\ phase[c] = "begun"
  /\ \/ TryFailure(cycleAt[c]) /\ UNCHANGED now
     \/ UNCHANGED <<now, source>>
     \/ TryFailure(now) /\ now' = now + 1
  /\ Leaves(c)

\* run_adapter_batch takes started_at and fetches.
StartBatch(c) ==
  /\ phase[c] = "begun"
  /\ Proceed(c, "fetching")
  /\ batchAt' = [batchAt EXCEPT ![c] = now] /\ now' = now + 1
  /\ UNCHANGED <<cycleAt, outcome, source>>

\* Fetched and staged, or not; then the summary is written.  A write that raises turns the
\* batch into a failed one, whether or not it was committed.
FinishBatch(c) ==
  /\ phase[c] = "fetching"
  /\ \E o \in Outcomes :
       \/ WriteSummary(c, o) /\ outcome' = [outcome EXCEPT ![c] = o]
       \/ /\ WriteSummary(c, o) \/ UNCHANGED source
          /\ outcome' = [outcome EXCEPT ![c] = "failed"]
  /\ Proceed(c, "summarised")
  /\ UNCHANGED <<now, cycleAt, batchAt>>

\* A failed batch is not promoted; the runner records its failure.
EndFailed(c) ==
  /\ phase[c] = "summarised" /\ outcome[c] = "failed"
  /\ TryFailure(batchAt[c])
  /\ Leaves(c)
  /\ UNCHANGED now

\* The promotion, with its one retry, succeeds.  A complete snapshot becomes the active one.
Promoted(c) ==
  /\ phase[c] = "summarised" /\ outcome[c] # "failed"
  /\ \E ref \in BOOLEAN :
       /\ ref => outcome[c] \in {"succeeded", "partial"}
       /\ RecordSuccess(batchAt[c], ref)
  /\ Proceed(c, "recorded")
  /\ UNCHANGED <<now, cycleAt, batchAt, outcome>>

\* It raises, or the warnings of an empty poll cannot be retired.
PromotionFails(c) ==
  /\ phase[c] = "summarised" /\ outcome[c] # "failed"
  /\ TryFailure(batchAt[c])
  /\ Leaves(c)
  /\ UNCHANGED now

\* An exception leaves the cycle (the success cannot be written): a failure as of now.
CycleRaises(c) ==
  /\ phase[c] = "summarised"
  /\ TryFailure(now) /\ now' = now + 1
  /\ Leaves(c)

\* The historical coverage of the batch is recorded, or its failure is.
EndCycle(c) ==
  /\ phase[c] = "recorded"
  /\ UNCHANGED source \/ RecordFailure(batchAt[c])
  /\ Leaves(c)
  /\ UNCHANGED now

\* The process dies.
Abandon(c) ==
  /\ c \in Underway /\ Leaves(c)
  /\ UNCHANGED <<now, source>>

PipelineNext ==
  \E c \in Cycles :
    BeginCycle(c) \/ EndEarly(c) \/ StartBatch(c) \/ FinishBatch(c) \/ EndFailed(c) \/ Promoted(c)
      \/ PromotionFails(c) \/ CycleRaises(c) \/ EndCycle(c) \/ Abandon(c)

PipelineSpec == PipelineInit /\ [][PipelineNext]_pipeVars

-----------------------------------------------------------------------------
\* The shape of the state.
PipelineTypeOK ==
  /\ now \in Nat
  /\ phase \in [Cycles -> {"new", "begun", "fetching", "summarised", "recorded", "done"}]
  /\ cycleAt \in [Cycles -> Nat] /\ batchAt \in [Cycles -> Nat]
  /\ outcome \in [Cycles -> Outcomes]
  /\ jobs \subseteq [at : Nat, status : Outcomes]
  /\ health \in {"unknown", "healthy", "degraded", "failed"}
  /\ pipeline \in {"none", "succeeded", "failed"}
  /\ pipeAt \in Nat /\ snapshot \in Nat

\* The health shown is that of the batch that started last among those recorded, in
\* whatever order overlapping batches end.
HealthOfNewest ==
  \A j \in jobs : (\A k \in jobs : k.at <= j.at) => health = HealthOf(j.status)

\* The active snapshot never goes back to that of an earlier batch, although the instant
\* of the last pipeline outcome can: a failed batch moves it back over the failure of a
\* newer cycle that had no batch.
SnapshotForward == [][snapshot' >= snapshot]_pipeVars
==============================================================================
