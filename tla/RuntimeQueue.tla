----------------------------- MODULE RuntimeQueue -----------------------------
(***************************************************************************)
(* The durable job queue in worker_runtime_jobs: producers enqueue one     *)
(* active job per adapter, consumers claim jobs under a lease that nobody  *)
(* renews, jobs are retried up to max_attempts, and an operator replays    *)
(* failed jobs unless they are quarantined.                                *)
(* Every call is one transaction; a call whose answer is lost may have     *)
(* committed.  Jobs of one priority are claimed in any order.              *)
(***************************************************************************)
EXTENDS Naturals

CONSTANTS
  Consumers,     \* queue worker processes
  InstanceName,  \* consumer -> the worker_id it claims with (metrics_instance)
  JobIds,        \* bound: the rows that can be inserted
  DedupeKeys,    \* one for each adapter
  MaxAttempts,   \* max_attempts of every job
  MaxClaims,     \* bound: how often one row can be claimed
  NoJob          \* a consumer or an operator without a job

Names == {InstanceName[c] : c \in Consumers}

ASSUME ConsumersAssumption == DOMAIN InstanceName = Consumers
ASSUME AttemptsAssumption == MaxAttempts \in Nat \ {0} /\ MaxClaims \in Nat
ASSUME NoJobAssumption == NoJob \notin JobIds /\ NoJob \notin Names

VARIABLES
  jobStatus,     \* status of each row, "absent" before it is inserted
  key,        \* dedupe_key of each row
  attempts,   \* attempts of each row
  owner,      \* leased_by of each row, or NoJob
  expired,    \* rows whose lease_expires_at has passed
  due,        \* rows whose run_after has passed
  working,    \* the job each consumer is working on, or NoJob
  quarantine, \* jobs with an active row in worker_runtime_queue_poison_quarantine
  replay,     \* the job locked by the operator's open transaction, or NoJob
  claims,     \* history: how often each row has been claimed
  claim       \* history: which claim of its job each consumer works under

rows == <<jobStatus, key, attempts, owner, expired, due>>
queueVars == <<jobStatus, key, attempts, owner, expired, due, working, quarantine, replay,
               claims, claim>>

Statuses == {"absent", "queued", "running", "succeeded", "failed"}

QueueInit ==
  /\ jobStatus = [j \in JobIds |-> "absent"]
  /\ key \in [JobIds -> DedupeKeys]
  /\ attempts = [j \in JobIds |-> 0]
  /\ owner = [j \in JobIds |-> NoJob]
  /\ expired = {} /\ due = {}
  /\ working = [c \in Consumers |-> NoJob]
  /\ quarantine = {} /\ replay = NoJob
  /\ claims = [j \in JobIds |-> 0]
  /\ claim = [c \in Consumers |-> 0]

-----------------------------------------------------------------------------
\* The rows of the partial unique index idx_worker_runtime_jobs_active_dedupe.
QueuedWithKey(k) == {j \in JobIds : jobStatus[j] = "queued" /\ key[j] = k}  \* mutant
ActiveWithKey(k) == {j \in JobIds : jobStatus[j] \in {"queued", "running"} /\ key[j] = k}

\* enqueue_adapter_job: a new row unless an active one has the key (otherwise the call
\* answers "deduped" and changes nothing).
Enqueue(j) ==
  /\ jobStatus[j] = "absent" /\ ActiveWithKey(key[j]) = {}
  /\ jobStatus' = [jobStatus EXCEPT ![j] = "queued"]
  /\ due' = due \cup {j}
  /\ UNCHANGED <<key, attempts, owner, expired, working, quarantine, replay, claims, claim>>

\* Mutant: an expired lease is not claimed again.
ClaimableQueued(j) == jobStatus[j] = "queued" /\ j \in due

Claimable(j) ==
  \/ jobStatus[j] = "queued" /\ j \in due
  \/ jobStatus[j] = "running" /\ j \in expired /\ attempts[j] < MaxAttempts

\* dequeue_adapter_job: FOR UPDATE SKIP LOCKED passes over the row an operator has
\* locked.  If the answer is lost the consumer reports queue_unavailable and the row
\* stays leased to it.
ClaimJob(c, j) ==
  /\ working[c] = NoJob /\ Claimable(j) /\ replay # j
  /\ claims[j] < MaxClaims
  /\ jobStatus' = [jobStatus EXCEPT ![j] = "running"]
  /\ attempts' = [attempts EXCEPT ![j] = @ + 1]
  /\ owner' = [owner EXCEPT ![j] = InstanceName[c]]
  /\ expired' = expired \ {j}
  /\ claims' = [claims EXCEPT ![j] = @ + 1]
  /\ \/ /\ working' = [working EXCEPT ![c] = j]
        /\ claim' = [claim EXCEPT ![c] = claims[j] + 1]
     \/ UNCHANGED <<working, claim>>
  /\ UNCHANGED <<key, due, quarantine, replay>>

\* The WHERE of mark_job_succeeded and mark_job_failed.
HoldsAny(c, j) == jobStatus[j] = "running"  \* mutant: leased_by is not compared
Holds(c, j) == jobStatus[j] = "running" /\ owner[j] = InstanceName[c]

SetSucceeded(j) ==
  /\ jobStatus' = [jobStatus EXCEPT ![j] = "succeeded"]
  /\ owner' = [owner EXCEPT ![j] = NoJob]
  /\ expired' = expired \ {j}
  /\ UNCHANGED <<key, attempts, due>>

SetFailed(j) ==
  /\ jobStatus' = [jobStatus EXCEPT ![j] = IF attempts[j] < MaxAttempts THEN "queued" ELSE "failed"]
  /\ due' = IF attempts[j] < MaxAttempts THEN due \ {j} ELSE due
  /\ owner' = [owner EXCEPT ![j] = NoJob]
  /\ expired' = expired \ {j}
  /\ UNCHANGED <<key, attempts>>

\* The end of work_runtime_queue_once: the adapter ran and the job is marked, or nothing
\* is updated because the lease is another's or the database is unavailable.
Finish(c) ==
  /\ working[c] # NoJob
  /\ \/ Holds(c, working[c]) /\ (SetSucceeded(working[c]) \/ SetFailed(working[c]))
     \/ UNCHANGED rows
  /\ working' = [working EXCEPT ![c] = NoJob]
  /\ UNCHANGED <<quarantine, replay, claims, claim>>

\* The process dies, and its supervisor starts it again with the same name.
Restart(c) ==
  /\ working[c] # NoJob
  /\ working' = [working EXCEPT ![c] = NoJob]
  /\ UNCHANGED <<jobStatus, key, attempts, owner, expired, due, quarantine, replay, claims, claim>>

\* Time passes: a lease runs out, a retry delay is over.
Expire(j) ==
  /\ jobStatus[j] = "running" /\ j \notin expired
  /\ expired' = expired \cup {j}
  /\ UNCHANGED <<jobStatus, key, attempts, owner, due, working, quarantine, replay, claims, claim>>

BecomeDue(j) ==
  /\ jobStatus[j] = "queued" /\ j \notin due
  /\ due' = due \cup {j}
  /\ UNCHANGED <<jobStatus, key, attempts, owner, expired, working, quarantine, replay, claims, claim>>

-----------------------------------------------------------------------------
\* requeue_failed_job_with_audit locks the row (FOR UPDATE) and goes on to the update
\* only for a failed job without an active quarantine.
Replayable(j) == jobStatus[j] = "failed" /\ j \notin quarantine

BeginReplay(j) ==
  /\ replay = NoJob /\ Replayable(j)
  /\ replay' = j
  /\ UNCHANGED <<jobStatus, key, attempts, owner, expired, due, working, quarantine, claims, claim>>

\* The update, with attempts reset or kept; the unique index refuses it, and the
\* transaction rolls back, when another job of the key has become active.
EndReplay ==
  /\ replay # NoJob
  /\ \/ /\ ActiveWithKey(key[replay]) = {}
        /\ jobStatus' = [jobStatus EXCEPT ![replay] = "queued"]
        /\ attempts' = [attempts EXCEPT ![replay] = 0] \/ UNCHANGED attempts
        /\ due' = due \cup {replay}
        /\ owner' = [owner EXCEPT ![replay] = NoJob]
        /\ UNCHANGED <<key, expired>>
     \/ UNCHANGED rows
  /\ replay' = NoJob
  /\ UNCHANGED <<working, quarantine, claims, claim>>

\* quarantine_poison_job: the foreign key of the inserted row takes a lock on the job row,
\* which waits for an operator who has it locked.
Quarantine(j) ==
  /\ jobStatus[j] # "absent" /\ replay # j
  /\ quarantine' = quarantine \cup {j}
  /\ UNCHANGED <<jobStatus, key, attempts, owner, expired, due, working, replay, claims, claim>>

ReleaseQuarantine(j) ==
  /\ j \in quarantine
  /\ quarantine' = quarantine \ {j}
  /\ UNCHANGED <<jobStatus, key, attempts, owner, expired, due, working, replay, claims, claim>>

Consume(c) == Finish(c) \/ \E j \in JobIds : ClaimJob(c, j)

QueueNext ==
  \/ \E j \in JobIds : Enqueue(j) \/ Expire(j) \/ BecomeDue(j) \/ BeginReplay(j)
                        \/ Quarantine(j) \/ ReleaseQuarantine(j)
  \/ \E c \in Consumers : Consume(c) \/ Restart(c)
  \/ EndReplay

QueueSpec == QueueInit /\ [][QueueNext]_queueVars

\* The consumers' loops go on, and an operator's transaction ends.
QueueFair ==
  /\ \A c \in Consumers : WF_queueVars(Consume(c))
  /\ WF_queueVars(EndReplay)

-----------------------------------------------------------------------------
\* The shape of the state.
QueueTypeOK ==
  /\ jobStatus \in [JobIds -> Statuses] /\ key \in [JobIds -> DedupeKeys]
  /\ attempts \in [JobIds -> Nat] /\ owner \in [JobIds -> Names \cup {NoJob}]
  /\ expired \subseteq JobIds /\ due \subseteq JobIds
  /\ working \in [Consumers -> JobIds \cup {NoJob}]
  /\ quarantine \subseteq JobIds /\ replay \in JobIds \cup {NoJob}
  /\ claims \in [JobIds -> Nat] /\ claim \in [Consumers -> Nat]

\* An adapter never has two active jobs, although the producer, a retry and an operator's
\* replay can each put one back (idx_worker_runtime_jobs_active_dedupe).
OneActivePerKey ==
  \A i, j \in JobIds :
    (jobStatus[i] \in {"queued", "running"} /\ j \in ActiveWithKey(key[i])) => i = j

\* A running job is finished only by the consumer of its latest claim: one whose lease ran
\* out and was claimed by another reports queue_completion_not_updated.
OnlyClaimantFinishes ==
  [][\A j \in JobIds :
       (jobStatus[j] = "running" /\ jobStatus'[j] # "running") =>
         \E c \in Consumers : working[c] = j /\ working'[c] = NoJob /\ claim[c] = claims[j]]_queueVars

\* While a quarantine is active nobody replays its job, not even an operator whose
\* transaction began before it ("refuses active poison-quarantined jobs").
QuarantineBlocksReplay ==
  [][\A j \in quarantine : jobStatus[j] = "failed" => jobStatus'[j] = "failed"]_queueVars

\* A job whose consumer died is claimed again once its lease has run out, as long as it
\* has attempts left.
LostJobIsRetried ==
  \A j \in JobIds :
    (jobStatus[j] = "running" /\ j \in expired /\ attempts[j] < MaxAttempts /\ claims[j] < MaxClaims)
      ~> ~(jobStatus[j] = "running" /\ j \in expired)
==============================================================================
