# Verification of the flood-risk map

TLA+ models, TLC runs and TLAPS proofs for the part of this repository that decides what the public
map shows as current: the worker's ingestion and maintenance (`apps/workers`), the Postgres tables
the processes share, the API that answers from them (`apps/api`), the requests of the map page
(`apps/web`) and the migrations an API container starts with (`infra`).

## 1. Inventory

The program is a set of Python processes around one PostgreSQL/PostGIS database. All coordination
between the server processes goes through the database (transactions, row locks, advisory locks,
unique keys, and the start time that every ingestion cycle stamps on what it writes); a few API
replicas also share a Redis.

| Component | State | Operations | Interacts with |
|---|---|---|---|
| Scheduler loop (`cli/runtime_cli.py`) | `lease_acquired`, tick counter, heartbeat thread with `_stop`/`_lost` | acquire or renew, tick, renew, sleep, release, SIGTERM | lease row; runs ingestion and maintenance cycles |
| Scheduler lease (`jobs/queue.py` 202-278) | `worker_scheduler_leases`, `ingestion_scheduler_heartbeats` | acquire/renew (upsert with expiry), release | every scheduler process |
| Ingestion cycle (`jobs/ingestion.py`, `jobs/runtime_managed.py`) | the cycle's generation, summary, raw_ref, attempt | poll, stage, write summary, retire, promote (one retry), status | adapters, writers below |
| Staging (`pipelines/staging.py`, `postgres_writer.py`) | `raw_snapshots`, `staging_evidence` | one transaction per batch | promotion, retention |
| Promotion (`pipelines/promotion.py`) | `evidence`, `official_realtime_latest`, staging status | settle unchanged rows, then one transaction per row | other cycles, retention, readers |
| Warning lifecycle (same file) | CAP tombstones in `evidence`, warning rows in latest | retire on an empty poll, promote, cancel, replay | summaries, both warning adapters |
| Run summaries (`pipelines/ingestion_runs.py`) | `ingestion_jobs`, `adapter_runs`, `data_sources` health and status | write_summary, write_pipeline_status | promotion (empty polls), readers |
| Retention (`jobs/evidence_retention.py`) | watermark and window of the sweep, in memory | batched deletes per pass, watermark sweep | staging, promotion |
| Index maintenance (`jobs/index_maintenance.py`) | schedule in memory, invalid indexes | sweep leftovers, one REINDEX CONCURRENTLY per cycle | retention's cycle, database |
| Runtime queue (`jobs/queue.py`, `jobs/replay_audit.py`) | `worker_runtime_jobs`, quarantine | enqueue, dequeue, succeed, fail, replay | its consumers and operators |
| Realtime reader, nearby coverage, readiness (`domain/evidence`, `domain/realtime`, `domain/ingestion`) | none | queries and verdicts | latest, evidence, jobs, data_sources |
| Assessment (`api/services`, `domain/risk`, `domain/assessment`) | memory and Redis response cache, cooldown | compute, look up, store | readers, Redis |
| Reports (`domain/reports`) | `user_reports`, audit log, rate-limit buckets | submit, moderate, redact | moderators, rate limiter |
| Web client (`apps/web/app/page.tsx`, `lib/api-client.ts`) | request number, abort controller, page state | search, choose, click | API |
| Migrations (`infra/scripts/apply_migrations.py`, `routes/health.py`) | `schema_migrations`, advisory lock | apply what is missing, readiness | every API container |
| Source adapters, geocoding, news, historical coverage, ops scripts | see `PROJECT.json` | pure functions, I/O, reports | |
| Profiles, query heat, tiles | tables retained, writers frozen (`jobs/frozen_legacy.py`) | none in v1 | |

What is hard here: cycles of one or of several adapters overlap (a lease can be lost while a tick
runs; a manual run takes no lease), each promotion is many transactions, each transaction decides
first and writes later, a promotion may be retried after half of it has committed, polls come back
out of order, the same message or reading is carried by many snapshots, maintenance deletes beside
all of that, readers take several statements for one answer, and a restart forgets what was kept in
memory. The correctness properties that follow from this:

- *promotion*: no reading twice (central and local copy of one sensor), latest rows only move
  forward, a processed row is never offered again, a row settled as unchanged leaves the unchanged
  row behind, every cycle ends;
- *lease*: one ingesting process, a live lease is not taken away, a standby takes over;
- *warnings*: cancelled stays gone, a newer empty poll wins, an older one does no harm, one evidence
  row per message, the API shows what the active snapshot contains and nothing else;
- *status*: health is that of the newest batch, the active snapshot never goes back, a fault the
  worker has recorded shows, and the public's and the operators' verdict agree;
- *retention*: the sweep passes no orphan, aged rows go, privacy deletions do not wait for the rest;
- *index maintenance*: nothing runs past the window, each index once per interval, none starves, the
  leftovers of a dead rebuild are removed;
- *queue*: one active job per key, only the claimant finishes a job, a dead consumer's job is retried;
- *API*: the quota holds over skewed clocks, each decision on a report has its audit entry, a cached
  answer is young, "low" is said only of what was measured here;
- *page*: what is shown answers what was asked last;
- *migrations*: a file is applied once and recorded, a ready container finds its schema.

`PROJECT.json` lists every component and, under `hazards`, every place where one of these can go
wrong, with the properties that cover it.

## 2. Plan

| | Module | Checked by TLC | Proved |
|---|---|---|---|
| 1 | `StationPromotion`, abstract `StationMap` | done | invariants, action properties, refinement |
| 2 | `SchedulerLease` | done | invariants, action property |
| 3 | `WarningLifecycle` | done | every invariant |
| 4 | `PipelineStatus` | done | invariants, action property |
| 5 | `Retention` | done | `SweptClean` |
| 6 | `IndexMaintenance` | done | `QuietAfterWindow`, `RebuiltOncePerInterval` |
| 7 | `RuntimeQueue` | done | all safety properties |
| 8 | `UserReports` | done | all safety properties |
| 9 | `RateLimit`, `AssessmentCache`, `RiskScoring`, `NearbyDiagnosis` | done | all but the scores, whose sums are folds |
| 10 | `SchemaMigrations` | done | both invariants |
| 11 | `WebClient` | done | both invariants |
| 12 | `OneLease`, an abstract lock with expiry that `SchedulerLease` implements without outages | open | open |

Modules that are proved about use no RECURSIVE operator.

### How the runs are put together

Components that share no variable are checked together: `MCTurns`, `MCTables` and `MCApi` each extend
several modules, `part` chooses at the start which one runs, and `Rest(part)` keeps the others where
they begin (their nondeterministic initial states are collapsed to one, so that nothing is counted
twice). The state space is the sum of the parts', not the product, and every part's properties see
all behaviours of their part. Fairness is that of the part's own specification, restated with the
guard `part = ...`. In the same way `MCStationRaces` chooses one of two scenes of station readings.

| Run | Parts and bounds |
|---|---|
| `station_races` | 2 workers, 3 generations; scene *pair*: a central sensor with two values of one instant and a local one next to it with two instants; scene *off*: a local sensor switched off in its reading or in the station metadata. 0.9 million states |
| `station_ends` | 2 workers, 2 generations, `FairSpec`; a frozen local station, a second one without a catalogue row, a central one with the same reading; readings without a value or switched off |
| `turns` | lease: 2 schedulers, lease of 4 quarter-seconds, no outages. queue: 2 consumers, 2 jobs of one key, 2 attempts, 3 claims of a row. index: 2 indexes, one that always fails, a day of 5 hours with a window of 3. web: 4 events |
| `tables` | lease: 3 processes (one `--once`, one run by hand) with outages. retention: 2 rows, 4 instants, batches of 1, at most 2 batches, statements that can look up 1 or 2 rows, windows of 1 to 4, 1 restart. pipeline: 3 cycles, 2 at once |
| `warning_cancel` | 2 workers, both adapters, an Alert on either, its Update on one and its Cancel on the other, the Cancel also in a feed most of whose items are invalid, empty polls of both, 3 generations. 3 million states |
| `warning_snapshot` | 2 workers, complete snapshots of an expiring warning, of a second one in an unreviewed area, of none; 3 generations, the first two of which may fail. 1.2 million states |
| `api` | rate: 2 replicas with clocks 0 and 1 ahead, 4 requests, quota 2, span 4, lag 1. reports: 1 report, 2 moderators, 3 decisions. cache: 2 servers, 1 place, 3 queries, TTL 2. scoring: 13 signals. diagnosis: 2 stations, one remote. schema: images of a release, its successor and a branch, 4 starts |
| `station_conflict`, `lease_overlap`, `warning_shrink`, `warning_older`, `migration_split` | one property each, violated (section 14) |

Deadlock checking is off in every run, because every run bounds something that the program does
without end (generations, restarts, events, starts), and the system stops when the bound is used up.

## 3. StationPromotion and StationMap

One cycle per worker: `StartCycle`, `StageBatch`, `FetchCandidates`, the settle transaction
(`SettleRead`, `SettleCommit`), then per row the transaction of `_write_evidence_transaction` split
where it may wait for a lock: `Authorize` (staging row `FOR UPDATE`), `LockDedupe` and `LockLatest`
(the two advisory locks), `RetireInactive`, `CheckUnused`, `ReplaceLocal` / `RejectDuplicate` /
`NoDuplicate`, `Classify`, and the writes `RejectEqualTime`, `RejectInsert`, `InsertEvidence`. What a
transaction writes appears at its commit, with READ COMMITTED reads before it. `RetryPromotion`,
`GiveUp` and `Crash` may happen at every step, including between the commits of two rows.

| TLA+ | code |
|---|---|
| `staging`, `evidence`, `latest` | `staging_evidence`, `evidence`, `official_realtime_latest` |
| `cycle[w].gen`, `.raw`, `.attempt` | `ingestion_generation_started_at`, raw_ref, retry of `_promote_accepted_staging_with_retry` |
| `todo`, `done`, `cur` | payloads of the chunk not yet decided, decided, being decided |
| `settled`, `shared` | rows matched by the settle read and its `FOR SHARE` row locks |
| `drop`, `promote` | peer row deleted by the open transaction, `promote_latest` |
| `held` | row locks and advisory locks of the open transaction |

Abstractions: one chunk per promotion; rows of a chunk in any order; the settle transaction's staging
locks are taken together; the metric fingerprint is one value; raw_ref is the content itself (it is
content-addressed); nearness of two sensors is a constant relation; batches become visible in the
order of their `created_at`; malformed input is one flag.

`StationMap` is what the public is promised, with no transactions in it: a map from stations to
readings on which a station moves to strictly newer readings only, a local station stays off while
its central neighbour shows the same reading, and only local stations are ever taken down. The
refinement mapping is `Shown`, the instant and value of each latest row; `ImplementsMap` says that
every commit of any of the overlapping, failing, retried promotions is one step of that map or leaves
it alone.

| Run | Shows |
|---|---|
| `station_races` | `NoExactPair`, `IdempotentHasLatest`, `ImplementsMap` |
| `station_ends` | `ProcessedIsTerminal`, `LatestBacked`, `CycleEnds` |

Two workers and three generations are enough for every pairwise race and for a third cycle that
meets what the race left behind (`station_ends` checks liveness, without symmetry, and has two); two
instants distinguish older, equal and newer, two values distinguish idempotent and conflicting.

Fairness (`FairSpec`): weak fairness per worker of "the next step, or the retry, or giving up". A
running process does take its next step, and `lock_timeout` and `statement_timeout`
(`_apply_promotion_transaction_timeouts`) turn a wait that does not end into a transient error, which
is the retry or the end. No fairness is put on crashes.

**Proofs** (`StationPromotionProofs`). Two inductive invariants. `TInv` = `TypeOK` and `Staged` (the
ids a worker handles name existing staging rows) gives `TypeCorrect`. `LInv` adds `Exclusive` (no two
workers hold the same lock, and a share lock excludes the row lock), `Holds(w)` (which locks a worker
holds at each program point) and `Decides(w)` (what it has read is still true, because every action
that could change it needs one of those locks). `DecisionFresh` follows from `LInv` alone; it is not
inductive itself, because the validity of a decision rests on the locks held since the read.
`LatestMonotone` and `IdempotentHasLatest` are step properties from `LInv`. `LatestBacked` and
`NoExactPair` are inductive relative to it; the latter needs the dedupe lock, which both adapters take
on the instant, and the assumption `OneLocalPeer`: a central station has at most one local station
near it. The code deletes one peer (`LIMIT 1`), so with two local peers showing the same reading a
central candidate would leave the second; the assumption states what the reviewed station lists give,
not what the code enforces. `PromotionImplementsMap` maps each commit to `Show`, `TakeDown` or a
stutter from the same invariants and the same assumption. `ProcessedRowsAreTerminal` has an invariant of its
own (section 15). `CycleEnds` is model-checked only; `DecisionFresh` and `LatestMonotone` are proved and have no run of their own,
since what they say of the rows is part of `ImplementsMap`.

A comment in `tests/test_promotion_monotonicity_postgres.py` (905-908) says the central and the local
row coexist whenever both adapters promote concurrently. The theorem `NoReadingShownTwice` says that
they do not: both transactions take the same `official-realtime-dedupe` lock before they check.

`LatestMonotone` speaks of a row that stays. A deleted row (inactive station, replaced peer) leaves no
watermark behind, and an older reading that is still in flight may then become the latest one; the
design accepts that, and `StationMap` allows it after `TakeDown`.

## 4. SchedulerLease

The main thread's position is `pc`, the heartbeat thread's `hb`; `lease.left` is the time until
`lease_expires_at`, in quarters of a second, `beatIn` the time until the next renewal. `Advance` is
the passage of time; a renewal call is short beside the interval (it is answered or fails before the
next quarter of a second), a tick takes any time. `AcquireLease` has the three answers of
`acquire_or_renew_lease`; a call that fails may or may not have committed. `Terminate` is SIGTERM, which
raises `SystemExit` wherever the main thread is; `TerminateInCall` is SIGTERM after the statement has
committed and before its result is assigned; `Crash` is SIGKILL. The tick limit is abstracted to
"--once or unbounded".

`turns` checks `OneIngests` and `StandbyTakesOver` with an answering database, `tables` checks
`LeaseNotStolen` through outages, with a `--once` process and a manual run. A lease of four time units
is the smallest with an interval shorter than the lease; the theorems cover all others. Fairness: time
passes, the main thread and the heartbeat thread of a live process are scheduled. Nothing forces a
signal or a crash.

**Proofs** (`WorkerProofs`). `OneIngestsAtATime` (no outages, no manual runs): the invariant
`EInv` says that a ticking process whose heartbeat runs owns the lease with at least as much time left as
until its next renewal, so that no other process can take it. `StoppedRowIsTrue` (the monitoring row says
"stopped" only while nobody holds the lease) is inductive with `TypeOK`, and `LeaseStaysWithHolder`, that
a live lease changes hands only by its holder's release, is a step property; both hold with outages and
manual runs. `StandbyTakesOver` is model-checked only.

## 5. WarningLifecycle

One message stands for its (sender, identifier, sent) and one area; a cycle polls one adapter and
may find a feed with some messages or none. `StageFeed`, `WriteSummary` (under the lifecycle lock when
there is no active event), `Retire`, `FetchCandidates`, then per row `Decide` (takes the lifecycle lock
and the origin locks, then reads; the verdict lists the decisions of `_write_evidence_transaction` in
their order) and one of `SkipRow`, `RejectRow`, `RejectExisting`, `LoseInsert`, `KeepHistorical`,
`Promote`; `Finish` writes the pipeline status and activates a complete snapshot. `Visible` is the
reader's WHERE clause. `official.ncdr.cap` is the adapter in complete_replace mode.

| TLA+ | code |
|---|---|
| `jobs` with kind `empty`, `cancel_only` | `ingestion_jobs` with `error_code = 'no_active_event'`, by `items_fetched` |
| `runAt`, `active` | `runtime_pipeline_run_at`, `metadata.active_snapshot_raw_ref` |
| `latest[..].raw`, `.gen`, `.ev` | `quality_flags.active_snapshot_raw_ref`, `.ingestion_generation_started_at`, `evidence_id` |
| `evidence.scope` | `properties.evidence_scope` |
| `retired` | history variable: the newest empty poll whose retirement has committed |

Abstractions: all advisory locks of a row are taken in one step, since every read follows the last of
them; CAP metadata and geometry rejections are left out (an area without a reviewed boundary is kept:
`Unmapped`); both warning sources are in the catalogue and enabled; the lifecycle and origin lock
names do not collide. `created_at` of a staging row is the start of its transaction, so batches may
commit in another order. At this commit the CWA warning adapter normalizes nothing, so its rows reach
the writer only through the writer's interface and the tests; the findings below use NCDR alone.

| Run | Shows |
|---|---|
| `warning_cancel` | `CancelledStaysGone`, `NewerEmptyWins` |
| `warning_snapshot` | `OneCurrentEvidence`, `RemovedHidden`, `LatestIsCurrent` |

Three cycles allow an older, a newer and a repeated poll. `CancelledStaysGone` is about rows of the
same or an earlier generation than the Update or Cancel: a row of a later generation is kept by design
("a stale Cancel cannot delete a later ..."), and stays until its window ends. `Failing` names the
generations whose polls and transactions may fail and whose process may die: all of them in
`warning_cancel`, the first two in `warning_snapshot` (a third cycle meets what they left), none in
`warning_shrink`, so that its counterexample shows the normal course of events. 

The reader's part of `NewerEmptyWins` matters. `official.ncdr.cap` re-observes known messages, and
`RejectExisting` restores such a message's latest row without asking for newer empty polls, so a slow
older poll does bring back a row that a newer empty poll deleted. The property therefore says that a row
at or below the last retirement belongs to a complete-snapshot adapter *and* is not shown: the reader
compares the evidence's generation with the empty polls, and evidence of a restored row is at least as old.

**Proofs** (`WarningLifecycleProofs`). Every invariant of the module, for any number of workers, adapters,
messages, feeds and cycles, from `VInv`:

- `TInv`: the types, and what a cycle carries from step to step (its adapter, rows of that adapter, the
  locks of the row in its transaction);
- `RowsInv`, what the tables say: evidence agrees with its staging row (`EvidenceOfStaging`), a latest row
  has its message in the feed it is marked with (`RowInFeed`) and is no Cancel's (`RowIsActive`), an empty
  poll has its job row before it retires anything (`RetiredByPoll`), only a complete-snapshot adapter
  restores rows below a retirement (`OthersForward`), and a warning whose latest row is gone or was
  restored with an older generation was retired for a reason that the reader or a later restore sees
  (`LostForAReason`), beside `CancelledStaysGone`, `OneCurrentEvidence` and `LatestIsCurrent` themselves;
- `Apart` and `VerdictFresh`: no two transactions hold a lock in common, and what one has read to decide
  (no canonical evidence, no tombstone, no newer empty poll) still holds while it has its locks. This is
  where the origin locks are needed: an Update of the other adapter commits under another lifecycle lock;
- `RetiringRecorded`: a cycle about to retire rows has its job row.

The proof needed an assumption that the code establishes: no message refers to itself
(`_effectful_cap_references` keeps only references with `sent < own_sent`).

## 6. PipelineStatus

What overlapping cycles of one adapter record about themselves. Each cycle goes through `BeginCycle`,
`EndEarly` or `StartBatch`, `FinishBatch` (the `write_summary` transaction, with its answer possibly
lost), `EndFailed`, `Promoted`, `PromotionFails`, `CycleRaises`, `EndCycle`, or dies (`Abandon`).
`jobs`, `health`, `pipeline`, `pipeAt` and `snapshot` are `ingestion_jobs` and the columns of
`data_sources`; `NotOvertaken` is the guard of `write_pipeline_status` (no newer recorded run, no newer
batch), `Newest` that of `_update_data_source_health`.

`tables` checks `HealthOfNewest` (the health is that of the batch that started last, in whatever order
batches end) and `SnapshotForward` (the active warning snapshot never goes back), with three cycles of
which two overlap, so that one meets what two others left. Both are proved in `WorkerProofs`
for any number of cycles and any overlap. The inductive invariant `PInv` says that instants are handed
out once and lie behind the clock (`Dated`), and that a batch being promoted, and the active snapshot,
have their row in `ingestion_jobs` (`Recorded`); without the latter `SnapshotForward` fails in the
inductive step, because `pipeAt` itself can go back (section 14) and it is the newer job row that keeps
the older success out.

## 7. Retention

`run_maintenance_once` as a sequence of passes: `PruneRealtime`, `PruneQueries`, `PruneRaw`, then the two
staging passes with their partial indexes (`BeginRejected`, `DeleteRejected`, `BeginAccepted`,
`SetUpSweep`, `SweepBatch`, `SweepTimeout`, `EndSweep`). A statement is one step; between any two of
them rows are staged (`Stage`), promoted or rejected (`Promote`), queries arrive (`Ask`) and time passes.
`lmark`, `lwin` are the local watermark and window of `_sweep_accepted_staging`, `mark`, `win` the module
variables they are kept in at the loop's end; `RestartScheduler` forgets those. `broken` makes the staging
statements raise, `Heal` ends that. What a statement can look up before its `statement_timeout` lies
between `SureProbes` and `Probes` rows.

| Property | Says |
|---|---|
| `SweptClean` | the watermark passes no prunable orphan |
| `AgedRowsGo` | aged rejected rows, and aged orphans ahead of the watermark, are deleted in the end, through timeouts and a restart |
| `QueriesExpire` | a location query goes although the staging passes fail in every cycle: they come last |

Fairness: the scheduler's loop goes on (weak fairness of `Cycle`), and time passes. Bounds: two rows,
so that a window can hold more than one batch of one; `Stage` keeps the rows of one instant below
`SureProbes`, which is what the smallest window is for: denser than that, the sweep would halve its
window to the minimum and stay there for good, and the code has no other way out.

**Proofs** (`MaintenanceProofs`). `WatermarkLeavesNoOrphan` is `SweptClean` for any rows and any batch:
the step that moves the watermark deletes fewer rows than the batch allows, so it has deleted all it
could select (a lemma on the cardinality of `Oldest`). `RetInv`, the type invariant with `Sweeping` (in the
accepted pass the watermark is set and the window is within its bounds; before it there are batches left),
gives `RetentionTypeCorrect`.

Nothing comes back to a stretch that has been swept. That this is enough rests on two things outside the
module: `prune_realtime` keeps up, so that a row whose evidence is deleted after the watermark has passed
is old, and no row behind it is promoted anew. The snapshot of the DELETE statement against a promotion
in flight is not modelled: a statement is one step.

## 8. IndexMaintenance

One cycle's index pass: `SkipCycle` or the sweep of leftovers (`SweepLeftovers`, `KeepLeftovers` when a
drop cannot get its lock), the probes (`NoRebuild`, `StartRebuild`), the server's rebuild with its `Swap`,
and its end: `Rebuilt`, `TimedOut` (with `_recover_post_swap_success` when the swap had happened) or
`LoseConnection`. `age`, `attempted`, `finished` are `_last_reindex_at` and `_last_attempt_at`, which a
restart forgets (`RestartWorker`). Time is counted in hours of a day that comes round; the window opens at
hour 0. `REINDEX CONCURRENTLY` itself is external: two steps, the swap and the return.

| Property | Says |
|---|---|
| `QuietAfterWindow` | no rebuild runs past the window's end |
| `RebuiltOncePerInterval` | two swaps of one index are an interval apart, although an answer may be a timeout after the swap |
| `EveryIndexRebuilt` | an index that always fails does not keep the others from being rebuilt |
| `CorpsesGo` | what a dead rebuild left is dropped |

Fairness: the cycles and the hours go on; a drop that is tried every night gets its lock one night and a
rebuild that is started over and over gets through (strong fairness, for the indexes outside `IndexStuck`
only). The antecedent of `EveryIndexRebuilt` asks for a cycle in the window every night, because a process
that is busy or down all night rebuilds nothing, and for an end of connection losses and restarts.

**Proofs** (`MaintenanceProofs`). `IInv` adds to the type invariant and `QuietAfterWindow`: `Remembered`
(what the process believes of an index is never older than the truth), `Due` (the rebuild under way was
due when its cycle began) and `SwapWhileBuilding`. `RebuildsAreApart` needs all three, since it speaks of
the truth and the guard speaks of what the process remembers.

## 9. RuntimeQueue

`worker_runtime_jobs`: `Enqueue` (with the partial unique index on active keys), `ClaimJob`
(`FOR UPDATE SKIP LOCKED`, or a lease that has run out; the answer may be lost), `Finish` (the WHERE of
`mark_job_succeeded` and `mark_job_failed`), `Restart`, `Expire`, `BecomeDue`, the audited replay by an
operator (`BeginReplay`, `EndReplay`, a transaction that holds the row) and the quarantine. v1 freezes the
queue's callers (`jobs/frozen_legacy.py`); the SQL and its operator tools are still there.

`turns` checks `OneActivePerKey`, `OnlyClaimantFinishes` and `LostJobIsRetried`. Two jobs of one key, two
attempts and three claims let a job be lost, claimed again, fail, and be replayed beside its successor.
Fairness: the consumers' loops go on and an operator's transaction ends. `QInv` (`WorkerProofs`)
says with the type invariant that a row an operator has locked stays failed and outside the quarantine;
`ClaimIsLatest` adds that a consumer whose name is on its job works under the job's latest claim.
`ClaimantFinishes` assumes `DistinctNames`. The code does not
enforce that: the instance name defaults to "local", and two consumers that both keep the default can
finish each other's jobs.

An effect the model shows and no property states: a running job whose lease has run out with no attempts
left is never claimed again nor dead-lettered, and blocks its dedupe key until an operator acts.

## 10. UserReports and RateLimit

`UserReports`: `Submit` behind the challenge gate, `StartModeration` / `StartRedaction` (which wait for the
row lock), `FinishModeration` / `FinishRedaction` (row and audit entry in one transaction), `CallFails`.
`AuditExplainsRow` says that a report's state is the one its last audit entry gave it: two moderators, or a
redaction that races a decision, leave no row the log does not explain. It and `RedactedTextStaysGone` are
proved in `ApiProofs` from `RInv`, which adds `SeesLocked`: the row an open statement has locked is
still the row it read.

`RateLimit`: `ReadClock` and the check are separate steps, because a thread may wait between them; with
Redis the buckets are shared and stamped by clocks that differ. `AnswerLost` is a script that ran and whose
reply did not come (the slot is used and the client gets 503), `Unreachable` one that did not run.
`QuotaKept`: no more admissions in a window, shortened by what clocks and waits can differ, than the quota.
`RetryHonoured`: who comes back after `Retry-After`, by the clock that said so, is admitted. The memory
backend reads its clock before it takes its lock; the lag stands for that too. A bucket is the set of the
requests it counts, each with its stamp and its `turn`, the place at which it was counted: Redis drops by
stamp (`InWindow`), the memory backend's queue only from its head (`DropHead`), so that an old stamp behind
a younger one stays counted. `MaxSkew` is the lead of the fastest clock; that there is one is assumed.

`QuotaIsKept` and `RetryAfterIsHonoured` are proved in `ApiProofs` from `LimitInv`: whoever was admitted
and may still count is in its bucket (`Held`), which makes a window of arrivals a subset of one bucket;
turns are distinct (`TurnsApart`); and a refusal's hint is at least the instant at which the oldest request
of its bucket leaves it (`HintIsOldest`), as long as nobody was admitted since. Cardinalities come from the
library's theorems on finite sets, the least turn or stamp of a bucket from well-founded induction.

## 11. AssessmentCache and RiskScoring

`AssessmentCache`: servers with a memory cache each and one Redis that fails open, with the shared cooldown
of `redis_support.py`. A query takes its instant at its start (`Begin`), looks in Redis and in memory
(`HitRedis`, `LookInMemory`), computes (`Compute`, in which reads may fail) and stores (`Answer`); Redis comes
and goes and forgets, servers restart. `HitsAreYoung`: what comes out of a cache is no older than the TTL and
the time a query may take: Redis counts from when an answer was stored, the memory from when its query began.
`CachedAnswersAreYoung` (`ApiProofs`) proves it for any number of servers, places and queries and any size of
the memory: `CInv` says that a query in hand began at most `MaxWork` ago and stores what was true when it
began (`QueryOK`), and that an entry of Redis expires at most `MaxWork + Ttl` after it was true (`RedisOK`).

`RiskScoring`: the realtime and historical scores of `score_risk` as sums over a set of signals in exact
integer arithmetic, with its weights, caps, precision factors and the strongest-of-correlated rule. Signals
arrive one after another. `GarbageNeverLowers` and `DensityIsNotRisk` compare the score before and after one
more of 13 signals, chosen to lie on both sides of every rule (near or far, recent or not, each precision),
in every order and subset. A weak but precise observed record can still lower the score that a flood-potential
polygon alone would give (from about 40 to about 23), because observed history replaces the potential; the
comment in the code speaks of garbage only, and so does the property. Confidence and the missing-source list
are not modelled.

## 12. NearbyDiagnosis

One required source, its worker and one reader. The worker leaves its selection, job row, pipeline outcome
and latest rows in the order of `jobs/runtime_managed.py` (`BeginCycle`, `FinishBatch`, `SummaryLost`,
`EndFailed`, `Promote`, `PromotionFails`, `RecordSuccess`, `FailsWithoutBatch`, `SwitchOff`, `Abandon`). The
reader takes two statements (`ReadRows`, then `AnswerPoint`), with the worker's steps in between. `Health` is
`nearby_coverage.py`, `Readiness` is `readiness.py`, `Causes` the reasons the public is given, and
`CanSupportLow` the gate of a low level.

| Property | Says |
|---|---|
| `FaultShows` | a recorded failure that nothing newer has overtaken is seen by both verdicts |
| `DiagnosesAgree` | the public's verdict and the operators' do not contradict each other |
| `AbsenceIsReal` | "no station in range" is said only when it is so, unless a station's first reading came between the two reads (`reader.newly`) |
| `LowIsLocal` | a low level rests on a recent measurement near the point |

Instants are ages that `Tick` increases, long against a request; with thresholds 0, 1, 1, 3 and a cap of 4
every order of the code's thresholds is met.

All four are proved in `NearbyDiagnosisProofs` for any set of stations and any thresholds. `DInv` is the type
invariant with `FaultRecorded` (a recorded failure is in the outcome row, of this run or a newer one) and
`RowsHold` (what a request has read of a station still holds when it reads the health, or `reader.newly` says
so); the rest is the decision tables, compared branch by branch in lemmas of their own.

## 13. WebClient and SchemaMigrations

`WebClient`: the map page's requests. `SearchText`, `SearchHere`, `SelectCandidate`, `MapClick`, `TypeQuery`
are the user; a request waits for headers and then for a body of its geocode, assess and evidence stages
(`Headers`, `FetchFails`, `PlaceFound`, `PlaceUnclear`, `RiskArrives`, `EvidenceArrives`, `DropAnswer`). A
retried fetch is one stage. `ShownIsAsked`: an assessment shown without an error answers the last thing
asked. `BusyEnds`: the query button comes back, unless the current request is waiting for a body, under weak
fairness of the answer to a waiting request, which the timer guarantees (`API_REQUEST_TIMEOUT_MS`). Four
events are enough for a search to be superseded at each of its stages and the superseding one as well. `WInv`
(`WebClientProofs`) says that whatever is under way is the current request in control or an aborted one
(`Superseded`), that the page is busy exactly while the current request has no assessment yet (`Busy`), and
that this one is about the place shown (`OnCourse`, `OwnPlace`); it gives `ShownIsAsked` and
`EvidenceIsOnItsWay` for any number of events.

`SchemaMigrations`: containers of several images start on one database: `TakeSession` (the advisory lock),
`ReadRecorded` with its drift check, per file `RunSql` and `RecordFile`, `Serve`, and `EndContainer` at any
step. `OwnCommit` are the nine files that commit by themselves (0040, 0041, 0048-0052, 0061, 0063).
`AppliedWhenRecorded` and `ReadyMeansMigrated` are checked in `api` with an image of a release, its
successor, and a branch whose second file differs, and proved in `SchemaMigrationsProofs` for any images
whose file names carry their versions. `SInv` says that a container between its first look at the records
and its end holds the lock (`LockHeld`), that what it knows is then what is recorded (`RecordsKnown`), and
that a served image has its manifest recorded (`ServedRecorded`) under its own versions (`FilesInPlace`). Readiness looks
at the last version alone; that this suffices is the second theorem. Assumed: versions are 1, 2, 3, ... as
they are in this repository (0001-0063), which `validate_migrations.py` does not check. A dead runner's
backend may hold the lock a little longer than the process lives, which is a container that is still
"migrating" here. The nine files can be run again, so the next start repairs what `migration_split` shows.

## 14. Disagreements between code and documents

Each of these is a run whose property states the document and which TLC violates.

| Run | What happens |
|---|---|
| `station_conflict` | a central candidate rejected as conflicting has already deleted its local peer's row |
| `lease_overlap` | a database outage longer than the lease: the old holder goes on ingesting beside the new one |
| `warning_shrink` | snapshots {A}, {A, B}, {A}: A's marker stays at the second snapshot and the API hides A |
| `warning_older` | a slow older empty poll deletes a row that a newer snapshot contains |
| `migration_split` | a file that commits by itself is applied and not recorded when the runner dies in between |

`OneIngests` is proved without outages, and `lease_overlap` is the reason for that assumption.

Others are in the models without a run of their own, or were met while modelling:

- *Warnings*: after A, nothing, and {A, B}, A's restored row is hidden because its first evidence is older
  than the empty poll (`repository.py:1197`), while the plan says "older empty/newer Alert always leaves the
  Alert". For `official.ncdr.cap` an older re-observation restores
  a row that a newer empty poll deleted, because `RejectExisting` precedes the check against that poll; the
  API hides the row (`NewerEmptyWins`, section 5).
- *Promotion*: a cycle that fetched a row before another cycle promoted it settles the row as rejected
  although it produced evidence (only the staging status is off).
- *Lease*: SIGTERM between the commit of a lease and the assignment of its result skips the release
  (`TerminateInCall`), and SIGTERM during the heartbeat's `join()` releases the lease before a renewal in
  flight re-creates it; in both cases the standby waits until the row expires.
- *Status*: `_update_data_source_health` moves `runtime_pipeline_run_at` back when a failed batch is older
  than a recorded failure without a batch, so with three overlapping cycles an older success can replace the
  newer fault (`jobs/ingestion.py` 133-136: "an older overlapping cycle cannot later overwrite the fault").
  A "skipped" batch still gets the pipeline outcome "succeeded". The summary of a failed batch leaves the
  `runtime_pipeline_error_code` of an earlier run, contrary to `ingestion_runs.py` 115-117; a "partial" batch
  that is not promoted yet can show healthy while the previous outcome was a failure.
- *Assessment*: a historical level 低 with a realtime level 未知 gives 低 overall, though the documents say
  that disabled or missing sources must not support a public 低; `LowIsLocal` speaks of the realtime gate.
- *Retention*: one comment of `evidence_retention.py` (93-96) keeps accepted rows for retries, another
  (213-219) and the code delete an accepted row that was never promoted after seven days.
- *Index maintenance*: comments (354-358, 526-529) promise that the next cycle's sweep reclaims a dead copy
  five minutes later; once the window's budget is used up the next cycle returns before the sweep, and the
  copy stays until the next night.
- *Reports*: `docs/runbooks/public-reports-governance.md` 39-42 calls `deleted` a tombstone; moderation has
  no guard on the status and can override it. The text stays redacted.
- *Caches*: the docstring of `public_evidence_cache` describes a cache that nothing calls in v1. A record
  that cannot be persisted is still answered and cached. A cached preview can outlive a source's switch-off
  by the TTL, and after Redis dies a client can see an older answer from another level. Several threads may
  each wait on a dead Redis before the cooldown is set.
- *Web client*: `tests/e2e/map-risk.spec.ts` 465 has a map click cancel a slow search; once the geocode
  headers are in, the stale answer still moves the place, or clears the assessment and shows candidates and
  an error, because `handleSearch` does not compare its request number after that await. `fetchJsonOnce`
  returns `response.json()` without awaiting it, so neither its timeout nor an abort covers the body. After a
  later search's failed request the evidence list stays "loading", and the old assessment stays beside the
  new place, each beside an error message.
- *Migrations*: `docs/runbooks/deploy-zeabur.md` 112-114 repeats that each migration is committed "in its
  own transaction".

## 15. Proofs

The theorems are listed in `PROJECT.json`. All rest on the named ASSUMEs of the modules, on the library's
theorems about finite sets, sequences and well-founded induction, and on nothing else; every leaf is checked
by SMT, Zenon or LS4. The general form is: an inductive invariant that contains the module's type invariant,
one lemma per action or group of actions, and a temporal theorem that combines them.

| Module | About | Inductive invariant | Theorems |
|---|---|---|---|
| `StationPromotionProofs` | `StationPromotion` | `TInv`, `LInv`, `PInv` | `TypeCorrect`, `DecisionsStayFresh`, `LatestOnlyMovesForward`, `NoReadingShownTwice`, `ReobservationKeepsLatest`, `LatestIsBacked`, `ProcessedRowsAreTerminal`, `PromotionImplementsMap` |
| `WarningLifecycleProofs` | `WarningLifecycle` | `VInv` | `WarningTypeCorrect`, `WarningDecisionsStayFresh`, `CancelledWarningsStayGone`, `EmptyPollsWin`, `EvidenceIsUnique`, `DroppedWarningsAreHidden`, `LatestHasEvidence` |
| `WorkerProofs` | `SchedulerLease` | `EInv`; `TypeOK` | `OneIngestsAtATime`, `StoppedRowIsTrue`, `LeaseStaysWithHolder` |
| | `RuntimeQueue` | `QInv` | `OneActiveJob`, `ClaimantFinishes`, `QuarantineHolds` |
| | `PipelineStatus` | `PInv` | `HealthIsOfNewest`, `SnapshotGoesForward` |
| `ApiProofs` | `UserReports` | `RInv` | `AuditLogIsComplete`, `RedactionIsFinal` |
| | `RateLimit` | `LimitInv` | `QuotaIsKept`, `RetryAfterIsHonoured` |
| | `AssessmentCache` | `CInv` | `CachedAnswersAreYoung` |
| `NearbyDiagnosisProofs` | `NearbyDiagnosis` | `DInv` | `FailuresShow`, `DiagnosesDoNotContradict`, `AbsenceIsNeverGuessed`, `LowRiskIsLocal` |
| `SchemaMigrationsProofs` | `SchemaMigrations` | `SInv` | `EachFileOnce`, `ReadinessSuffices` |
| `WebClientProofs` | `WebClient` | `WInv` | `PageAnswersLastRequest`, `EvidenceIsLoadedOrFails` |
| `MaintenanceProofs` | `IndexMaintenance`, `Retention` | `IInv`, `RetInv` | `RebuildsStayInWindow`, `RebuildsAreApart`, `RetentionTypeCorrect`, `WatermarkLeavesNoOrphan` |

`ProcessedRowsAreTerminal` is not inductive by itself: a promotion also marks a row as processed because it
found evidence of that very staging row (`SkipUsed`), so `PInv` of `StationPromotionProofs` adds that every
evidence row names an existing staging row and repeats its raw_ref (`FromStaging`). That rows are neither
removed nor rewritten, and that a rejected one is never accepted again, is the lemma `RowsStay`.

`DecisionFresh`, `VerdictFresh`, `LatestMonotone`, `StoppedMeansFree`, `QuarantineBlocksReplay`,
`RedactedTextStaysGone`, `EvidenceIsOnItsWay` and the type invariants are proved and not run; the other
properties named by a theorem are also checked by a run. With that every invariant of a passing run has a
theorem. What stays with TLC:

- liveness (`CycleEnds`, `StandbyTakesOver`, `AgedRowsGo`, `QueriesExpire`, `EveryIndexRebuilt`, `CorpsesGo`,
  `LostJobIsRetried`, `BusyEnds`), which needs ENABLED;
- `GarbageNeverLowers` and `DensityIsNotRisk`: the scores are folds over the set of signals, and what a fold
  yields for every set is an induction over data;
- the properties of section 14, which are false (`OneIngests` is proved where it holds, without outages).

## 16. Not modelled

- *Source adapters*, *geocoding*, *on-demand news enrichment*: parsing of upstream formats and network
  I/O, without state that steps of several actors could put in disorder. What they may deliver is an input.
- *Historical coverage ledger*: one transaction at the end of a cycle, whose outcome is `EndCycle`.
- *Profiles, query heat, tile cache*: their writers are frozen in v1.
- *Operations scripts*: offline report generators.
- Parts of modelled components: CAP metadata and geometry, the catalogue gate and adapter selection, the
  preview commands of the scheduler, request validation and rendering of the API, map layers and the report
  form of the page, the entrypoint's process supervision, confidence scores. `PROJECT.json` names them with
  each component. The rows that readiness reads for queued and running jobs have no writer in v1.
- Postgres is modelled from its use: READ COMMITTED, row and advisory locks held to the end of the
  transaction, unique keys. Lock timeouts and deadlock victims are retries or ends of the calling step.

## 17. Running

Each run is `tlc -config <cfg> <module>` with the pairs named in `PROJECT.json`; the longest,
`station_races` and `warning_cancel`, take two to three minutes with two workers. The proofs are checked with
`tlapm <module>.tla` for the eight modules of section 15. Every property of a passing run has a mutant in
`PROJECT.json`: a definition with a plausible mistake (a lock not taken, a guard dropped, a reset
forgotten) under which TLC finds the property violated.
