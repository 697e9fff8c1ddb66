------------------------------- MODULE Retention -------------------------------
(***************************************************************************)
(* The maintenance cycle the scheduler runs after each tick: it prunes     *)
(* realtime evidence, location queries and raw snapshots, then the aged    *)
(* staging rows, rejected ones first and then accepted ones that no        *)
(* evidence refers to any more.  The accepted pass sweeps the creation     *)
(* times behind a watermark that lives in the process.                     *)
(* A statement is one step.  A cycle's passes run one after the other; the *)
(* staging rows, the evidence and the queries are written by others        *)
(* between any two of its statements.                                      *)
(***************************************************************************)
EXTENDS Naturals, Sequences, FiniteSets

CONSTANTS
  StagedRows,    \* rows of staging_evidence that can be inserted
  PrunableRows,  \* those of adapters whose orphans may go (is_orphan_prunable_adapter)
  RealtimeRows,  \* those whose evidence prune_realtime deletes
  LastTime,      \* bound: the clock stops here
  EvidenceAge,   \* evidence_realtime_retention_hours
  RawAge,        \* the retention of a raw snapshot's source family
  StagingAge,    \* staging_evidence_retention_days
  EvidenceBatch, \* DEFAULT_EVIDENCE_PRUNE_BATCH_LIMIT
  StagingBatch,  \* staging_evidence_retention_batch_size
  MaxBatches,    \* the batches of either staging pass in one cycle
  Probes,        \* rows one statement can look up within its statement_timeout at best,
  SureProbes,    \* and at worst
  MinWindow, Window, MaxWindow,  \* accepted_(min_|max_)window_seconds
  MaxRestarts,   \* bound: how often the scheduler is restarted
  NoMark         \* no watermark

ASSUME WindowsAssumption ==
  /\ {MinWindow, Window, MaxWindow} \subseteq Nat \ {0}
  /\ MinWindow <= Window /\ Window <= MaxWindow
  /\ {EvidenceAge, RawAge, StagingAge, LastTime, MaxRestarts} \subseteq Nat
ASSUME RowsAssumption ==
  IsFiniteSet(StagedRows) /\ PrunableRows \subseteq StagedRows /\ RealtimeRows \subseteq StagedRows
ASSUME BatchAssumption == StagingBatch \in Nat \ {0} /\ MaxBatches \in Nat \ {0}
ASSUME NoMarkAssumption == NoMark \notin Nat

VARIABLES
  clock,     \* now()
  staged,    \* validation_status of each row; "absent" before it exists, "gone" after
  born,      \* created_at of each row
  evid,      \* rows that an evidence row refers to
  linked,    \* rows whose raw snapshot is still there
  query,     \* whether a location query older than its retention is stored
  indexes,   \* indisvalid of the two partial indexes; FALSE when missing
  broken,    \* the staging passes' database calls raise
  pass,      \* where the cycle is
  cutoff,    \* its local variable, as are the next three
  batches,
  lmark,     \* watermark
  lwin,      \* window
  mark,      \* _accepted_sweep_watermark
  win,       \* _accepted_sweep_window_seconds, 0 for None
  restarts   \* history

database == <<staged, born, evid, linked, query, indexes>>
sweep == <<batches, lmark, lwin>>
process == <<pass, cutoff, batches, lmark, lwin, mark, win>>
retentionVars == <<clock, staged, born, evid, linked, query, indexes, broken, pass, cutoff,
                   batches, lmark, lwin, mark, win, restarts>>

Passes == {"idle", "evidence", "queries", "raw", "rejectedIndex", "rejected",
           "acceptedIndex", "setup", "accepted"}

RetentionInit ==
  /\ clock = 0 /\ broken \in BOOLEAN /\ restarts = 0
  /\ staged = [r \in StagedRows |-> "absent"] /\ born = [r \in StagedRows |-> 0]
  /\ evid = {} /\ linked = {} /\ query = FALSE
  /\ \E built \in BOOLEAN : indexes = [s \in {"rejected", "accepted"} |-> built]
  /\ pass = "idle" /\ cutoff = 0
  /\ batches = 0 /\ lmark = NoMark /\ lwin = 0
  /\ mark = NoMark /\ win = 0

\* The order of run_maintenance_once; the staging passes begin with "rejectedIndex".
StagingFirst == <<"rejectedIndex", "evidence", "queries", "raw">>  \* mutant
PassOrder == <<"evidence", "queries", "raw", "rejectedIndex">>

After(p) ==
  LET i == CHOOSE k \in 1..4 : PassOrder[k] = p
  IN  IF i = 4 THEN "idle" ELSE PassOrder[i + 1]

\* The staging passes return, or raise, and their local variables are gone.
LeaveFor(p) == pass' = p /\ cutoff' = 0 /\ batches' = 0 /\ lmark' = NoMark /\ lwin' = 0
Leave == LeaveFor(After("rejectedIndex"))
Abort == LeaveFor("idle")

AtLeast(a, b) == IF a > b THEN a ELSE b
AtMost(a, b) == IF a < b THEN a ELSE b
Before(age) == IF clock > age THEN clock - age ELSE 0

\* What "ORDER BY created_at LIMIT n" can select from S.
Oldest(S, n) ==
  {D \in SUBSET S : /\ Cardinality(D) = AtMost(n, Cardinality(S))
                    /\ \A d \in D, s \in S \ D : born[d] <= born[s]}

-----------------------------------------------------------------------------
\* What the ingestion and the public API do to these tables.  (Bound: the rows of one
\* instant can always be looked up, which is what the smallest window is for.)
Stage(r) ==
  /\ staged[r] = "absent"
  /\ Cardinality({s \in StagedRows : staged[s] \in {"accepted", "rejected"} /\ born[s] = clock}) < SureProbes
  /\ \E s \in {"accepted", "rejected"} : staged' = [staged EXCEPT ![r] = s]
  /\ born' = [born EXCEPT ![r] = clock]
  /\ linked' = linked \cup {r}
  /\ UNCHANGED <<clock, evid, query, indexes, broken, process, restarts>>

\* fetch_accepted_staging by raw_ref, then the promotion: evidence, or a terminal reject.
Promote(r) ==
  /\ staged[r] = "accepted" /\ r \in linked \ evid
  /\ \/ evid' = evid \cup {r} /\ UNCHANGED staged
     \/ staged' = [staged EXCEPT ![r] = "rejected"] /\ UNCHANGED evid
  /\ UNCHANGED <<clock, born, linked, query, indexes, broken, process, restarts>>

Ask ==
  /\ ~query /\ query' = TRUE
  /\ UNCHANGED <<clock, staged, born, evid, linked, indexes, broken, process, restarts>>

Tick ==
  /\ clock < LastTime /\ clock' = clock + 1
  /\ UNCHANGED <<database, broken, process, restarts>>

\* Whatever made the staging passes fail is put right.
Heal ==
  /\ broken /\ broken' = FALSE
  /\ UNCHANGED <<clock, database, process, restarts>>

\* A new process: its module variables are lost; a build under way leaves its index invalid.
RestartScheduler ==
  /\ restarts < MaxRestarts /\ restarts' = restarts + 1
  /\ Abort /\ mark' = NoMark /\ win' = 0
  /\ UNCHANGED <<clock, database, broken>>

-----------------------------------------------------------------------------
\* run_maintenance_once: the passes in order.
StartCycle ==
  /\ pass = "idle" /\ pass' = Head(PassOrder)
  /\ UNCHANGED <<clock, database, broken, cutoff, sweep, mark, win, restarts>>

PruneRealtime ==
  /\ pass = "evidence" /\ pass' = After("evidence")
  /\ \E D \in Oldest({r \in evid \cap RealtimeRows : born[r] < Before(EvidenceAge)},
                     EvidenceBatch) :
       evid' = evid \ D
  /\ UNCHANGED <<clock, staged, born, linked, query, indexes, broken, cutoff, sweep, mark, win,
                 restarts>>

PruneQueries ==
  /\ pass = "queries" /\ pass' = After("queries")
  /\ query' = FALSE
  /\ UNCHANGED <<clock, staged, born, evid, linked, indexes, broken, cutoff, sweep, mark, win,
                 restarts>>

\* ON DELETE SET NULL: the staging row stays.
PruneRaw ==
  /\ pass = "raw" /\ pass' = After("raw")
  /\ linked' = {r \in linked : born[r] >= Before(RawAge)}
  /\ UNCHANGED <<clock, staged, born, evid, query, indexes, broken, cutoff, sweep, mark, win,
                 restarts>>

\* prune_staging_evidence takes its cutoff.  _ensure_partial_index: a valid index is ready;
\* otherwise an invalid one is dropped and built again.  A build that fails makes its pass
\* wait for the next cycle.
EnsureIndex(s) == (indexes[s] \/ ~broken) /\ indexes' = [indexes EXCEPT ![s] = TRUE]
NoIndex(s) == ~indexes[s] /\ broken /\ UNCHANGED indexes

BeginRejected ==
  /\ pass = "rejectedIndex"
  /\ cutoff' = Before(StagingAge)
  /\ \/ EnsureIndex("rejected") /\ pass' = "rejected"
     \/ NoIndex("rejected") /\ pass' = "acceptedIndex"
  /\ UNCHANGED <<clock, staged, born, evid, linked, query, broken, sweep, mark, win, restarts>>

BeginAccepted ==
  /\ pass = "acceptedIndex"
  /\ \/ EnsureIndex("accepted") /\ pass' = "setup" /\ UNCHANGED <<cutoff, sweep>>
     \/ NoIndex("accepted") /\ Leave
  /\ UNCHANGED <<clock, staged, born, evid, linked, query, broken, mark, win, restarts>>

Delete(D) ==
  /\ staged' = [r \in StagedRows |-> IF r \in D THEN "gone" ELSE staged[r]]
  /\ born' = [r \in StagedRows |-> IF r \in D THEN 0 ELSE born[r]]

\* One iteration of _delete_staging_batches; "exhausted" and "max_batches" leave it.
DeleteRejected ==
  /\ pass = "rejected" /\ ~broken
  /\ \E D \in Oldest({r \in StagedRows : staged[r] = "rejected" /\ born[r] < cutoff},
                     StagingBatch) :
       /\ Delete(D)
       /\ IF D = {} \/ batches + 1 = MaxBatches
          THEN pass' = "acceptedIndex" /\ batches' = 0
          ELSE pass' = "rejected" /\ batches' = batches + 1
  /\ UNCHANGED <<clock, evid, linked, query, indexes, broken, cutoff, lmark, lwin, mark, win,
                 restarts>>

\* The head of _sweep_accepted_staging: where it goes on, or the oldest accepted row.
SetUpSweep ==
  LET accepted == {r \in StagedRows : staged[r] = "accepted"}
      oldest == {born[r] : r \in {r \in accepted : \A s \in accepted : born[r] <= born[s]}}
  IN  /\ pass = "setup" /\ ~broken
      /\ \/ mark = NoMark /\ accepted = {} /\ Leave
         \/ /\ lmark' \in IF mark = NoMark THEN oldest ELSE {mark}
            /\ lwin' = AtMost(MaxWindow, AtLeast(MinWindow, IF win = 0 THEN Window ELSE win))
            /\ pass' = "accepted"
            /\ UNCHANGED <<cutoff, batches>>
      /\ UNCHANGED <<clock, database, broken, mark, win, restarts>>

WindowEnd == AtMost(lmark + lwin, cutoff)
InWindow == {r \in PrunableRows : staged[r] = "accepted" /\ lmark <= born[r] /\ born[r] < WindowEnd}

\* Mutants: a window that yielded a full batch counts as swept; one that timed out is
\* tried again as it is.
WindowDoneAny(D) == Cardinality(D) <= StagingBatch
WindowDone(D) == Cardinality(D) < StagingBatch
Kept(w) == w
Halved(w) == AtLeast(MinWindow, w \div 2)

SweepBatch ==
  /\ pass = "accepted" /\ ~broken
  /\ batches < MaxBatches /\ lmark < cutoff
  /\ Cardinality(InWindow) <= Probes
  /\ \E D \in Oldest(InWindow \ evid, StagingBatch) :
       /\ Delete(D)
       /\ IF WindowDone(D)
          THEN /\ lmark' = WindowEnd
               /\ lwin' = AtMost(IF D = {} THEN MaxWindow ELSE Window, lwin * 2)
          ELSE lwin' = AtMost(lwin, Window) /\ UNCHANGED lmark
  /\ batches' = batches + 1
  /\ UNCHANGED <<clock, evid, linked, query, indexes, broken, pass, cutoff, mark, win,
                 restarts>>

\* A statement timeout costs a batch and halves the window.
SweepTimeout ==
  /\ pass = "accepted" /\ ~broken
  /\ batches < MaxBatches /\ lmark < cutoff
  /\ Cardinality(InWindow) > SureProbes
  /\ lwin > MinWindow /\ lwin' = Halved(lwin)
  /\ batches' = batches + 1
  /\ UNCHANGED <<clock, database, broken, pass, cutoff, lmark, mark, win, restarts>>

\* Caught up, out of batches, or timed out at the smallest window: the sweep is kept for
\* the next cycle.
EndSweep ==
  /\ pass = "accepted" /\ ~broken
  /\ batches = MaxBatches \/ lmark >= cutoff
       \/ (lwin <= MinWindow /\ Cardinality(InWindow) > SureProbes)
  /\ Leave /\ mark' = lmark /\ win' = lwin
  /\ UNCHANGED <<clock, database, broken, restarts>>

\* A staging statement raises: EvidenceRetentionUnavailable ends the cycle.
StagingFails ==
  /\ broken /\ pass \in {"rejected", "setup", "accepted"}
  /\ Abort
  /\ UNCHANGED <<clock, database, broken, mark, win, restarts>>

Cycle ==
  \/ StartCycle \/ PruneRealtime \/ PruneQueries \/ PruneRaw
  \/ BeginRejected \/ DeleteRejected \/ BeginAccepted
  \/ SetUpSweep \/ SweepBatch \/ SweepTimeout \/ EndSweep \/ StagingFails

RetentionNext ==
  \/ \E r \in StagedRows : Stage(r) \/ Promote(r)
  \/ Ask \/ Tick \/ Heal \/ RestartScheduler \/ Cycle

\* The scheduler's loop goes on and time passes.
RetentionFair == WF_retentionVars(Cycle) /\ WF_retentionVars(Tick)

-----------------------------------------------------------------------------
\* The shape of the state; the window stays within its configured bounds.
RetentionTypeOK ==
  /\ clock \in 0..LastTime /\ restarts \in 0..MaxRestarts
  /\ staged \in [StagedRows -> {"absent", "accepted", "rejected", "gone"}]
  /\ born \in [StagedRows -> 0..LastTime]
  /\ evid \subseteq StagedRows /\ linked \subseteq StagedRows
  /\ query \in BOOLEAN
  /\ indexes \in [{"rejected", "accepted"} -> BOOLEAN] /\ broken \in BOOLEAN
  /\ pass \in Passes /\ cutoff \in 0..LastTime /\ batches \in 0..MaxBatches
  /\ lmark \in 0..LastTime \cup {NoMark} /\ mark \in 0..LastTime \cup {NoMark}
  /\ lwin \in {0} \cup MinWindow..MaxWindow /\ win \in {0} \cup MinWindow..MaxWindow

\* The watermark leaves no orphan behind: when it moves over a stretch of creation times,
\* whatever rows of it remain are referred to by evidence.  Nothing comes back to look.
SweptClean ==
  [][(pass = "accepted" /\ pass' = "accepted" /\ lmark' # lmark) =>
       \A r \in PrunableRows :
         (staged'[r] = "accepted" /\ lmark <= born[r] /\ born[r] < lmark') => r \in evid]_retentionVars

\* Ahead of the watermark every aged orphan, and every aged rejected row, is deleted in the
\* end, although statements time out on crowded windows, batches run out and the process
\* is restarted.
AgedRowsGo ==
  \A r \in StagedRows :
    (/\ ~broken /\ born[r] + StagingAge < LastTime
     /\ \/ staged[r] = "rejected"
        \/ staged[r] = "accepted" /\ r \in PrunableRows \ evid /\ (mark = NoMark \/ mark <= born[r]))
      ~> (staged[r] = "gone" \/ r \in evid)

\* "an over-running staging prune must not delay the privacy retention passes": a location
\* query goes once it is old, even while the staging passes fail in every cycle.
QueriesExpire == query ~> ~query
==============================================================================
