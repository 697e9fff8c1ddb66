--------------------------- MODULE IndexMaintenance ---------------------------
(***************************************************************************)
(* The online index rebuilds at the end of a maintenance cycle: inside a   *)
(* nightly window, at most one REINDEX CONCURRENTLY per cycle, bounded by  *)
(* what is left of the window, with the schedule in the process's memory.  *)
(* A rebuild swaps the new index in before it waits for the last readers   *)
(* of the old one, so it can time out with its work done.                  *)
(* Time is counted in hours of a day that comes round; ages are capped.    *)
(***************************************************************************)
EXTENDS Naturals, Sequences, FiniteSets

CONSTANTS
  IndexOrder,     \* evidence_index_reindex_indexes
  IndexSkipped,   \* those missing, invalid, too small or too large
  IndexStuck,     \* those whose rebuild always fails
  DayHours,       \* bound: hours of a day; the window opens at hour 0
  WindowHours,    \* and closes at this one
  ReindexEvery,   \* evidence_index_reindex_interval_hours
  MaxPerWindow,   \* evidence_index_reindex_max_per_window
  StatementHours, \* evidence_index_reindex_statement_timeout_ms
  MinRemaining,   \* evidence_index_reindex_min_remaining_seconds
  NoIndexName     \* no rebuild

IndexNames == {IndexOrder[k] : k \in DOMAIN IndexOrder}

ASSUME IndexAssumption ==
  /\ IndexSkipped \subseteq IndexNames /\ IndexStuck \subseteq IndexNames
  /\ NoIndexName \notin IndexNames
ASSUME HoursAssumption ==
  /\ WindowHours \in 1..(DayHours - 1) /\ DayHours \in Nat
  /\ {ReindexEvery, MaxPerWindow, StatementHours, MinRemaining} \subseteq Nat \ {0}

VARIABLES
  hour,      \* the hour of the day
  cycled,    \* the latest cycle of this hour found nothing to rebuild
  age,       \* hours since _last_reindex_at of each index, LongAgo when unset
  attempted, \* indexes with _last_attempt_at in this window
  finished,  \* indexes with _last_reindex_at in this window
  corpses,   \* indexes with an invalid _ccnew or _ccold left behind
  step,      \* the rebuilds' part of the cycle
  target,    \* the index being rebuilt
  left,      \* hours the statement may still take
  spent,     \* hours since the cycle began
  swapped,   \* the running statement has swapped the new index in
  trouble,   \* the probes may take hours or fail, connections and the process be lost
  swapAge    \* history: hours since the cycle that swapped each index in, as far as known

indexVars == <<hour, cycled, age, attempted, finished, corpses, step, target, left, spent, swapped,
               trouble, swapAge>>
schedule == <<age, attempted, finished>>

LongAgo == ReindexEvery + WindowHours + 1

IndexInit ==
  /\ hour = 0 /\ cycled = FALSE
  /\ age = [i \in IndexNames |-> LongAgo]
  /\ attempted = {} /\ finished = {} /\ corpses = {}
  /\ step = "off" /\ target = NoIndexName /\ left = 0 /\ spent = 0 /\ swapped = FALSE
  /\ trouble \in BOOLEAN
  /\ swapAge = [i \in IndexNames |-> LongAgo]

-----------------------------------------------------------------------------
InTheWindow == hour < WindowHours
Remaining == WindowHours - hour

\* Outside the window, over the window's budget, or too close to its end.
SkipCycle ==
  /\ step = "off" /\ ~cycled
  /\ \/ ~InTheWindow
     \/ Cardinality(finished) >= MaxPerWindow
     \/ Remaining <= MinRemaining
  /\ cycled' = TRUE
  /\ UNCHANGED <<hour, schedule, corpses, step, target, left, spent, swapped, trouble, swapAge>>

\* The connection, and the sweep over the leftovers of every index: a drop that cannot
\* get its lock is left for the next cycle.
BeginReindex ==
  /\ step = "off" /\ ~cycled
  /\ InTheWindow /\ Cardinality(finished) < MaxPerWindow /\ Remaining > MinRemaining
  /\ step' = "probing" /\ spent' = 0
  /\ UNCHANGED <<hour, cycled, schedule, target, left, swapped, trouble, swapAge>>

SweepFirst == BeginReindex /\ corpses' = corpses \ {Head(IndexOrder)}  \* mutant
SweepLeftovers == BeginReindex /\ corpses' = {}
KeepLeftovers == BeginReindex /\ corpses # {} /\ UNCHANGED corpses

\* _skip_reason is None; `now` is the time the cycle began.
CandidateRetried(i) ==  \* mutant: an index tried in this window is tried again
  i \in IndexNames \ IndexSkipped /\ age[i] >= ReindexEvery + spent
Candidate(i) ==
  i \in IndexNames \ IndexSkipped /\ age[i] >= ReindexEvery + spent /\ i \notin attempted

\* The first eligible index of the list.
First(i) ==
  \E k \in DOMAIN IndexOrder :
    /\ IndexOrder[k] = i /\ Candidate(i)
    /\ \A m \in 1..(k - 1) : ~Candidate(IndexOrder[m])

\* _statement_budget_ms: the configured timeout or what is left of the window, less what
\* the cycle has spent since.  Mutant: the time spent is not taken off.
Least(a, b) == IF a < b THEN a ELSE b
BudgetAtStart == Least(StatementHours, (WindowHours + spent) - hour)
Budget == Least(StatementHours, WindowHours - hour)

EndReindex ==
  /\ step' = "off" /\ cycled' = (step = "probing")
  /\ target' = NoIndexName /\ left' = 0 /\ spent' = 0 /\ swapped' = FALSE

\* No candidate, or the probes took too long, or they failed.
NoRebuild ==
  /\ step = "probing"
  /\ trouble \/ Budget < MinRemaining \/ \A i \in IndexNames : ~Candidate(i)
  /\ EndReindex
  /\ UNCHANGED <<hour, schedule, corpses, trouble, swapAge>>

\* The attempt is recorded before the statement.
StartRebuild(i) ==
  /\ step = "probing" /\ First(i)
  /\ Budget >= MinRemaining
  /\ step' = "building" /\ target' = i /\ left' = Budget
  /\ attempted' = attempted \cup {i}
  /\ UNCHANGED <<hour, cycled, age, finished, corpses, spent, swapped, trouble, swapAge>>

Swap ==
  /\ step = "building" /\ ~swapped /\ target \notin IndexStuck
  /\ swapped' = TRUE /\ swapAge' = [swapAge EXCEPT ![target] = spent]
  /\ UNCHANGED <<hour, cycled, schedule, corpses, step, target, left, spent, trouble>>

\* _last_reindex_at is the time the cycle began.
Record ==
  /\ age' = [age EXCEPT ![target] = spent]
  /\ finished' = finished \cup {target}

Rebuilt ==
  /\ step = "building" /\ swapped
  /\ Record /\ EndReindex
  /\ UNCHANGED <<hour, attempted, corpses, trouble, swapAge>>

\* lock_timeout or statement_timeout.  After the swap, _recover_post_swap_success finds a
\* valid index with another relfilenode.  Mutant: the error is believed.
BelieveError == UNCHANGED <<age, finished>>
RecoverSuccess == IF swapped THEN Record ELSE UNCHANGED <<age, finished>>

TimedOut ==
  /\ step = "building"
  /\ RecoverSuccess /\ EndReindex
  /\ corpses' = corpses \cup {target}
  /\ UNCHANGED <<hour, attempted, trouble, swapAge>>

\* The connection or the process is lost with the statement; what came of it is not known.
LoseConnection ==
  /\ trouble /\ step = "building"
  /\ EndReindex
  /\ \/ corpses' = corpses \cup {target}
     \/ swapped /\ UNCHANGED corpses
  /\ swapAge' = [swapAge EXCEPT ![target] = LongAgo]
  /\ UNCHANGED <<hour, schedule, trouble>>

RestartWorker ==
  /\ trouble /\ step = "off"
  /\ age' = [i \in IndexNames |-> LongAgo] /\ attempted' = {} /\ finished' = {}
  /\ swapAge' = [i \in IndexNames |-> LongAgo]
  /\ UNCHANGED <<hour, cycled, corpses, step, target, left, spent, swapped, trouble>>

\* An hour passes: maintenance cycles are minutes apart, so they go on until there is
\* nothing to rebuild, unless a statement runs on; its timeout ends it.
Older(f) == [i \in IndexNames |-> Least(f[i] + 1, LongAgo)]

PassHour ==
  /\ cycled \/ step = "building" \/ (step = "probing" /\ trouble)
  /\ step = "building" => left > 0
  /\ spent <= WindowHours
  /\ hour' = IF hour + 1 = DayHours THEN 0 ELSE hour + 1
  /\ cycled' = FALSE
  /\ age' = Older(age) /\ swapAge' = Older(swapAge)
  /\ spent' = IF step = "off" THEN 0 ELSE spent + 1
  /\ left' = IF step = "building" THEN left - 1 ELSE 0
  /\ IF hour' = 0 THEN attempted' = {} /\ finished' = {} ELSE UNCHANGED <<attempted, finished>>
  /\ UNCHANGED <<corpses, step, target, swapped, trouble>>

EndTrouble ==
  /\ trouble /\ trouble' = FALSE
  /\ UNCHANGED <<hour, cycled, schedule, corpses, step, target, left, spent, swapped, swapAge>>

ReindexStep ==
  \/ SkipCycle \/ SweepLeftovers \/ KeepLeftovers \/ NoRebuild
  \/ \E i \in IndexNames : StartRebuild(i)
  \/ Rebuilt \/ TimedOut

IndexNext == ReindexStep \/ Swap \/ LoseConnection \/ RestartWorker \/ EndTrouble \/ PassHour

\* The cycles and time go on; a drop gets its lock some night, and a rebuild that is
\* started over and over again gets through.
IndexFair ==
  /\ WF_indexVars(ReindexStep) /\ WF_indexVars(PassHour)
  /\ SF_indexVars(SweepLeftovers)
  /\ \A i \in IndexNames \ IndexStuck :
       /\ SF_indexVars(StartRebuild(i)) /\ SF_indexVars(Swap /\ target = i)
       /\ SF_indexVars(Rebuilt /\ target = i)

-----------------------------------------------------------------------------
\* The shape of the state.
IndexTypeOK ==
  /\ hour \in 0..(DayHours - 1) /\ cycled \in BOOLEAN
  /\ age \in [IndexNames -> 0..LongAgo] /\ swapAge \in [IndexNames -> 0..LongAgo]
  /\ attempted \subseteq IndexNames /\ finished \subseteq IndexNames
  /\ corpses \subseteq IndexNames
  /\ step \in {"off", "probing", "building"}
  /\ target \in IndexNames \cup {NoIndexName} /\ (target = NoIndexName <=> step # "building")
  /\ left \in 0..StatementHours /\ spent \in 0..(WindowHours + 1) /\ swapped \in BOOLEAN /\ trouble \in BOOLEAN

\* "Whatever is left of the window is the most a rebuild may take": none runs past the
\* window's end, however late it started and however long its cycle had probed before.
QuietAfterWindow == step = "building" => hour + left <= WindowHours

\* A cycle that rebuilds an index begins no sooner than the interval after the one that
\* rebuilt it last, although a rebuild can report a timeout
\* after it has swapped the index in, as long as the process and its connection live.
RebuiltOncePerInterval ==
  [][(~swapped /\ swapped') => swapAge[target] >= ReindexEvery + spent]_indexVars

\* An index whose rebuild always fails, or that is never eligible, does not keep the
\* others from being rebuilt, as long as there is a cycle in the window every night.
EveryIndexRebuilt ==
  <>[]~trouble /\ []<>(step = "probing") =>
    \A i \in IndexNames \ (IndexSkipped \cup IndexStuck) :
      []<>(step = "building" /\ target = i /\ swapped)

\* The disk a dead rebuild holds is given back.
CorpsesGo == \A i \in IndexNames : i \in corpses ~> i \notin corpses
==============================================================================
