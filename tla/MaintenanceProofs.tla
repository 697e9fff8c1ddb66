-------------------------- MODULE MaintenanceProofs --------------------------
(***************************************************************************)
(* The maintenance cycle, for any number of indexes and rows and for every *)
(* window, interval and batch: the nightly rebuilds stay in their window   *)
(* and apart by their interval, and the sweep leaves no orphan behind.     *)
(***************************************************************************)
EXTENDS IndexMaintenance, Retention, FiniteSetTheorems, TLAPS

IndexSpec == IndexInit /\ [][IndexNext]_indexVars

\* What the process knows of an index is never older than the truth: between rebuilds,
\* and while one is under way, when it also counts the hours of its cycle.
Remembered ==
  \A i \in IndexNames :
    IF step = "building" /\ swapped /\ target = i
    THEN swapAge[i] = spent
    ELSE swapAge[i] >= age[i]

\* The rebuild under way was due when its cycle began.
Due == (step = "building" /\ ~swapped) => age[target] >= ReindexEvery + spent

SwapWhileBuilding == swapped => step = "building"

IInv == IndexTypeOK /\ QuietAfterWindow /\ Remembered /\ Due /\ SwapWhileBuilding

-----------------------------------------------------------------------------
LEMMA HoursFacts ==
  /\ DayHours \in Nat /\ WindowHours \in Nat /\ WindowHours >= 1 /\ WindowHours < DayHours
  /\ ReindexEvery \in Nat /\ ReindexEvery > 0 /\ StatementHours \in Nat /\ StatementHours > 0
  /\ MinRemaining \in Nat /\ MinRemaining > 0
  /\ LongAgo \in Nat /\ LongAgo = ReindexEvery + WindowHours + 1
BY HoursAssumption DEF LongAgo

LEMMA IInitial == IndexInit => IInv
<1> SUFFICES ASSUME IndexInit
             PROVE  IInv
  OBVIOUS
<1>1. IndexTypeOK
  <2>1. hour \in 0..(DayHours - 1) /\ left \in 0..StatementHours /\ spent \in 0..(WindowHours + 1)
    BY HoursFacts DEF IndexInit
  <2>2. age \in [IndexNames -> 0..LongAgo] /\ swapAge \in [IndexNames -> 0..LongAgo]
    BY HoursFacts DEF IndexInit
  <2> QED
    BY <2>1, <2>2 DEF IndexInit, IndexTypeOK
<1>2. QuietAfterWindow /\ Due /\ SwapWhileBuilding
  BY DEF IndexInit, QuietAfterWindow, Due, SwapWhileBuilding
<1>3. Remembered
  BY HoursFacts DEF IndexInit, Remembered
<1> QED
  BY <1>1, <1>2, <1>3 DEF IInv

\* Nothing is under way before or after, and no age changes.
LEMMA Idling ==
  ASSUME IInv, SkipCycle \/ SweepLeftovers \/ KeepLeftovers \/ NoRebuild
  PROVE  IInv'
<1>1. /\ step # "building" /\ step' \in {"off", "probing"}
      /\ target' = NoIndexName /\ left' \in 0..StatementHours /\ ~swapped'
      /\ spent' \in 0..(WindowHours + 1) /\ cycled' \in BOOLEAN /\ corpses' \subseteq corpses
      /\ UNCHANGED <<hour, age, attempted, finished, trouble, swapAge>>
  <2>1. CASE SkipCycle
    BY <2>1 DEF SkipCycle, schedule, IInv, IndexTypeOK, SwapWhileBuilding
  <2>2. CASE SweepLeftovers \/ KeepLeftovers
    BY <2>2, HoursFacts DEF SweepLeftovers, KeepLeftovers, BeginReindex, schedule, IInv, IndexTypeOK,
       SwapWhileBuilding
  <2>3. CASE NoRebuild
    BY <2>3, HoursFacts DEF NoRebuild, EndReindex, schedule, IInv, IndexTypeOK
  <2> QED
    BY <2>1, <2>2, <2>3
<1>2. IndexTypeOK'
  <2>1. swapped' \in BOOLEAN
    BY <1>1 DEF SkipCycle, SweepLeftovers, KeepLeftovers, BeginReindex, NoRebuild, EndReindex,
       IInv, IndexTypeOK
  <2> QED
    BY <1>1, <2>1 DEF IInv, IndexTypeOK
<1>3. Remembered'
  BY <1>1 DEF IInv, Remembered
<1>4. QuietAfterWindow' /\ Due' /\ SwapWhileBuilding'
  BY <1>1 DEF QuietAfterWindow, Due, SwapWhileBuilding
<1> QED
  BY <1>2, <1>3, <1>4 DEF IInv

LEMMA Starting ==
  ASSUME IInv, NEW i \in IndexNames, StartRebuild(i)
  PROVE  IInv'
<1>1. /\ step = "probing" /\ step' = "building" /\ target' = i /\ left' = Budget
      /\ Budget >= MinRemaining /\ age[i] >= ReindexEvery + spent
      /\ attempted' = attempted \cup {i} /\ ~swapped
      /\ UNCHANGED <<hour, cycled, age, finished, corpses, spent, swapped, trouble, swapAge>>
  BY DEF StartRebuild, First, Candidate, IInv, SwapWhileBuilding
<1>2. left' \in 0..StatementHours /\ hour + left' <= WindowHours
  BY <1>1, HoursFacts DEF Budget, Least, IInv, IndexTypeOK
<1>3. IndexTypeOK'
  BY <1>1, <1>2, IndexAssumption DEF IInv, IndexTypeOK
<1>4. QuietAfterWindow' /\ Due' /\ SwapWhileBuilding' /\ Remembered'
  BY <1>1, <1>2 DEF IInv, QuietAfterWindow, Due, SwapWhileBuilding, Remembered
<1> QED
  BY <1>3, <1>4 DEF IInv

LEMMA Swapping ==
  ASSUME IInv, Swap
  PROVE  IInv' /\ swapAge[target] >= ReindexEvery + spent
<1>1. /\ step = "building" /\ ~swapped /\ swapped' /\ swapped' \in BOOLEAN
      /\ swapAge' = [swapAge EXCEPT ![target] = spent]
      /\ UNCHANGED <<hour, cycled, age, attempted, finished, corpses, step, target, left, spent, trouble>>
  BY DEF Swap, schedule
<1>2. /\ target \in IndexNames /\ spent \in 0..(WindowHours + 1) /\ spent \in 0..LongAgo
  BY <1>1, HoursFacts DEF IInv, IndexTypeOK
<1>3. age[target] >= ReindexEvery + spent /\ swapAge[target] >= age[target]
  BY <1>1, <1>2 DEF IInv, Due, Remembered
<1>4. IndexTypeOK'
  <2>1. swapAge' \in [IndexNames -> 0..LongAgo]
    BY <1>1, <1>2 DEF IInv, IndexTypeOK
  <2> QED
    BY <1>1, <2>1 DEF IInv, IndexTypeOK
<1>5. Remembered'
  BY <1>1, <1>2 DEF IInv, IndexTypeOK, Remembered
<1>6. QuietAfterWindow' /\ Due' /\ SwapWhileBuilding'
  BY <1>1 DEF IInv, QuietAfterWindow, Due, SwapWhileBuilding
<1>7. swapAge[target] >= ReindexEvery + spent
  BY <1>2, <1>3, HoursFacts DEF IInv, IndexTypeOK
<1> QED
  BY <1>4, <1>5, <1>6, <1>7 DEF IInv

\* A statement's end: its result is recorded, or found out, or lost.
LEMMA Ending ==
  ASSUME IInv, Rebuilt \/ TimedOut \/ LoseConnection
  PROVE  IInv'
<1>1. /\ step = "building" /\ step' = "off" /\ cycled' \in BOOLEAN /\ target' = NoIndexName
      /\ left' = 0 /\ spent' = 0 /\ swapped' = FALSE
      /\ corpses' \subseteq corpses \cup {target}
      /\ UNCHANGED <<hour, attempted, trouble>>
  BY DEF Rebuilt, TimedOut, LoseConnection, EndReindex, schedule
<1>2. /\ target \in IndexNames /\ spent \in 0..LongAgo /\ LongAgo \in Nat
      /\ age \in [IndexNames -> 0..LongAgo] /\ swapAge \in [IndexNames -> 0..LongAgo]
  BY <1>1, HoursFacts DEF IInv, IndexTypeOK
<1>3. \/ /\ age' = [age EXCEPT ![target] = spent] /\ finished' = finished \cup {target}
         /\ swapped /\ UNCHANGED swapAge
      \/ /\ UNCHANGED <<age, finished>> /\ ~swapped /\ UNCHANGED swapAge
      \/ /\ UNCHANGED <<age, finished>> /\ swapAge' = [swapAge EXCEPT ![target] = LongAgo]
  BY DEF Rebuilt, TimedOut, LoseConnection, RecoverSuccess, Record, schedule
<1>4. /\ age' \in [IndexNames -> 0..LongAgo] /\ swapAge' \in [IndexNames -> 0..LongAgo]
      /\ finished' \subseteq IndexNames
  BY <1>2, <1>3 DEF IInv, IndexTypeOK
<1>5. IndexTypeOK'
  <2>1. corpses' \subseteq IndexNames
    BY <1>1, <1>2 DEF IInv, IndexTypeOK
  <2>2. left' \in 0..StatementHours /\ spent' \in 0..(WindowHours + 1)
    BY <1>1, HoursFacts
  <2> QED
    BY <1>1, <1>4, <2>1, <2>2 DEF IInv, IndexTypeOK
<1>6. Remembered'
  <2> SUFFICES ASSUME NEW i \in IndexNames
               PROVE  swapAge'[i] >= age'[i]
    BY <1>1 DEF Remembered
  <2>1. CASE i = target
    BY <1>1, <1>2, <1>3, <2>1 DEF IInv, Remembered
  <2>2. CASE i # target
    BY <1>1, <1>2, <1>3, <2>2 DEF IInv, Remembered
  <2> QED
    BY <2>1, <2>2
<1>7. QuietAfterWindow' /\ Due' /\ SwapWhileBuilding'
  BY <1>1 DEF QuietAfterWindow, Due, SwapWhileBuilding
<1> QED
  BY <1>5, <1>6, <1>7 DEF IInv

LEMMA Restarting ==
  ASSUME IInv, RestartWorker \/ EndTrouble
  PROVE  IInv'
<1>1. /\ UNCHANGED <<hour, cycled, corpses, step, target, left, spent, swapped>>
      /\ trouble' \in BOOLEAN
  BY DEF RestartWorker, EndTrouble, IInv, IndexTypeOK
<1>2. \/ UNCHANGED <<age, attempted, finished, swapAge>>
      \/ /\ step = "off" /\ age' = [i \in IndexNames |-> LongAgo]
         /\ swapAge' = [i \in IndexNames |-> LongAgo] /\ attempted' = {} /\ finished' = {}
  BY DEF RestartWorker, EndTrouble, schedule
<1>3. IndexTypeOK'
  BY <1>1, <1>2, HoursFacts DEF IInv, IndexTypeOK
<1>4. QuietAfterWindow' /\ Due' /\ SwapWhileBuilding' /\ Remembered'
  BY <1>1, <1>2, HoursFacts DEF IInv, QuietAfterWindow, Due, SwapWhileBuilding, Remembered
<1> QED
  BY <1>3, <1>4 DEF IInv

\* An hour adds one to every age; none reaches its cap before a cycle is over.
LEMMA Aging ==
  ASSUME IInv, PassHour
  PROVE  IInv'
<1>1. /\ step = "building" => left > 0
      /\ spent <= WindowHours
      /\ hour' = IF hour + 1 = DayHours THEN 0 ELSE hour + 1
      /\ spent' = IF step = "off" THEN 0 ELSE spent + 1
      /\ left' = IF step = "building" THEN left - 1 ELSE 0
      /\ cycled' = FALSE
      /\ attempted' \subseteq attempted /\ finished' \subseteq finished
      /\ UNCHANGED <<corpses, step, target, swapped, trouble>>
  BY DEF PassHour
<1>2. /\ hour \in Nat /\ hour < DayHours /\ spent \in Nat /\ left \in 0..StatementHours
      /\ age \in [IndexNames -> 0..LongAgo] /\ swapAge \in [IndexNames -> 0..LongAgo]
  BY HoursFacts DEF IInv, IndexTypeOK
<1>3. \A i \in IndexNames :
        /\ age'[i] = IF age[i] + 1 < LongAgo THEN age[i] + 1 ELSE LongAgo
        /\ swapAge'[i] = IF swapAge[i] + 1 < LongAgo THEN swapAge[i] + 1 ELSE LongAgo
  BY DEF PassHour, Older, Least
<1>4. age' \in [IndexNames -> 0..LongAgo] /\ swapAge' \in [IndexNames -> 0..LongAgo]
  BY <1>2, HoursFacts DEF PassHour, Older, Least
<1>5. IndexTypeOK'
  <2>1. /\ hour' \in 0..(DayHours - 1) /\ left' \in 0..StatementHours
        /\ spent' \in 0..(WindowHours + 1)
    BY <1>1, <1>2, HoursFacts
  <2> QED
    BY <1>1, <1>4, <2>1 DEF IInv, IndexTypeOK
<1>6. QuietAfterWindow'
  BY <1>1, <1>2, HoursFacts DEF IInv, QuietAfterWindow
<1>7. Remembered'
  <2> SUFFICES ASSUME NEW i \in IndexNames
               PROVE  IF step = "building" /\ swapped /\ target = i
                      THEN swapAge'[i] = spent' ELSE swapAge'[i] >= age'[i]
    BY <1>1 DEF Remembered
  <2>1. age[i] \in Nat /\ swapAge[i] \in Nat /\ LongAgo \in Nat
    BY <1>2, HoursFacts
  <2>2. CASE step = "building" /\ swapped /\ target = i
    <3>1. swapAge[i] = spent
      BY <2>2 DEF IInv, Remembered
    <3> QED
      BY <1>1, <1>2, <1>3, <2>2, <3>1, HoursFacts
  <2>3. CASE ~(step = "building" /\ swapped /\ target = i)
    <3>1. swapAge[i] >= age[i]
      BY <2>3 DEF IInv, Remembered
    <3>2. swapAge'[i] >= age'[i]
      BY <1>3, <2>1, <3>1
    <3> QED
      BY <2>3, <3>2
  <2> QED
    BY <2>2, <2>3
<1>8. Due' /\ SwapWhileBuilding'
  <2>1. SwapWhileBuilding'
    BY <1>1 DEF IInv, SwapWhileBuilding
  <2>2. CASE step = "building" /\ ~swapped
    <3>1. target \in IndexNames /\ age[target] \in Nat /\ age[target] >= ReindexEvery + spent
      BY <1>2, <2>2, HoursFacts DEF IInv, IndexTypeOK, Due
    <3>2. age'[target] >= ReindexEvery + spent'
      BY <1>1, <1>2, <1>3, <2>2, <3>1, HoursFacts
    <3> QED
      BY <1>1, <2>1, <3>2 DEF Due
  <2>3. CASE ~(step = "building" /\ ~swapped)
    BY <1>1, <2>1, <2>3 DEF Due
  <2> QED
    BY <2>2, <2>3
<1> QED
  BY <1>5, <1>6, <1>7, <1>8 DEF IInv

LEMMA IStep == IInv /\ [IndexNext]_indexVars => IInv'
<1> SUFFICES ASSUME IInv, [IndexNext]_indexVars
             PROVE  IInv'
  OBVIOUS
<1>1. CASE ReindexStep
  BY <1>1, Idling, Starting, Ending DEF ReindexStep
<1>2. CASE IndexNext /\ ~ReindexStep
  BY <1>2, Swapping, Ending, Restarting, Aging DEF IndexNext
<1>3. CASE UNCHANGED indexVars
  BY <1>3 DEF indexVars, IInv, IndexTypeOK, QuietAfterWindow, Remembered, Due, SwapWhileBuilding
<1> QED
  BY <1>1, <1>2, <1>3

LEMMA IAlways == IndexSpec => []IInv
BY IInitial, IStep, PTL DEF IndexSpec

\* index_maintenance.py 729-743: a rebuild's statement timeout never lets it run past the
\* end of the nightly window, for every window, timeout and number of indexes.
THEOREM RebuildsStayInWindow == IndexSpec => []QuietAfterWindow
BY IAlways, PTL DEF IInv

\* index_maintenance.py 467-540: a swap comes no sooner than the interval after the cycle of
\* the one before, lost answers and timeouts after a swap included.
THEOREM RebuildsAreApart == IndexSpec => RebuiltOncePerInterval
<1>1. IInv /\ [IndexNext]_indexVars =>
        [(~swapped /\ swapped') => swapAge[target] >= ReindexEvery + spent]_indexVars
  <2> SUFFICES ASSUME IInv, IndexNext, ~swapped, swapped'
               PROVE  swapAge[target] >= ReindexEvery + spent
    OBVIOUS
  <2>1. CASE Swap
    BY <2>1, Swapping
  <2>2. CASE ~Swap
    BY <2>2 DEF IndexNext, ReindexStep, SkipCycle, SweepLeftovers, KeepLeftovers, BeginReindex,
       NoRebuild, StartRebuild, Rebuilt, TimedOut, LoseConnection, RestartWorker, EndTrouble,
       PassHour, EndReindex
  <2> QED
    BY <2>1, <2>2
<1> QED
  BY <1>1, IAlways, PTL DEF IndexSpec, RebuiltOncePerInterval

-----------------------------------------------------------------------------
RetentionSpec == RetentionInit /\ [][RetentionNext]_retentionVars

\* While it sweeps, a cycle has a watermark and a window; before, it has batches left.
Sweeping ==
  /\ pass = "accepted" => lmark \in 0..LastTime /\ lwin \in MinWindow..MaxWindow
  /\ pass # "accepted" => batches < MaxBatches

RetInv == RetentionTypeOK /\ Sweeping

LEMMA AgesFacts ==
  /\ LastTime \in Nat /\ StagingAge \in Nat /\ MaxRestarts \in Nat /\ MaxBatches \in Nat /\ MaxBatches > 0
  /\ MinWindow \in Nat /\ Window \in Nat /\ MaxWindow \in Nat
  /\ MinWindow > 0 /\ MinWindow <= Window /\ Window <= MaxWindow /\ NoMark \notin Nat
BY WindowsAssumption, BatchAssumption, NoMarkAssumption

LEMMA AfterPasses ==
  /\ After("evidence") \in Passes \ {"accepted"} /\ After("queries") \in Passes \ {"accepted"}
  /\ After("raw") \in Passes \ {"accepted"} /\ After("rejectedIndex") \in Passes \ {"accepted"}
BY DEF After, PassOrder, Passes

LEMMA RInitial == RetentionInit => RetInv
<1> SUFFICES ASSUME RetentionInit
             PROVE  RetInv
  OBVIOUS
<1>1. RetentionTypeOK
  <2>1. /\ clock \in 0..LastTime /\ restarts \in 0..MaxRestarts /\ cutoff \in 0..LastTime
        /\ batches \in 0..MaxBatches /\ pass \in Passes
    BY AgesFacts DEF RetentionInit, Passes
  <2>2. /\ staged \in [StagedRows -> {"absent", "accepted", "rejected", "gone"}]
        /\ born \in [StagedRows -> 0..LastTime]
        /\ indexes \in [{"rejected", "accepted"} -> BOOLEAN]
    BY AgesFacts DEF RetentionInit
  <2> QED
    BY <2>1, <2>2 DEF RetentionInit, RetentionTypeOK
<1>2. Sweeping
  BY AgesFacts DEF RetentionInit, Sweeping
<1> QED
  BY <1>1, <1>2 DEF RetInv

\* The passes hand over to one another; none of them but the sweep moves a watermark.
LEMMA HandOver ==
  ASSUME RetInv, NEW p \in Passes \ {"accepted"}, LeaveFor(p)
  PROVE  /\ pass' \in Passes /\ cutoff' \in 0..LastTime /\ batches' \in 0..MaxBatches
         /\ lmark' \in 0..LastTime \cup {NoMark} /\ lwin' \in {0} \cup MinWindow..MaxWindow
         /\ Sweeping'
BY AgesFacts DEF LeaveFor, Sweeping

LEMMA Deleting ==
  ASSUME RetInv, NEW D, Delete(D)
  PROVE  /\ staged' \in [StagedRows -> {"absent", "accepted", "rejected", "gone"}]
         /\ born' \in [StagedRows -> 0..LastTime]
BY AgesFacts DEF Delete, RetInv, RetentionTypeOK

LEMMA OthersKeepShape ==
  ASSUME RetInv,
         \/ \E r \in StagedRows : Stage(r) \/ Promote(r)
         \/ Ask \/ Tick \/ Heal \/ RestartScheduler
  PROVE  RetInv'
<1>1. ASSUME NEW r \in StagedRows, Stage(r)
      PROVE  RetInv'
  BY <1>1, AgesFacts DEF Stage, process, RetInv, RetentionTypeOK, Sweeping
<1>2. ASSUME NEW r \in StagedRows, Promote(r)
      PROVE  RetInv'
  BY <1>2 DEF Promote, process, RetInv, RetentionTypeOK, Sweeping
<1>3. CASE Ask
  BY <1>3 DEF Ask, process, RetInv, RetentionTypeOK, Sweeping
<1>4. CASE Tick
  BY <1>4, AgesFacts DEF Tick, database, process, RetInv, RetentionTypeOK, Sweeping
<1>5. CASE Heal
  BY <1>5 DEF Heal, database, process, RetInv, RetentionTypeOK, Sweeping
<1>6. CASE RestartScheduler
  <2>1. "idle" \in Passes \ {"accepted"} /\ LeaveFor("idle")
    BY <1>6 DEF Passes, RestartScheduler, Abort
  <2>2. restarts' \in 0..MaxRestarts
    BY <1>6, AgesFacts DEF RestartScheduler, RetInv, RetentionTypeOK
  <2> QED
    BY <1>6, <2>1, <2>2, HandOver DEF RestartScheduler, database, RetInv, RetentionTypeOK
<1> QED
  BY <1>1, <1>2, <1>3, <1>4, <1>5, <1>6

LEMMA PassesKeepShape ==
  ASSUME RetInv,
         \/ StartCycle \/ PruneRealtime \/ PruneQueries \/ PruneRaw
         \/ BeginRejected \/ DeleteRejected \/ BeginAccepted \/ StagingFails
  PROVE  RetInv'
<1>1. CASE StartCycle \/ PruneRealtime \/ PruneQueries \/ PruneRaw
  <2>1. pass' \in Passes \ {"accepted"}
    BY <1>1, AfterPasses
       DEF StartCycle, PruneRealtime, PruneQueries, PruneRaw, PassOrder, Passes
  <2>2. evid' \subseteq StagedRows /\ linked' \subseteq StagedRows /\ query' \in BOOLEAN
    BY <1>1 DEF StartCycle, PruneRealtime, PruneQueries, PruneRaw, database, RetInv, RetentionTypeOK
  <2>3. UNCHANGED <<clock, staged, born, indexes, broken, cutoff, batches, lmark, lwin, mark, win, restarts>>
    BY <1>1 DEF StartCycle, PruneRealtime, PruneQueries, PruneRaw, database, sweep
  <2>4. pass # "accepted"
    BY <1>1 DEF StartCycle, PruneRealtime, PruneQueries, PruneRaw
  <2> QED
    BY <2>1, <2>2, <2>3, <2>4 DEF RetInv, RetentionTypeOK, Sweeping
<1>2. CASE BeginRejected
  <2>1. cutoff' \in 0..LastTime
    BY <1>2, AgesFacts DEF BeginRejected, Before, RetInv, RetentionTypeOK
  <2>2. pass' \in Passes \ {"accepted"}
    BY <1>2 DEF BeginRejected, Passes
  <2>3. indexes' \in [{"rejected", "accepted"} -> BOOLEAN]
    BY <1>2 DEF BeginRejected, EnsureIndex, NoIndex, RetInv, RetentionTypeOK
  <2> QED
    BY <1>2, <2>1, <2>2, <2>3 DEF BeginRejected, sweep, RetInv, RetentionTypeOK, Sweeping
<1>3. CASE DeleteRejected
  <2>1. PICK D : Delete(D)
    BY <1>3 DEF DeleteRejected
  <2>2. batches' \in 0..MaxBatches /\ batches' < MaxBatches /\ pass' \in Passes \ {"accepted"}
    <3>1. batches \in 0..MaxBatches /\ batches < MaxBatches
      BY <1>3 DEF DeleteRejected, RetInv, RetentionTypeOK, Sweeping
    <3>2. \/ pass' = "acceptedIndex" /\ batches' = 0
          \/ pass' = "rejected" /\ batches' = batches + 1 /\ batches + 1 # MaxBatches
      BY <1>3 DEF DeleteRejected
    <3>3. pass' \in Passes \ {"accepted"}
      BY <3>2 DEF Passes
    <3> QED
      BY <3>1, <3>2, <3>3, AgesFacts
  <2> QED
    BY <1>3, <2>1, <2>2, Deleting DEF DeleteRejected, RetInv, RetentionTypeOK, Sweeping
<1>4. CASE BeginAccepted
  <2>1. indexes' \in [{"rejected", "accepted"} -> BOOLEAN]
    BY <1>4 DEF BeginAccepted, EnsureIndex, NoIndex, RetInv, RetentionTypeOK
  <2>2. CASE pass' = "setup" /\ UNCHANGED <<cutoff, sweep>>
    BY <1>4, <2>1, <2>2 DEF BeginAccepted, sweep, RetInv, RetentionTypeOK, Sweeping, Passes
  <2>3. CASE LeaveFor(After("rejectedIndex"))
    BY <1>4, <2>1, <2>3, HandOver, AfterPasses DEF BeginAccepted, RetInv, RetentionTypeOK
  <2> QED
    BY <1>4, <2>2, <2>3 DEF BeginAccepted, Leave
<1>5. CASE StagingFails
  <2>1. "idle" \in Passes \ {"accepted"} /\ LeaveFor("idle")
    BY <1>5 DEF Passes, StagingFails, Abort
  <2> QED
    BY <1>5, <2>1, HandOver DEF StagingFails, database, RetInv, RetentionTypeOK
<1> QED
  BY <1>1, <1>2, <1>3, <1>4, <1>5

LEMMA SweepKeepsShape ==
  ASSUME RetInv, SetUpSweep \/ SweepBatch \/ SweepTimeout \/ EndSweep
  PROVE  RetInv'
<1>1. CASE SetUpSweep
  <2>1. CASE Leave
    BY <1>1, <2>1, HandOver, AfterPasses DEF SetUpSweep, Leave, database, RetInv, RetentionTypeOK
  <2>2. CASE ~Leave
    <3>1. lmark' \in 0..LastTime
      <4>1. mark # NoMark => lmark' = mark
        BY <1>1, <2>2 DEF SetUpSweep
      <4>2. mark = NoMark => \E r \in StagedRows : lmark' = born[r]
        BY <1>1, <2>2 DEF SetUpSweep
      <4> QED
        BY <4>1, <4>2 DEF RetInv, RetentionTypeOK
    <3>2. lwin' \in MinWindow..MaxWindow
      <4>1. win = 0 \/ win \in MinWindow..MaxWindow
        BY DEF RetInv, RetentionTypeOK
      <4>2. lwin' = AtMost(MaxWindow, AtLeast(MinWindow, IF win = 0 THEN Window ELSE win))
        BY <1>1, <2>2 DEF SetUpSweep
      <4> QED
        BY <4>1, <4>2, AgesFacts DEF AtMost, AtLeast
    <3> QED
      BY <1>1, <2>2, <3>1, <3>2 DEF SetUpSweep, database, RetInv, RetentionTypeOK, Sweeping, Passes
  <2> QED
    BY <2>1, <2>2
<1>2. CASE SweepBatch
  <2>1. lmark \in 0..LastTime /\ lwin \in MinWindow..MaxWindow /\ cutoff \in 0..LastTime
    BY <1>2 DEF SweepBatch, RetInv, RetentionTypeOK, Sweeping
  <2>2. PICK D : /\ Delete(D)
                 /\ IF WindowDone(D)
                    THEN /\ lmark' = WindowEnd
                         /\ lwin' = AtMost(IF D = {} THEN MaxWindow ELSE Window, lwin * 2)
                    ELSE lwin' = AtMost(lwin, Window) /\ UNCHANGED lmark
    BY <1>2 DEF SweepBatch
  <2>3. lmark' \in 0..LastTime /\ lwin' \in MinWindow..MaxWindow
    BY <2>1, <2>2, AgesFacts DEF WindowEnd, AtMost
  <2>4. batches' \in 0..MaxBatches
    BY <1>2, AgesFacts DEF SweepBatch, RetInv, RetentionTypeOK
  <2> QED
    BY <1>2, <2>2, <2>3, <2>4, Deleting DEF SweepBatch, RetInv, RetentionTypeOK, Sweeping
<1>3. CASE SweepTimeout
  <2>1. lwin' \in MinWindow..MaxWindow /\ batches' \in 0..MaxBatches
    BY <1>3, AgesFacts DEF SweepTimeout, Halved, AtLeast, RetInv, RetentionTypeOK, Sweeping
  <2> QED
    BY <1>3, <2>1 DEF SweepTimeout, database, RetInv, RetentionTypeOK, Sweeping
<1>4. CASE EndSweep
  <2>1. mark' \in 0..LastTime /\ win' \in MinWindow..MaxWindow
    BY <1>4 DEF EndSweep, RetInv, Sweeping
  <2> QED
    BY <1>4, <2>1, HandOver, AfterPasses DEF EndSweep, Leave, database, RetInv, RetentionTypeOK
<1> QED
  BY <1>1, <1>2, <1>3, <1>4

LEMMA RStep == RetInv /\ [RetentionNext]_retentionVars => RetInv'
<1> SUFFICES ASSUME RetInv, [RetentionNext]_retentionVars
             PROVE  RetInv'
  OBVIOUS
<1>1. CASE RetentionNext
  BY <1>1, OthersKeepShape, PassesKeepShape, SweepKeepsShape DEF RetentionNext, Cycle
<1>2. CASE UNCHANGED retentionVars
  BY <1>2 DEF retentionVars, RetInv, RetentionTypeOK, Sweeping
<1> QED
  BY <1>1, <1>2

\* evidence_retention.py 1042-1180: the adaptive window stays between its configured bounds
\* and the watermark below the clock's range, through timeouts, full batches and restarts.
THEOREM RetentionTypeCorrect == RetentionSpec => []RetentionTypeOK
BY RInitial, RStep, PTL DEF RetentionSpec, RetInv

\* A batch smaller than its limit is all there was.
LEMMA SmallBatchIsAll ==
  ASSUME NEW S, IsFiniteSet(S), NEW D \in Oldest(S, StagingBatch), WindowDone(D)
  PROVE  D = S
<1>1. D \subseteq S /\ Cardinality(D) = AtMost(StagingBatch, Cardinality(S))
  BY DEF Oldest
<1>2. Cardinality(D) < StagingBatch
  BY DEF WindowDone
<1>3. Cardinality(D) = Cardinality(S)
  BY <1>1, <1>2, BatchAssumption, FS_CardinalityType DEF AtMost
<1> QED
  BY <1>1, <1>3, FS_Subset

\* evidence_retention.py 1225-1262: when the watermark passes a stretch of creation times,
\* the prunable accepted rows that remain in it have evidence; nothing comes back to look.
THEOREM WatermarkLeavesNoOrphan == RetentionSpec => SweptClean
<1>1. ASSUME RetentionNext, pass = "accepted", pass' = "accepted", lmark' # lmark
      PROVE  \A r \in PrunableRows :
               (staged'[r] = "accepted" /\ lmark <= born[r] /\ born[r] < lmark') => r \in evid
  <2>0. After("rejectedIndex") # "accepted"
    BY DEF After, PassOrder
  <2>1. SweepBatch
    BY <1>1, <2>0 DEF RetentionNext, Stage, Promote, Ask, Tick, Heal, RestartScheduler, Cycle,
       StartCycle, PruneRealtime, PruneQueries, PruneRaw, BeginRejected, DeleteRejected,
       BeginAccepted, SetUpSweep, SweepTimeout, EndSweep, StagingFails, process, sweep, Abort,
       Leave, LeaveFor
  <2>2. PICK D \in Oldest(InWindow \ evid, StagingBatch) :
           Delete(D) /\ WindowDone(D) /\ lmark' = WindowEnd
    BY <1>1, <2>1 DEF SweepBatch
  <2>3. IsFiniteSet(InWindow \ evid)
    BY RowsAssumption, FS_Subset DEF InWindow
  <2>4. D = InWindow \ evid
    BY <2>2, <2>3, SmallBatchIsAll
  <2> SUFFICES ASSUME NEW r \in PrunableRows, staged'[r] = "accepted",
                      lmark <= born[r], born[r] < lmark'
               PROVE  r \in evid
    OBVIOUS
  <2>5. r \notin D /\ staged[r] = "accepted"
    BY <2>2, RowsAssumption DEF Delete
  <2>6. r \in InWindow
    BY <2>2, <2>5 DEF InWindow
  <2> QED
    BY <2>4, <2>5, <2>6
<1> QED
  BY <1>1, PTL DEF RetentionSpec, SweptClean
==============================================================================
