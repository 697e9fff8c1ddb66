---------------------------- MODULE WorkerProofs ----------------------------
(***************************************************************************)
(* Theorems about three parts of the worker: the scheduler lease, the      *)
(* legacy queue and the status of its runs.  They share no variable and    *)
(* each has a specification of its own; no theorem is about two of them.   *)
(***************************************************************************)
EXTENDS SchedulerLease, RuntimeQueue, PipelineStatus, TLAPS

(***************************************************************************)
(* The scheduler lease, for any number of schedulers and every lease time  *)
(***************************************************************************)
\* The heartbeat fires before the lease it renews can expire.
LEMMA IntervalFacts == HeartbeatInterval \in Nat /\ HeartbeatInterval < TTL
BY TTLAssumption DEF HeartbeatInterval

\* What a grant leaves in the lease row.
LEMMA TakeFacts ==
  ASSUME NEW i \in Instances, Take(i)
  PROVE  lease' \in Leases /\ lease' # None /\ lease'.holder = i /\ lease'.left = TTL
<1>1. [holder |-> i, left |-> TTL] \in Leases
  BY TTLAssumption DEF Leases
<1> QED
  BY <1>1, NoLeaseAssumption DEF Take

\* The passing of time changes nothing of the lease row but the time it has left.
LEMMA AdvanceLease ==
  ASSUME TypeOK, Advance
  PROVE  /\ lease' \in Leases \cup {None}
         /\ lease # None => /\ lease' # None /\ lease'.holder = lease.holder /\ lease.left \in Nat
                            /\ lease'.left = IF lease.left > 0 THEN lease.left - 1 ELSE lease.left
         /\ lease = None => lease' = None
<1>1. CASE lease # None /\ lease.left > 0
  <2>1. lease \in Leases /\ lease.left \in 0..TTL /\ lease.left - 1 \in 0..TTL
    BY <1>1, TTLAssumption DEF TypeOK, Leases
  <2>2. lease' = [lease EXCEPT !.left = lease.left - 1]
    BY <1>1 DEF Advance
  <2>3. lease' \in Leases /\ lease'.holder = lease.holder /\ lease'.left = lease.left - 1
    BY <2>1, <2>2 DEF Leases
  <2> QED
    BY <1>1, <2>1, <2>3, NoLeaseAssumption
<1>2. CASE ~(lease # None /\ lease.left > 0)
  <2>1. lease' = lease
    BY <1>2 DEF Advance
  <2>2. lease # None => lease.left \in Nat
    BY TTLAssumption DEF TypeOK, Leases
  <2> QED
    BY <1>2, <2>1, <2>2 DEF TypeOK
<1> QED
  BY <1>1, <1>2

\* An acquire or release call leaves a well-formed lease row or none.
LEMMA LeaseType ==
  ASSUME TypeOK, [Next]_vars
  PROVE  lease' \in Leases \cup {None} /\ status' \in {"none", "running", "stopped"}
<1>1. CASE Advance
  BY <1>1, AdvanceLease DEF Advance, TypeOK
<1>2. ASSUME NEW i \in Instances, Take(i) PROVE lease' \in Leases /\ status' = "running"
  BY <1>2, TakeFacts DEF Take
<1> QED
  BY <1>1, <1>2 DEF TypeOK, Next, vars, Start, Main, Heartbeat, Failure, RunOnce, BeginTick,
     NoLease, Wake, EndTick, Joined, Unwound, RenewThenSleep, Release, Exit, Beat, Renewed,
     BeatRefused, Terminate, TerminateInCall, Crash, AcquireLease, ReleaseLease

\* The shape of the state is inductive.
LEMMA NextType == TypeOK /\ [Next]_vars => TypeOK'
<1> SUFFICES ASSUME TypeOK, [Next]_vars PROVE TypeOK'
  OBVIOUS
<1>1. lease' \in Leases \cup {None} /\ status' \in {"none", "running", "stopped"}
  BY LeaseType
<1>2. pc' \in [Instances -> Pcs]
  BY DEF TypeOK, Next, vars, Advance, Start, Main, Heartbeat, Failure, RunOnce, BeginTick,
     NoLease, Wake, EndTick, Joined, Unwound, RenewThenSleep, Release, Exit, Beat, Renewed,
     BeatRefused, Terminate, TerminateInCall, Crash, Goto, Pcs
<1>3. acquired' \in [Instances -> BOOLEAN] /\ lost' \in [Instances -> BOOLEAN]
  BY DEF TypeOK, Next, vars, Advance, Start, Main, Heartbeat, Failure, RunOnce, BeginTick,
     NoLease, Wake, EndTick, Joined, Unwound, RenewThenSleep, Release, Exit, Beat, Renewed,
     BeatRefused, Terminate, TerminateInCall, Crash
<1>4. hb' \in [Instances -> {"off", "wait", "call"}]
  BY DEF TypeOK, Next, vars, Advance, Start, Main, Heartbeat, Failure, RunOnce, BeginTick,
     NoLease, Wake, EndTick, Joined, Unwound, RenewThenSleep, Release, Exit, Beat, Renewed,
     BeatRefused, Terminate, TerminateInCall, Crash, StopHeartbeat
<1>5. beatIn' \in [Instances -> 0..HeartbeatInterval]
  <2>1. CASE Advance
    BY <2>1, IntervalFacts DEF TypeOK, Advance
  <2>2. HeartbeatInterval \in 0..HeartbeatInterval
    BY IntervalFacts
  <2> HIDE DEF HeartbeatInterval
  <2> QED
    BY <2>1, <2>2 DEF TypeOK, Next, vars, Start, Main, Heartbeat, Failure, RunOnce, BeginTick,
       NoLease, Wake, EndTick, Joined, Unwound, RenewThenSleep, Release, Exit, Beat, Renewed,
       BeatRefused, Terminate, TerminateInCall, Crash
<1> QED
  BY <1>1, <1>2, <1>3, <1>4, <1>5 DEF TypeOK

\* No process has started in an initial state.
LEMMA InitType == Init => TypeOK
BY IntervalFacts DEF Init, TypeOK, Pcs

-----------------------------------------------------------------------------
\* While it ticks, a process owns a lease that outlives its next renewal.
Owns(i) ==
  /\ lease # None /\ lease.holder = i /\ lease.left > 0
  /\ hb[i] \in {"wait", "call"}
  /\ hb[i] = "wait" => beatIn[i] < lease.left

Owned == \A i \in Instances : pc[i] = "ticking" => Owns(i)
NoManual == \A i \in Instances : pc[i] # "manual"
EInv == TypeOK /\ Owned /\ NoManual

\* A grant to another process is impossible while i owns the lease.
LEMMA OwnerExcludes ==
  ASSUME NEW i \in Instances, NEW j \in Instances, Owns(i), Take(j), TypeOK
  PROVE  i = j
BY TTLAssumption DEF Owns, Take, CanTake, TypeOK, Leases

\* Steps that leave the lease row alone, or touch it only for process j, keep i's claim.
LEMMA OwnedKept ==
  ASSUME EInv, ~Outages, Manual = {}, Next
  PROVE  Owned'
<1> SUFFICES ASSUME NEW i \in Instances, pc'[i] = "ticking" PROVE Owns(i)'
  BY DEF Owned
<1>t. /\ pc \in [Instances -> Pcs] /\ hb \in [Instances -> {"off", "wait", "call"}]
      /\ beatIn \in [Instances -> 0..HeartbeatInterval]
  BY DEF EInv, TypeOK
<1>1. CASE Advance
  <2>1. Owns(i) /\ hb'[i] = hb[i]
    BY <1>1 DEF EInv, Owned, Advance
  <2>2. hb[i] = "wait" /\ beatIn[i] > 0 /\ beatIn'[i] = beatIn[i] - 1
    BY <1>1, <1>t, <2>1 DEF Advance, Owns
  <2>3. beatIn[i] \in Nat /\ beatIn[i] < lease.left
    BY <1>t, <2>1, <2>2, IntervalFacts DEF Owns
  <2>4. lease' # None /\ lease'.holder = i /\ lease'.left = lease.left - 1 /\ lease.left \in Nat
    BY <1>1, <2>1, AdvanceLease DEF EInv, Owns
  <2> QED
    BY <2>1, <2>2, <2>3, <2>4 DEF Owns
<1>2. ASSUME NEW j \in Instances,
             Start(j) \/ Main(j) \/ Heartbeat(j) \/ Failure(j) \/ RunOnce(j)
      PROVE  Owns(i)'
  <2>1. CASE i = j /\ BeginTick(i)
    <3>1. lease' # None /\ lease'.holder = i /\ lease'.left = TTL
      BY <2>1, TakeFacts DEF BeginTick, AcquireLease
    <3>2. hb'[i] = "wait" /\ beatIn'[i] = HeartbeatInterval
      BY <1>t, <2>1 DEF BeginTick
    <3> QED
      BY <3>1, <3>2, IntervalFacts, TTLAssumption DEF Owns
  <2>2. CASE i = j /\ Heartbeat(i)
    <3>1. pc' = pc /\ Owns(i)
      BY <2>2 DEF Heartbeat, Beat, Renewed, BeatRefused, EInv, Owned
    <3>2. CASE Beat(i)
      BY <1>t, <3>1, <3>2 DEF Beat, Owns
    <3>3. CASE Renewed(i)
      <4>1. Take(i) /\ hb'[i] = "wait" /\ beatIn'[i] = HeartbeatInterval
        BY <1>t, <3>1, <3>3 DEF Renewed, AcquireLease
      <4> QED
        BY <4>1, TakeFacts, IntervalFacts, TTLAssumption DEF Owns
    <3>4. CASE BeatRefused(i)
      BY <3>1, <3>4 DEF BeatRefused, AcquireLease, CanTake, Owns
    <3> QED
      BY <2>2, <3>2, <3>3, <3>4 DEF Heartbeat
  <2>3. CASE i # j
    <3>1. pc[i] = "ticking" /\ hb'[i] = hb[i] /\ beatIn'[i] = beatIn[i]
      BY <1>2, <1>t, <2>3 DEF Start, Main, Heartbeat, Failure, RunOnce, BeginTick, NoLease, Wake,
         EndTick, Joined, Unwound, RenewThenSleep, Release, Exit, Beat, Renewed, BeatRefused,
         Terminate, TerminateInCall, Crash, Goto, StopHeartbeat
    <3>2. Owns(i)
      BY <3>1 DEF EInv, Owned
    <3>3. ~Take(j)
      BY <2>3, <3>2, OwnerExcludes DEF EInv
    <3>4. lease' = lease
      BY <1>2, <2>3, <3>2, <3>3 DEF Start, Main, Heartbeat, Failure, RunOnce, BeginTick, NoLease,
         Wake, EndTick, Joined, Unwound, RenewThenSleep, Release, Exit, Beat, Renewed,
         BeatRefused, Terminate, TerminateInCall, Crash, AcquireLease, ReleaseLease, Owns
    <3> QED
      BY <3>1, <3>2, <3>4 DEF Owns
  <2>4. CASE i = j /\ ~BeginTick(i) /\ ~Heartbeat(i)
    BY <1>2, <1>t, <2>4 DEF Start, Main, Failure, RunOnce, NoLease, Wake, EndTick, Joined, Unwound,
       RenewThenSleep, Release, Exit, Terminate, TerminateInCall, Crash, Goto
  <2> QED
    BY <2>1, <2>2, <2>3, <2>4
<1> QED
  BY <1>1, <1>2 DEF Next

\* Exactly one process ingests at a time, however processes start, sleep, are
\* terminated or die, provided that the database answers every renewal and that
\* nothing runs outside the scheduler (run_v1_baseline_enabled_adapters).
THEOREM OneIngestsAtATime ==
  ASSUME ~Outages, Manual = {}
  PROVE  Spec => []OneIngests
<1>1. Init => EInv
  BY InitType DEF Init, EInv, Owned, NoManual
<1>2. EInv /\ [Next]_vars => EInv'
  <2> SUFFICES ASSUME EInv, [Next]_vars PROVE EInv'
    OBVIOUS
  <2>1. TypeOK'
    BY NextType DEF EInv
  <2>2. Owned'
    <3>1. CASE Next
      BY <3>1, OwnedKept
    <3>2. CASE UNCHANGED vars
      BY <3>2 DEF EInv, Owned, Owns, vars
    <3> QED
      BY <3>1, <3>2
  <2>3. NoManual'
    BY DEF EInv, TypeOK, NoManual, Next, vars, Advance, Start, Main, Heartbeat, Failure, RunOnce,
       BeginTick, NoLease, Wake, EndTick, Joined, Unwound, RenewThenSleep, Release, Exit, Beat,
       Renewed, BeatRefused, Terminate, TerminateInCall, Crash, Goto
  <2> QED
    BY <2>1, <2>2, <2>3 DEF EInv
<1>3. EInv => OneIngests
  BY DEF EInv, Owned, NoManual, Owns, OneIngests, Ingesting
<1> QED
  BY <1>1, <1>2, <1>3, PTL DEF Spec

\* The monitoring row never reports a stopped scheduler while a lease is held: the
\* release marks it only when it deleted its own lease row, outages or not.
THEOREM StoppedRowIsTrue == Spec => []StoppedMeansFree
<1> DEFINE SInv == TypeOK /\ StoppedMeansFree
<1>1. Init => SInv
  BY InitType DEF Init, StoppedMeansFree
<1>2. SInv /\ [Next]_vars => SInv'
  <2> SUFFICES ASSUME TypeOK, StoppedMeansFree, [Next]_vars PROVE StoppedMeansFree'
    BY NextType
  <2>1. CASE Advance
    BY <2>1, AdvanceLease DEF Advance, StoppedMeansFree
  <2> QED
    BY <2>1 DEF StoppedMeansFree, Next, vars, Start, Main, Heartbeat, Failure, RunOnce, BeginTick,
       NoLease, Wake, EndTick, Joined, Unwound, RenewThenSleep, Release, Exit, Beat, Renewed,
       BeatRefused, Terminate, TerminateInCall, Crash, AcquireLease, Take, ReleaseLease
<1>3. SInv => StoppedMeansFree
  OBVIOUS
<1> HIDE DEF SInv
<1> QED
  BY <1>1, <1>2, <1>3, PTL DEF Spec

\* An unexpired lease leaves its holder's name only in its own release, outages, dead
\* processes and former holders notwithstanding.
THEOREM LeaseStaysWithHolder == Spec => LeaseNotStolen
<1>1. TypeOK /\ [Next]_vars =>
        [\A i \in Instances :
           (lease # None /\ lease.holder = i /\ lease.left > 0
              /\ (lease' = None \/ lease'.holder # i))
             => pc[i] = "release" /\ pc'[i] = "exiting"]_vars
  <2> SUFFICES ASSUME TypeOK, Next, NEW i \in Instances,
                      lease # None, lease.holder = i, lease.left > 0,
                      lease' = None \/ lease'.holder # i
               PROVE  pc[i] = "release" /\ pc'[i] = "exiting"
    OBVIOUS
  <2>1. ASSUME NEW j \in Instances, Take(j) PROVE FALSE
    <3>1. lease.left \in Nat
      BY TTLAssumption DEF TypeOK, Leases
    <3>2. j = i
      BY <2>1, <3>1 DEF Take, CanTake
    <3> QED
      BY <2>1, <3>2, TakeFacts
  <2>2. ~Advance
    BY AdvanceLease
  <2>3. PICK j \in Instances :
          Start(j) \/ Main(j) \/ Heartbeat(j) \/ Failure(j) \/ RunOnce(j)
    BY <2>2 DEF Next
  <2>4. Release(j) /\ ReleaseLease(j)
    BY <2>1, <2>3
       DEF Start, Main, Heartbeat, Failure, RunOnce, BeginTick, NoLease, Wake, EndTick, Joined,
           Unwound, RenewThenSleep, Release, Exit, Beat, Renewed, BeatRefused, Terminate,
           TerminateInCall, Crash, AcquireLease
  <2>5. j = i
    BY <2>4 DEF ReleaseLease
  <2> QED
    BY <2>4, <2>5 DEF Release, Goto, TypeOK
<1> QED
  BY <1>1, InitType, NextType, PTL DEF Spec, LeaseNotStolen

(***************************************************************************)
(* The queue, for every set of consumers and rows and every attempt limit  *)
(***************************************************************************)
\* Two consumers that run at once claim under different names; with the default
\* metrics_instance "local" on several hosts this is false, and so is OnlyClaimantFinishes.
DistinctNames == \A c, d \in Consumers : InstanceName[c] = InstanceName[d] => c = d

\* A row the operator's transaction holds stays failed and outside the quarantine.
ReplayLocked == replay # NoJob => jobStatus[replay] = "failed" /\ replay \notin quarantine

\* A consumer whose name is on its job works under the job's latest claim.
ClaimIsLatest ==
  \A c \in Consumers, j \in JobIds :
    (working[c] = j /\ jobStatus[j] = "running" /\ owner[j] = InstanceName[c])
      => claim[c] = claims[j]

QInv == QueueTypeOK /\ ReplayLocked /\ OneActivePerKey

\* The cases of a step, one for each call.
LEMMA QueueCases ==
  ASSUME QueueNext
  PROVE  \/ \E j \in JobIds : Enqueue(j) \/ Expire(j) \/ BecomeDue(j) \/ BeginReplay(j)
                                \/ Quarantine(j) \/ ReleaseQuarantine(j)
         \/ \E c \in Consumers, j \in JobIds : ClaimJob(c, j)
         \/ \E c \in Consumers : Finish(c) \/ Restart(c)
         \/ EndReplay
BY DEF QueueNext, Consume

LEMMA QueueTypeKept == QueueTypeOK /\ [QueueNext]_queueVars => QueueTypeOK'
<1> SUFFICES ASSUME QueueTypeOK, [QueueNext]_queueVars PROVE QueueTypeOK'
  OBVIOUS
<1> USE DEF QueueTypeOK, Statuses
<1>1. ASSUME NEW j \in JobIds,
             Enqueue(j) \/ Expire(j) \/ BecomeDue(j) \/ BeginReplay(j)
               \/ Quarantine(j) \/ ReleaseQuarantine(j)
      PROVE  QueueTypeOK'
  BY <1>1 DEF Enqueue, Expire, BecomeDue, BeginReplay, Quarantine, ReleaseQuarantine
<1>2. ASSUME NEW c \in Consumers, NEW j \in JobIds, ClaimJob(c, j)
      PROVE  QueueTypeOK'
  BY <1>2 DEF ClaimJob, Names
<1>3. ASSUME NEW c \in Consumers, Finish(c) \/ Restart(c)
      PROVE  QueueTypeOK'
  BY <1>3 DEF Finish, Restart, SetSucceeded, SetFailed, rows
<1>4. CASE EndReplay
  BY <1>4 DEF EndReplay, rows
<1>5. CASE UNCHANGED queueVars
  BY <1>5 DEF queueVars
<1> QED
  BY <1>1, <1>2, <1>3, <1>4, <1>5, QueueCases

LEMMA ReplayKept == QueueTypeOK /\ ReplayLocked /\ [QueueNext]_queueVars => ReplayLocked'
<1> SUFFICES ASSUME QueueTypeOK, ReplayLocked, [QueueNext]_queueVars PROVE ReplayLocked'
  OBVIOUS
<1> USE DEF QueueTypeOK, ReplayLocked
<1>1. ASSUME NEW j \in JobIds,
             Enqueue(j) \/ Expire(j) \/ BecomeDue(j) \/ BeginReplay(j)
               \/ Quarantine(j) \/ ReleaseQuarantine(j)
      PROVE  ReplayLocked'
  BY <1>1 DEF Enqueue, Expire, BecomeDue, BeginReplay, Quarantine, ReleaseQuarantine, Replayable
<1>2. ASSUME NEW c \in Consumers, NEW j \in JobIds, ClaimJob(c, j)
      PROVE  ReplayLocked'
  BY <1>2 DEF ClaimJob
<1>3. ASSUME NEW c \in Consumers, Finish(c) \/ Restart(c)
      PROVE  ReplayLocked'
  BY <1>3, NoJobAssumption DEF Finish, Restart, SetSucceeded, SetFailed, rows, Holds
<1>4. CASE EndReplay
  BY <1>4 DEF EndReplay
<1>5. CASE UNCHANGED queueVars
  BY <1>5 DEF queueVars
<1> QED
  BY <1>1, <1>2, <1>3, <1>4, <1>5, QueueCases

LEMMA OneActiveKept == QInv /\ [QueueNext]_queueVars => OneActivePerKey'
<1> DEFINE Active(j) == jobStatus[j] \in {"queued", "running"}
<1> SUFFICES ASSUME QInv, [QueueNext]_queueVars PROVE OneActivePerKey'
  OBVIOUS
<1> USE DEF QInv, QueueTypeOK, ReplayLocked, OneActivePerKey, ActiveWithKey
<1>0. ASSUME key' = key, \A j \in JobIds : Active(j)' => Active(j)
      PROVE  OneActivePerKey'
  BY <1>0
<1>1. ASSUME NEW j \in JobIds, Enqueue(j) PROVE OneActivePerKey'
  BY <1>1 DEF Enqueue
<1>2. ASSUME NEW j \in JobIds,
             Expire(j) \/ BecomeDue(j) \/ BeginReplay(j) \/ Quarantine(j) \/ ReleaseQuarantine(j)
      PROVE  OneActivePerKey'
  BY <1>2 DEF Expire, BecomeDue, BeginReplay, Quarantine, ReleaseQuarantine
<1>3. ASSUME NEW c \in Consumers, NEW j \in JobIds, ClaimJob(c, j) PROVE OneActivePerKey'
  <2>1. Active(j)
    BY <1>3 DEF ClaimJob, Claimable
  <2> QED
    BY <1>0, <1>3, <2>1 DEF ClaimJob
<1>4. ASSUME NEW c \in Consumers, Finish(c) \/ Restart(c) PROVE OneActivePerKey'
  <2>1. CASE Finish(c)
    BY <1>0, <2>1 DEF Finish, SetSucceeded, SetFailed, rows, Holds
  <2>2. CASE Restart(c)
    BY <2>2 DEF Restart
  <2> QED
    BY <1>4, <2>1, <2>2
<1>5. CASE EndReplay
  BY <1>5 DEF EndReplay, rows
<1>6. CASE UNCHANGED queueVars
  BY <1>6 DEF queueVars
<1> QED
  BY <1>1, <1>2, <1>3, <1>4, <1>5, <1>6, QueueCases

LEMMA QInvInit == QueueInit => QInv
BY DEF QueueInit, QInv, QueueTypeOK, Statuses, ReplayLocked, OneActivePerKey, ActiveWithKey

LEMMA QInvNext == QInv /\ [QueueNext]_queueVars => QInv'
BY QueueTypeKept, ReplayKept, OneActiveKept DEF QInv

\* Whatever producers, retries and replays do, an adapter has one active job at most.
THEOREM OneActiveJob == QueueSpec => []OneActivePerKey
<1>1. QInv => OneActivePerKey
  BY DEF QInv
<1> QED
  BY <1>1, QInvInit, QInvNext, PTL DEF QueueSpec

\* An active quarantine keeps its failed job where it is, also from an operator who
\* began the replay first: the lock on the job row orders the two transactions.
THEOREM QuarantineHolds == QueueSpec => QuarantineBlocksReplay
<1>1. QInv /\ [QueueNext]_queueVars =>
        [\A j \in quarantine : jobStatus[j] = "failed" => jobStatus'[j] = "failed"]_queueVars
  <2> SUFFICES ASSUME QInv, QueueNext, NEW j \in quarantine, jobStatus[j] = "failed"
               PROVE  jobStatus'[j] = "failed"
    OBVIOUS
  <2> USE DEF QInv, QueueTypeOK, ReplayLocked
  <2>1. ASSUME NEW i \in JobIds,
               Enqueue(i) \/ Expire(i) \/ BecomeDue(i) \/ BeginReplay(i)
                 \/ Quarantine(i) \/ ReleaseQuarantine(i)
        PROVE  jobStatus'[j] = "failed"
    BY <2>1 DEF Enqueue, Expire, BecomeDue, BeginReplay, Quarantine, ReleaseQuarantine
  <2>2. ASSUME NEW c \in Consumers, NEW i \in JobIds, ClaimJob(c, i)
        PROVE  jobStatus'[j] = "failed"
    BY <2>2 DEF ClaimJob, Claimable
  <2>3. ASSUME NEW c \in Consumers, Finish(c) \/ Restart(c)
        PROVE  jobStatus'[j] = "failed"
    BY <2>3 DEF Finish, Restart, SetSucceeded, SetFailed, rows, Holds
  <2>4. CASE EndReplay
    BY <2>4 DEF EndReplay, rows
  <2> QED
    BY <2>1, <2>2, <2>3, <2>4, QueueCases
<1> QED
  BY <1>1, QInvInit, QInvNext, PTL DEF QueueSpec, QuarantineBlocksReplay

LEMMA ClaimKept ==
  ASSUME DistinctNames, QInv, ClaimIsLatest, [QueueNext]_queueVars
  PROVE  ClaimIsLatest'
<1> SUFFICES ASSUME NEW d \in Consumers, NEW i \in JobIds,
                    working'[d] = i, jobStatus'[i] = "running", owner'[i] = InstanceName[d]
             PROVE  claim'[d] = claims'[i]
  BY DEF ClaimIsLatest
<1> USE DEF QInv, QueueTypeOK, ReplayLocked, ClaimIsLatest
<1>0. i # NoJob /\ InstanceName[d] # NoJob
  BY NoJobAssumption DEF Names
<1>1. ASSUME NEW j \in JobIds,
             Enqueue(j) \/ Expire(j) \/ BecomeDue(j) \/ BeginReplay(j)
               \/ Quarantine(j) \/ ReleaseQuarantine(j)
      PROVE  claim'[d] = claims'[i]
  BY <1>1 DEF Enqueue, Expire, BecomeDue, BeginReplay, Quarantine, ReleaseQuarantine
<1>2. ASSUME NEW c \in Consumers, NEW j \in JobIds, ClaimJob(c, j)
      PROVE  claim'[d] = claims'[i]
  <2>1. CASE i # j
    <3>1. working'[d] = working[d] /\ claim'[d] = claim[d]
      BY <1>2, <2>1 DEF ClaimJob
    <3> QED
      BY <1>2, <2>1, <3>1 DEF ClaimJob
  <2>2. CASE i = j
    <3>1. d = c
      BY <1>2, <2>2 DEF ClaimJob, DistinctNames
    <3> QED
      BY <1>0, <1>2, <2>2, <3>1 DEF ClaimJob
  <2> QED
    BY <2>1, <2>2
<1>3. ASSUME NEW c \in Consumers, Finish(c) \/ Restart(c)
      PROVE  claim'[d] = claims'[i]
  <2>1. working[d] = i /\ claim' = claim /\ claims' = claims
    BY <1>0, <1>3 DEF Finish, Restart
  <2>2. jobStatus[i] = "running" /\ owner[i] = InstanceName[d]
    BY <1>0, <1>3 DEF Finish, Restart, SetSucceeded, SetFailed, rows, Holds
  <2> QED
    BY <2>1, <2>2
<1>4. CASE EndReplay
  BY <1>4 DEF EndReplay, rows
<1>5. CASE UNCHANGED queueVars
  BY <1>5 DEF queueVars
<1> QED
  BY <1>1, <1>2, <1>3, <1>4, <1>5, QueueCases

\* A job is finished only by the consumer of its latest claim, however often leases run
\* out, answers are lost and consumers restart - as long as names are distinct.
THEOREM ClaimantFinishes ==
  ASSUME DistinctNames
  PROVE  QueueSpec => OnlyClaimantFinishes
<1> DEFINE FInv == QInv /\ ClaimIsLatest
<1>1. QueueInit => FInv
  BY QInvInit, NoJobAssumption DEF QueueInit, ClaimIsLatest
<1>2. FInv /\ [QueueNext]_queueVars => FInv'
  BY QInvNext, ClaimKept
<1>3. FInv /\ [QueueNext]_queueVars =>
        [\A j \in JobIds :
           (jobStatus[j] = "running" /\ jobStatus'[j] # "running") =>
             \E c \in Consumers :
               working[c] = j /\ working'[c] = NoJob /\ claim[c] = claims[j]]_queueVars
  <2> SUFFICES ASSUME FInv, QueueNext, NEW j \in JobIds,
                      jobStatus[j] = "running", jobStatus'[j] # "running"
               PROVE  \E c \in Consumers :
                        working[c] = j /\ working'[c] = NoJob /\ claim[c] = claims[j]
    OBVIOUS
  <2> USE DEF QInv, QueueTypeOK, ReplayLocked, ClaimIsLatest
  <2>1. ASSUME NEW i \in JobIds,
               Enqueue(i) \/ Expire(i) \/ BecomeDue(i) \/ BeginReplay(i)
                 \/ Quarantine(i) \/ ReleaseQuarantine(i)
        PROVE  FALSE
    BY <2>1 DEF Enqueue, Expire, BecomeDue, BeginReplay, Quarantine, ReleaseQuarantine
  <2>2. ASSUME NEW c \in Consumers, NEW i \in JobIds, ClaimJob(c, i)
        PROVE  FALSE
    BY <2>2 DEF ClaimJob
  <2>3. ASSUME NEW c \in Consumers, Finish(c) \/ Restart(c)
        PROVE  working[c] = j /\ working'[c] = NoJob /\ claim[c] = claims[j]
    <3>1. Finish(c) /\ Holds(c, working[c]) /\ working[c] = j
      BY <2>3, NoJobAssumption DEF Finish, Restart, SetSucceeded, SetFailed, rows
    <3> QED
      BY <3>1 DEF Finish, Holds
  <2>4. CASE EndReplay
    BY <2>4 DEF EndReplay, rows
  <2> QED
    BY <2>1, <2>2, <2>3, <2>4, QueueCases
<1> HIDE DEF FInv
<1> QED
  BY <1>1, <1>2, <1>3, PTL DEF QueueSpec, OnlyClaimantFinishes

(***************************************************************************)
(* The status, for any number of cycles and any overlap of them            *)
(***************************************************************************)
\* Instants are handed out once: what is dated is older than now, and a batch under way
\* has an instant of its own.
Dated ==
  /\ \A c \in Cycles : cycleAt[c] < now /\ batchAt[c] < now
  /\ \A j \in jobs : j.at < now
  /\ \A c \in Cycles : phase[c] = "fetching" =>
       /\ \A j \in jobs : j.at # batchAt[c]
       /\ \A d \in Cycles \ {c} : phase[d] = "fetching" => batchAt[d] # batchAt[c]

\* A batch that is promoted, and the active snapshot, have their row in ingestion_jobs.
Recorded ==
  /\ \A c \in Cycles : (phase[c] = "summarised" /\ outcome[c] # "failed") =>
       \E j \in jobs : j.at = batchAt[c]
  /\ snapshot = 0 \/ \E j \in jobs : j.at = snapshot

PInv == PipelineTypeOK /\ Dated /\ Recorded /\ HealthOfNewest

\* Steps that write at most the pipeline outcome and the snapshot's reference.
LEMMA SourceKept ==
  ASSUME PipelineTypeOK, NEW t \in Nat,
         RecordFailure(t) \/ TryFailure(t) \/ UNCHANGED source
  PROVE  /\ jobs' = jobs /\ health' = health /\ snapshot' = snapshot
         /\ pipeline' \in {"none", "succeeded", "failed"} /\ pipeAt' \in Nat
BY DEF RecordFailure, TryFailure, source, PipelineTypeOK

\* A cycle that ends, or dies, in whatever way.
Ends(c) ==
  \/ EndEarly(c) \/ EndFailed(c) \/ PromotionFails(c) \/ CycleRaises(c) \/ EndCycle(c)
  \/ Abandon(c)

LEMMA EndsEffect ==
  ASSUME PInv, NEW c \in Cycles, Ends(c)
  PROVE  /\ Leaves(c) /\ now' \in Nat /\ now' >= now
         /\ jobs' = jobs /\ health' = health /\ snapshot' = snapshot
         /\ pipeline' \in {"none", "succeeded", "failed"} /\ pipeAt' \in Nat
<1>1. now \in Nat /\ cycleAt[c] \in Nat /\ batchAt[c] \in Nat
  BY DEF PInv, PipelineTypeOK
<1>2. PipelineTypeOK
  BY DEF PInv
<1>3. CASE EndEarly(c)
  BY <1>1, <1>2, <1>3, SourceKept DEF EndEarly
<1>4. CASE EndFailed(c) \/ PromotionFails(c) \/ CycleRaises(c) \/ EndCycle(c)
  BY <1>1, <1>2, <1>4, SourceKept DEF EndFailed, PromotionFails, CycleRaises, EndCycle
<1>5. CASE Abandon(c)
  BY <1>1, <1>2, <1>5, SourceKept DEF Abandon
<1> QED
  BY <1>3, <1>4, <1>5 DEF Ends

LEMMA EndsKept ==
  ASSUME PInv, NEW c \in Cycles, Ends(c)
  PROVE  PInv'
<1> USE DEF PInv, PipelineTypeOK
<1>1. /\ Leaves(c) /\ now' \in Nat /\ now' >= now
      /\ jobs' = jobs /\ health' = health /\ snapshot' = snapshot
      /\ pipeline' \in {"none", "succeeded", "failed"} /\ pipeAt' \in Nat
  BY EndsEffect
<1>2. PipelineTypeOK'
  BY <1>1 DEF Leaves, Proceed, Outcomes
<1>3. Dated'
  BY <1>1 DEF Leaves, Proceed, Dated
<1>4. Recorded'
  BY <1>1 DEF Leaves, Proceed, Recorded
<1>5. HealthOfNewest'
  BY <1>1 DEF HealthOfNewest, HealthOf
<1> QED
  BY <1>2, <1>3, <1>4, <1>5

LEMMA BeginKept ==
  ASSUME PInv, NEW c \in Cycles, BeginCycle(c) \/ StartBatch(c)
  PROVE  PInv'
<1> USE DEF PInv, PipelineTypeOK
<1>0. /\ jobs' = jobs /\ health' = health /\ snapshot' = snapshot /\ outcome' = outcome
      /\ pipeline' = pipeline /\ pipeAt' = pipeAt /\ now' = now + 1
  BY DEF BeginCycle, StartBatch, source
<1>1. PipelineTypeOK'
  BY <1>0 DEF BeginCycle, StartBatch, Proceed
<1>2. Dated'
  BY <1>0 DEF BeginCycle, StartBatch, Proceed, Dated
<1>3. Recorded'
  BY <1>0 DEF BeginCycle, StartBatch, Proceed, Recorded
<1>4. HealthOfNewest'
  BY <1>0 DEF HealthOfNewest, HealthOf
<1> QED
  BY <1>1, <1>2, <1>3, <1>4

\* The health follows the newest of the recorded batches.
LEMMA SummaryHealth ==
  ASSUME PInv, NEW c \in Cycles, phase[c] = "fetching", NEW o \in Outcomes, WriteSummary(c, o)
  PROVE  HealthOfNewest'
<1> DEFINE t == batchAt[c]
           new == [at |-> t, status |-> o]
<1>0. /\ jobs' = jobs \cup {new} /\ new.at = t /\ new.status = o /\ t \in Nat
      /\ \A j \in jobs : j.at \in Nat /\ j.at # t
  BY DEF WriteSummary, PInv, PipelineTypeOK, Dated
<1> SUFFICES ASSUME NEW j \in jobs', \A k \in jobs' : k.at <= j.at
             PROVE  health' = HealthOf(j.status)
  BY DEF HealthOfNewest, HealthOf
<1>1. CASE Newest(t)
  <2>1. j = new
    <3>1. new \in jobs' /\ t <= j.at
      BY <1>0
    <3>2. j \in jobs => j.at <= t /\ j.at # t /\ j.at \in Nat
      BY <1>0, <1>1 DEF Newest
    <3> QED
      BY <1>0, <3>1, <3>2
  <2>2. health' = HealthOf(o)
    BY <1>1 DEF WriteSummary
  <2> QED
    BY <1>0, <2>1, <2>2
<1>2. CASE ~Newest(t)
  <2>1. j \in jobs /\ health' = health
    BY <1>0, <1>2 DEF Newest, WriteSummary
  <2> QED
    BY <1>0, <2>1 DEF PInv, HealthOfNewest
<1> QED
  BY <1>1, <1>2

LEMMA FinishKept ==
  ASSUME PInv, NEW c \in Cycles, FinishBatch(c)
  PROVE  PInv'
<1> USE DEF PInv, PipelineTypeOK
<1>1. PICK o \in Outcomes :
        \/ WriteSummary(c, o) /\ outcome' = [outcome EXCEPT ![c] = o]
        \/ /\ WriteSummary(c, o) \/ UNCHANGED source
           /\ outcome' = [outcome EXCEPT ![c] = "failed"]
  BY DEF FinishBatch
<1>2. /\ phase[c] = "fetching" /\ phase' = [phase EXCEPT ![c] = "summarised"]
      /\ now' = now /\ cycleAt' = cycleAt /\ batchAt' = batchAt
  BY DEF FinishBatch, Proceed
<1>3. CASE WriteSummary(c, o)
  <2>0. jobs' = jobs \cup {[at |-> batchAt[c], status |-> o]} /\ snapshot' = snapshot
    BY <1>3 DEF WriteSummary
  <2>h. HealthOf(o) \in {"unknown", "healthy", "degraded", "failed"}
    BY DEF HealthOf, Outcomes
  <2>p. /\ health' \in {"unknown", "healthy", "degraded", "failed"}
        /\ pipeline' \in {"none", "succeeded", "failed"} /\ pipeAt' \in Nat
    BY <1>3, <2>h DEF WriteSummary
  <2>o. outcome' \in [Cycles -> Outcomes]
    BY <1>1 DEF Outcomes
  <2>j. jobs' \subseteq [at : Nat, status : Outcomes]
    BY <2>0
  <2>1. PipelineTypeOK'
    BY <1>2, <2>0, <2>h, <2>p, <2>o, <2>j
  <2>2. Dated'
    BY <1>2, <2>0 DEF Dated
  <2>3. Recorded'
    <3> DEFINE new == [at |-> batchAt[c], status |-> o]
    <3>1. new \in jobs' /\ new.at = batchAt[c] /\ jobs \subseteq jobs'
      BY <2>0
    <3>2. \A d \in Cycles : (phase'[d] = "summarised" /\ outcome'[d] # "failed") =>
            \E j \in jobs' : j.at = batchAt[d]
      <4> SUFFICES ASSUME NEW d \in Cycles, phase'[d] = "summarised", outcome'[d] # "failed"
                   PROVE  \E j \in jobs' : j.at = batchAt[d]
        OBVIOUS
      <4>1. CASE d = c
        BY <3>1, <4>1
      <4>2. CASE d # c
        BY <1>1, <1>2, <3>1, <4>2 DEF Recorded
      <4> QED
        BY <4>1, <4>2
    <3> QED
      BY <1>2, <2>0, <3>1, <3>2 DEF Recorded
  <2> QED
    BY <1>2, <1>3, <2>1, <2>2, <2>3, SummaryHealth
<1>4. CASE UNCHANGED source /\ outcome' = [outcome EXCEPT ![c] = "failed"]
  <2>0. /\ jobs' = jobs /\ health' = health /\ snapshot' = snapshot
        /\ pipeline' = pipeline /\ pipeAt' = pipeAt
    BY <1>4 DEF source
  <2>1. PipelineTypeOK'
    BY <1>2, <1>4, <2>0 DEF Outcomes
  <2>2. Dated'
    BY <1>2, <2>0 DEF Dated
  <2>3. Recorded'
    BY <1>2, <1>4, <2>0 DEF Recorded
  <2>4. HealthOfNewest'
    BY <2>0 DEF HealthOfNewest, HealthOf
  <2> QED
    BY <2>1, <2>2, <2>3, <2>4
<1> QED
  BY <1>1, <1>3, <1>4

LEMMA PromotedKept ==
  ASSUME PInv, NEW c \in Cycles, Promoted(c)
  PROVE  PInv' /\ snapshot' >= snapshot
<1> USE DEF PInv, PipelineTypeOK
<1>1. /\ jobs' = jobs /\ health' = health /\ now' = now /\ cycleAt' = cycleAt
      /\ batchAt' = batchAt /\ outcome' = outcome
      /\ phase[c] = "summarised" /\ outcome[c] # "failed"
      /\ phase' = [phase EXCEPT ![c] = "recorded"]
  BY DEF Promoted, RecordSuccess, Proceed
<1>2. /\ pipeline' \in {"none", "succeeded", "failed"} /\ pipeAt' \in Nat
      /\ snapshot' = snapshot \/ (snapshot' = batchAt[c] /\ NotOvertaken(batchAt[c]))
  BY DEF Promoted, RecordSuccess
<1>3. PipelineTypeOK'
  BY <1>1, <1>2
<1>4. Dated'
  BY <1>1 DEF Dated
<1>5. \E j \in jobs : j.at = batchAt[c]
  BY <1>1 DEF Recorded
<1>6. Recorded'
  BY <1>1, <1>2, <1>5 DEF Recorded
<1>7. HealthOfNewest'
  BY <1>1 DEF HealthOfNewest, HealthOf
<1>8. snapshot' >= snapshot
  BY <1>2 DEF Recorded, NotOvertaken
<1> QED
  BY <1>3, <1>4, <1>6, <1>7, <1>8

LEMMA PInvInit == PipelineInit => PInv
<1> SUFFICES ASSUME PipelineInit PROVE PInv
  OBVIOUS
<1>1. PipelineTypeOK
  BY DEF PipelineInit, PipelineTypeOK, Outcomes
<1>2. Dated /\ Recorded /\ HealthOfNewest
  BY DEF PipelineInit, Dated, Recorded, HealthOfNewest
<1> QED
  BY <1>1, <1>2 DEF PInv

LEMMA PInvNext == PInv /\ [PipelineNext]_pipeVars => PInv' /\ snapshot' >= snapshot
<1> SUFFICES ASSUME PInv, [PipelineNext]_pipeVars PROVE PInv' /\ snapshot' >= snapshot
  OBVIOUS
<1>0. snapshot \in Nat
  BY DEF PInv, PipelineTypeOK
<1>1. ASSUME NEW c \in Cycles, Ends(c) PROVE PInv' /\ snapshot' >= snapshot
  BY <1>0, <1>1, EndsEffect, EndsKept
<1>2. ASSUME NEW c \in Cycles, BeginCycle(c) \/ StartBatch(c)
      PROVE  PInv' /\ snapshot' >= snapshot
  <2>1. snapshot' = snapshot
    BY <1>2 DEF BeginCycle, StartBatch, source
  <2> QED
    BY <1>0, <1>2, <2>1, BeginKept
<1>3. ASSUME NEW c \in Cycles, FinishBatch(c) PROVE PInv' /\ snapshot' >= snapshot
  <2>1. snapshot' = snapshot
    BY <1>3 DEF FinishBatch, WriteSummary, source
  <2> QED
    BY <1>0, <1>3, <2>1, FinishKept
<1>4. ASSUME NEW c \in Cycles, Promoted(c) PROVE PInv' /\ snapshot' >= snapshot
  BY <1>4, PromotedKept
<1>5. CASE UNCHANGED pipeVars
  <2>1. PipelineTypeOK' /\ snapshot' >= snapshot
    BY <1>0, <1>5 DEF pipeVars, PInv, PipelineTypeOK
  <2>2. Dated' /\ Recorded'
    BY <1>5 DEF pipeVars, PInv, Dated, Recorded
  <2>3. HealthOfNewest'
    BY <1>5 DEF pipeVars, PInv, HealthOfNewest, HealthOf
  <2> QED
    BY <2>1, <2>2, <2>3 DEF PInv
<1> QED
  BY <1>1, <1>2, <1>3, <1>4, <1>5 DEF PipelineNext, Ends

\* In whatever order overlapping batches end, the health is that of the one that
\* started last.
THEOREM HealthIsOfNewest == PipelineSpec => []HealthOfNewest
<1>1. PInv => HealthOfNewest
  BY DEF PInv
<1> QED
  BY <1>1, PInvInit, PInvNext, PTL DEF PipelineSpec

\* The active snapshot of a source never goes back to an earlier batch.
THEOREM SnapshotGoesForward == PipelineSpec => SnapshotForward
<1>1. PInv /\ [PipelineNext]_pipeVars => [snapshot' >= snapshot]_pipeVars
  BY PInvNext
<1>2. PInv /\ [PipelineNext]_pipeVars => PInv'
  BY PInvNext
<1> QED
  BY <1>1, <1>2, PInvInit, PTL DEF PipelineSpec, SnapshotForward
==============================================================================
