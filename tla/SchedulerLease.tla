---------------------------- MODULE SchedulerLease ----------------------------
(***************************************************************************)
(* The v1 baseline scheduler: processes that take turns through one row of *)
(* worker_scheduler_leases.  Each runs a loop (acquire or renew the lease, *)
(* run a tick, renew, sleep) and, during a tick, a heartbeat thread that   *)
(* renews the lease.  Time is counted in quarters of a second; the lease   *)
(* row keeps the time it has left, so an expired lease has none.           *)
(***************************************************************************)
EXTENDS Naturals, FiniteSets

CONSTANTS
  Instances,  \* scheduler processes; every process has a holder id of its own
  Once,       \* those started with --once (tick_limit = 1)
  Manual,     \* those started without --scheduler: one tick and no lease
  TTL,        \* scheduler_lease_ttl_seconds
  Outages,    \* whether a database call may fail (RuntimeQueueUnavailable)
  None        \* no lease row

ASSUME InstancesAssumption == Once \subseteq Instances /\ Manual \subseteq Instances
ASSUME TTLAssumption == TTL \in Nat /\ TTL >= 4
ASSUME OutagesAssumption == Outages \in BOOLEAN

Leases == [holder : Instances, left : 0..TTL]
ASSUME NoLeaseAssumption == None \notin Leases

VARIABLES
  lease,    \* the row of worker_scheduler_leases
  status,   \* runtime_status in ingestion_scheduler_heartbeats
  pc,       \* where each process is
  acquired, \* its local variable lease_acquired
  hb,       \* its heartbeat thread: off, waiting for the interval, or in the call
  beatIn,   \* time until that thread's next renewal
  lost      \* the heartbeat's _lost event

vars == <<lease, status, pc, acquired, hb, beatIn, lost>>

Pcs == {"new", "acquire", "waiting", "ticking", "joining", "unwinding", "renew",
        "sleeping", "release", "exiting", "exited", "dead", "manual"}

\* Mutant: the heartbeat renews once per lease time.
BeatEveryTTL == TTL

\* max(0.25 s, min(30 s, ttl / 3))
HeartbeatInterval == IF TTL \div 3 > 120 THEN 120 ELSE TTL \div 3

Init ==
  /\ lease = None /\ status = "none"
  /\ pc = [i \in Instances |-> "new"]
  /\ acquired = [i \in Instances |-> FALSE]
  /\ hb = [i \in Instances |-> "off"]
  /\ beatIn = [i \in Instances |-> 0]
  /\ lost = [i \in Instances |-> FALSE]

-----------------------------------------------------------------------------
\* The WHERE of acquire_scheduler_lease: no row, an expired one, or one's own.
CanTakeLive(i) == lease # None => lease.holder = i  \* mutant: an expired row still counts
CanTake(i) == lease # None => lease.left = 0 \/ lease.holder = i

Take(i) ==
  /\ CanTake(i)
  /\ lease' = [holder |-> i, left |-> TTL]
  /\ status' = "running"

\* acquire_or_renew_lease: True, False or None.  A call that fails may have committed.
AcquireLease(i, answer) ==
  \/ answer = "granted" /\ Take(i)
  \/ answer = "refused" /\ ~CanTake(i) /\ UNCHANGED <<lease, status>>
  \/ answer = "unavailable" /\ Outages /\ (Take(i) \/ UNCHANGED <<lease, status>>)

\* Mutant: release_scheduler_lease without the holder in its WHERE.
ReleaseAny(i) ==
  lease' = None /\ status' = "stopped"

ReleaseLease(i) ==
  IF lease # None /\ lease.holder = i
  THEN lease' = None /\ status' = "stopped"
  ELSE UNCHANGED <<lease, status>>

-----------------------------------------------------------------------------
Goto(i, label) == pc' = [pc EXCEPT ![i] = label]

Start(i) ==
  /\ pc[i] = "new" /\ i \notin Manual
  /\ Goto(i, "acquire")
  /\ UNCHANGED <<lease, status, acquired, hb, beatIn, lost>>

\* The head of the loop with the lease in hand or granted: the heartbeat thread starts
\* and so does the tick.
BeginTick(i) ==
  /\ pc[i] = "acquire"
  /\ AcquireLease(i, "granted")
  /\ acquired' = [acquired EXCEPT ![i] = TRUE]
  /\ hb' = [hb EXCEPT ![i] = "wait"]
  /\ beatIn' = [beatIn EXCEPT ![i] = HeartbeatInterval]
  /\ lost' = [lost EXCEPT ![i] = FALSE]
  /\ Goto(i, "ticking")

\* Not granted: a process that thought it had the lease goes round again; another
\* one waits, or returns when it was to run once.
NoLease(i) ==
  /\ pc[i] = "acquire"
  /\ AcquireLease(i, "refused") \/ AcquireLease(i, "unavailable")
  /\ acquired' = [acquired EXCEPT ![i] = FALSE]
  /\ Goto(i, IF acquired[i] THEN "acquire" ELSE IF i \in Once THEN "release" ELSE "waiting")
  /\ UNCHANGED <<hb, beatIn, lost>>

\* time.sleep(lease_retry_seconds) and the sleep up to the next tick come to an end.
Wake(i) ==
  /\ pc[i] \in {"waiting", "sleeping"}
  /\ Goto(i, "acquire")
  /\ UNCHANGED <<lease, status, acquired, hb, beatIn, lost>>

\* _SchedulerLeaseHeartbeat._run: the interval elapses, then the renewal answers.
Beat(i) ==
  /\ hb[i] = "wait" /\ beatIn[i] = 0
  /\ hb' = [hb EXCEPT ![i] = "call"]
  /\ UNCHANGED <<lease, status, pc, acquired, beatIn, lost>>

Renewed(i) ==
  /\ hb[i] = "call"
  /\ AcquireLease(i, "granted") \/ AcquireLease(i, "unavailable")
  /\ hb' = [hb EXCEPT ![i] = IF pc[i] = "ticking" THEN "wait" ELSE "off"]
  /\ beatIn' = [beatIn EXCEPT ![i] = HeartbeatInterval]
  /\ UNCHANGED <<pc, acquired, lost>>

BeatRefused(i) ==
  /\ hb[i] = "call"
  /\ AcquireLease(i, "refused")
  /\ hb' = [hb EXCEPT ![i] = "off"]
  /\ lost' = [lost EXCEPT ![i] = TRUE]
  /\ UNCHANGED <<pc, acquired, beatIn>>

\* __exit__ sets _stop, which ends a waiting thread, and then joins it.
StopHeartbeat(i) == hb' = [hb EXCEPT ![i] = IF @ = "wait" THEN "off" ELSE @]

\* The tick and its maintenance return, or raise.
EndTick(i) ==
  /\ pc[i] = "ticking"
  /\ StopHeartbeat(i)
  /\ Goto(i, "joining") \/ Goto(i, "unwinding")
  /\ UNCHANGED <<lease, status, acquired, beatIn, lost>>

\* After the join: a lost lease is noted, and the last tick leaves the loop.
Joined(i) ==
  /\ pc[i] = "joining" /\ hb[i] = "off"
  /\ acquired' = [acquired EXCEPT ![i] = @ /\ ~lost[i]]
  /\ Goto(i, IF i \in Once THEN "release" ELSE "renew")
  /\ UNCHANGED <<lease, status, hb, beatIn, lost>>

Unwound(i) ==
  /\ pc[i] = "unwinding" /\ hb[i] = "off"
  /\ Goto(i, "release")
  /\ UNCHANGED <<lease, status, acquired, hb, beatIn, lost>>

\* The renewal before the sleep.  A granted one does not set lease_acquired.
RenewThenSleep(i) ==
  /\ pc[i] = "renew"
  /\ \/ AcquireLease(i, "granted") /\ Goto(i, "sleeping") /\ UNCHANGED acquired
     \/ /\ AcquireLease(i, "refused") \/ AcquireLease(i, "unavailable")
        /\ acquired' = [acquired EXCEPT ![i] = FALSE] /\ Goto(i, "acquire")
  /\ UNCHANGED <<hb, beatIn, lost>>

\* The finally clause: release only what lease_acquired says is held.
Release(i) ==
  /\ pc[i] = "release"
  /\ \/ acquired[i] /\ ReleaseLease(i)
     \/ (acquired[i] => Outages) /\ UNCHANGED <<lease, status>>
  /\ Goto(i, "exiting")
  /\ UNCHANGED <<acquired, hb, beatIn, lost>>

\* The interpreter exits and takes the daemon thread with it.
Exit(i) ==
  /\ pc[i] = "exiting"
  /\ hb' = [hb EXCEPT ![i] = "off"]
  /\ Goto(i, "exited")
  /\ UNCHANGED <<lease, status, acquired, beatIn, lost>>

\* SIGTERM raises SystemExit in the main thread, wherever it is: inside a tick it
\* passes through the heartbeat's __exit__, inside the join it skips the rest of it.
Terminate(i) ==
  \/ /\ pc[i] \in {"acquire", "waiting", "renew", "sleeping", "joining", "unwinding"}
     /\ Goto(i, "release")
     /\ UNCHANGED <<lease, status, acquired, hb, beatIn, lost>>
  \/ /\ pc[i] = "ticking"
     /\ StopHeartbeat(i)
     /\ Goto(i, "unwinding")
     /\ UNCHANGED <<lease, status, acquired, beatIn, lost>>

\* SIGTERM after the statement committed and before lease_acquired was assigned.
TerminateInCall(i) ==
  /\ pc[i] \in {"acquire", "renew"}
  /\ Take(i)
  /\ Goto(i, "release")
  /\ UNCHANGED <<acquired, hb, beatIn, lost>>

\* SIGKILL, a lost node: nothing is cleaned up.
Crash(i) ==
  /\ pc[i] \notin {"new", "exited", "dead"}
  /\ Goto(i, "dead")
  /\ hb' = [hb EXCEPT ![i] = "off"]
  /\ UNCHANGED <<lease, status, acquired, beatIn, lost>>

\* Without --scheduler one tick runs, and no lease is asked for.
RunOnce(i) ==
  /\ i \in Manual
  /\ \/ pc[i] = "new" /\ Goto(i, "manual")
     \/ pc[i] = "manual" /\ Goto(i, "exited")
  /\ UNCHANGED <<lease, status, acquired, hb, beatIn, lost>>

\* Time passes.  A renewal is short beside the interval: it is answered before the
\* next quarter of a second, or fails.
Advance ==
  /\ \A i \in Instances : hb[i] # "call" /\ (hb[i] = "wait" => beatIn[i] > 0)
  /\ \/ lease # None /\ lease.left > 0
     \/ \E i \in Instances : hb[i] = "wait"
  /\ lease' = IF lease # None /\ lease.left > 0 THEN [lease EXCEPT !.left = @ - 1] ELSE lease
  /\ beatIn' = [i \in Instances |-> IF hb[i] = "wait" THEN beatIn[i] - 1 ELSE beatIn[i]]
  /\ UNCHANGED <<status, pc, acquired, hb, lost>>

Main(i) ==
  \/ BeginTick(i) \/ NoLease(i) \/ Wake(i) \/ EndTick(i) \/ Joined(i) \/ Unwound(i)
  \/ RenewThenSleep(i) \/ Release(i) \/ Exit(i)
Heartbeat(i) == Beat(i) \/ Renewed(i) \/ BeatRefused(i)
Failure(i) == Terminate(i) \/ TerminateInCall(i) \/ Crash(i)

Next == \/ Advance
        \/ \E i \in Instances :
             Start(i) \/ Main(i) \/ Heartbeat(i) \/ Failure(i) \/ RunOnce(i)
Spec == Init /\ [][Next]_vars

\* Time passes and both threads of a running process are scheduled.
LeaseFair ==
  /\ WF_vars(Advance)
  /\ \A i \in Instances : WF_vars(Main(i)) /\ WF_vars(Heartbeat(i))
FairSpec == Spec /\ LeaseFair

-----------------------------------------------------------------------------
\* The shape of the state.
TypeOK ==
  /\ lease \in Leases \cup {None}
  /\ status \in {"none", "running", "stopped"}
  /\ pc \in [Instances -> Pcs]
  /\ acquired \in [Instances -> BOOLEAN]
  /\ hb \in [Instances -> {"off", "wait", "call"}]
  /\ beatIn \in [Instances -> 0..HeartbeatInterval]
  /\ lost \in [Instances -> BOOLEAN]

\* "exactly one instance ingests at a time" (run_v1_baseline_enabled_adapters).
Ingesting == {i \in Instances : pc[i] \in {"ticking", "manual"}}
OneIngests == \A i, j \in Ingesting : i = j

\* The monitoring row says "stopped" only while nobody holds the lease: a process that
\* has lost its lease does not report the scheduler of its successor as stopped.
StoppedMeansFree == status = "stopped" => lease = None

\* A lease that has not expired is given up by its holder's own release and by nothing
\* else: not by a standby, and not by a former holder that still believes it has it.
LeaseNotStolen ==
  [][\A i \in Instances :
       (lease # None /\ lease.holder = i /\ lease.left > 0 /\ (lease' = None \/ lease'.holder # i))
         => pc[i] = "release" /\ pc'[i] = "exiting"]_vars

\* A standby takes over from a process that died or exited with the lease in its name,
\* or that unwound so early or so late that its renewal outlived its release: the row
\* expires.
StandbyTakesOver ==
  \A i, j \in Instances :
    (lease # None /\ lease.holder = i /\ pc[i] \in {"dead", "exited"} /\ pc[j] \in {"acquire", "waiting"})
      ~> (lease = None \/ lease.holder # i \/ pc[j] \notin {"acquire", "waiting"})
==============================================================================
