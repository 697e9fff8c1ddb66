------------------------------- MODULE MCTurns -------------------------------
(***************************************************************************)
(* Small instances of four parts in which what counts is whose turn it is: *)
(* schedulers behind a lease, consumers at the queue, index rebuilds from  *)
(* night to night, and the requests of one map page.  They share no        *)
(* variable: a behaviour is one of one part, and the others stay where     *)
(* they begin.                                                             *)
(***************************************************************************)
EXTENDS SchedulerLease, RuntimeQueue, IndexMaintenance, WebClient, TLC

CONSTANTS a, b, c1, c2

VARIABLE part

OwnNames == (c1 :> c1) @@ (c2 :> c2)
TwoIndexes == <<"evidence_source_idx", "staging_created_idx">>

Rest(p) ==
  /\ p # "lease" => UNCHANGED vars
  /\ p # "queue" => UNCHANGED queueVars
  /\ p # "index" => UNCHANGED indexVars
  /\ p # "web" => UNCHANGED webVars
  /\ UNCHANGED part

TurnsInit ==
  /\ part \in {"lease", "queue", "index", "web"}
  /\ Init /\ QueueInit /\ IndexInit /\ WebInit
  /\ part # "index" => ~trouble

TurnsNext ==
  \/ part = "lease" /\ Next /\ Rest("lease")
  \/ part = "queue" /\ QueueNext /\ Rest("queue")
  \/ part = "index" /\ IndexNext /\ Rest("index")
  \/ part = "web" /\ WebNext /\ Rest("web")

\* The fairness of FairSpec, QueueFair, IndexFair and WebFair, for the part that runs.
TurnsSpec ==
  /\ TurnsInit
  /\ [][TurnsNext]_<<part, vars, queueVars, indexVars, webVars>>
  /\ WF_vars(part = "lease" /\ Advance)
  /\ \A i \in Instances :
       WF_vars(part = "lease" /\ Main(i)) /\ WF_vars(part = "lease" /\ Heartbeat(i))
  /\ \A c \in Consumers : WF_queueVars(part = "queue" /\ Consume(c))
  /\ WF_queueVars(part = "queue" /\ EndReplay)
  /\ WF_indexVars(part = "index" /\ ReindexStep)
  /\ WF_indexVars(part = "index" /\ PassHour)
  /\ SF_indexVars(part = "index" /\ SweepLeftovers)
  /\ \A i \in IndexNames \ IndexStuck :
       /\ SF_indexVars(part = "index" /\ StartRebuild(i))
       /\ SF_indexVars(part = "index" /\ Swap /\ target = i)
       /\ SF_indexVars(part = "index" /\ Rebuilt /\ target = i)
  /\ \A r \in Ids : WF_webVars(part = "web" /\ Respond(r))
==============================================================================
