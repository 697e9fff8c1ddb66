------------------------------ MODULE MCTables ------------------------------
(***************************************************************************)
(* Small instances of three parts of the worker that race over rows: the   *)
(* lease while the database comes and goes, the retention of staging rows, *)
(* and the records of overlapping cycles.  They share no variable: a       *)
(* behaviour is one of one part, and the others stay where they begin.     *)
(***************************************************************************)
EXTENDS SchedulerLease, Retention, PipelineStatus, TLC

CONSTANTS a, b, c

VARIABLE part

Rest(p) ==
  /\ p # "lease" => UNCHANGED vars
  /\ p # "retention" => UNCHANGED retentionVars
  /\ p # "pipeline" => UNCHANGED pipeVars
  /\ UNCHANGED part

TablesInit ==
  /\ part \in {"lease", "retention", "pipeline"}
  /\ Init /\ RetentionInit /\ PipelineInit
  /\ part # "retention" => ~broken /\ \A s \in DOMAIN indexes : indexes[s]

TablesNext ==
  \/ part = "lease" /\ Next /\ Rest("lease")
  \/ part = "retention" /\ RetentionNext /\ Rest("retention")
  \/ part = "pipeline" /\ PipelineNext /\ Rest("pipeline")

\* The fairness of RetentionFair; the rest is about what never happens.
TablesSpec ==
  /\ TablesInit
  /\ [][TablesNext]_<<part, vars, retentionVars, pipeVars>>
  /\ WF_retentionVars(part = "retention" /\ Cycle)
  /\ WF_retentionVars(part = "retention" /\ Tick)
===============================================================================
