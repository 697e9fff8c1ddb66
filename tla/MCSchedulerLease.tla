--------------------------- MODULE MCSchedulerLease ---------------------------
(* Two schedulers, a process run by hand, and a lease of one second. *)
EXTENDS SchedulerLease, TLC
CONSTANTS a, b, c
==============================================================================
