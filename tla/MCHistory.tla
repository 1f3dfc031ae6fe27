------------------------------- MODULE MCHistory -------------------------------
(* Small instances of Scheduler with its stopwatch and its refinement.     *)
EXTENDS SchedulerRefinement, MCPlans
================================================================================
