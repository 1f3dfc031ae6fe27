------------------------------ MODULE MCScheduler ------------------------------
(* Small instances of Scheduler.                                           *)
EXTENDS Scheduler, MCPlans
================================================================================
