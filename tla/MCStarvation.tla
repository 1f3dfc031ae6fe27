------------------------------ MODULE MCStarvation ------------------------------
(***************************************************************************)
(* Programs that never end, under MLFQ, for ever: one computes, one yields *)
(* all the time, possibly faster than the clock ticks.                     *)
(*                                                                         *)
(* The state is kept finite by two changes of representation at the top of *)
(* the loop.  The code only compares and subtracts instants, and a boost   *)
(* is a whole number of periods after base, so the clock and every instant *)
(* may move back by one period.  A program that has not reached its last   *)
(* iteration does the same whatever its counters say, so they may restart. *)
(***************************************************************************)
EXTENDS MCScheduler

EndlessPlan == << Batch("Mlfq", 0, <<Program(2, 3), Program(4, 0)>>) >>

PassedPeriod == clock >= base + BoostTicks /\ boost > clock

Back(t) == IF PassedPeriod THEN Monus(t, BoostTicks) ELSE t

Fold == pc = "loop" /\ (PassedPeriod \/ \E i \in Ids : yields[i] > 0)

Refold ==
    /\ Fold
    /\ clock' = Back(clock) /\ boost' = Back(boost)
    /\ deadline' = Back(deadline)
    /\ mtimecmp' = Back(mtimecmp)
    /\ yields' = [i \in Ids |-> 0]
    /\ frame' = [i \in Ids |-> [frame[i] EXCEPT !.s2 = 0, !.s3 = 0]]
    /\ UNCHANGED <<pc, panicked, ready, current, state, level, slice, allot, timers,
                   syscalls, demoted, batchVars, stie, userVars, lag, outVars, passVars>>

ENext == (~Fold /\ Next) \/ Refold

(* Time passes however fast the programs trap, so strong fairness: a tick  *)
(* is not enabled at every step.                                           *)
ESpec ==
    /\ Init /\ [][ENext]_vars
    /\ WF_vars(Refold) /\ WF_vars(KernelStep) /\ WF_vars(UserRun)
    /\ WF_vars(TimerInterrupt) /\ SF_vars(Tick)

(* A task that waits is dispatched again, even beside a program that       *)
(* always yields before the clock charges it and so never sinks: the boost *)
(* lifts the waiting task back to its level.                               *)
StarvationFree == \A i \in Ids : state[i] = "Ready" ~> state[i] = "Running"
================================================================================
