-------------------------------- MODULE MCPlans --------------------------------
(***************************************************************************)
(* Small plans: the batches of run() with fewer iterations.                *)
(***************************************************************************)
EXTENDS ReadyQueue, Sequences

Program(m, n) == [mode |-> m, iterations |-> n, fault |-> FALSE]
Faulty == [mode |-> 1, iterations |-> 0, fault |-> TRUE]

(* specs names the tasks of the batch; the slots beyond them are unused.   *)
Batch(p, l, specs) ==
    [policy |-> p, limit |-> l, count |-> Len(specs),
     specs |-> [i \in Ids |-> IF i < Len(specs) THEN specs[i + 1] ELSE Program(1, 1)]]

(* Lesson 12: alternating, single, stress, fault.                          *)
YieldPlan ==
    << Batch("Yield", 0, <<Program(0, 3), Program(0, 3)>>),
       Batch("Yield", 0, <<Program(2, 3)>>),
       Batch("Yield", 0, <<Program(2, 4), Program(2, 4), Program(2, 4)>>),
       Batch("Yield", 0, <<Faulty, Program(2, 3)>>) >>

(* Lesson 13: one-shot and several timers.                                 *)
TimerPlan ==
    << Batch("Timer", 1, <<Program(4, 0)>>), Batch("Timer", 3, <<Program(4, 0)>>) >>

(* Lesson 14: a fault beside a program, syscalls.                          *)
RrPlan ==
    << Batch("Rr", 0, <<Faulty, Program(1, 1)>>),
       Batch("Rr", 0, <<Program(3, 2), Program(1, 1)>>) >>

(* Lesson 15: calls, a fault and computation under the same policy.        *)
MlfqPlan == << Batch("Mlfq", 0, <<Program(3, 1), Faulty, Program(1, 1)>>) >>

(* A program that makes calls beside one that yields.                      *)
MlfqCallsPlan == << Batch("Mlfq", 0, <<Program(3, 1), Program(2, 1)>>) >>

(* Lesson 15: single.                                                      *)
MlfqSinglePlan == << Batch("Mlfq", 0, <<Program(1, 1)>>) >>

(* Several checkpoints, of which a build has one.                          *)
YieldTimerOrMlfq == YieldPlan \o TimerPlan \o MlfqSinglePlan
RrOrMlfq == RrPlan \o MlfqPlan \o MlfqCallsPlan
================================================================================
