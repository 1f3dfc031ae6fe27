---------------------------------- MODULE MCSims ----------------------------------
(***************************************************************************)
(* The two simulators of the course on the same workloads: MlfqSim, tick   *)
(* by tick, to its end, then SchedulingSim, slice by slice.                *)
(***************************************************************************)
EXTENDS MlfqSimRefinement

VARIABLES sliced, clock, pending, waiting, remaining, first, done, chosen

Slices == INSTANCE SchedulingSim WITH
            Policies <- {"fcfs", "sjf", "rr"}, Quantum <- 2,
            policy <- sliced, now <- clock, ready <- waiting

ASSUME SlicesAssumption == Slices!SchedulingAssumption

sliceVars == <<sliced, clock, pending, waiting, remaining, first, done, chosen>>

(***************************************************************************)
(* The workloads: long computations, short late jobs, jobs with I/O, jobs  *)
(* that yield and jobs without work; and jobs that only compute, which     *)
(* both simulators take.                                                   *)
(***************************************************************************)
Spec3(arrival, service, burst, wait) ==
    [arrival |-> arrival, service |-> service, burst |-> burst, wait |-> wait]

MCShapes ==
    {Spec3(0, 14, 0, 0), Spec3(1, 5, 0, 0), Spec3(5, 2, 0, 0), Spec3(0, 6, 1, 0),
     Spec3(0, 14, 3, 0), Spec3(0, 6, 1, 4), Spec3(2, 5, 2, 3), Spec3(3, 0, 0, 0),
     Spec3(0, 9, 2, 1)}

MCMixed == [Jobs -> MCShapes]

MCComputing ==
    [Jobs -> {Spec3(a, n, 0, 0) : a \in {0, 1, 4}, n \in {0, 1, 2, 5}}]

MCWorkloads == MCMixed \cup MCComputing

(* Mixed workloads under every policy of MlfqSim, computing ones under     *)
(* every policy of SchedulingSim.                                          *)
SimsInit ==
    /\ Init /\ Slices!Init
    /\ IF jobs \in MCMixed THEN sliced = "rr"
                           ELSE policy = "rr" /\ period = Max(Periods)

Over == pc = "top" /\ at = 0 /\ Finished

TicksStep == ~Over /\ Step /\ UNCHANGED sliceVars

SlicesStep == Over /\ (Slices!BringIn \/ Slices!Run) /\ UNCHANGED vars

SimsEnd == Over /\ Slices!Stop /\ UNCHANGED vars

SimsNext == TicksStep \/ SlicesStep \/ SimsEnd

SimsSpec ==
    /\ SimsInit /\ [][SimsNext]_<<vars, sliceVars>>
    /\ WF_<<vars, sliceVars>>(TicksStep \/ SlicesStep)

(***************************************************************************)
(* Properties.                                                             *)
(***************************************************************************)
(* Both programs give a job that only computes the same times of its first *)
(* run and its end, by code that shares no line: round robin in ticks with *)
(* arrivals after each, and in slices with arrivals behind each.           *)
SimulatorsAgree ==
    Over /\ Slices!Ended /\ ~chosen /\ policy = "rr" /\ sliced = "rr"
         /\ (\A i \in Jobs : jobs[i].burst = 0) =>
      \A i \in Jobs : s[i].first = first[i] /\ s[i].done = done[i]

(* SchedulingSim's: shortest job first has the least turnaround of all     *)
(* orders, and the processor idles only while nobody has arrived.          *)
SjfIsBest == Slices!SjfIsBest
WorkIsConserved == Slices!WorkIsConserved

(* Both programs bring every job to its end, whoever blocks, arrives last  *)
(* or has no work.                                                         *)
AllJobsDone == <>(Over /\ Slices!Ended /\ \A i \in Jobs : done[i] # None)
================================================================================
