--------------------------- MODULE MlfqSimRefinement ---------------------------
(***************************************************************************)
(* MlfqSim implements LevelQueues, open: at level l wait the jobs of that  *)
(* level in the simulator's list, in its order; a job that has not         *)
(* arrived, waits for I/O or has ended is outside.                         *)
(***************************************************************************)
EXTENDS MlfqSim

OnLevel(list, job) == [l \in 0..2 |-> {i \in ToSet(list) : job[i].level = l}]

Earlier(list, i, k) ==
    \E m, n \in 1..Len(list) : m < n /\ list[m] = i /\ list[n] = k

EarlierOnLevel(list, job) ==
    {e \in ToSet(list) \X ToSet(list) :
        job[e[1]].level = job[e[2]].level /\ Earlier(list, e[1], e[2])}

(* A job that sank in this round is still where it came from until it is   *)
(* requeued.                                                               *)
LQ == INSTANCE LevelQueues WITH
        Slots <- NJobs,
        queue <- OnLevel(ready, s), ahead <- EarlierOnLevel(ready, s),
        running <- current,
        depth <- IF current = None THEN 0
                 ELSE IF sunk THEN s[current].level - 1 ELSE s[current].level,
        done <- {i \in Jobs : i # current /\ s[i].state \in {"new", "blocked", "done"}}

(* The simulator and the kernel schedule alike: like Scheduler, every step *)
(* of simulate() is one of the level queues, with jobs coming and going.   *)
ImplementsOpenQueues == LQ!AOpenSpec
================================================================================
