-------------------------- MODULE SchedulerRefinement --------------------------
(***************************************************************************)
(* Scheduler implements LevelQueues: at level l wait the tasks of that     *)
(* level in the array, in its order.                                       *)
(***************************************************************************)
EXTENDS SchedulerHistory

AtLevels(q, lev) == [l \in 0..2 |-> {i \in Members(q) : lev[i] = l}]

Stands(q, i, k) ==
    \E p, o \in Positions(q) : p < o /\ q.ids[p] = i /\ q.ids[o] = k

AheadIn(q, lev) ==
    {e \in Members(q) \X Members(q) : lev[e[1]] = lev[e[2]] /\ Stands(q, e[1], e[2])}

LQ == INSTANCE LevelQueues WITH
        Slots <- N, None <- NoTask,
        queue <- AtLevels(ready, level), ahead <- AheadIn(ready, level),
        running <- current,
        depth <- IF current = NoTask THEN 0 ELSE level[current],
        done <- {i \in Ids : state[i] = "Done"}

(* Every step of the scheduler is a step of the level queues or changes    *)
(* nothing they show: the flat array with its first-minimum pop, the       *)
(* budgets and the boost behave as one FIFO queue per level.               *)
ImplementsLevelQueues == LQ!ASpec
================================================================================
