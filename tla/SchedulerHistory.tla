--------------------------- MODULE SchedulerHistory ---------------------------
(***************************************************************************)
(* Scheduler with a stopwatch the code does not have.  The kernel charges  *)
(* event.time - entered, two readings of the clock taken in the kernel; the *)
(* history variables count the ticks a program really ran in user mode, so *)
(* the budgets can be compared with the truth.                             *)
(***************************************************************************)
EXTENDS Scheduler

VARIABLES
    spent,     \* user ticks of each task since its level last began
    tenure     \* user ticks of the current task since it was dispatched or boosted

hvars == <<vars, spent, tenure>>

UserTick == pc = "user" /\ clock' # clock

(* A level begins at the start of a batch, at a boost and at a demotion.   *)
LevelBegins(i) ==
    \/ pc = "begin" /\ pc' = "loop"
    \/ pc = "loop" /\ pc' = "boost" /\ state[i] # "Done"
    \/ pc = "account" /\ pc' # pc /\ level'[i] # level[i]

HInit == Init /\ spent = [i \in Ids |-> 0] /\ tenure = 0

HNext ==
    /\ Next
    /\ spent' = [i \in Ids |-> IF LevelBegins(i) THEN 0
                               ELSE IF UserTick /\ i = current THEN spent[i] + 1
                               ELSE spent[i]]
    /\ tenure' = IF UserTick THEN tenure + 1
                 ELSE IF current # NoTask /\ ~(pc = "loop" /\ pc' = "boost") THEN tenure
                 ELSE 0

HSpec == HInit /\ [][HNext]_hvars

(* Nobody outruns an allotment: neither yielding early, nor calling the    *)
(* kernel, nor being interrupted gives a task of level 0 or 1 more user    *)
(* time on that level than its allotment and one interrupt latency, and    *)
(* the pass that follows demotes it.                                       *)
AllotmentBoundsUserTime ==
    \A i \in Ids :
       Mlfq /\ state[i] # "Done" /\ level[i] < 2 =>
          /\ spent[i] <= AllotOf(level[i]) + KLAG
          /\ pc = "loop" => spent[i] < AllotOf(level[i])

(* A task that keeps the processor after a syscall is still inside the     *)
(* quantum it was dispatched with: the deadline is not renewed by calls.   *)
(* Only a boost that falls due between the trap and the top of the loop    *)
(* gives the task that keeps the processor a new slice.                    *)
CallsDoNotRenewQuantum ==
    pc = "loop" /\ current # NoTask =>
       /\ Policy = "Rr" => tenure < T
       /\ Mlfq => tenure < SliceOf(level[current])
===============================================================================
