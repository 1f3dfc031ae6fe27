------------------------------ MODULE LevelQueues ------------------------------
(***************************************************************************)
(* What the scheduler promises, without arrays, clocks or traps: one FIFO  *)
(* queue per level and one processor.  Round robin and cooperative         *)
(* scheduling use level 0 only.  The rules are those of the multi-level    *)
(* feedback queue: the best level runs, tasks of one level take turns, a   *)
(* new task starts on top, a task sinks one level at a time, and a boost   *)
(* lifts every task without reordering those that shared a level.          *)
(*                                                                         *)
(* A queue is the set of those who wait in it and the order they stand in: *)
(* nothing more is needed to say who goes next and who comes last.         *)
(***************************************************************************)
EXTENDS Integers

CONSTANTS Slots,    \* task ids 0..Slots - 1
          None      \* the processor is free

VARIABLES queue,    \* the waiting tasks of each level
          ahead,    \* <<i, k>> if i and k wait at one level, i for longer
          running,  \* the task on the processor, or None
          depth,    \* the level of the running task, 0 if there is none
          done      \* the tasks that have ended

Levels == 0..2

absVars == <<queue, ahead, running, depth, done>>

Waiting == UNION {queue[l] : l \in Levels}

(* A set in a line: of any two, one is ahead of the other.                 *)
InLine(s, order) ==
    /\ order \subseteq s \X s
    /\ \A i \in s : <<i, i>> \notin order
    /\ \A i, k \in s : i = k \/ <<i, k>> \in order \/ <<k, i>> \in order
    /\ \A i, k, m \in s : <<i, k>> \in order /\ <<k, m>> \in order => <<i, m>> \in order

Nothing == [l \in Levels |-> {}]

OnTop(s) == [l \in Levels |-> IF l = 0 THEN s ELSE {}]

AInit == queue = Nothing /\ ahead = {} /\ running = None /\ depth = 0 /\ done = 0..(Slots - 1)

(* A batch of n tasks starts when every earlier task has ended.            *)
Start ==
    /\ running = None /\ queue = Nothing
    /\ \E n \in 1..Slots :
          /\ queue' = OnTop(0..(n - 1)) /\ done' = n..(Slots - 1)
          /\ ahead' = {e \in (0..(n - 1)) \X (0..(n - 1)) : e[1] < e[2]}
    /\ UNCHANGED <<running, depth>>

(* The oldest task of the best level gets the processor.                   *)
Dispatch ==
    /\ running = None
    /\ \E l \in Levels : \E i \in queue[l] :
          /\ \A h \in Levels : h < l => queue[h] = {}
          /\ \A k \in queue[l] : <<k, i>> \notin ahead
          /\ queue' = [queue EXCEPT ![l] = @ \ {i}]
          /\ ahead' = {e \in ahead : i \notin {e[1], e[2]}}
          /\ running' = i
          /\ depth' = l
    /\ UNCHANGED done

(* A task comes last of level l.                                           *)
Join(i, l) ==
    /\ queue' = [queue EXCEPT ![l] = @ \cup {i}]
    /\ ahead' = ahead \cup (queue[l] \X {i})

(* The running task goes to the back of its level or of the next one.      *)
Preempt ==
    /\ running # None
    /\ \E l \in Levels \cap {depth, depth + 1} : Join(running, l)
    /\ running' = None /\ depth' = 0
    /\ UNCHANGED done

End ==
    /\ running # None
    /\ done' = done \cup {running}
    /\ running' = None /\ depth' = 0
    /\ UNCHANGED <<queue, ahead>>

(* Tasks that shared a level keep their order.                             *)
Boost ==
    /\ queue' = OnTop(Waiting)
    /\ InLine(Waiting, ahead') /\ ahead \subseteq ahead'
    /\ depth' = 0
    /\ UNCHANGED <<running, done>>

(* In an open system a task comes, or comes back from waiting, to the back *)
(* of a level.                                                             *)
Admit ==
    \E i \in done, l \in Levels :
       /\ Join(i, l)
       /\ done' = done \ {i}
       /\ UNCHANGED <<running, depth>>

ANext == Start \/ Dispatch \/ Preempt \/ End \/ Boost

ASpec == AInit /\ [][ANext]_absVars

AOpenNext == Admit \/ Dispatch \/ Preempt \/ End \/ Boost

AOpenSpec == AInit /\ [][AOpenNext]_absVars
================================================================================
