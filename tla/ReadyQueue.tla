------------------------------ MODULE ReadyQueue ------------------------------
(***************************************************************************)
(* The scheduler's run queue (struct Ready in src/scheduler.rs): a fixed   *)
(* array of task ids and a length.  Operators only; the module Scheduler   *)
(* holds the queue in a variable.                                          *)
(***************************************************************************)
EXTENDS Integers

CONSTANT N          \* capacity of the queue and number of task slots

(* The self-test below needs room for a duplicate next to the first entry; *)
(* the source has N = 4.                                                   *)
ASSUME NAssumption == N \in Nat /\ N > 1

Ids == 0..(N - 1)

Queues == [ids : [Ids -> Ids], len : 0..N]

EmptyQueue == [ids |-> [p \in Ids |-> 0], len |-> 0]

(* The live part of the array, ids[..len].                                 *)
Positions(q) == 0..(q.len - 1)

Members(q) == {q.ids[p] : p \in Positions(q)}

(* The three refusals of push(), in the order the code tests them.         *)
PushResult(q, id) ==
    IF id \notin Ids THEN "bad task id"
    ELSE IF q.len = N THEN "queue full"
    ELSE IF id \in Members(q) THEN "duplicate task"
    ELSE "ok"

(* A refused push leaves the queue as it was.                              *)
Push(q, id) ==
    IF PushResult(q, id) = "ok"
    THEN [ids |-> [q.ids EXCEPT ![q.len] = id], len |-> q.len + 1]
    ELSE q

(* Mutants of the pop: plain FIFO under every policy; the newest task of   *)
(* the best level; the newest task.                                        *)
PopFifo(q, level, mlfq, p) == p \in Positions(q) /\ p = 0
PopNewestOfLevel(q, level, mlfq, p) ==
    /\ p \in Positions(q)
    /\ \A o \in Positions(q) :
          \/ level[q.ids[p]] < level[q.ids[o]]
          \/ level[q.ids[p]] = level[q.ids[o]] /\ p >= o
PopNewest(q, level, mlfq, p) == p \in Positions(q) /\ p = q.len - 1

(* min_by_key returns the first of several minima, so the multi-level pop  *)
(* takes the oldest task of the best level; the other policies take pos 0. *)
IsPopPosition(q, level, mlfq, p) ==
    /\ p \in Positions(q)
    /\ IF mlfq
       THEN \A o \in Positions(q) :
               \/ level[q.ids[p]] < level[q.ids[o]]
               \/ level[q.ids[p]] = level[q.ids[o]] /\ p <= o
       ELSE p = 0

(* Mutants of the removal: always the oldest entry; a tail that moves one  *)
(* place too late.                                                         *)
RemoveOldest(q, p) ==
    [ids |-> [k \in Ids |-> IF k + 1 < q.len THEN q.ids[k + 1] ELSE q.ids[k]],
     len |-> q.len - 1]
RemoveAfter(q, p) ==
    [ids |-> [k \in Ids |-> IF p < k /\ k + 1 < q.len THEN q.ids[k + 1] ELSE q.ids[k]],
     len |-> q.len - 1]

(* copy_within(pos + 1..len, pos) moves the tail one place to the left.    *)
RemoveAt(q, p) ==
    [ids |-> [k \in Ids |-> IF p <= k /\ k + 1 < q.len THEN q.ids[k + 1]
                                                       ELSE q.ids[k]],
     len |-> q.len - 1]

Unique(q) == \A p, o \in Positions(q) : q.ids[p] = q.ids[o] => p = o

(* check(): every queued task is Ready, every Ready task is queued exactly *)
(* once, no more than count entries, at most one task Running.             *)
CheckPasses(q, state, count) ==
    /\ q.len <= count
    /\ \A p \in Positions(q) : state[q.ids[p]] = "Ready"
    /\ Unique(q)
    /\ \A i \in 0..(count - 1) : state[i] = "Ready" => i \in Members(q)
    /\ \A i, j \in 0..(count - 1) :
          state[i] = "Running" /\ state[j] = "Running" => i = j

(* The empty queue after push(0), ..., push(n - 1), and the full one after *)
(* k pops from the front.                                                  *)
Loaded(n) == [ids |-> [p \in Ids |-> IF p < n THEN p ELSE 0], len |-> n]

Drained(k) == [ids |-> [p \in Ids |-> IF p + k < N THEN p + k ELSE N - 1],
               len |-> N - k]

(* The queue self-test at the start of every batch: fill an empty queue,   *)
(* refuse a duplicate and an overflow, drain it in order.                  *)
ProbePasses ==
    /\ Loaded(0) = EmptyQueue
    /\ \A k \in Ids : /\ PushResult(Loaded(k), k) = "ok"
                      /\ Push(Loaded(k), k) = Loaded(k + 1)
    /\ PushResult(Loaded(1), 0) = "duplicate task"
    /\ PushResult(Loaded(N), 0) = "queue full"
    /\ \A k \in Ids : /\ Drained(k).ids[0] = k
                      /\ RemoveAt(Drained(k), 0) = Drained(k + 1)
    /\ Drained(0) = Loaded(N)
    /\ Drained(N).len = 0
===============================================================================
