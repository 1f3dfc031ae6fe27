--------------------------------- MODULE MlfqSim ---------------------------------
(***************************************************************************)
(* simulate() of experiments/mlfq.py: the policies of lessons 14 and 15 on *)
(* model ticks, with jobs that arrive late, yield and wait for I/O, which  *)
(* the kernel's tasks cannot.  Everything is decided by the workload, so   *)
(* the initial states are the workloads; within a round the steps are      *)
(* those of the loop body, one arrival at a time.                          *)
(***************************************************************************)
EXTENDS Integers, Sequences, FiniteSetsExt, SequencesExt

CONSTANTS
    NJobs,        \* jobs 0..NJobs - 1, in input order
    Workloads,    \* the job lists to simulate
    Policies,     \* "rr", "mlfq"
    Periods       \* boost periods, in ticks

None == -1
Jobs == 0..(NJobs - 1)

(* A burst of 0 is a job without voluntary scheduling points, a wait of 0  *)
(* one that yields at them.                                                *)
JobSpecs == [arrival : Nat, service : Nat, burst : Nat, wait : Nat]

ASSUME SimAssumption ==
    /\ NJobs \in Nat
    /\ Workloads \subseteq [Jobs -> JobSpecs]
    /\ \A w \in Workloads : \A i \in Jobs : w[i].wait = 0 \/ w[i].burst # 0
    /\ Policies \subseteq {"rr", "mlfq"}
    /\ Periods \subseteq Nat \ {0}

VARIABLES
    jobs, policy, period,
    now, nextBoost, current,
    ready,        \* one list for all levels, oldest first
    s,            \* what simulate() keeps of each job, and ticks, see Tick
    pc, at,       \* the part of the round, and the job its arrival loop is at
    off, sunk     \* finished or voluntary or expired; demoted in this round

vars == <<jobs, policy, period, now, nextBoost, current, ready, s, pc, at, off, sunk>>

input == <<jobs, policy, period>>

Mlfq == policy = "mlfq"

Slice(l) == CASE l = 0 -> 2 [] l = 1 -> 4 [] l = 2 -> 8
Allot(l) == CASE l = 0 -> 4 [] l = 1 -> 8 [] l = 2 -> 0

(* first and done are None until the job is first run and has ended.       *)
NewJob(j) ==
    [left |-> j.service, level |-> 0, slice |-> 2, allot |-> 4, used |-> 0,
     wake |-> j.arrival, state |-> "new", first |-> None, done |-> None,
     readyAt |-> 0, maxWait |-> 0, ticks |-> 0]

Init ==
    /\ jobs \in Workloads /\ policy \in Policies /\ period \in Periods
    /\ now = 0 /\ nextBoost = period /\ current = None /\ ready = <<>>
    /\ s = [i \in Jobs |-> NewJob(jobs[i])]
    /\ pc = "top" /\ at = 0
    /\ off = FALSE /\ sunk = FALSE

(***************************************************************************)
(* One round of the loop.                                                  *)
(***************************************************************************)
(* Mutant: a job that comes back starts afresh on top.                     *)
Refreshed(job) ==
    [job EXCEPT !.state = "ready", !.readyAt = now, !.level = 0, !.slice = 2, !.allot = 4]

Returning(job) == [job EXCEPT !.state = "ready", !.readyAt = now]

(* Both loops over new and blocked jobs, at the top of the round and after *)
(* a tick: whoever is due is queued, in input order.                       *)
Arrive ==
    /\ at < NJobs
    /\ at' = at + 1
    /\ IF s[at].state \notin {"new", "blocked"} \/ s[at].wake > now
       THEN UNCHANGED <<s, ready>>
       ELSE IF s[at].left = 0
       THEN /\ s' = [s EXCEPT ![at].first = now, ![at].done = now, ![at].state = "done"]
            /\ UNCHANGED ready
       ELSE s' = [s EXCEPT ![at] = Returning(@)] /\ ready' = Append(ready, at)
    /\ UNCHANGED <<input, now, nextBoost, current, pc, off, sunk>>

Arrived(from, to) ==
    /\ pc = from /\ at = NJobs
    /\ pc' = to /\ at' = 0
    /\ UNCHANGED <<input, now, nextBoost, current, ready, s, off, sunk>>

Finished == \A i \in Jobs : s[i].done # None

(* The loop's condition is tested at the top only: a round that finds the   *)
(* last jobs without work is an idle one.                                  *)
TopArrivals ==
    pc = "top" /\ (at = 0 => ~Finished) /\ (Arrive \/ Arrived("top", "boost"))

End == pc = "top" /\ at = 0 /\ Finished /\ UNCHANGED vars

(* Mutant: the boost is never due.                                         *)
Never == FALSE

BoostDue == Mlfq /\ now >= nextBoost

(* Waiting for I/O goes on, on top.                                        *)
Boost ==
    /\ pc = "boost"
    /\ IF BoostDue
       THEN /\ s' = [i \in Jobs |->
                       IF s[i].done # None THEN s[i]
                       ELSE [s[i] EXCEPT !.level = 0, !.slice = 2, !.allot = 4,
                                         !.ticks = 0]]
            /\ nextBoost' = (now \div period + 1) * period
       ELSE UNCHANGED <<s, nextBoost>>
    /\ pc' = "select"
    /\ UNCHANGED <<input, now, current, ready, at, off, sunk>>

(* Mutants of the choice: the oldest job of any level; the newest of the   *)
(* best one.                                                               *)
OldestOfAll(k) == k = 1
NewestOfBest(k) ==
    \A m \in DOMAIN ready : \/ s[ready[k]].level < s[ready[m]].level
                            \/ s[ready[k]].level = s[ready[m]].level /\ k >= m

(* min() returns the first of several minima.                              *)
IsChoice(k) ==
    IF Mlfq THEN \A m \in DOMAIN ready : \/ s[ready[k]].level < s[ready[m]].level
                                         \/ s[ready[k]].level = s[ready[m]].level /\ k <= m
            ELSE k = 1

Select ==
    /\ pc = "select" /\ current = None /\ ready # <<>>
    /\ \E k \in DOMAIN ready :
          /\ IsChoice(k)
          /\ current' = ready[k]
          /\ ready' = RemoveAt(ready, k)
    /\ LET i == current'
           waited == now - s[i].readyAt
       IN s' = [s EXCEPT ![i].state = "running",
                         ![i].maxWait = IF waited > @ THEN waited ELSE @,
                         ![i].first = IF @ = None THEN now ELSE @]
    /\ pc' = "tick"
    /\ UNCHANGED <<input, now, nextBoost, at, off, sunk>>

KeepRunning ==
    /\ pc = "select" /\ current # None
    /\ pc' = "tick"
    /\ UNCHANGED <<input, now, nextBoost, current, ready, s, at, off, sunk>>

(* Mutant: idling waits for arrivals and not for I/O.                      *)
FutureArrivals == {s[i].wake : i \in {k \in Jobs : s[k].state = "new"}}

Future == {s[i].wake : i \in {k \in Jobs : s[k].state \in {"new", "blocked"}}}

(* Nobody is ready: on to the next arrival or wake-up.                     *)
Idle ==
    /\ pc = "select" /\ current = None /\ ready = <<>>
    /\ now' = IF Future = {} THEN now ELSE Min(Future)
    /\ pc' = "top"
    /\ UNCHANGED <<input, nextBoost, current, ready, s, at, off, sunk>>

Sinks(job) == Mlfq /\ job.left # 0 /\ job.level < 2 /\ job.allot = 0

(* The tick is charged, then the job's own next state follows.  ticks, not *)
(* in the code, counts the job's ticks on its level since it got there.    *)
Tick ==
    /\ pc = "tick"
    /\ LET old == s[current]
           j == jobs[current]
           job == [old EXCEPT !.left = @ - 1, !.used = @ + 1, !.slice = @ - 1,
                              !.allot = IF old.level = 2 THEN @ ELSE @ - 1,
                              !.ticks = @ + 1]
           voluntary == j.burst # 0 /\ job.used % j.burst = 0
           settled ==
             IF Sinks(job)
             THEN [job EXCEPT !.level = @ + 1, !.slice = Slice(old.level + 1),
                              !.allot = Allot(old.level + 1), !.ticks = 0]
             ELSE [job EXCEPT !.slice = IF @ # 0 THEN @ ELSE Slice(old.level)]
       IN /\ s' = [s EXCEPT ![current] =
                     IF job.left = 0 THEN [settled EXCEPT !.state = "done", !.done = now + 1]
                     ELSE IF voluntary /\ j.wait # 0
                     THEN [settled EXCEPT !.state = "blocked", !.wake = now + 1 + j.wait]
                     ELSE settled]
          /\ off' = (job.left = 0 \/ voluntary \/ job.slice = 0 \/ Sinks(job))
          /\ sunk' = Sinks(job)
    /\ now' = now + 1
    /\ pc' = "arrive"
    /\ UNCHANGED <<input, nextBoost, current, ready, at>>

TickArrivals == pc = "arrive" /\ (Arrive \/ Arrived("arrive", "requeue"))

(* Mutant: only its own tick takes a job off the processor.                *)
NoHigher == FALSE

Higher == Mlfq /\ \E k \in ToSet(ready) : s[k].level < s[current].level

(* Behind the arrivals of this tick.                                       *)
Requeue ==
    /\ pc = "requeue"
    /\ IF ~(off \/ Higher \/ BoostDue) THEN UNCHANGED <<s, ready, current>>
       ELSE /\ current' = None
            /\ IF s[current].state = "running"
               THEN /\ s' = [s EXCEPT ![current].state = "ready", ![current].readyAt = now]
                    /\ ready' = Append(ready, current)
               ELSE UNCHANGED <<s, ready>>
    /\ pc' = "top" /\ sunk' = FALSE /\ off' = FALSE
    /\ UNCHANGED <<input, now, nextBoost, at>>

Step ==
    \/ TopArrivals \/ Boost \/ Select \/ KeepRunning \/ Idle
    \/ Tick \/ TickArrivals \/ Requeue

Next == Step \/ End

Spec == Init /\ [][Next]_vars

(* A program that computes keeps computing.                                *)
FairSpec == Spec /\ WF_vars(Step)

(***************************************************************************)
(* Properties.                                                             *)
(***************************************************************************)
(* No tick is given to a job while a better level waits, after demotions,  *)
(* arrivals, wake-ups and boosts at one and the same instant.              *)
BestLevelRuns ==
    pc = "tick" /\ Mlfq => \A k \in ToSet(ready) : s[current].level <= s[k].level

(* Yields and I/O buy no more time on a level than its allotment, from     *)
(* when the job came there until it sinks or the next boost.               *)
AccountingSurvives ==
    Mlfq => \A i \in Jobs : s[i].level < 2 => s[i].ticks <= Allot(s[i].level)

(* No ready job waits longer than to the next boost and one slice of       *)
(* everybody else, or under round robin that slice alone.                  *)
WaitIsBounded ==
    \A i \in Jobs :
       s[i].maxWait <= (IF Mlfq THEN period ELSE 0) + 2 * (NJobs - 1)
================================================================================
