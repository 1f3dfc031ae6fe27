------------------------------ MODULE SchedulingSim ------------------------------
(***************************************************************************)
(* simulate() of experiments/scheduling.py (lesson 11): first come first   *)
(* served, shortest job first and round robin over whole slices.  A round  *)
(* of the loop is two steps: bring in who is due, run the next job.        *)
(***************************************************************************)
EXTENDS Integers, Sequences, FiniteSetsExt, SequencesExt

CONSTANTS
    NJobs,        \* jobs 0..NJobs - 1, in input order
    Workloads,    \* the job lists to simulate
    Policies,     \* "fcfs", "sjf", "rr"
    Quantum

None == -1
Jobs == 0..(NJobs - 1)

(* Assumed by the module that instantiates this one.                       *)
SchedulingAssumption ==
    /\ NJobs \in Nat
    /\ \A w \in Workloads : \A i \in Jobs : w[i].arrival \in Nat /\ w[i].service \in Nat
    /\ Policies \subseteq {"fcfs", "sjf", "rr"}
    /\ Quantum \in Nat \ {0}

VARIABLES
    jobs, policy,
    now, pending, ready,      \* pending by arrival, then in input order
    remaining, first, done,   \* of each job; None before
    chosen                    \* the round is past its `if not ready: continue`

vars == <<jobs, policy, now, pending, ready, remaining, first, done, chosen>>

ByArrival(w) ==
    SetToSortSeq(Jobs, LAMBDA a, b : \/ w[a].arrival < w[b].arrival
                                     \/ w[a].arrival = w[b].arrival /\ a < b)

Init ==
    /\ jobs \in Workloads /\ policy \in Policies
    /\ now = 0 /\ pending = ByArrival(jobs) /\ ready = <<>>
    /\ remaining = [i \in Jobs |-> jobs[i].service]
    /\ first = [i \in Jobs |-> None] /\ done = [i \in Jobs |-> None]
    /\ chosen = FALSE

(* arrive() at time t: a job without work is done when it arrives.         *)
Due(t) == SelectSeq(pending, LAMBDA i : jobs[i].arrival <= t)
Comers(t) == SelectSeq(Due(t), LAMBDA i : jobs[i].service # 0)
Finished(times, t) ==
    [i \in Jobs |-> IF i \in ToSet(Due(t)) /\ jobs[i].service = 0
                    THEN jobs[i].arrival ELSE times[i]]

Ended == pending = <<>> /\ ready = <<>>

(* Mutants: an idle processor does not skip to the next arrival, or waits  *)
(* one tick too long.                                                      *)
NeverWakes == now
LateWake == IF ready # <<>> THEN now ELSE Max({now + 1, jobs[Head(pending)].arrival})

Wake == IF ready # <<>> THEN now ELSE Max({now, jobs[Head(pending)].arrival})

BringIn ==
    /\ ~chosen /\ ~Ended
    /\ now' = Wake
    /\ pending' = SelectSeq(pending, LAMBDA i : jobs[i].arrival > Wake)
    /\ ready' = ready \o Comers(Wake)
    /\ first' = Finished(first, Wake) /\ done' = Finished(done, Wake)
    /\ chosen' = (ready' # <<>>)
    /\ UNCHANGED <<jobs, policy, remaining>>

(* Mutant: the job that is first in the input is taken for the shortest.   *)
Shorter(i, k) == i < k

Before(i, k) ==
    \/ remaining[i] < remaining[k]
    \/ remaining[i] = remaining[k] /\ jobs[i].arrival < jobs[k].arrival
    \/ remaining[i] = remaining[k] /\ jobs[i].arrival = jobs[k].arrival /\ i < k

Choice == IF policy = "sjf" THEN CHOOSE i \in ToSet(ready) :
                                   \A k \in ToSet(ready) : k = i \/ Before(i, k)
                            ELSE Head(ready)

(* Mutant: the job that ran is queued before those who came meanwhile.     *)
KeepsPlace(queue, comers, old) == queue \o old \o comers

Requeued(queue, comers, old) == queue \o comers \o old

Run ==
    /\ chosen
    /\ LET i == Choice
           duration == IF policy = "rr" THEN Min({remaining[i], Quantum}) ELSE remaining[i]
           end == now + duration
           left == remaining[i] - duration
       IN /\ now' = end
          /\ remaining' = [remaining EXCEPT ![i] = left]
          /\ first' = Finished([first EXCEPT ![i] = IF @ = None THEN now ELSE @], end)
          /\ done' = Finished([done EXCEPT ![i] = IF left = 0 THEN end ELSE @], end)
          /\ pending' = SelectSeq(pending, LAMBDA k : jobs[k].arrival > end)
          /\ ready' = Requeued(Remove(ready, i), Comers(end), IF left = 0 THEN <<>> ELSE <<i>>)
    /\ chosen' = FALSE
    /\ UNCHANGED <<jobs, policy>>

Stop == ~chosen /\ Ended /\ UNCHANGED vars

Next == BringIn \/ Run \/ Stop

Spec == Init /\ [][Next]_vars

(* A program that computes keeps computing.                                *)
FairSpec == Spec /\ WF_vars(BringIn \/ Run)

(***************************************************************************)
(* Properties.                                                             *)
(***************************************************************************)
Total(times) == MapThenSumSet(LAMBDA i : times[i], Jobs)

(* What the sum of the completion times is if jobs that are all there at   *)
(* the start run in the order p.                                           *)
InOrderTotal(p) ==
    MapThenSumSet(LAMBDA k : MapThenSumSet(LAMBDA m : jobs[p[m]].service, 1..k), 1..NJobs)

(* Of all orders of jobs that arrive together, shortest first has the      *)
(* least turnaround; and no policy does better than it.                    *)
SjfIsBest ==
    Ended /\ ~chosen /\ (\A i \in Jobs : jobs[i].arrival = 0) =>
      LET best == Min({InOrderTotal(p) : p \in SetToSeqs(Jobs)})
      IN IF policy = "sjf" THEN Total(done) = best ELSE Total(done) >= best

(* The processor is idle only while nobody has arrived: whatever the       *)
(* policy, the last job ends when work arriving like this must end.        *)
WorkIsConserved ==
    LET busyUntil == FoldLeft(LAMBDA t, i : IF jobs[i].service = 0 THEN t
                                             ELSE Max({t, jobs[i].arrival}) + jobs[i].service,
                              0, ByArrival(jobs))
    IN /\ Ended /\ ~chosen => now = Max({busyUntil} \cup {jobs[i].arrival : i \in Jobs})
       /\ \A i \in Jobs : first[i] # None => first[i] >= jobs[i].arrival
================================================================================
