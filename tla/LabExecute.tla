------------------------------- MODULE LabExecute -------------------------------
(***************************************************************************)
(* execute() of tools/lab.py: one command of a grade, started as leader of *)
(* a process group, waited for with a time limit, and ended with signals.  *)
(* The command starts processes of its own in that group, QEMU for one.    *)
(***************************************************************************)
CONSTANTS
    Leader, Children,   \* the processes of the group
    Deaf                \* those of them that may be written to ignore SIGTERM

Members == {Leader} \cup Children

ASSUME ExecuteAssumption == Leader \notin Children /\ Deaf \subseteq Members

VARIABLES
    pc,           \* where execute() is
    proc,         \* new, alive, dying (a signal is on its way), dead
    stubborn,     \* the members that do not end on SIGTERM
    code,         \* the leader's exit code, or what it would be
    ended,        \* where execute() was when the leader ended, or "none"
    reaped,       \* wait() has returned the leader's code
    verdict       \* what execute() is going to return

vars == <<pc, proc, stubborn, code, ended, reaped, verdict>>

Alive == {m \in Members : proc[m] \in {"alive", "dying"}}

(* killpg(): every living member gets the signal.  SIGTERM takes its time  *)
(* and may be ignored, SIGKILL may not.                                    *)
Terminate == [m \in Members |-> IF m \in Alive \ stubborn THEN "dying" ELSE proc[m]]
Kill == [m \in Members |-> IF m \in Alive THEN "dying" ELSE proc[m]]

Start ==
    /\ pc = "start"
    /\ proc' = [proc EXCEPT ![Leader] = "alive"]
    /\ pc' = "wait"
    /\ UNCHANGED <<stubborn, code, ended, reaped, verdict>>

(***************************************************************************)
(* The command.                                                            *)
(***************************************************************************)
Spawn(c) ==
    /\ proc[c] = "new" /\ \E m \in Members : proc[m] = "alive"
    /\ proc' = [proc EXCEPT ![c] = "alive"]
    /\ UNCHANGED <<pc, stubborn, code, ended, reaped, verdict>>

(* A leader may catch SIGTERM, tidy up and exit with code 0; one that is   *)
(* killed has no exit code 0.                                              *)
Exit(m) ==
    /\ m \in Alive
    /\ proc' = [proc EXCEPT ![m] = "dead"]
    /\ IF m = Leader
       THEN code' \in (IF pc = "killed" THEN {1} ELSE {0, 1}) /\ ended' = pc
       ELSE UNCHANGED <<code, ended>>
    /\ UNCHANGED <<pc, stubborn, reaped, verdict>>

(***************************************************************************)
(* execute().                                                              *)
(***************************************************************************)
WaitEnds ==
    /\ pc = "wait" /\ proc[Leader] = "dead"
    /\ reaped' = TRUE
    /\ verdict' = IF code = 0 THEN "pass" ELSE "fail"
    /\ pc' = "term"
    /\ UNCHANGED <<proc, stubborn, code, ended>>

Timeout == "timeout"

(* 120 seconds have passed.                                                *)
WaitTimesOut ==
    /\ pc = "wait"
    /\ verdict' = Timeout
    /\ pc' = "term"
    /\ UNCHANGED <<proc, stubborn, code, ended, reaped>>

(* SIGTERM to the group, or ProcessLookupError if nobody is left.          *)
SendTerm ==
    /\ pc = "term"
    /\ proc' = Terminate
    /\ pc' = "reap"
    /\ UNCHANGED <<stubborn, code, ended, reaped, verdict>>

(* Mutant: the code is read once more when the leader has gone.            *)
LateVerdict == IF code = 0 THEN "pass" ELSE verdict

(* What was settled before the signals stays.                              *)
FinalVerdict == verdict

(* wait() returns at once if the leader was reaped before.                 *)
LeaderGone ==
    /\ pc \in {"reap", "killed"} /\ (reaped \/ proc[Leader] = "dead")
    /\ reaped' = TRUE
    /\ verdict' = FinalVerdict
    /\ pc' = "done"
    /\ UNCHANGED <<proc, stubborn, code, ended>>

(* Mutant: the leader is given all the time it wants.                      *)
NeverKills == FALSE

LosesPatience == pc = "reap" /\ ~reaped

(* 2 seconds, then SIGKILL to the group and a wait without a limit.        *)
SendKill ==
    /\ LosesPatience
    /\ proc' = Kill
    /\ pc' = "killed"
    /\ UNCHANGED <<stubborn, code, ended, reaped, verdict>>

Return == pc = "done" /\ UNCHANGED vars

Init ==
    /\ pc = "start"
    /\ proc = [m \in Members |-> "new"]
    /\ stubborn \in SUBSET Deaf
    /\ code = 0 /\ ended = "none" /\ reaped = FALSE
    /\ verdict = "none"

Execute == Start \/ WaitEnds \/ WaitTimesOut \/ SendTerm \/ LeaderGone \/ SendKill

Next ==
    \/ Execute \/ Return
    \/ \E c \in Children : Spawn(c)
    \/ \E m \in Members : Exit(m)

Spec == Init /\ [][Next]_vars

(* execute() goes on, its waits have limits, and a process a signal is to  *)
(* end does end.  Nothing else about the command is fair.                  *)
Fairness ==
    /\ WF_vars(Execute)
    /\ \A m \in Members : WF_vars(proc[m] = "dying" /\ Exit(m))

(***************************************************************************)
(* Properties.                                                             *)
(***************************************************************************)
(* What execute() returns is TIMEOUT, or it is the exit code of a leader   *)
(* that ended in time, before any signal: one that ends later has timed    *)
(* out whatever its code, even if it answers SIGTERM with exit(0).         *)
VerdictInTime ==
    pc = "done" =>
        \/ verdict = Timeout
        \/ ended = "wait" /\ verdict = (IF code = 0 THEN "pass" ELSE "fail")

(* execute() returns, with the leader reaped, from whatever command.       *)
ExecuteReturns == <>(pc = "done" /\ reaped)

(* labs/VERIFICATION.md and labs/README.md: a command that exceeds its     *)
(* time is a failure, and its process group is ended.  At the least, when  *)
(* the leader has ended on SIGTERM no process of the group should be left  *)
(* running that no signal is going to end.                                 *)
TimeoutEndsTheGroup ==
    pc = "done" /\ verdict = Timeout /\ ended = "reap" =>
        \A m \in Members : proc[m] # "alive"
================================================================================
