-------------------------------- MODULE UserRun --------------------------------
(***************************************************************************)
(* Lessons 6 to 10: the process model (src/process.rs), the runs of one    *)
(* process at a time of src/user.rs (lessons 7 to 9) and src/user10.rs     *)
(* (lesson 10), and the programs they run.  What survives a process are    *)
(* the stacks it used and the mailbox in which the handler leaves its end  *)
(* for the manager.  How the hart gets from one to the other is the        *)
(* business of TrapBridge.                                                 *)
(***************************************************************************)
EXTENDS Syscall

CONSTANTS
    Builds,       \* the cargo features: one checkpoint per kernel image
    StressRuns,   \* runs of the stress program, 100 in the code
    PidLimits     \* largest PIDs to look at, u64::MAX in the code

ASSUME UserRunAssumption ==
    /\ Builds \subseteq {"lesson07", "lesson08", "lesson09", "lesson10"}
    /\ StressRuns \in Nat \ {0}
    /\ PidLimits \subseteq Nat

VARIABLES
    build, pidMax,          \* the kernel image, its largest PID
    index,                  \* the run in progress
    pc, panicked,
    next,                   \* PidAllocator::next, then the PID of the next run
    pid, state,             \* the process: Ready, Running, or its end
    at, failing,            \* the next trapping instruction, in main or fail
    mailbox,                \* LAST_EXIT_CODE or ACTIVE.outcome
    userStack, trapStack,   \* whose data they hold, 0 after a clear
    console, results        \* bytes sent; how each run ended

image == <<build, pidMax>>

vars == <<image, index, pc, panicked, next, pid, state, at, failing, mailbox,
          userStack, trapStack, console, results>>

userVars == <<at, failing, userStack, trapStack>>

(***************************************************************************)
(* Process states, and what the handler leaves in the mailbox.  The sepc   *)
(* of a fault is given by its place in the program.                        *)
(***************************************************************************)
Ready == [kind |-> "Ready", code |-> 0]
Running == [kind |-> "Running", code |-> 0]
Exited(code) == [kind |-> "Exited", code |-> code]
Faulted(place) == [kind |-> "Faulted", code |-> place]
Ended == {"Exited", "Faulted"}

Nothing == [kind |-> "nothing", code |-> 0]

(***************************************************************************)
(* The programs, each by its trapping instructions: the call, whether the  *)
(* kernel has the label of this ecall, and the result without which the    *)
(* program goes to its fail branch (ANY: it does not look).  After either  *)
(* branch comes a jump to itself.  A text is shortened to its first byte.  *)
(***************************************************************************)
ANY == 1
ILLEGAL == 0

Call(number, arg, known, want) ==
    [number |-> number, arg |-> arg, known |-> known, want |-> want]

Ecall == [main |-> <<Call(1, 85, TRUE, ANY)>>, fail |-> <<>>]

(* 'O' of OK, 'F' on failure.                                              *)
Syscalls ==
    [main |-> <<Call(999, 0, TRUE, -1), Call(PUTCHAR, 256, TRUE, -2),
                Call(PUTCHAR, 79, TRUE, 0)>>,
     fail |-> <<Call(PUTCHAR, 70, FALSE, ANY)>>]

(* 'B' of BAD_AFTER_EXIT.                                                  *)
ExitDemo ==
    [main |-> <<Call(EXIT, 256, TRUE, -2), Call(EXIT, 7, TRUE, ANY),
                Call(PUTCHAR, 66, FALSE, ANY)>>,
     fail |-> <<>>]

ExitStress == [main |-> <<Call(EXIT, 0, TRUE, ANY)>>, fail |-> <<>>]

Illegal == [main |-> <<Call(ILLEGAL, 0, FALSE, ANY)>>, fail |-> <<>>]

(* 'O' of OK, 'A' of AFTER_FAULT_OK, 'B' of BAD_EXIT_RETURN.               *)
AfterFault ==
    [main |-> <<Call(999, 0, FALSE, -1), Call(PUTCHAR, 256, FALSE, -2),
                Call(PUTCHAR, 79, FALSE, ANY), Call(PUTCHAR, 65, FALSE, ANY),
                Call(EXIT, 0, FALSE, ANY), Call(PUTCHAR, 66, FALSE, ANY)>>,
     fail |-> <<Call(EXIT, 99, FALSE, ANY)>>]

(* The runs of a build, with the end its manager insists on.               *)
Runs(b) ==
    LET Stress == [k \in 1..StressRuns |-> [program |-> ExitStress, expect |-> Exited(0)]]
    IN CASE b = "lesson07" -> <<[program |-> Ecall, expect |-> Nothing]>>
         [] b = "lesson08" -> <<[program |-> Syscalls, expect |-> Nothing]>>
         [] b = "lesson09" -> <<[program |-> ExitDemo, expect |-> Exited(7)]>> \o Stress
         [] b = "lesson10" -> <<[program |-> ExitDemo, expect |-> Exited(7)],
                                [program |-> Illegal, expect |-> Faulted(1)],
                                [program |-> AfterFault, expect |-> Exited(0)]>> \o Stress

Run == Runs(build)[index]
Code == IF failing THEN Run.program.fail ELSE Run.program.main
Trapping == Code[at]

Panic(what) == pc' = "panic" /\ panicked' = what

(***************************************************************************)
(* Process::transition(): Ready to Running to one of the ends.             *)
(***************************************************************************)
(* Mutant: an ended process may start again.                               *)
AllowsRestart(from, to) ==
    \/ from.kind # "Running" /\ to.kind = "Running"
    \/ from.kind = "Running" /\ to.kind \in Ended

Allowed(from, to) ==
    \/ from.kind = "Ready" /\ to.kind = "Running"
    \/ from.kind = "Running" /\ to.kind \in Ended

(* A refused transition leaves the state alone, and start() and finish_*() *)
(* panic on one.                                                           *)
Transition(to, after) ==
    IF Allowed(state, to)
    THEN state' = to /\ pc' = after /\ UNCHANGED panicked
    ELSE Panic("transition") /\ UNCHANGED state

(***************************************************************************)
(* run_lesson06_model(): two processes of one program, each run to         *)
(* Exited(0); the first, once ended, must refuse to run again.             *)
(***************************************************************************)
(* Mutant: PIDs begin again from 0.                                        *)
WrappingAdd(id) == IF id < pidMax THEN id + 1 ELSE 0

(* pidMax + 1 stands for the None of checked_add(1).                       *)
CheckedAdd(id) == id + 1

IsPid(id) == id <= pidMax

(* allocate() advances before it returns, so pidMax is never given out.    *)
ModelAllocate ==
    /\ pc \in {"boot", "model_second"}
    /\ IF IsPid(CheckedAdd(next))
       THEN /\ pid' = next /\ next' = CheckedAdd(next)
            /\ state' = Ready
            /\ pc' = "model_run" /\ UNCHANGED panicked
       ELSE Panic("PID overflow") /\ UNCHANGED <<pid, next, state>>
    /\ UNCHANGED <<image, index, userVars, mailbox, console, results>>

ModelRun ==
    /\ pc = "model_run"
    /\ Transition(Running, "model_exit")
    /\ UNCHANGED <<image, index, next, pid, userVars, mailbox, console, results>>

ModelExit ==
    /\ pc = "model_exit"
    /\ Transition(Exited(0), IF pid = 1 THEN "model_reject" ELSE "prepare")
    /\ UNCHANGED <<image, index, next, pid, userVars, mailbox, console, results>>

ModelReject ==
    /\ pc = "model_reject"
    /\ IF Allowed(state, Running)
       THEN Panic("restarted") /\ state' = Running
       ELSE pc' = "model_second" /\ UNCHANGED <<state, panicked>>
    /\ UNCHANGED <<image, index, next, pid, userVars, mailbox, console, results>>

(***************************************************************************)
(* One run.                                                                *)
(***************************************************************************)
(* prepare_process(): a new process and start().  Lesson 10 clears the     *)
(* stacks first, lesson 9 relies on the clear after the previous run.  The *)
(* PIDs of the runs follow the allocator's next one, without it; lesson    *)
(* 10's plain + panics in the dev profile, like the others' checked_add.   *)
Prepare ==
    /\ pc = "prepare"
    /\ IF IsPid(next)
       THEN /\ pid' = next /\ next' = CheckedAdd(next)
            /\ state' = Running
            /\ IF build = "lesson10" THEN userStack' = 0 /\ trapStack' = 0
                                     ELSE UNCHANGED <<userStack, trapStack>>
            /\ pc' = "enter" /\ UNCHANGED panicked
       ELSE Panic("PID overflow") /\ UNCHANGED <<pid, next, state, userStack, trapStack>>
    /\ UNCHANGED <<image, index, at, failing, mailbox, console, results>>

(* The mailbox is emptied for this run, and the program entered.           *)
Enter ==
    /\ pc = "enter"
    /\ mailbox' = IF build \in {"lesson09", "lesson10"} THEN Nothing ELSE mailbox
    /\ at' = 1 /\ failing' = FALSE
    /\ pc' = "user"
    /\ UNCHANGED <<image, index, panicked, next, pid, state, userStack, trapStack, console,
                   results>>

(* The program runs to its next trapping instruction.  It may have used    *)
(* its stack, and the trap saves its registers on the trap stack.          *)
UserTraps ==
    /\ pc = "user" /\ at <= Len(Code)
    /\ userStack' \in {userStack, pid} /\ trapStack' = pid
    /\ pc' = "trap"
    /\ UNCHANGED <<image, index, panicked, next, pid, state, at, failing, mailbox, console,
                   results>>

(* Done, or a failure nothing shows: the jump to itself.                   *)
UserSpins == pc = "user" /\ at > Len(Code) /\ UNCHANGED vars

(* handle_lesson07() prints its evidence and stops.                        *)
Evidence ==
    /\ pc = "trap" /\ build = "lesson07"
    /\ pc' = "stop"
    /\ UNCHANGED <<image, index, panicked, next, pid, state, userVars, mailbox, console,
                   results>>

Served == Dispatch(Trapping.number, Trapping.arg)

(* Lessons 8 and 9 expect ecalls only, and know the labels of theirs;      *)
(* exit() is not for lesson 8.                                             *)
Expected ==
    build \in {"lesson08", "lesson09"} =>
        /\ Trapping.number # ILLEGAL
        /\ Trapping.known
        /\ build = "lesson08" => Served.kind = "Return"

(* Mutant: exit() resumes its caller.                                      *)
OnlyFaultsEnd == Trapping.number = ILLEGAL

GivesUp == Trapping.number = ILLEGAL \/ Served.kind = "Exit"

(* Mutant: an error is returned as success.                                *)
HidesErrors(value) == 0

ResultOf(value) == value

(* The result goes to a0 and the program goes on behind its ecall.         *)
HandleReturn ==
    /\ pc = "trap" /\ build # "lesson07" /\ Expected /\ ~GivesUp
    /\ console' = console \o Served.out
    /\ IF Trapping.want \in {ANY, ResultOf(Served.value)}
       THEN at' = at + 1 /\ UNCHANGED failing
       ELSE at' = 1 /\ failing' = TRUE
    /\ pc' = "user"
    /\ UNCHANGED <<image, index, panicked, next, pid, state, mailbox, userStack, trapStack,
                   results>>

(* Mutant: the end of the first run is reported again.                     *)
FirstEnd == IF results = <<>> THEN Exited(Served.value) ELSE results[1]

Completion == IF Trapping.number = ILLEGAL THEN Faulted(at) ELSE Exited(Served.value)

(* An exit or a fault: the completion for the manager, and no way back.    *)
(* A trap the lesson does not expect is a panic.                           *)
HandleEnd ==
    /\ pc = "trap" /\ build # "lesson07" /\ (Expected => GivesUp)
    /\ IF Expected
       THEN mailbox' = Completion /\ pc' = "take" /\ UNCHANGED panicked
       ELSE Panic("unexpected trap") /\ UNCHANGED mailbox
    /\ UNCHANGED <<image, index, next, pid, state, userVars, console, results>>

(* Back in the manager: take the completion and commit it to the process.  *)
(* Lesson 9 looks at it before the commit, lesson 10 at the end.           *)
Take ==
    /\ pc = "take"
    /\ mailbox' = Nothing
    /\ IF mailbox = Nothing \/ (build = "lesson09" /\ mailbox # Run.expect)
       THEN Panic("completion") /\ UNCHANGED <<state, results>>
       ELSE Transition(mailbox, "clear") /\ results' = Append(results, mailbox)
    /\ UNCHANGED <<image, index, next, pid, userVars, console>>

(* Mutant: the trap stack keeps the registers of the process.              *)
ClearsUserStackOnly == trapStack

ClearedTrapStack == 0

(* clear_runtime_stacks(), then the next run.                              *)
Clear ==
    /\ pc = "clear"
    /\ userStack' = 0 /\ trapStack' = ClearedTrapStack
    /\ IF state # Run.expect THEN Panic("outcome") /\ UNCHANGED index
       ELSE IF index < Len(Runs(build))
       THEN pc' = "prepare" /\ index' = index + 1 /\ UNCHANGED panicked
       ELSE pc' = "stop" /\ UNCHANGED <<index, panicked>>
    /\ UNCHANGED <<image, next, pid, state, at, failing, mailbox, console, results>>

Stopped == pc \in {"stop", "panic"} /\ UNCHANGED vars

Init ==
    /\ build \in Builds /\ pidMax \in PidLimits /\ index = 1
    /\ pc = "boot" /\ panicked = "no"
    /\ next = 1 /\ pid = 0 /\ state = Ready
    /\ at = 1 /\ failing = FALSE
    /\ mailbox = Nothing
    /\ userStack = 0 /\ trapStack = 0
    /\ console = <<>> /\ results = <<>>

KernelStep ==
    \/ ModelAllocate \/ ModelRun \/ ModelExit \/ ModelReject
    \/ Prepare \/ Enter \/ Evidence \/ HandleReturn \/ HandleEnd
    \/ Take \/ Clear

Next == KernelStep \/ UserTraps \/ UserSpins \/ Stopped

Spec == Init /\ [][Next]_vars

(* One hart, interrupts off: it never stops executing instructions.        *)
FairSpec == Spec /\ WF_vars(KernelStep \/ UserTraps)

(***************************************************************************)
(* Properties.                                                             *)
(***************************************************************************)
PidsNeeded == 2 + IF build \in {"lesson09", "lesson10"} THEN Len(Runs(build)) ELSE 1

(* No panic of the process model, the handlers or the managers is reached: *)
(* every transition is legal, every trap one its lesson expects, every end *)
(* found in the mailbox and the one its manager insists on; only the PIDs  *)
(* run out, and only where the build has not enough of them.               *)
LifecycleAssertionsHold ==
    panicked # "no" => panicked = "PID overflow" /\ PidsNeeded > pidMax

(* A program enters with stacks on which no earlier process has left       *)
(* anything, and while it runs nothing on them or in the mailbox is from   *)
(* another one: clear_runtime_stacks() and the mailbox reset come between  *)
(* any two runs, whichever way the earlier one ended.                      *)
NoResidue ==
    pc \in {"user", "trap"} =>
        /\ {userStack, trapStack} \subseteq {0, pid}
        /\ build \in {"lesson09", "lesson10"} => mailbox = Nothing

(* No two processes of a boot have the same PID, also where PIDs run out:  *)
(* each is greater than all before it, or the kernel has panicked.         *)
PidsIncrease == [][pid' # pid => pid' > pid /\ IsPid(pid')]_vars

(* The texts a lesson's programs may show, in order.                       *)
Texts == CASE build = "lesson08" -> <<79>>
           [] build = "lesson10" -> <<79, 65>>
           [] OTHER -> <<>>

(* Every build gets through its runs: all programs see the results they    *)
(* insist on, and end as their manager expects, with exactly their texts   *)
(* shown, if there are PIDs for all of them: never the F and BAD_ lines    *)
(* kept for a wrong result or an exit that returned.                       *)
LessonFinished ==
    /\ console = Texts
    /\ CASE build = "lesson07" -> pc = "stop"
         [] build = "lesson08" -> pc = "user" /\ at > Len(Code) /\ ~failing
         [] OTHER -> pc = "stop" /\ Len(results) = Len(Runs(build))

LessonsFinish == PidsNeeded <= pidMax => <>LessonFinished
================================================================================
