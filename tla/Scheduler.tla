------------------------------- MODULE Scheduler -------------------------------
(***************************************************************************)
(* The scheduler of lessons 12 to 15 (src/scheduler.rs): the management    *)
(* loop of batch(), the trap handler handle(), the timer it programs and   *)
(* the user programs it runs (src/user_scheduler.S).                       *)
(*                                                                         *)
(* One hart, interrupts off in the kernel: the only concurrency is with    *)
(* time.  The clock may move between any two steps, so every place where   *)
(* the code reads it is a step of its own, and the timer interrupt may     *)
(* arrive between any two instructions of a user program.                  *)
(***************************************************************************)
EXTENDS ReadyQueue, Syscall

CONSTANTS
    T,            \* timer::T, the quantum in ticks
    BoostTicks,   \* 20 * T in the source
    UMAX,         \* usize::MAX: the deadline that never comes, the endless allotment
    Plan,         \* the batches of run(), one checkpoint after the other
    Checkpoints,  \* where in Plan the batches of each checkpoint begin
    MaxClock,     \* bound of the model: the clock stops there
    KLAG          \* bound of the model: ticks between two entries into a user
                  \* program that do not pass with its timer running

NoTask == -1

Policies == {"Yield", "Timer", "Rr", "Mlfq"}

Specs == [mode : 0..4, iterations : Nat, fault : BOOLEAN]

Batches == [policy : Policies, limit : Nat, count : 1..N, specs : [Ids -> Specs]]

ASSUME SchedulerAssumption ==
    /\ T \in Nat \ {0}
    /\ BoostTicks \in Nat \ {0}
    /\ UMAX \in Nat /\ UMAX > 4 * T
    /\ Plan \in Seq(Batches) /\ Checkpoints \subseteq 1..Len(Plan)
    /\ MaxClock \in Nat
    /\ KLAG \in Nat

VARIABLES
    pc,           \* where the management loop, or the user program, stands
    panicked,     \* the assertion that stopped the kernel, "no" if none
    bidx,         \* which batch of Plan runs
    ready, current,
    state, level, slice, allot, timers, yields, syscalls, demoted, frame,
    base, boost, deadline, available, entered,
    event,        \* what handle() left in EXCHANGE, copied by the loop
    regs, scause, \* the user registers and the cause of the trap
    clock, lag,   \* rdtime; ticks since the interrupt was due or the trap taken
    stie, mtimecmp,
    timerDone, console

taskVars  == <<state, level, slice, allot, timers, yields, syscalls, demoted, frame>>
batchVars == <<bidx, base>>
timerVars == <<stie, mtimecmp>>
userVars  == <<regs, scause>>
timeVars  == <<clock, lag>>
outVars   == <<timerDone, console>>
passVars  == <<available, entered, event>>     \* locals of one pass of the loop

vars == <<pc, panicked, ready, current, boost, deadline, taskVars, batchVars,
          timerVars, userVars, timeVars, outVars, passVars>>

(***************************************************************************)
(* The batch being run.                                                    *)
(***************************************************************************)
Policy == Plan[bidx].policy
Mlfq   == Policy = "Mlfq"
Timed  == Policy # "Yield"
Count  == Plan[bidx].count
Tasks  == 0..(Count - 1)
SpecOf(i) == Plan[bidx].specs[i]

(* Task::budget(): slice and allotment of each level.                      *)
SliceOf(l) == CASE l = 0 -> T     [] l = 1 -> 2 * T [] l = 2 -> 4 * T
AllotOf(l) == CASE l = 0 -> 2 * T [] l = 1 -> 4 * T [] l = 2 -> UMAX

(* Mutant: a subtraction that goes below zero.                             *)
Minus(a, b) == a - b

Monus(a, b) == IF a > b THEN a - b ELSE 0          \* saturating_sub
Least(a, b) == IF a < b THEN a ELSE b

(***************************************************************************)
(* User programs.  An address stands for one instruction group of          *)
(* user_scheduler.S, so address + 1 is the code's sepc + 4.                *)
(***************************************************************************)
sched_entry    == 0
sched_loop     == 1
sched_putchar  == 2     \* mv a0, s0; li a7, 1; ecall
sched_yield    == 4     \* burst; li a7, 3; ecall
sched_syscall  == 6     \* burst; li a7, 999; ecall
sched_next     == 8
sched_exit     == 9     \* li a0, 0; li a7, 2; ecall
sched_wait     == 11
sched_waitexit == 12
sched_fail     == 13    \* li a0, 99; li a7, 2; ecall
sched_fault    == 15    \* illegal instruction
CodeRange      == 0..16

Ecalls == {sched_putchar, sched_yield, sched_syscall, sched_exit,
           sched_waitexit, sched_fail}

Marker(i) == 65 + i                                \* b'A' + i

Frames == [s0 : Ids, sepc : CodeRange, a0 : Int, a7 : Nat, s2 : Nat, s3 : Nat]

NoFrame == [s0 |-> 0, sepc |-> 0, a0 |-> 0, a7 |-> 0, s2 |-> 0, s3 |-> 0]

(* s0, s1, s4 are set once from the spec and never written again: task id  *)
(* s0 stands for all three.                                                *)
InitialFrame(i) ==
    [NoFrame EXCEPT !.s0 = i,
                    !.sepc = IF SpecOf(i).fault THEN sched_fault ELSE sched_entry]

BranchOf(mode) ==
    CASE mode = 0 -> sched_putchar [] mode = 1 -> sched_next [] mode = 2 -> sched_yield
      [] mode = 3 -> sched_syscall [] mode = 4 -> sched_wait

(* The registers an instruction group loads before its ecall.              *)
ArgumentOf(r) ==
    CASE r.sepc = sched_putchar -> Marker(r.s0)
      [] r.sepc \in {sched_exit, sched_waitexit} -> 0
      [] r.sepc = sched_fail -> 99
      [] OTHER -> r.a0

NumberOf(r) ==
    CASE r.sepc = sched_putchar -> PUTCHAR
      [] r.sepc = sched_yield   -> 3
      [] r.sepc = sched_syscall -> 999
      [] OTHER -> EXIT

AtEcall(r) == [r EXCEPT !.a0 = ArgumentOf(r), !.a7 = NumberOf(r)]

OrFail(ok, address) == IF ok THEN address ELSE sched_fail

(* Where an instruction group without a trap leads.  Everything after an   *)
(* exit jumps to sched_fail.                                               *)
NextAddress(r) ==
    LET spec == SpecOf(r.s0)
    IN CASE r.sepc = sched_entry -> sched_loop
         [] r.sepc = sched_loop -> BranchOf(spec.mode)
         [] r.sepc = sched_putchar + 1 -> OrFail(r.a0 = 0, sched_yield)
         [] r.sepc = sched_yield + 1   -> OrFail(r.a0 = 0, sched_next)
         [] r.sepc = sched_syscall + 1 -> OrFail(r.a0 = -1, sched_next)
         [] r.sepc = sched_next ->
              IF r.s2 < spec.iterations THEN sched_loop
              ELSE OrFail(2 * r.s3 = spec.iterations * (spec.iterations + 1), sched_exit)
         [] r.sepc = sched_wait -> IF timerDone THEN sched_waitexit ELSE sched_loop
         [] OTHER -> sched_fail

(* The iteration counter s2 and the checksum s3.  Mode 4 spins through the *)
(* loop without ever reading them, so they are left alone there.           *)
Counts(r) == r.sepc = sched_loop /\ SpecOf(r.s0).mode # 4

NextS2(r) == IF r.sepc = sched_entry THEN 0 ELSE IF Counts(r) THEN r.s2 + 1 ELSE r.s2
NextS3(r) == IF r.sepc = sched_entry THEN 0
             ELSE IF Counts(r) THEN r.s3 + r.s2 + 1 ELSE r.s3

Instruction(r) ==
    [r EXCEPT !.sepc = NextAddress(r), !.s2 = NextS2(r), !.s3 = NextS3(r)]

(***************************************************************************)
(* Steps of the kernel.                                                    *)
(***************************************************************************)
(* A failed assert!, unwrap or expect stops the hart for good.             *)
Proceed(ok, next, why) ==
    /\ pc' = IF ok THEN next ELSE "panic"
    /\ panicked' = IF ok THEN panicked ELSE why

Events == [frame : Frames, reason : {"None", "Syscall", "Yield", "Timer", "Exit", "Fault"},
           code : Int, time : Nat]

NoEvent == [frame |-> NoFrame, reason |-> "None", code |-> 0, time |-> 0]

(* batch() up to the loop: stop the timer, clear TIMER_DONE, self-test the *)
(* queue, build the tasks and queue them in order.                         *)
Begin ==
    /\ pc = "begin"
    /\ Proceed(ProbePasses /\ \A i \in Tasks : PushResult(Loaded(i), i) = "ok",
               "loop", "queue probe")
    /\ IF Timed THEN stie' = FALSE /\ mtimecmp' = UMAX ELSE UNCHANGED timerVars
    /\ timerDone' = FALSE
    /\ console' = <<>>
    /\ state' = [i \in Ids |-> IF i \in Tasks THEN "Ready" ELSE "Done"]
    /\ level' = [i \in Ids |-> 0]
    /\ slice' = [i \in Ids |-> T]
    /\ allot' = [i \in Ids |-> 2 * T]
    /\ timers' = [i \in Ids |-> 0]
    /\ yields' = [i \in Ids |-> 0]
    /\ syscalls' = [i \in Ids |-> 0]
    /\ demoted' = {}
    /\ frame' = [i \in Ids |-> IF i \in Tasks THEN InitialFrame(i) ELSE NoFrame]
    /\ ready' = Loaded(Count)
    /\ current' = NoTask
    /\ base' = clock
    /\ boost' = clock + BoostTicks
    /\ deadline' = 0
    /\ UNCHANGED <<bidx, userVars, timeVars, passVars>>

(* Mutant: no boost is ever due.                                           *)
BoostNeverDue == FALSE

BoostDue == Mlfq /\ clock >= boost

(* Top of the loop: check the queue; if the boost is due, every task that  *)
(* is not Done, the current one included, restarts at level 0.             *)
LoopTop ==
    /\ pc = "loop"
    /\ Proceed(CheckPasses(ready, state, Count),
               IF BoostDue THEN "boost" ELSE "select", "queue check")
    /\ IF BoostDue
       THEN LET live == {i \in Tasks : state[i] # "Done"}
            IN /\ level' = [i \in Ids |-> IF i \in live THEN 0 ELSE level[i]]
               /\ slice' = [i \in Ids |-> IF i \in live THEN SliceOf(0) ELSE slice[i]]
               /\ allot' = [i \in Ids |-> IF i \in live THEN AllotOf(0) ELSE allot[i]]
       ELSE UNCHANGED <<level, slice, allot>>
    /\ UNCHANGED <<ready, current, boost, deadline, state, timers, yields, syscalls,
                   demoted, frame, batchVars, timerVars, userVars, timeVars, outVars,
                   passVars>>

(* Mutant: the start of the current period, which is already past.         *)
BoostSamePeriod(now) == base + ((now - base) \div BoostTicks) * BoostTicks

BoostAfter(now) == base + ((now - base) \div BoostTicks + 1) * BoostTicks

(* The next boost, from a second reading of the clock.                     *)
NextBoost ==
    /\ pc = "boost"
    /\ boost' = BoostAfter(clock)
    /\ pc' = "select"
    /\ UNCHANGED <<panicked, ready, current, deadline, taskVars, batchVars, timerVars,
                   userVars, timeVars, outVars, passVars>>

(* Keep the current task, or take the next one and start its quantum; an   *)
(* empty queue ends the batch.                                             *)
Select ==
    /\ pc = "select"
    /\ IF current # NoTask
       THEN pc' = "launch" /\ UNCHANGED <<ready, current, state, deadline>>
       ELSE IF ready.len = 0
       THEN pc' = "finish" /\ UNCHANGED <<ready, current, state, deadline>>
       ELSE \E p \in Positions(ready) :
              /\ IsPopPosition(ready, level, Mlfq, p)
              /\ current' = ready.ids[p]
              /\ ready' = RemoveAt(ready, p)
              /\ state' = [state EXCEPT ![ready.ids[p]] = "Running"]
              /\ deadline' = clock + T
              /\ pc' = "launch"
    /\ UNCHANGED <<panicked, boost, level, slice, allot, timers, yields, syscalls, demoted,
                   frame, batchVars, timerVars, userVars, timeVars, outVars, passVars>>

(* Ticks the task may use: never past its slice, its allotment or the      *)
(* boost, and never zero.                                                  *)
Launch ==
    /\ pc = "launch"
    /\ IF Mlfq
       THEN LET budget == Least(Least(slice[current], allot[current]), Monus(boost, clock))
            IN available' = (IF budget = 0 THEN 1 ELSE budget) /\ pc' = "deadline"
       ELSE pc' = "enter" /\ UNCHANGED available
    /\ UNCHANGED <<panicked, ready, current, boost, deadline, entered, event, taskVars,
                   batchVars, timerVars, userVars, timeVars, outVars>>

SetDeadline ==
    /\ pc = "deadline"
    /\ deadline' = clock + available
    /\ pc' = "enter"
    /\ UNCHANGED <<panicked, ready, current, boost, taskVars, batchVars, timerVars,
                   userVars, timeVars, outVars, passVars>>

(* Mutant: re-arm after the last event too.                                *)
ArmsAlways == Timed

ArmsTimer == Timed /\ ~(Policy = "Timer" /\ timers[current] >= Plan[bidx].limit)

Restored == frame[current]

(* Arm the timer, except that lesson 13 stops once its count is reached;   *)
(* note the time; run_task: the saved frame becomes the hart's registers.  *)
Enter ==
    /\ pc = "enter"
    /\ IF ArmsTimer
       THEN mtimecmp' = deadline /\ stie' = TRUE
       ELSE UNCHANGED timerVars
    /\ entered' = clock
    /\ regs' = Restored
    /\ lag' = 0
    /\ pc' = "user"
    /\ UNCHANGED <<panicked, ready, current, boost, deadline, available, event, scause,
                   clock, taskVars, batchVars, outVars>>

(***************************************************************************)
(* Steps of the user program, and the traps that end them.                 *)
(***************************************************************************)
kernelVars == <<panicked, ready, current, boost, deadline, taskVars, batchVars,
                timerVars, passVars, timeVars, outVars>>

UserStep ==
    /\ pc = "user"
    /\ regs.sepc \notin Ecalls \cup {sched_fault}
    /\ regs' = Instruction(regs)
    /\ UNCHANGED <<pc, scause, kernelVars>>

UserEcall ==
    /\ pc = "user"
    /\ regs.sepc \in Ecalls
    /\ regs' = AtEcall(regs)
    /\ scause' = "ecall"
    /\ pc' = "trap"
    /\ UNCHANGED kernelVars

UserIllegal ==
    /\ pc = "user"
    /\ regs.sepc = sched_fault
    /\ scause' = "illegal"
    /\ pc' = "trap"
    /\ UNCHANGED <<regs, kernelVars>>

InterruptDue == stie /\ clock >= mtimecmp

TimerInterrupt ==
    /\ pc = "user"
    /\ InterruptDue
    /\ scause' = "timer"
    /\ pc' = "trap"
    /\ UNCHANGED <<regs, kernelVars>>

(***************************************************************************)
(* handle(): reads the clock, performs the call, advances sepc past the    *)
(* ecall (never past an interrupted instruction) and leaves the frame and  *)
(* the reason in EXCHANGE.  The loop then copies both (scheduler.rs:375).  *)
(***************************************************************************)
(* Mutants: a call whose result is lost; a return that skips an            *)
(* instruction; an interrupt that skips the one it interrupted.            *)
ResultLost(r, value) == [r EXCEPT !.sepc = r.sepc + 1]
SkipsOne(r, value) == [r EXCEPT !.a0 = value, !.sepc = r.sepc + 2]
InterruptSkips == [regs EXCEPT !.sepc = @ + 1]

Served(r, value) == [r EXCEPT !.a0 = value, !.sepc = r.sepc + 1]

Interrupted == regs

Outcome ==
    LET call == Dispatch(regs.a7, regs.a0)
        Report(f, why, n) == [frame |-> f, reason |-> why, code |-> n, time |-> clock]
    IN CASE scause = "timer"   -> Report(Interrupted, "Timer", 0)
         [] scause = "illegal" -> Report(regs, "Fault", 2)
         [] scause = "ecall"   ->
              IF regs.a7 = 3 THEN Report(Served(regs, 0), "Yield", 0)
              ELSE IF call.kind = "Exit" THEN Report(regs, "Exit", call.value)
              ELSE Report(Served(regs, call.value), "Syscall", 0)

Handle ==
    /\ pc = "trap"
    /\ Proceed(regs.sepc \in CodeRange, "account", "task PC escaped code")
    /\ event' = Outcome
    /\ console' = IF scause = "ecall" /\ regs.a7 # 3
                  THEN console \o Dispatch(regs.a7, regs.a0).out ELSE console
    /\ regs' = NoFrame
    /\ scause' = "none"
    /\ UNCHANGED <<ready, current, boost, deadline, available, entered, taskVars,
                   batchVars, timerVars, timeVars, timerDone>>

(***************************************************************************)
(* The rest of the loop body: charge the task, act on the reason, requeue. *)
(***************************************************************************)
Delta == event.time - entered

ChargedSlice == IF Mlfq THEN Monus(slice[current], Delta) ELSE slice[current]

(* Mutant: a program that yields early is not charged.                     *)
YieldIsFree == IF Mlfq /\ level[current] < 2 /\ event.reason # "Yield"
               THEN Monus(allot[current], Delta) ELSE allot[current]

ChargedAllot == IF Mlfq /\ level[current] < 2 THEN Monus(allot[current], Delta)
                                              ELSE allot[current]

EndOfPass ==
    /\ frame' = [frame EXCEPT ![current] = event.frame]
    /\ available' = 0 /\ entered' = 0 /\ event' = NoEvent
    /\ UNCHANGED <<boost, batchVars, userVars, timeVars, console>>

(* Exit and fault: the task is Done and the processor free.                *)
Retire ==
    /\ pc = "account"
    /\ event.reason \in {"Exit", "Fault"}
    /\ Proceed(/\ Delta >= 0
               /\ event.reason = "Exit"  => event.code = 0
               /\ event.reason = "Fault" => SpecOf(current).fault,
               "loop", "unexpected exit or fault")
    /\ state' = [state EXCEPT ![current] = "Done"]
    /\ slice' = [slice EXCEPT ![current] = ChargedSlice]
    /\ allot' = [allot EXCEPT ![current] = ChargedAllot]
    /\ current' = NoTask
    /\ EndOfPass
    /\ UNCHANGED <<ready, deadline, level, timers, yields, syscalls, demoted, timerVars,
                   timerDone>>

(* Budgets, level and the decision to requeue.  asked: the reason itself   *)
(* already takes the processor away.                                       *)
(* Mutants: a slice that is never renewed; round robin that leaves only on *)
(* the interrupt.                                                          *)
RefillsNever == FALSE
ExpiresAtBoost == Mlfq /\ event.time >= boost

Demotes == Mlfq /\ level[current] < 2 /\ ChargedAllot = 0
Refills == Mlfq /\ ~Demotes /\ ChargedSlice = 0
Expires == \/ Mlfq /\ event.time >= boost
           \/ Policy = "Rr" /\ event.time >= deadline

Settle(asked) ==
    LET requeue == asked \/ Demotes \/ Refills \/ Expires
        to == IF Demotes THEN level[current] + 1 ELSE level[current]
    IN /\ level' = [level EXCEPT ![current] = to]
       /\ demoted' = IF Demotes THEN demoted \cup {current} ELSE demoted
       /\ slice' = [slice EXCEPT ![current] =
                      IF Demotes \/ Refills THEN SliceOf(to) ELSE ChargedSlice]
       /\ allot' = [allot EXCEPT ![current] =
                      IF Demotes THEN AllotOf(to) ELSE ChargedAllot]
       /\ IF requeue
          THEN /\ state' = [state EXCEPT ![current] = "Ready"]
               /\ ready' = Push(ready, current)
               /\ current' = NoTask
          ELSE UNCHANGED <<state, ready, current>>
       /\ Proceed(Delta >= 0 /\ (requeue => PushResult(ready, current) = "ok"),
                  "loop", "requeue")
       /\ EndOfPass

OnYield ==
    /\ pc = "account"
    /\ event.reason = "Yield"
    /\ yields' = [yields EXCEPT ![current] = @ + 1]
    /\ Settle(TRUE)
    /\ UNCHANGED <<deadline, timers, syscalls, timerVars, timerDone>>

OnSyscall ==
    /\ pc = "account"
    /\ event.reason = "Syscall"
    /\ syscalls' = [syscalls EXCEPT ![current] = @ + 1]
    /\ Settle(FALSE)
    /\ UNCHANGED <<deadline, timers, yields, timerVars, timerDone>>

(* Mutant: one event too late.                                             *)
OneEventLate == timers[current] = Plan[bidx].limit

LastEvent == timers[current] + 1 = Plan[bidx].limit

(* Lesson 13 keeps the task and counts: the last event stops the timer and *)
(* raises the flag the task waits for, the others start a new quantum.     *)
(* The other policies only print the count, which is left out.             *)
OnTimer ==
    /\ pc = "account"
    /\ event.reason = "Timer"
    /\ IF Policy # "Timer"
       THEN UNCHANGED <<timers, deadline, timerVars, timerDone>>
       ELSE /\ timers' = [timers EXCEPT ![current] = @ + 1]
            /\ IF LastEvent
               THEN /\ stie' = FALSE /\ mtimecmp' = UMAX
                    /\ timerDone' = TRUE /\ UNCHANGED deadline
               ELSE deadline' = clock + T /\ UNCHANGED <<timerVars, timerDone>>
    /\ Settle(Policy # "Timer")
    /\ UNCHANGED <<yields, syscalls>>

(* After the loop: stop the timer, assert what the batch must have done.   *)
FinishedWell ==
    \A i \in Tasks :
       /\ state[i] = "Done"
       /\ SpecOf(i).mode = 4 /\ Policy = "Timer" => timers[i] = Plan[bidx].limit

EscapedAccounting == Mlfq /\ \E i \in Tasks : SpecOf(i).mode = 2 /\ i \notin demoted

(* A build has exactly one checkpoint and runs only its batches.           *)
LastBatch == bidx = Len(Plan) \/ bidx + 1 \in Checkpoints

Finish ==
    /\ pc = "finish"
    /\ IF Timed THEN stie' = FALSE /\ mtimecmp' = UMAX ELSE UNCHANGED timerVars
    /\ Proceed(FinishedWell /\ ~EscapedAccounting /\ ~stie',
               IF LastBatch THEN "halt" ELSE "begin",
               IF FinishedWell /\ ~stie' THEN "escaped accounting" ELSE "batch result")
    /\ bidx' = IF LastBatch THEN bidx ELSE bidx + 1
    /\ UNCHANGED <<ready, current, boost, base, deadline, taskVars, userVars, timeVars,
                   passVars, outVars>>

(* wfi for ever, after the last batch or after a panic.                    *)
Stopped == pc \in {"halt", "panic"} /\ UNCHANGED vars

(***************************************************************************)
(* Time.  A step of the code may take any time: a program any number of    *)
(* ticks until its timer is due, everything else up to KLAG ticks between  *)
(* two entries into user mode.  Ticks before a step that does not read the *)
(* clock are the same as ticks before the next step that does.             *)
(***************************************************************************)
ReadsClock ==
    \/ pc \in {"begin", "deadline", "enter", "user", "trap"}
    \/ Mlfq /\ pc \in {"loop", "boost", "launch"}
    \/ ~Mlfq /\ pc = "select"
    \/ Policy = "Timer" /\ pc = "account"

Lagging == pc # "user" \/ ~stie \/ InterruptDue

Tick ==
    /\ ReadsClock
    /\ clock < MaxClock
    /\ Lagging => lag < KLAG
    /\ clock' = clock + 1
    /\ lag' = IF Lagging THEN lag + 1 ELSE lag
    /\ UNCHANGED <<pc, panicked, ready, current, boost, deadline, taskVars, batchVars,
                   timerVars, userVars, passVars, outVars>>

Init ==
    /\ pc = "begin" /\ panicked = "no" /\ bidx \in Checkpoints
    /\ ready = EmptyQueue /\ current = NoTask
    /\ state = [i \in Ids |-> "Done"] /\ level = [i \in Ids |-> 0]
    /\ slice = [i \in Ids |-> T] /\ allot = [i \in Ids |-> 2 * T]
    /\ timers = [i \in Ids |-> 0] /\ yields = [i \in Ids |-> 0]
    /\ syscalls = [i \in Ids |-> 0] /\ demoted = {}
    /\ frame = [i \in Ids |-> NoFrame]
    /\ base = 0 /\ boost = 0 /\ deadline = 0
    /\ available = 0 /\ entered = 0 /\ event = NoEvent
    /\ regs = NoFrame /\ scause = "none"
    /\ clock = 0 /\ lag = 0
    /\ stie = FALSE /\ mtimecmp = 0
    /\ timerDone = FALSE /\ console = <<>>

KernelStep ==
    \/ Begin \/ LoopTop \/ NextBoost \/ Select \/ Launch \/ SetDeadline \/ Enter
    \/ Handle \/ Retire \/ OnYield \/ OnSyscall \/ OnTimer \/ Finish

UserRun == UserStep \/ UserEcall \/ UserIllegal

Next == KernelStep \/ UserRun \/ TimerInterrupt \/ Tick \/ Stopped

Spec == Init /\ [][Next]_vars

(* The kernel never waits; the hart executes user instructions; time       *)
(* passes; and a pending interrupt is taken between two user instructions. *)
Fairness == /\ WF_vars(KernelStep) /\ WF_vars(UserRun)
            /\ WF_vars(TimerInterrupt) /\ WF_vars(Tick)

FairSpec == Spec /\ Fairness

(***************************************************************************)
(* Properties.                                                             *)
(***************************************************************************)
PCs == {"begin", "loop", "boost", "select", "launch", "deadline", "enter", "user",
        "trap", "account", "finish", "halt", "panic"}

Panics == {"no", "queue probe", "queue check", "task PC escaped code",
           "unexpected exit or fault", "requeue", "batch result", "escaped accounting"}

(* Every variable holds a value of its Rust type.                          *)
TypeOK ==
    /\ pc \in PCs /\ panicked \in Panics /\ bidx \in 1..Len(Plan)
    /\ ready \in Queues /\ current \in Ids \cup {NoTask}
    /\ state \in [Ids -> {"Ready", "Running", "Done"}]
    /\ level \in [Ids -> 0..2] /\ slice \in [Ids -> Nat] /\ allot \in [Ids -> Nat]
    /\ timers \in [Ids -> Nat] /\ yields \in [Ids -> Nat] /\ syscalls \in [Ids -> Nat]
    /\ demoted \subseteq Ids /\ frame \in [Ids -> Frames]
    /\ base \in Nat /\ boost \in Nat /\ deadline \in Nat
    /\ available \in Nat /\ entered \in Nat /\ event \in Events
    /\ regs \in Frames /\ scause \in {"none", "ecall", "timer", "illegal"}
    /\ clock \in Nat /\ lag \in Nat
    /\ stie \in BOOLEAN /\ mtimecmp \in Nat
    /\ timerDone \in BOOLEAN /\ console \in Seq(Int)

(* No assert!, unwrap or expect of the scheduler ever fails: the queue     *)
(* checks of every pass, the pushes, the exit codes the user programs      *)
(* compute from their own registers, the timer counts of a finished batch. *)
(* The one exception, scheduler.rs:473, measures how fast the machine is:  *)
(* a program that yields sooner than two quanta of work is not demoted.    *)
KernelAssertionsHold == panicked \in {"no", "escaped accounting"}

(* Between any two steps the queue holds exactly the Ready tasks, each     *)
(* once, and the Running task is the current one.                          *)
QueueConsistent ==
    /\ Unique(ready)
    /\ Members(ready) = {i \in Ids : state[i] = "Ready"}
    /\ \A i \in Ids : state[i] = "Running" <=> i = current

(* While a task runs under MLFQ no task of a better level is waiting, in   *)
(* spite of boosts in the middle of a tenure, syscalls that keep the       *)
(* processor and demotions.                                                *)
RunningHasTopPriority ==
    Mlfq /\ pc = "user" =>
        \A i \in Ids : state[i] = "Ready" => level[current] <= level[i]

(* A task enters its program with something left to spend, never with more *)
(* than its level grants.                                                  *)
BudgetInRange ==
    Mlfq /\ pc = "user" =>
        /\ slice[current] \in 1..SliceOf(level[current])
        /\ allot[current] \in 1..AllotOf(level[current])

(* No program runs longer past a due boost than one kernel pass and one    *)
(* interrupt latency: the timer, the requeue at the boost and the check at *)
(* the top of the loop together leave no other way.                        *)
BoostServedPromptly == Mlfq /\ pc = "user" => clock <= boost + 2 * KLAG

(* A batch that ends has served every call exactly once: a frame restored  *)
(* to the wrong place would repeat a call or skip one.                     *)
CallsServedOnce ==
    pc = "finish" =>
        \A i \in Tasks :
            LET spec == SpecOf(i)
                once(modes) == IF spec.mode \in modes /\ ~spec.fault
                               THEN spec.iterations ELSE 0
            IN yields[i] = once({0, 2}) /\ syscalls[i] = once({0, 3})

(* Under cooperative scheduling tasks that print and yield take turns, in  *)
(* the order in which they were queued.                                    *)
TakeTurns ==
    Policy = "Yield" /\ (\A i \in Tasks : SpecOf(i).mode = 0) =>
        \A k \in 1..Len(console) : console[k] = Marker((k - 1) % Count)

(* Every batch ends and the kernel reaches its final wait.                 *)
PlanCompletes == <>(pc = "halt" \/ panicked = "escaped accounting")

(* docs/course/15-mlfq.md:219 has the timer hand control back at the next  *)
(* boundary of a scheduling rule: an MLFQ timer event finds the slice or   *)
(* the allotment used up, or the boost due.                                *)
TimerEndsAtBoundary ==
    Mlfq /\ pc = "account" /\ event.reason = "Timer" =>
        ChargedSlice = 0 \/ ChargedAllot = 0 \/ event.time >= boost
================================================================================
