# neonos: a verification development

neonos is a teaching kernel in Rust and RISC-V assembly. One hart runs it; a
cargo feature selects one lesson ("checkpoint") per kernel image. This
directory models the kernel, the two scheduling simulators of the course and
the lab tool, checks them with TLC on small instances and proves the safety
properties of the kernel, of the MLFQ simulator and of the lab tool, and that the
trap bridge implements its abstract specification, with TLAPS for every value of
the constants.

## The system

| component | state | operations | hard because |
|---|---|---|---|
| run queue, `scheduler.rs` `Ready` | array of N ids, length | `push`, `pop` (FIFO or best level), `check` | removal from the middle, duplicates, order under ties |
| scheduler, `scheduler.rs` `batch`, `handle` | tasks (frame, state, level, slice, allotment), current, deadline, boost, EXCHANGE | the management loop, the trap handler | seven readings of a moving clock in one pass; interrupt at any user instruction |
| timer, `timer.rs`, `sbi.rs` | sie.STIE, the SBI comparator | `now`, `after`, `arm`, `stop` | stale deadlines across passes and batches |
| system calls, `syscall.rs` | none | `dispatch` | argument range, the call that does not return |
| scheduled programs, `user_scheduler.S` | registers | five modes and a fault | check their own registers and fail loudly |
| trap bridge, `trap.S`, `user.S`, `trap.rs` | hart registers, CSRs, trap frames, KernelContext, saved gp/tp | entry, restore, terminate, `run_user`, `run_task`, `enter_user_mode` | no free register, order of instructions, traps in the handler |
| process model, `process.rs` | PID allocator, process state | `transition`, `start`, `finish_*` | legal order only |
| single-process lessons, `user.rs`, `user10.rs` | mailboxes, the shared stacks | prepare, enter, handle, take, clear | what one process leaves for the next |
| programs of lessons 7 to 10, `user.S`, `user10.S`, `user_api.S` | registers | calls, a fault | insist on each result |
| boot and memory report, `main.rs`, `memory.rs`, `linker.ld` | RAM, stvec | `_start`, `report_and_validate`, `trap::init` | acts on symbols before it checks them |
| console, `console.rs` | none | write a byte | nothing |
| MLFQ experiment, `experiments/mlfq.py` | job records, one ready list, clock | a tick per round | ties of arrivals, boosts, demotions and preemptions |
| scheduling experiment, `experiments/scheduling.py` | the same, smaller | a slice per round | order at a boundary, idle jumps |
| lab tool, `tools/lab.py` | workspaces, lock, grade reports, packages, child processes | `start`, `grade`, `submit`, `execute` | files changed beside it, two runs at once, time limits, kills |

The manager (the scheduler loop or `run_lesson09`/`run_one`) calls `run_task`
or `run_user`, which saves the KernelContext and enters the program with
`sret`. A trap enters `user_trap_entry`, which saves the program's registers in a trap
frame and calls `rust_user_trap_handler`. The handler either changes the frame
and resumes, or leaves its result in a slot (EXCHANGE, LAST_EXIT_CODE, ACTIVE)
and has `terminate_process` return from the manager's call. The scheduler's
handler always does the latter. Interrupts are off in the kernel, so the
concurrency of this system is that of the kernel with time, with the timer
interrupt and with whatever registers a program leaves behind.

## Modules

`ReadyQueue` has the queue as operators on a record `[ids, len]`: `Push` with
the three refusals of `push()`, `IsPopPosition` and `RemoveAt` for the two
halves of `pop()`, `CheckPasses` for `check()`, `ProbePasses` for the self-test
at the start of each batch. `Syscall` has `Dispatch`. Both are shared.

`Scheduler` is `batch()`, `handle()` and the programs. `pc` says where the loop
stands: `Begin`, `LoopTop` (check and boost), `NextBoost`, `Select`, `Launch`,
`SetDeadline`, `Enter`, then user steps, `Handle`, and one of `Retire`,
`OnYield`, `OnSyscall`, `OnTimer` for the rest of the body; `Finish` ends a
batch and `Plan` is what `run()` executes. The loop is cut exactly where it
reads the clock, and `Tick` may come before each reading. A failed assert,
unwrap or expect is `panicked`. An address of a program stands for a group of
instructions up to the next trap or branch. `TimerInterrupt` may replace any
user step once the comparator is due.

`SchedulerHistory` adds a stopwatch the code does not have: `spent` and
`tenure` count ticks in user mode. `LevelQueues` is the abstract multi-level
scheduler: for each level those who wait there, and the order they stand in, so
that the best level runs, who came first goes first, and a boost puts everybody on
top without reordering those that shared a level. `SchedulerRefinement` maps the
array to it: at a level wait the ids of that level, in the order of the array.
`MCPlans` has the small plans for TLC, `MCScheduler` and `MCHistory` bring
them to the specifications, `MCStarvation` makes an endless one finite. A plan
holds the batches of several checkpoints, one after the other; `Checkpoints`
says where each begins, an initial state is at one of them, and `LastBatch` is
the end of its own.

`TrapBridge` models the assembly as moves of symbolic words. A word says where
it came from (a register of program p after n instructions, of the manager at
call c, a stack address), so two words are equal only if they are the same
register at the same time. Registers treated alike share a name: `s` is s0 to
s11, `rest` is everything the bridge never uses for itself; ra, sp, gp, tp, t0,
t1 and a0 are kept apart. The actions follow the labels of the code; the Rust
handlers appear with their checks on the frame and their effect on it.

The handlers check two kinds of things with one `panic!`, and the model keeps
them apart. `HandedOver` is the bridge's work: where the frame lies (in lessons
9 and 10 also that it has not moved, `record_trap_frame`), SPP, and `stvec` in
the single-process builds; a frame that fails it ends in `panic`.
`SupportedCauses` and `InBounds` are about the program: its cause, in lessons 8
and 9 its sp (`user_sp_ok`) and the ecall labels they know, its pc in its code,
and the range `apply_return` resumes in; those end in `refused`. So that both
happen, a program's instruction has a `conduct`: proper, an sp off its stack or
unaligned, the pc at the last instruction of the code, at one that does not fit
in before the end, or outside. A pc of the name `pc` in lessons 8 and 9 is one of
their known ecalls, `pc+4` and `end` are where a call returns to. A program goes
wrong in one way at a time. Which call an ecall is (exit or one that returns)
rides on the symbolic cause instead of on a7 and a0; lesson 8 refuses an exit.
`BridgeAssertionsHold` asks that `panic` is never reached, that `refused` is only
reached after the program itself misbehaved, and that a program outside its
code is not served.

`UserContexts` is what the bridge promises, coroutines whose registers change
only while they run; `TrapBridgeRefinement` says where each word is to be found
at every moment and states the properties.

`UserRun` has the process model and the managers and handlers of lessons 7 to
10, with the programs they run given by their trapping instructions.

Its `pidMax` is the largest value of a PID, 2^64 - 1 in the code; the model
looks at several small values beside one that is out of reach.

`MemoryLayout` has regions of addresses with the comparisons of `memory.rs`,
`process.rs` and `user.rs`. `Boot` is the way from `_start` to the lesson: the
probe, the loop that clears BSS byte by byte, the report, `trap::init`, the
panics and where each build comes to rest. The image is chosen once: where the
linker put each section and each symbol. The model keeps the two apart, because
`_start` trusts the symbols and what it damages are the sections. `MCBoot`
links images as `linker.ld` does, and from scripts with lines moved.

`MlfqSim` and `SchedulingSim` are the two Python simulators. A round of
`mlfq.py` is `TopArrivals`, `Boost`, `Select` (or `KeepRunning`, `Idle`), `Tick`,
`TickArrivals`, `Requeue`, in the order of the loop body; a round of
`scheduling.py` is `BringIn` and `Run`. Both are deterministic; what varies is
the workload. `MlfqSimRefinement` maps the one list of `mlfq.py` to the queues of
`LevelQueues`, whose `AOpenSpec` lets tasks come and go: kernel and simulator
implement one abstract scheduler. `MCSims` runs the two simulators one after the
other on the same workload.

`LabGrader` is `grade` and `submit` on one workspace. A grade reads the files
one by one for its digest, again for the copy, and again for the second digest;
between any two reads the student may edit, a second grade or a submit may
step, a process may be killed, `cargo clean` may remove `target/` with the lock
file. `LabStart` is `start` on one directory, `LabExecute` is `execute()` with the
process group of its command. `MCLabGrader` has the bounds of the first;
`MCLabTool` brings the other two into one run, in which a behaviour is one of
either.

Theorems are in `SchedulerProofs` (with the queue and the history),
`ProgramProofs` (the scheduled programs and the kernel's assertions),
`TrapBridgeProofs`, `UserRunProofs`, `BootProofs`, `MlfqSimProofs`,
`LabGraderProofs` and `LabToolProofs`.

## Runs

| run | what is asked |
|---|---|
| `loop` | lessons 12 and 13 and the single program of lesson 15: strict turns, and under fairness every batch of the plan ends as its assertions want it |
| `preempt` | lessons 14 and 15 with interrupts anywhere: queue and states in step, priorities, budgets, real user time against the allotment, calls exactly once, and the scheduler implements `LevelQueues` |
| `starvation` | endless programs: boosts are prompt and every waiting task runs again |
| `bridge` | all four builds of the bridge, with programs that lose their sp or pc: registers, stacks, vectors, kernel faults, and frames refused only for what a program did |
| `lessons` | lessons 7 to 10 from boot to the end, 100 stress runs included; with too few PIDs they stop exactly there |
| `boot` | the repository's script and scripts with lines moved: each build boots to its lesson, an accepted report means that nothing was damaged |
| `simulators` | `mlfq.py` on triples of nine kinds of jobs, both on jobs that compute: bounds, completion, equal results, refinement of `LevelQueues` |
| `grades` | grades and submits of one workspace beside a student, a clean and a kill |
| `lab_tool` | a command whose processes may ignore SIGTERM or answer it with success: its verdict is settled in time; several starts and the student on one directory |
| `boundary`, `lab_revert`, `lab_timeout` | expected violations, see below |

`CallsServedOnce`, `TakeTurns`, `AllotmentBoundsUserTime`,
`CallsDoNotRenewQuantum`, `StarvationFree` and `BridgeKeepsContexts` relate
things the code never compares; `KernelAssertionsHold`, `BridgeAssertionsHold`
and `LifecycleAssertionsHold` say that the assertions the code does have are
never reached in a failing state (in the bridge: but for what a user program
did). Each property has at least one mutant in PROJECT.json: a definition with a
plausible bug under which TLC finds it violated.

Divergence between document and code (`boundary`). Lesson 15's text says the
timer hands control back at the next boundary of a scheduling rule
(`docs/course/15-mlfq.md:219`). The deadline is fixed before the SBI call that arms
the timer (`scheduler.rs:364`) and the task is charged from a later reading
(`scheduler.rs:372`), so ticks between the two shorten its turn without being
charged. The task is requeued by its timer with slice and allotment left. If the interrupt
comes before the clock moves on, the turn is charged nothing at all, and the budget
does not see that it was lost.

The assertion "yield escaped MLFQ accounting" (`scheduler.rs:473`) measures the
machine: a program that yields often enough on a fast hart is not demoted. The
model lets programs be that fast, so this one assertion is excluded from
`KernelAssertionsHold`, by name.

Divergence in the lab tool (`lab_revert`). `labs/README.md:31` promises a package with the
grade record that matches the current code. `grade` compares two digests, but
the tests run on a copy made after the first: a file changed before the copy
(`lab.py:206`) and changed back before the second digest (`lab.py:225`) is
graded in its middle version, and `submit` calls that record current. Where
contents do not come back (`grades`) the property holds.

Divergence in the lab tool (`lab_timeout`). `labs/VERIFICATION.md:21` says that
a timeout cleans up the process group. `execute()` sends SIGKILL only if the
leader outlives SIGTERM by 2 seconds (`lab.py:177`). In the run only QEMU may
ignore SIGTERM (`Deaf`): the leader starts it, times out and ends on SIGTERM, and
`execute()` returns while QEMU runs on.

### Bounds

- T (10 000 ticks in the code) is 1 in `preempt` and 2 in `loop` and
  `starvation`; a boost period (20 T) is 4 to 7 ticks. The code only compares and
  subtracts instants; these values still give budgets that end before, at and
  after a boost, and levels 0 to 2 (`preempt` reaches user mode on each).
- `KLAG` bounds the ticks that pass in the kernel, or between a due interrupt
  and its arrival, between two entries into user mode. 1 or 2 is enough for any
  two readings of the clock in one pass to differ, and for a charge to
  overshoot. `MaxClock` stops the clock, late enough for the plans of `loop` to
  end. In `starvation` the clock is folded back by a boost period instead, which
  `MCStarvation` justifies.
- N is 2 to 4 slots (4 in the code); 3 are needed for a removal in the middle
  and for ties. Iterations are 1 to 4 instead of up to 2 000 000: a program
  does the same in each.
- `UMAX` is 99 for usize::MAX, out of reach of the clocks above. Overflow of
  absolute instants (`checked_add`) needs 2^64 ticks and is not modelled.
- `bridge`: 2 instructions per program, so that a program is interrupted both before
  and after it has changed its registers; 4 calls of the bridge, so that a
  stale context of an earlier call can be told from the current one; 2 trap
  stacks. `lessons` has no bound but `PidLimits`: the 100 stress runs are those
  of the code. The limits are met in the process model (1, 2), in the first run
  (3), in the middle (5, 102), one before and exactly at what lessons 9 and 10
  need (103, 105), and not at all.
- `boot`: an address stands for 8 bytes, a page is 4 of them, so
  sections of 0, 1 and 4 words are empty, need padding and fill a page. Two
  moved lines are enough to turn a region inside out, to move a section out of
  its symbols and to make regions overlap. What can move are the ten symbols, the boot stack,
  the user and trap stacks and the probe; the loaded sections stay below the
  boot stack (`BootAssumption`).
- `simulators`: three jobs meet in every combination of computing, short and
  late, yielding, blocking and having no work; services up to 14 ticks reach
  level 2; a boost period of 5 falls into slices, one of 40 (the default)
  never comes before the demotions. The jobs for both programs have ties of
  arrival and service, gaps without work and no service at all; `SjfIsBest` tries
  every order of them.
- `grades`: two files are enough to read a mixture of versions. `MCLimits` names
  three scenes: one grade with an edit, a clean, a kill and a submit; two grades
  with an edit and a clean; two grades with an edit, a kill and a submit. All
  at once with two grades has the same pairs of events but is out of TLC's reach.
  Contents are numbered by first writing, so an edit gives a new content
  unless `Reverts` allows an old one; that is the constant that separates
  `grades` from `lab_revert`.
- `lab_tool`: two starts and a build of four stages, the student's work counted to
  2; a leader and two children, any set of them deaf to SIGTERM (`Deaf`). One that
  is not may still catch it and exit with code 0.

Terminal states (finished simulators, `halt`, `panic`, wfi loops, finished lessons) are self-loops
called `Stopped` or `Spins`; deadlock checking is on in every run.

### Fairness

`FairSpec` of the scheduler: the kernel never waits (weak fairness of
`KernelStep`), the hart executes user instructions (`UserRun`), time passes
(`Tick`) and a pending interrupt is taken between two user instructions
(`TimerInterrupt`). In `starvation` a program may trap for ever without a tick
being continuously enabled, because not every step reads the clock, so `Tick`
has strong fairness: physical time does pass. In `lessons` the hart keeps
executing kernel and user code, in `boot` it executes one instruction after the
other, and the simulators keep computing.

In `grades` a grade goes on (weak fairness of `GraderStep`). Its commands need
not end: `CommandTimesOut` is a step of the grader, because `wait()` has a limit of
120 seconds. In `lab_tool` the steps of `execute()` are fair and a process
with SIGKILL or an accepted SIGTERM on its way ends; nothing else is assumed of
the command.

## Proofs

`SchedulerProofs` begins with the queue: what `Push`, `RemoveAt` and the self-test
do, for every capacity N > 1 (`NAssumption`). Members of the queue are counted
by the injection of positions into ids, so a queue without duplicates and
without one given id has room for it. Then, from `NAssumption` and `SchedulerAssumption` (any N, T,
boost period, plan, clock bound and latency):

- `Invariance`: `Spec => []IInv` with
  `IInv == TypeOK /\ QueueConsistent /\ Shape`. Neither conjunct is inductive
  alone: types need to know that a running task exists when the loop uses
  `current`, and consistency needs to know at which points of the loop it
  does. `Shape` says this for every value of `pc`.
- `TypeCorrect`, `QueueStaysConsistent`: its two parts.
- `QueueNeverPanics`: no queue assertion and no code-range assertion is ever
  reached in a failing state; in particular every `push().unwrap()` succeeds.
- `SchedulerImplementsLevels`: `Spec => ImplementsLevelQueues`. Because a line is a
  set with an order, and not a filtered sequence, what a pop, a push and the load
  of a batch do to it is a matter of positions in the array: whoever stood before
  another still does, the popped id is in no pair, the pushed one comes behind
  everybody of its level (`StandAfterRemoval`, `StandAfterPush`, `LoadedStands`).
  There is then a lemma per action of the abstract scheduler (`BeginStarts`,
  `LoopTopBoosts`, `SelectDispatches`, `SettlePreempts`, `RetireEnds`) and one for
  the steps it does not see (`QuietQueues`). Besides `IInv` it needs `Flat`: without
  MLFQ everybody live is on level 0.
- `TopPriority`: `RunningHasTopPriority`, from `IInv` and the invariant
  `CurrentIsTop`, which extends the claim from user mode to every point where
  the current task may be entered again. A boost lifts all live tasks at once,
  a demotion always requeues, and a pop takes a minimum.
- `BudgetsInRange`: `Budgets` says at every point of a batch what `BudgetInRange`
  says in user mode. It is inductive with `IInv`, because each charge that leaves
  nothing is followed, in the same pass, by a demotion or a fresh slice.
- `BoostIsPrompt`: `Prompt` follows the lateness from the loop's reading of the
  clock to the interrupt. From that reading on the clock is before
  `boost + lag`, the deadline is computed from it, and `lag` never exceeds
  `KLAG`; the bound `boost + 2 * KLAG` is one late pass and one late interrupt.
- `AllotmentsBoundUserTime`, `CallsKeepTheQuantum`: of `HSpec`, with
  `HistoryIsFaithful` (`HSpec => Spec`) bringing the invariants above. `Kept` is the
  law behind both: what was charged plus what is still uncharged covers the
  ticks really run, so time spent plus allotment left never exceeds the
  level's allotment plus the uncharged ticks. `Timing` bounds those: a stint
  ends at its timer, or late by at most `lag`, and the timer was set within the
  allotment. Both were checked with TLC at the bounds of `preempt` before.

`ProgramProofs`: on top of `SchedulerProofs`.

- `ProgramsStayOnCourse`: `ProgramInv` gives, for each mode and each address of a
  program, the counter, the checksum and the number of calls it must have there
  (`OnCourse`), and says that this holds of the registers while the task runs, of
  the event while it is accounted and of the saved frame otherwise.
- `EveryCallIsServedOnce`: at the end of a batch all tasks are done, and a task
  on course that is done has made each call once.
- `AssertionsNeverFail`: under `WellPlanned`, the conditions the batches of `run()`
  meet: a program that is not the faulty one and does not wait for a timer
  has at least one iteration (`scheduler.rs:513-559`), a timer batch has one task
  and at least one event to wait for, and N is at most 63, so that the markers
  'A' + id stay one byte of ASCII; N is 4 in the code. Without the first, a
  program counts below zero and never ends; without the second, the flag of
  one task would release another.
- `TasksTakeTurns`: `TakeTurns`, under `WellPlanned` and `EvenTurns`. `TurnInv` says
  that a batch is at some turn of some lap (`AtTurn`): whoever is before that turn
  has yielded once more than the others, the array holds the ids that follow, around
  the end, and the length of the console is the number of turns taken, plus one
  when the current task has printed but not yet yielded. `ProgramInv` tells which
  of the two it is from the address the program stands at. In the last lap the
  tasks only leave, in the same order. `EvenTurns` is what the property means: with
  unequal iterations, or a faulty task, turns stop being strict when the first
  task leaves, and a batch behind another one has the console of its
  predecessor until it begins. Lesson 12's `alternating` (`scheduler.rs:512`) meets
  it, and so do the plans of the runs.

`BootProofs`: from `LayoutAssumption` and `BootAssumption`, for every set of
images, stack size and frame size.

- `OverlapsIsSharing`: two regions that are not empty overlap in the sense of
  `overlaps()` exactly if they share an address.
- `AcceptedLayoutIsDisjoint`: the report's comparisons of neighbours make all
  five regions disjoint.
- `ReportComesInTime`: `Spec => []AcceptedIsSafe`. The report runs after the
  damage it is to exclude; the argument is that the damage is a function of the
  symbols. The inductive invariant says where the cursor is and that `zeroed` is
  exactly the addresses from `sbss` to the cursor, at each `pc`, and that a
  console with an accepted report implies a valid layout; then BSS begins
  behind the boot stack, all loaded sections lie before it, and the cleared
  addresses are those of BSS.

- `ProbeIsEvidence`: `ProbeTellsTheClear`. In a build that skips the loop nobody
  writes the probe after the pattern; in the others an accepted report has
  read 0, and nothing writes it afterwards.

`TrapBridgeProofs`: from `TrapBridgeAssumption`, for any number of tasks, calls and
user instructions.

- `BridgeInvariance`: `BridgeInv` says for every label of the assembly which word
  is in which register and in which slot of memory (`AtManager`, `AtUser`, `AtEntry`,
  `OnFrame`, `OnKernelRegs`, `AtHandler`, `AtHandled`, `WayBack`, `AtFault`), that the
  saved context of the manager is that of the call in progress (`KernelKept`)
  and that the scheduling build expects the frame of the task it dispatched
  and dispatches only unprivileged ones (`Dispatched`). It
  needs words to be distinguishable by kind, owner, time and name, which is how
  they are built.
- `AssertionsHold`: needs `ConductInv` beside it, which ties the frame and the CSRs of
  a trap to the last instruction of the program: a program in user mode has the
  sp and pc of its conduct, a frame at the handler has the program's cause, sp and pc, and
  a frame that was refused or answered is judged by those.
- `RustIsTrusted`, `UserIsReady`, `FaultIsReported`: corollaries of `BridgeInv`.
- `BridgeImplementsContexts`: under the refinement mapping every step of the bridge
  is a step of `UserContexts` or leaves the contexts alone. There is a lemma per
  group of labels: the words move, the mapped contexts do not, until the
  program executes an instruction, the manager calls, or an answer is put into a0.

`UserRunProofs`: from `UserRunAssumption`, for every set of builds and PID limits.
`IInv` ties the counters of a build to its place in its script: which process
is next, what the mailboxes hold, what lies on each stack, how many PIDs are
used (`Counting`). `LifecycleIsLegal` and `NothingIsLeftBehind` are its parts;
`PidsAreFresh` is an action property and follows from `pid < next`.

`MlfqSimProofs`: from `SimAssumption`, for any number of jobs, any workload and any
boost period.

- `SimInvariance`: `MInv` has the types (`Typed`), what the parts of a round leave
  behind (`Round`), the list of ready jobs without repetition (`Listed`), the state
  of the current job (`OnProcessor`), how far the loop over arrivals has come
  (`NobodyDue`), the allotment with the ticks it was spent on (`Accounted`), the
  slice (`Sliced`) and the choice (`Best`). TLC checked it, and the next one, at
  the bounds of `simulators` first.
- `BestRuns`, `Accounting`: its corollaries. `Best` holds from a choice to the next
  look at the list because arrivals are looked at again behind every tick, and a
  boost lifts the current job with the others.
- `WaitBound`: `WInv`. A job in the list either came after the last boost
  (`Young`) and has waited a period at most, or was there at a boost and is on
  level 0 with everybody ahead of it (`Old`). What an old job has waited and
  the slices ahead of it never grow together: a tick adds one to the first
  and takes one from the second. At the boost there is a period of the first and
  at most two ticks per other job of the second, because a list without
  repetition is no longer than the jobs (`RoomFor`, by the injection of positions).
- `SimulatorImplementsLevels`: `Spec => ImplementsOpenQueues`, along the lines of the
  kernel's refinement, from `MInv` and `Sinking`: the level of a job changes at
  the tick that uses up its allotment, but it joins its new level only when the
  round requeues it, so between the two it counts as one level higher. `Sinking`
  says that nothing comes in between and that such a job does leave the processor.

`LabGraderProofs`: from `LabAssumption` and `ReportAssumption` (a report that is missing or
truncated is not a complete one), for any number of graders, files, parts
and versions.

- `LockKeepsGradesApart`: two running grades hold locks on different inodes, and
  `cargo clean` is what makes a new one.
- `ReportsAreHonest`, `PackagesAreHonest`: `DatedInv` uses the numbers of contents as
  dates: every content a grader has read or copied is at most as new as
  the file at that moment (`Sound`), so a second digest equal to the first means
  that each file kept its content in between, and the copy was made in between.
  The hypothesis `~Reverts` is what makes numbers dates; `lab_revert` shows
  that the claim is false without it. It is a choice of the run, not of the
  code: the theorem says what the two digests achieve as long as no
  file returns to an earlier content during a grade.

`LabToolProofs`: from `ExecuteAssumption` and `StartAssumption` (the student and
nobody are not processes that run `start`).

- `VerdictIsSettledInTime`: once the first wait is over the verdict is that of a
  leader which was dead by then, whose code cannot change, or TIMEOUT (`Settled`,
  `Judged`); nothing that happens after the signals touches it.
- `NoWorkIsLost`: what a start owns is whole (`Whole`), and `rename` takes the place of
  nothing or of an empty directory only, whatever was true when the start looked.

Only model-checked:

- Liveness (`PlanCompletes`, `StarvationFree`, `LessonsFinish`, `EveryBuildArrives`,
  `AllJobsDone`, `GradingEnds`, `CommandReturns`): it needs fairness and ENABLED.
- `SjfIsBest`, `WorkIsConserved`, `SimulatorsAgree` of `MCSims`: they sum over jobs
  and orders of jobs with folds and compare two finished runs.

## Not modelled

- Statistics of the scheduler (waits, response, switches, trace) and all
  formatted output. The console is the sequence of bytes sent by putchar.
- The stack and register sentinels of `user_scheduler.S`: `TrapBridge` says
  that no register is lost, which is what they test.
- `console.rs` beyond the milestones of `Boot`: each byte is one volatile write
  to the UART, with no state to get wrong.
- The report of `memory.rs` compares symbols only. A section placed outside its
  symbols is in the model (that is what is damaged), but no property says the
  report notices: it does not look at sections.
- Lesson 10 clears the stacks before their ranges are validated, lessons 7 to 9
  after; `Boot` has the checks once, before the lesson.
- SBI errors: `set_timer` and the probe panic at once.
- `lab.py`: a digest is compared as the contents it is made from. `payload_fingerprint`
  joins names and contents with NUL bytes (`lab.py:140`), so with files that
  contain NULs two different sets may have one digest; the files of the labs are text.
- `lab.py`: the text edits of `skeleton()` and `remove_body()`, the metadata
  checks of `workspace()`, `doctor` and `list`. A report for one part has a file
  nobody reads and is left out. The commands of a killed grade, which go on in
  their own session, are left out.
- The event lists, traces and metrics the simulators print.
- `labs/` and `tests/` are texts, fixtures and scripts that search serial
  output. Lessons 16 to 47 of the course describe code the repository does not
  have.

## Plan

1. Done: queue, scheduler with its history, refinement and starvation runs,
   bridge with its refinement, lessons 6 to 10, boot and memory report, both
   simulators with their refinement and their agreement, the lab tool.
2. Done: theorems for every safety invariant of the kernel's runs, for those of
   `mlfq.py` and of the lab tool, for the refinement of the bridge and for the two
   of `LevelQueues`.
3. Left to TLC: what the section above lists as only model-checked.
