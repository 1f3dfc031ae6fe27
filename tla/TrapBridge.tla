------------------------------- MODULE TrapBridge -------------------------------
(***************************************************************************)
(* The assembly bridge between the manager, the trap handler and user      *)
(* programs: trap.S (trap_entry, user_trap_entry, restore_user_frame,      *)
(* terminate_process) and user.S (enter_user_mode, run_user, run_task),    *)
(* with the checks the Rust handlers make on what it hands them.  A check  *)
(* of the bridge's own work that fails is a "panic"; one of what the user  *)
(* program did, by which the same code stops the kernel, is "refused".     *)
(*                                                                         *)
(* The bridge only moves words, so a word is a symbol that says where it   *)
(* came from: a register of a user program after some instruction, a       *)
(* register of the manager at some call, a stack address.  A step is a run *)
(* of instructions of one purpose; hart registers of one treatment share a *)
(* name ("s" is s0..s11, "rest" the temporaries and arguments the bridge   *)
(* never uses itself).                                                     *)
(***************************************************************************)
EXTENDS Integers

CONSTANTS
    Builds,       \* the cargo features: one checkpoint per kernel image
    Tasks,        \* trap stacks of the scheduling build; the others use task 0
    MaxWork,      \* bound of the model: instructions that change a program's registers
    MaxCalls      \* bound of the model: calls of run_user or run_task

AllBuilds == {"lesson08", "lesson09", "lesson10", "scheduling"}

ASSUME TrapBridgeAssumption ==
    /\ Builds \subseteq AllBuilds
    /\ 0 \in Tasks /\ Tasks \subseteq Nat
    /\ MaxWork \in Nat /\ MaxCalls \in Nat

RegNames == {"ra", "sp", "gp", "tp", "t0", "t1", "s", "a0", "rest"}

(* What run_user and run_task must give back to their caller.              *)
CalleeSaved == {"ra", "sp", "gp", "tp", "s"}

Word(kind, of, n, reg) == [kind |-> kind, of |-> of, n |-> n, reg |-> reg]

Places == RegNames \cup {"", "pc", "pc+4", "last", "spill", "end", "stray"}

Words == [kind : {"zero", "junk", "user", "result", "kernel", "boot", "trap", "action"},
          of : Nat, n : Nat, reg : Places]

Zero == Word("zero", 0, 0, "")
Junk == Word("junk", 0, 0, "")
Action(n) == Word("action", 0, n, "")

(* Stack addresses: n frames below the top of a trap stack or of what the  *)
(* manager has on its own stack at a call.                                 *)
TrapTop(i) == Word("trap", i, 0, "sp")
Below(a) == [a EXCEPT !.n = @ + 1]
Above(a) == [a EXCEPT !.n = @ - 1]

FrameAddresses == [kind : {"trap"}, of : Tasks, n : 1..2, reg : {"sp"}]
                     \cup [kind : {"boot"}, of : 0..MaxCalls, n : {1}, reg : {"sp"}]

KernelGp == Word("kernel", 0, 0, "gp")
KernelTp == Word("kernel", 0, 0, "tp")

(* The registers of the manager when it makes its call c.                  *)
ManagerRegs(c) ==
    [r \in RegNames |-> IF r = "gp" THEN KernelGp ELSE IF r = "tp" THEN KernelTp
                        ELSE IF r = "sp" THEN Word("boot", c, 0, "sp")
                        ELSE Word("kernel", c, 0, r)]

(* What a program may have done to its sp and pc, as far as a handler      *)
(* tells: sp off its stack or unaligned; pc at the last instruction of its *)
(* code, at one that does not fit in before the end, or outside.           *)
Conducts == {"proper", "sp", "last", "spill", "stray"}

(* The registers and pc of user program p after n of its instructions.     *)
UserRegs(p, n, c) ==
    [r \in RegNames |-> Word("user", p, n, IF r = "sp" /\ c = "sp" THEN "stray" ELSE r)]

UserPc(p, n, c) == Word("user", p, n, IF c \in {"proper", "sp"} THEN "pc" ELSE c)

FreshRegs(p) == [r \in RegNames |-> IF r = "sp" THEN Word("user", p, 0, "sp") ELSE Zero]

Trusted == [spp |-> 0, spie |-> 0, sie |-> 0]

(* What a trap asks for: a call that returns or the exit call (a7 and a0   *)
(* tell them apart), an illegal instruction, any other exception, the      *)
(* timer interrupt.                                                        *)
UserCauses == {"ecall", "exit", "illegal", "access", "timer"}
Causes == UserCauses \cup {"none"}

Frames == [x : [RegNames -> Words], sstatus : [{"spp", "spie", "sie"} -> {0, 1}],
           sepc : Words, scause : Causes]

NoFrame == [x |-> [r \in RegNames |-> Zero], sstatus |-> Trusted, sepc |-> Zero,
            scause |-> "none"]

(* The frame the scheduler prepares for a task: stack pointer and s regs.  *)
FirstFrame(i) ==
    [NoFrame EXCEPT !.x = [FreshRegs(i) EXCEPT !["s"] = Word("user", i, 0, "s")],
                    !.sepc = Word("user", i, 0, "pc")]

VARIABLES
    build,
    pc,                                          \* which run of instructions is next
    regs, upc,                                   \* hart registers; pc in user mode
    stvec, sscratch, sepc, scause, sstatus,      \* CSRs
    mem,                                         \* the trap frames in memory
    kernel_context, kernel_gp_saved, kernel_tp_saved,
    exchange, done,                              \* EXCHANGE: frame and reason
    saved, live,                                 \* the scheduler's copies, its tasks
    expected,                                    \* where the handler expects its frame
    running, call, work,                         \* task, calls made, instructions run
    conduct                                      \* what each program's last one did

csrVars  == <<stvec, sscratch, sepc, scause, sstatus>>
memVars  == <<mem, kernel_context, kernel_gp_saved, kernel_tp_saved>>
rustVars == <<build, exchange, done, saved, live, expected>>
runVars  == <<running, call, work, conduct>>

vars == <<pc, regs, upc, csrVars, memVars, rustVars, runVars>>

Scheduling == build = "scheduling"

(* Each run of a single-process build is a program of its own.             *)
Program == IF Scheduling THEN running ELSE call

Store(a, frame) == IF a \in FrameAddresses THEN [mem EXCEPT ![a] = frame] ELSE mem
Load(a) == IF a \in FrameAddresses THEN mem[a] ELSE NoFrame

(***************************************************************************)
(* Entering user mode.                                                     *)
(***************************************************************************)
(* Mutant: the stack pointer of the previous call.                         *)
ForgetsSp(r) == [q \in CalleeSaved |-> IF q = "sp" THEN kernel_context["sp"] ELSE r[q]]

SavedContext(r) == [q \in CalleeSaved |-> r[q]]

SavesKernel ==
    /\ kernel_context' = SavedContext(regs)
    /\ kernel_gp_saved' = regs["gp"]
    /\ kernel_tp_saved' = regs["tp"]

(* run_user saves what its caller needs; enter_user_mode of lesson 8 never *)
(* comes back and saves gp and tp only.                                    *)
RunUser ==
    /\ pc = "manager" /\ ~Scheduling /\ call < MaxCalls
    /\ IF build = "lesson08"
       THEN /\ call = 0 /\ UNCHANGED kernel_context
            /\ kernel_gp_saved' = regs["gp"] /\ kernel_tp_saved' = regs["tp"]
       ELSE SavesKernel
    /\ running' = 0 /\ work' = [work EXCEPT ![0] = 0]
    /\ conduct' = [conduct EXCEPT ![0] = "proper"]
    /\ pc' = "fresh"
    /\ UNCHANGED <<regs, upc, csrVars, mem, rustVars, call>>

DispatchedFrame(i) == saved[i]

(* The loop writes the task's frame to its own trap stack, notes where the *)
(* handler must find it again, and run_task restores it.                   *)
RunTask(i) ==
    /\ pc = "manager" /\ Scheduling /\ call < MaxCalls /\ i \in live
    /\ SavesKernel
    /\ mem' = Store(Below(TrapTop(i)), DispatchedFrame(i))
    /\ expected' = Below(TrapTop(i))
    /\ regs' = [regs EXCEPT !["sp"] = Below(TrapTop(i)), !["a0"] = Below(TrapTop(i)),
                            !["t0"] = Junk]
    /\ running' = i
    /\ pc' = "restore"
    /\ UNCHANGED <<upc, csrVars, build, exchange, done, saved, live, call, work,
                   conduct>>

(* sret: SIE takes SPIE, the hart continues at sepc with SPP's privilege.  *)
Sret(status) ==
    /\ sstatus' = [spp |-> 0, spie |-> 1, sie |-> status["spie"]]
    /\ pc' = IF status["spp"] = 0 THEN "user" ELSE "lost"

(* The rest of run_user and enter_user_mode: trusted CSRs, every register  *)
(* cleared except the user's stack pointer.                                *)
EnterFresh ==
    /\ pc = "fresh"
    /\ stvec' = "user_trap_entry"
    /\ sscratch' = TrapTop(running)
    /\ sepc' = Word("user", Program, 0, "pc")
    /\ upc' = sepc'
    /\ regs' = FreshRegs(Program)
    /\ Sret(Trusted)
    /\ UNCHANGED <<scause, memVars, rustVars, runVars>>

(***************************************************************************)
(* User mode.                                                              *)
(***************************************************************************)
(* The program changes all its registers, the ones the kernel depends on   *)
(* included, and may lose its way.                                         *)
UserWork(c) ==
    /\ pc = "user" /\ work[running] < MaxWork
    /\ work' = [work EXCEPT ![running] = @ + 1]
    /\ conduct' = [conduct EXCEPT ![running] = c]
    /\ regs' = UserRegs(Program, work'[running], c)
    /\ upc' = UserPc(Program, work'[running], c)
    /\ UNCHANGED <<pc, csrVars, memVars, rustVars, running, call>>

(* At the bound a program spins.                                           *)
UserSpin == pc = "user" /\ work[running] = MaxWork /\ UNCHANGED vars

(* What the hardware does on a trap into S-mode.                           *)
HardwareTrap(cause, from, spp) ==
    /\ scause' = cause
    /\ sepc' = from
    /\ sstatus' = [spp |-> spp, spie |-> sstatus["sie"], sie |-> 0]
    /\ pc' = IF stvec = "user_trap_entry" THEN "entry" ELSE "kernel_entry"

(* A call or an exception is an instruction of the program; the timer      *)
(* interrupt, enabled in the scheduling build only, arrives anywhere.      *)
UserTrap(cause) ==
    /\ pc = "user"
    /\ IF cause = "timer" THEN Scheduling ELSE upc.reg \notin {"pc+4", "end"}
    /\ HardwareTrap(cause, upc, 0)
    /\ UNCHANGED <<regs, upc, stvec, sscratch, memVars, rustVars, runVars>>

(***************************************************************************)
(* user_trap_entry.                                                        *)
(***************************************************************************)
(* Mutant: t0 is reused before it is saved.                                *)
ClobbersT0(a) ==
    [Load(a) EXCEPT !.x["t0"] = regs["sp"], !.x["gp"] = regs["gp"],
                    !.x["tp"] = regs["tp"], !.x["sp"] = regs["sp"]]

(* Mutant: the frame's address is saved for the user's sp.                 *)
SavesOwnSp(a) ==
    [Load(a) EXCEPT !.x["t0"] = regs["t0"], !.x["gp"] = regs["gp"],
                    !.x["tp"] = regs["tp"], !.x["sp"] = a]

(* The first three registers to be reused, and the user's sp from sscratch.*)
FirstSaved(a) ==
    [Load(a) EXCEPT !.x["t0"] = regs["t0"], !.x["gp"] = regs["gp"],
                    !.x["tp"] = regs["tp"], !.x["sp"] = regs["sp"]]

EntrySwap ==
    /\ pc = "entry"
    /\ LET a == Below(sscratch)
       IN /\ mem' = Store(a, FirstSaved(a))
          /\ regs' = [regs EXCEPT !["sp"] = a, !["t0"] = regs["sp"]]
    /\ sscratch' = regs["sp"]
    /\ pc' = "entry_vector"
    /\ UNCHANGED <<upc, stvec, sepc, scause, sstatus, kernel_context, kernel_gp_saved,
                   kernel_tp_saved, rustVars, runVars>>

(* Mutant: the user's entry stays in place for the handler.                *)
KeepsVector == stvec

HandlerVector == "trap_entry"

(* A fault of the handler itself must not come here; the handler runs on   *)
(* the kernel's gp and tp.                                                 *)
EntryVector ==
    /\ pc = "entry_vector"
    /\ stvec' = HandlerVector
    /\ regs' = [regs EXCEPT !["gp"] = kernel_gp_saved, !["tp"] = kernel_tp_saved,
                            !["t0"] = Junk]
    /\ pc' = "entry_save"
    /\ UNCHANGED <<upc, sscratch, sepc, scause, sstatus, memVars, rustVars, runVars>>

(* The remaining registers and the CSRs, then the call of the handler.     *)
EntrySave ==
    /\ pc = "entry_save"
    /\ mem' = Store(regs["sp"],
                    [Load(regs["sp"]) EXCEPT
                        !.x = [r \in RegNames |-> IF r \in {"t0", "gp", "tp", "sp"}
                                                  THEN @[r] ELSE regs[r]],
                        !.sstatus = sstatus, !.sepc = sepc, !.scause = scause])
    /\ regs' = [regs EXCEPT !["a0"] = regs["sp"], !["t0"] = Junk, !["ra"] = Junk]
    /\ pc' = "handler"
    /\ UNCHANGED <<upc, csrVars, kernel_context, kernel_gp_saved, kernel_tp_saved,
                   rustVars, runVars>>

(***************************************************************************)
(* The Rust handlers, as far as the bridge depends on them.                *)
(***************************************************************************)
Frame == Load(regs["a0"])

(* Where the frame must be: on the trap stack, in lessons 9 and 10 where   *)
(* it was at the first trap, exactly at the top in lesson 10 and where the *)
(* scheduler put it.  The single-process builds also read stvec.           *)
FrameWhereExpected ==
    LET a == regs["a0"]
    IN CASE build = "lesson08" -> a.kind = "trap" /\ a.of = 0 /\ a.n >= 1
         [] build = "lesson09" -> a.kind = "trap" /\ a.of = 0 /\ a.n >= 1
                                  /\ expected \in {Zero, a}
         [] build = "lesson10" -> a = Below(TrapTop(0)) /\ expected \in {Zero, a}
         [] OTHER              -> a = expected

(* The checks of the bridge: place, origin, vector.                        *)
HandedOver ==
    /\ FrameWhereExpected /\ Frame.sstatus["spp"] = 0
    /\ ~Scheduling => stvec = "trap_entry"

(* The checks of the program: what it asks for...                          *)
SupportedCauses ==
    CASE build = "lesson08" -> {"ecall"}
      [] build = "lesson09" -> {"ecall", "exit"}
      [] build = "lesson10" -> {"ecall", "exit", "illegal"}
      [] OTHER              -> {"ecall", "exit", "illegal", "timer"}

(* ...and where it is.  Lessons 8 and 9 want its sp in its stack and its   *)
(* pc at an ecall they know, which leaves room to resume behind it; lesson *)
(* 10 wants that room at a call that returns.                              *)
InUserStack(w) == w.kind = "user" /\ w.reg = "sp"

InCode(w) == w.kind = "user" /\ w.reg \in {"pc", "pc+4", "last", "spill"}

InBounds ==
    CASE build \in {"lesson08", "lesson09"} ->
             InUserStack(Frame.x["sp"]) /\ InCode(Frame.sepc) /\ Frame.sepc.reg = "pc"
      [] build = "lesson10" ->
             InCode(Frame.sepc) /\ (Frame.scause = "ecall" => Frame.sepc.reg # "spill")
      [] OTHER -> InCode(Frame.sepc)

Accepted == HandedOver /\ Frame.scause \in SupportedCauses /\ InBounds

(* A call that returns: the result in a0, the next instruction, and no way *)
(* to gain privilege or interrupts by sret.                                *)
Resumed(w) == [w EXCEPT !.reg = IF @ = "pc" THEN "pc+4" ELSE "end"]

Answered(f) == [f EXCEPT !.x["a0"] = Word("result", f.sepc.of, f.sepc.n, ""),
                         !.sepc = Resumed(@), !.sstatus = Trusted]

(* On its return a Rust function has kept sp, gp, tp and the s registers.  *)
AfterCall(n) ==
    [r \in RegNames |-> IF r = "a0" THEN Action(n)
                        ELSE IF r \in {"sp", "gp", "tp", "s"} THEN regs[r] ELSE Junk]

(* The handler of lessons 8 to 10: a call returns to its program, an exit  *)
(* or a fault gives the program up.                                        *)
HandleProcess ==
    /\ pc = "handler" /\ ~Scheduling /\ Accepted
    /\ expected' = IF build = "lesson08" THEN expected ELSE regs["a0"]
    /\ IF Frame.scause = "ecall"
       THEN mem' = Store(regs["a0"], Answered(Frame)) /\ regs' = AfterCall(0)
       ELSE UNCHANGED mem /\ regs' = AfterCall(1)
    /\ pc' = "handled"
    /\ UNCHANGED <<upc, csrVars, kernel_context, kernel_gp_saved, kernel_tp_saved,
                   build, exchange, done, saved, live, runVars>>

(* scheduler::handle always gives the processor back to the loop.  It      *)
(* leaves the frame in EXCHANGE, with the answer in it after a call, and   *)
(* whether the task is over: an exit or a fault.                           *)
HandleTask ==
    /\ pc = "handler" /\ Scheduling /\ Accepted
    /\ done' = (Frame.scause \in {"exit", "illegal"})
    /\ exchange' = IF Frame.scause = "ecall" THEN Answered(Frame)
                   ELSE [Frame EXCEPT !.sstatus = Trusted]
    /\ mem' = Store(regs["a0"], exchange')
    /\ regs' = AfterCall(1)
    /\ pc' = "handled"
    /\ UNCHANGED <<upc, csrVars, kernel_context, kernel_gp_saved, kernel_tp_saved,
                   build, saved, live, expected, runVars>>

(* A check that fails stops the kernel, whoever is to blame for it.        *)
HandlerStops ==
    /\ pc = "handler" /\ ~Accepted
    /\ pc' = IF HandedOver THEN "refused" ELSE "panic"
    /\ UNCHANGED <<regs, upc, csrVars, memVars, rustVars, runVars>>

(***************************************************************************)
(* The way back.                                                           *)
(***************************************************************************)
(* Mutant: a0 keeps the handler's answer instead of the program's.         *)
KeepsA0(f) == [r \in RegNames |-> IF r \in {"t0", "sp", "a0"} THEN regs[r] ELSE f.x[r]]

RestoredRegs(f) == [r \in RegNames |-> IF r \in {"t0", "sp"} THEN regs[r] ELSE f.x[r]]

(* restore_user_frame, after a call or from run_task: the CSRs, sp by way  *)
(* of sscratch, every register but t0 and sp.                              *)
Restore ==
    /\ \/ pc = "restore"
       \/ pc = "handled" /\ regs["a0"] # Action(1)
    /\ LET f == Load(regs["sp"])
       IN /\ sepc' = f.sepc
          /\ sstatus' = f.sstatus
          /\ sscratch' = f.x["sp"]
          /\ regs' = [RestoredRegs(f) EXCEPT !["t0"] = f.x["sp"]]
    /\ pc' = "leave"
    /\ UNCHANGED <<upc, stvec, scause, memVars, rustVars, runVars>>

(* Mutant: sscratch is left one frame below the top.                       *)
FrameNotFreed(a) == a

Freed(a) == Above(a)

(* The last instructions: the user vector, t0, and sp against sscratch.    *)
Leave ==
    /\ pc = "leave"
    /\ stvec' = "user_trap_entry"
    /\ regs' = [regs EXCEPT !["t0"] = Load(regs["sp"]).x["t0"], !["sp"] = sscratch]
    /\ sscratch' = Freed(regs["sp"])
    /\ upc' = sepc
    /\ Sret(sstatus)
    /\ UNCHANGED <<sepc, scause, memVars, rustVars, runVars>>

(* terminate_process: give the trap frame up, restore the context the      *)
(* caller of run_user or run_task left, return to it.                      *)
Terminate ==
    /\ pc = "handled" /\ regs["a0"] = Action(1)
    /\ sscratch' = Zero
    /\ regs' = [r \in RegNames |->
                  IF r \in CalleeSaved THEN kernel_context[r]
                  ELSE IF r = "t1" THEN kernel_context["sp"]
                  ELSE IF r = "t0" THEN Junk ELSE regs[r]]
    /\ pc' = "returned"
    /\ UNCHANGED <<upc, stvec, sepc, scause, sstatus, memVars, rustVars, runVars>>

(* The caller checks the action and its stack pointer; the scheduler takes *)
(* the frame from EXCHANGE.  Then the manager goes on with other work.     *)
ManagerGoesOn ==
    /\ pc = "returned"
    /\ call' = call + 1
    /\ saved' = IF Scheduling THEN [saved EXCEPT ![running] = exchange] ELSE saved
    /\ live' = IF Scheduling /\ done THEN live \ {running} ELSE live
    /\ regs' = ManagerRegs(call + 1)
    /\ pc' = IF regs["a0"] = Action(1) /\ regs["sp"] = Word("boot", call, 0, "sp")
             THEN "manager" ELSE "panic"
    /\ UNCHANGED <<upc, csrVars, memVars, build, exchange, done, expected, running, work,
                   conduct>>

(***************************************************************************)
(* A fault of the kernel itself (user10.rs has a build that provokes one   *)
(* in the handler) goes through the vector in place at that moment.        *)
(***************************************************************************)
KernelFault ==
    /\ pc \in {"manager", "handler"}
    /\ HardwareTrap("illegal", Word("kernel", call, 0, "pc"), 1)
    /\ UNCHANGED <<regs, upc, stvec, sscratch, memVars, rustVars, runVars>>

(* Mutant: the frame goes where sp points.                                 *)
OverwritesFrame == regs["sp"]

KernelFrame == Below(regs["sp"])

(* trap_entry: a frame below the current sp, and a report from which there *)
(* is no return.                                                           *)
KernelEntry ==
    /\ pc = "kernel_entry"
    /\ LET a == KernelFrame
       IN /\ mem' = Store(a, [x |-> regs, sstatus |-> sstatus, sepc |-> sepc,
                              scause |-> scause])
          /\ regs' = [regs EXCEPT !["sp"] = a, !["a0"] = a, !["t0"] = Junk]
    /\ pc' = "report"
    /\ UNCHANGED <<upc, csrVars, kernel_context, kernel_gp_saved, kernel_tp_saved,
                   rustVars, runVars>>

(* wfi for ever: a report, a panic, or a manager that has finished.        *)
Stopped ==
    /\ \/ pc \in {"report", "panic", "refused", "lost"}
       \/ pc = "manager" /\ call = MaxCalls
       \/ pc = "manager" /\ Scheduling /\ live = {}
    /\ UNCHANGED vars

Init ==
    /\ build \in Builds
    /\ pc = "manager" /\ regs = ManagerRegs(0) /\ upc = Zero
    /\ stvec = "trap_entry" /\ sscratch = Zero /\ sepc = Zero /\ scause = "none"
    /\ sstatus = Trusted
    /\ mem = [a \in FrameAddresses |-> NoFrame]
    /\ kernel_context = [r \in CalleeSaved |-> Zero]
    /\ kernel_gp_saved = Zero /\ kernel_tp_saved = Zero
    /\ exchange = NoFrame /\ done = FALSE /\ live = Tasks
    /\ saved = [i \in Tasks |-> FirstFrame(i)]
    /\ expected = Zero
    /\ running = 0 /\ call = 0 /\ work = [i \in Tasks |-> 0]
    /\ conduct = [i \in Tasks |-> "proper"]

BridgeStep ==
    \/ RunUser \/ (\E i \in Tasks : RunTask(i)) \/ EnterFresh
    \/ EntrySwap \/ EntryVector \/ EntrySave
    \/ HandleProcess \/ HandleTask \/ HandlerStops
    \/ Restore \/ Leave \/ Terminate \/ ManagerGoesOn \/ KernelEntry

UserStep ==
    \/ \E c \in Conducts : UserWork(c)
    \/ \E cause \in UserCauses : UserTrap(cause)
    \/ UserSpin

Next == BridgeStep \/ UserStep \/ KernelFault \/ Stopped

Spec == Init /\ [][Next]_vars
================================================================================
