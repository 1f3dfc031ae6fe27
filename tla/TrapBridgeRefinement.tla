-------------------------- MODULE TrapBridgeRefinement --------------------------
(***************************************************************************)
(* The bridge implements the coroutines of UserContexts.  The mapping says *)
(* where each word of a program is to be found at every moment: in a       *)
(* register, in sscratch, in a trap frame, in EXCHANGE or in the task.     *)
(***************************************************************************)
EXTENDS TrapBridge

None == [x |-> [r \in RegNames |-> Zero], pc |-> Zero]

InFrame(f) == [x |-> f.x, pc |-> f.sepc]

Who == CASE pc \in {"manager", "returned"} -> "manager"
         [] pc = "user" -> "user"
         [] pc \in {"entry", "entry_vector", "entry_save", "handler"} /\ scause = "ecall" -> "called"
         [] pc \in {"kernel_entry", "report", "panic", "refused", "lost"} -> "stopped"
         [] OTHER -> "kernel"

(* The kernel stopped while the manager, not a handler, was running.       *)
ManagerStopped == Who = "stopped" /\ regs["sp"].kind = "boot"

(* Registers already moved to the frame of the running task.               *)
Partly(moved) ==
    LET f == mem[Below(TrapTop(running))]
    IN [x |-> [r \in RegNames |-> IF r = "sp" /\ "sp" \notin moved THEN sscratch
                                  ELSE IF r \in moved THEN f.x[r] ELSE regs[r]],
        pc |-> sepc]

ContextOfRunning ==
    CASE pc = "fresh"        -> [x |-> FreshRegs(Program), pc |-> Word("user", Program, 0, "pc")]
      [] pc = "user"         -> [x |-> regs, pc |-> upc]
      [] pc = "entry"        -> [x |-> regs, pc |-> sepc]
      [] pc = "entry_vector" -> Partly({"t0", "sp"})
      [] pc = "entry_save"   -> Partly({"t0", "sp", "gp", "tp"})
      [] pc = "leave"        -> Partly({"t0"})
      [] OTHER               -> InFrame(mem[Below(TrapTop(running))])

ContextOf(i) ==
    CASE pc = "manager" \/ ManagerStopped -> IF Scheduling THEN InFrame(saved[i]) ELSE None
      [] pc = "returned" -> IF ~Scheduling THEN None
                            ELSE InFrame(IF i = running THEN exchange ELSE saved[i])
      [] OTHER -> IF i = running THEN ContextOfRunning
                  ELSE IF Scheduling THEN InFrame(saved[i]) ELSE None

(* enter_user_mode does not come back, so lesson 8 promises the manager    *)
(* nothing.                                                                *)
ManagerContext ==
    IF build = "lesson08" THEN [r \in CalleeSaved |-> Zero]
    ELSE IF Who = "manager" \/ ManagerStopped THEN SavedContext(regs) ELSE kernel_context

Contexts ==
    INSTANCE UserContexts WITH NoContext <- None, who <- Who, at <- running,
                               ctx <- [i \in Tasks |-> ContextOf(i)], mgr <- ManagerContext

(* No instruction of the bridge loses or mixes up a register: a program    *)
(* that is interrupted, answered or dispatched again goes on with its own  *)
(* registers, and run_user and run_task return like any function.          *)
BridgeKeepsContexts == Contexts!CSpec

(* What a program did, by its own instructions, that its lesson does not   *)
(* allow: a trap for which it has no answer, or going where it may not.    *)
Misbehaved ==
    \/ scause \notin SupportedCauses
    \/ conduct[running] \in (CASE build \in {"lesson08", "lesson09"} -> Conducts \ {"proper"}
                               [] build = "lesson10" -> {"spill", "stray"}
                               [] OTHER -> {"last", "spill", "stray"})

(* No assertion of a handler about the place, the origin and the vector of *)
(* a trap, or of a manager about its stack and the action it gets back,    *)
(* ever fails.  Those about the program's cause, sp and pc fail for what   *)
(* that program did before its trap, never for what the bridge made of its *)
(* registers on the way, over any number of turns; and a program that has  *)
(* left its code is not served.                                            *)
BridgeAssertionsHold ==
    /\ pc \notin {"panic", "lost"}
    /\ pc = "refused" => Misbehaved
    /\ pc = "handled" => conduct[running] # "stray"

(* Rust code runs on a stack of the kernel, with the kernel's gp and tp,   *)
(* and a fault in it goes to trap_entry, never to the entry that would     *)
(* take sscratch for a stack.                                              *)
RustRunsTrusted ==
    pc \in {"manager", "handler"} =>
        /\ regs["sp"] = IF pc = "handler" THEN Below(TrapTop(running))
                        ELSE Word("boot", call, 0, "sp")
        /\ regs["gp"] = KernelGp /\ regs["tp"] = KernelTp
        /\ stvec = "trap_entry" /\ sstatus["sie"] = 0

(* Whenever a program runs, the next trap finds the user entry and the     *)
(* empty trap stack of that program, however the previous ones ended.      *)
UserRunsReady ==
    pc = "user" =>
        /\ stvec = "user_trap_entry"
        /\ sscratch = TrapTop(running)
        /\ sstatus["spp"] = 0

(* A kernel fault is reported as such, in a frame of its own.              *)
FaultReportedFromKernel ==
    pc = "report" =>
        /\ regs["sp"] \in FrameAddresses
        /\ mem[regs["sp"]].sstatus["spp"] = 1
        /\ regs["sp"].kind = "trap" => regs["sp"].n = 2
================================================================================
