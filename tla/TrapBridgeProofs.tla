---------------------------- MODULE TrapBridgeProofs ----------------------------
(***************************************************************************)
(* The bridge for every kernel build, any number of tasks, of calls and of *)
(* instructions the programs run between two traps.                        *)
(***************************************************************************)
EXTENDS TrapBridgeRefinement, TLAPS

(***************************************************************************)
(* Stacks.  The frame of a task is one below the top of its trap stack; a  *)
(* fault of the handler goes below that, one of the manager to its stack.  *)
(***************************************************************************)
FrameOf(i) == Below(TrapTop(i))

BootSp(c) == Word("boot", c, 0, "sp")

LEMMA FrameWords ==
  ASSUME NEW i
  PROVE  /\ FrameOf(i) = Word("trap", i, 1, "sp")
         /\ Below(FrameOf(i)) = Word("trap", i, 2, "sp")
         /\ Above(FrameOf(i)) = TrapTop(i)
         /\ Below(BootSp(i)) = Word("boot", i, 1, "sp")
<1>1. FrameOf(i) = Word("trap", i, 1, "sp")
  BY DEF FrameOf, Below, TrapTop, Word
<1>2. Below(Word("trap", i, 1, "sp")) = Word("trap", i, 2, "sp")
  BY DEF Below, Word
<1>3. Above(Word("trap", i, 1, "sp")) = TrapTop(i)
  BY DEF Above, TrapTop, Word
<1>4. Below(BootSp(i)) = Word("boot", i, 1, "sp")
  BY DEF BootSp, Below, Word
<1>. QED
  BY <1>1, <1>2, <1>3, <1>4

LEMMA WordFacts ==
  ASSUME NEW k, NEW o, NEW n, NEW r
  PROVE  /\ Word(k, o, n, r).kind = k /\ Word(k, o, n, r).of = o
         /\ Word(k, o, n, r).n = n /\ Word(k, o, n, r).reg = r
BY DEF Word

LEMMA FrameFacts ==
  ASSUME NEW i \in Tasks
  PROVE  /\ FrameOf(i) \in FrameAddresses /\ Below(FrameOf(i)) \in FrameAddresses
         /\ FrameOf(i) # Below(FrameOf(i))
         /\ FrameOf(i).kind = "trap" /\ Below(FrameOf(i)).kind = "trap"
         /\ Below(FrameOf(i)).n = 2
         /\ \A j \in Tasks : FrameOf(j) = FrameOf(i) => i = j
<1>1. Word("trap", i, 1, "sp") \in FrameAddresses /\ Word("trap", i, 2, "sp") \in FrameAddresses
  BY DEF FrameAddresses, Word
<1>. QED
  BY <1>1, FrameWords, WordFacts

LEMMA BootFacts ==
  ASSUME NEW c \in 0..MaxCalls
  PROVE  /\ Below(BootSp(c)) \in FrameAddresses /\ BootSp(c).kind = "boot"
         /\ Below(BootSp(c)).kind = "boot"
         /\ \A i \in Tasks : Below(BootSp(c)) # FrameOf(i)
<1>1. Word("boot", c, 1, "sp") \in FrameAddresses
  BY DEF FrameAddresses, Word
<1>2. BootSp(c).kind = "boot"
  BY DEF BootSp, Word
<1>. QED
  BY <1>1, <1>2, FrameWords, WordFacts

(***************************************************************************)
(* The invariant.  Typed: every word is a word and every frame a frame.    *)
(***************************************************************************)
RegFiles == [RegNames -> Words]
Statuses == [{"spp", "spie", "sie"} -> {0, 1}]

PCs == {"manager", "fresh", "restore", "user", "entry", "entry_vector", "entry_save",
        "handler", "handled", "leave", "returned", "kernel_entry", "report", "refused"}

Typed ==
    /\ build \in AllBuilds /\ running \in Tasks /\ call \in 0..MaxCalls
    /\ work \in [Tasks -> Nat] /\ conduct \in [Tasks -> Conducts]
    /\ regs \in RegFiles /\ upc \in Words /\ sscratch \in Words /\ sepc \in Words
    /\ sstatus \in Statuses /\ scause \in Causes
    /\ mem \in [FrameAddresses -> Frames]
    /\ kernel_context \in [CalleeSaved -> Words]
    /\ kernel_gp_saved \in Words /\ kernel_tp_saved \in Words
    /\ exchange \in Frames /\ saved \in [Tasks -> Frames]

(* Between a call of run_user or run_task and its return the manager's     *)
(* registers are where terminate_process looks for them.                   *)
CallPCs == PCs \ {"manager", "kernel_entry", "report", "refused"}

KernelKept ==
    pc \in CallPCs =>
        /\ call < MaxCalls
        /\ kernel_gp_saved = KernelGp /\ kernel_tp_saved = KernelTp
        /\ build # "lesson08" => kernel_context = SavedContext(ManagerRegs(call))

(* The scheduling build has a stack for each task and expects the frame on *)
(* the one it dispatched; what it dispatches can gain no privilege.        *)
Dispatched ==
    IF Scheduling
    THEN /\ pc \in {"restore", "leave", "user", "entry", "entry_vector", "entry_save",
                    "handler"} => expected = FrameOf(running)
         /\ \A i \in Tasks : saved[i].sstatus = Trusted
         /\ pc \in {"handled", "returned"} => exchange.sstatus = Trusted
         /\ pc = "handled" => exchange = mem[FrameOf(running)]
         /\ pc # "fresh"
    ELSE /\ running = 0 /\ pc # "restore"
         /\ build \in {"lesson09", "lesson10"} => expected \in {Zero, FrameOf(0)}

(* What the hart and the frame hold at each place of the bridge.           *)
AtManager ==
    pc = "manager" =>
        /\ regs = ManagerRegs(call)
        /\ stvec = "trap_entry" /\ sstatus["sie"] = 0

AtUser ==
    pc \in {"user", "entry"} =>
        /\ stvec = "user_trap_entry"
        /\ sscratch = TrapTop(running)
        /\ sstatus["spp"] = 0

AtEntry ==
    /\ pc \in {"entry", "entry_vector", "entry_save"} =>
           sstatus["spp"] = 0 /\ sstatus["sie"] = 0
    /\ pc = "entry_vector" =>
           /\ mem[FrameOf(running)].x["gp"] = regs["gp"]
           /\ mem[FrameOf(running)].x["tp"] = regs["tp"]

OnFrame ==
    pc \in {"restore", "entry_vector", "entry_save", "handler", "handled", "leave"} =>
        regs["sp"] = FrameOf(running)

OnKernelRegs ==
    /\ pc \in {"entry_save", "handler", "handled"} =>
           regs["gp"] = KernelGp /\ regs["tp"] = KernelTp
    /\ pc \in {"entry_save", "handler", "handled", "returned"} => stvec = "trap_entry"
    /\ pc \in {"handler", "handled", "returned"} => sstatus["sie"] = 0

AtHandler ==
    pc = "handler" =>
        /\ regs["a0"] = FrameOf(running)
        /\ mem[FrameOf(running)].sstatus["spp"] = 0
        /\ mem[FrameOf(running)].scause = scause

AtHandled ==
    pc = "handled" =>
        /\ regs["a0"] \in {Action(0), Action(1)}
        /\ regs["a0"] = Action(0) => ~Scheduling /\ mem[FrameOf(running)].sstatus = Trusted
        /\ regs["a0"] = Action(1) => build # "lesson08"

WayBack ==
    /\ pc = "restore" => mem[FrameOf(running)].sstatus = Trusted
    /\ pc = "leave" => sstatus["spp"] = 0
    /\ pc = "returned" =>
           /\ build # "lesson08" /\ regs["a0"] = Action(1)
           /\ regs["sp"] = BootSp(call)

AtFault ==
    /\ pc = "kernel_entry" =>
           /\ sstatus["spp"] = 1
           /\ regs["sp"] \in {BootSp(call), FrameOf(running)}
    /\ pc = "report" =>
           /\ regs["sp"] \in {Below(BootSp(call)), Below(FrameOf(running))}
           /\ mem[regs["sp"]].sstatus["spp"] = 1

Stages == /\ AtManager /\ AtUser /\ AtEntry /\ OnFrame /\ OnKernelRegs /\ AtHandler
          /\ AtHandled /\ WayBack /\ AtFault

BridgeInv == pc \in PCs /\ Typed /\ KernelKept /\ Dispatched /\ Stages

LEMMA WordTypes ==
  /\ Zero \in Words /\ Junk \in Words /\ \A n \in Nat : Action(n) \in Words
  /\ KernelGp \in Words /\ KernelTp \in Words
  /\ Action(0) # Action(1)
  /\ \A i \in Tasks : /\ TrapTop(i) \in Words /\ FrameOf(i) \in Words
                      /\ Below(FrameOf(i)) \in Words
  /\ \A c \in 0..MaxCalls : BootSp(c) \in Words /\ Below(BootSp(c)) \in Words
<1>1. \A k \in {"zero", "junk", "user", "result", "kernel", "boot", "trap", "action"},
         o \in Nat, n \in Nat, r \in Places : Word(k, o, n, r) \in Words
  BY DEF Word, Words
<1>2. /\ "sp" \in RegNames /\ "gp" \in RegNames /\ "tp" \in RegNames
      /\ "" \in Places /\ RegNames \subseteq Places
  BY DEF RegNames, Places
<1>3. \A i \in Tasks : i \in Nat
  BY TrapBridgeAssumption
<1>4. 0 \in Nat /\ 1 \in Nat /\ 2 \in Nat
  OBVIOUS
<1>5. Zero \in Words /\ Junk \in Words /\ \A n \in Nat : Action(n) \in Words
  BY <1>1, <1>2, <1>4 DEF Zero, Junk, Action
<1>6. KernelGp \in Words /\ KernelTp \in Words
  BY <1>1, <1>2, <1>4 DEF KernelGp, KernelTp
<1>7. Action(0) # Action(1)
  <2>1. Action(0).n = 0 /\ Action(1).n = 1
    BY DEF Action, Word
  <2>. QED
    BY <2>1
<1>8. ASSUME NEW i \in Tasks
      PROVE  TrapTop(i) \in Words /\ FrameOf(i) \in Words /\ Below(FrameOf(i)) \in Words
  BY <1>1, <1>2, <1>3, <1>4, FrameWords DEF TrapTop
<1>9. ASSUME NEW c \in 0..MaxCalls PROVE BootSp(c) \in Words /\ Below(BootSp(c)) \in Words
  <2>1. c \in Nat
    OBVIOUS
  <2>. QED
    BY <1>1, <1>2, <1>4, <2>1, FrameWords DEF BootSp
<1>. QED
  BY <1>5, <1>6, <1>7, <1>8, <1>9

LEMMA RegFileTypes ==
  /\ \A c \in 0..MaxCalls : /\ ManagerRegs(c) \in RegFiles
                            /\ ManagerRegs(c)["sp"] = BootSp(c)
                            /\ ManagerRegs(c)["gp"] = KernelGp
                            /\ ManagerRegs(c)["tp"] = KernelTp
  /\ \A p \in Nat, n \in Nat, c \in Conducts : UserRegs(p, n, c) \in RegFiles /\ UserPc(p, n, c) \in Words
  /\ \A p \in Nat : Word("user", p, 0, "pc") \in Words
  /\ \A p \in Nat : FreshRegs(p) \in RegFiles
<1>1. \A k \in {"zero", "junk", "user", "result", "kernel", "boot", "trap", "action"},
         o \in Nat, n \in Nat, r \in Places : Word(k, o, n, r) \in Words
  BY DEF Word, Words
<1>2. /\ "sp" \in RegNames /\ "gp" \in RegNames /\ "tp" \in RegNames
      /\ "" \in Places /\ RegNames \subseteq Places
  BY DEF RegNames, Places
<1>3. ASSUME NEW c \in 0..MaxCalls
      PROVE  /\ ManagerRegs(c) \in RegFiles
             /\ ManagerRegs(c)["sp"] = BootSp(c)
             /\ ManagerRegs(c)["gp"] = KernelGp /\ ManagerRegs(c)["tp"] = KernelTp
  <2>0. c \in Nat /\ 0 \in Nat
    OBVIOUS
  <2>1. \A r \in RegNames : Word("kernel", c, 0, r) \in Words
    BY <1>1, <1>2, <2>0
  <2>2. Word("boot", c, 0, "sp") \in Words
    BY <1>1, <1>2, <2>0
  <2>. QED
    BY <1>2, <2>1, <2>2, WordTypes DEF ManagerRegs, RegFiles, BootSp
<1>4. ASSUME NEW p \in Nat, NEW n \in Nat, NEW c \in Conducts
      PROVE  UserRegs(p, n, c) \in RegFiles /\ UserPc(p, n, c) \in Words
  <2>1. "stray" \in Places /\ "pc" \in Places /\ "last" \in Places /\ "spill" \in Places
    BY DEF Places
  <2>2. RegNames \subseteq Places
    BY DEF Places
  <2>3. \A r \in Places : Word("user", p, n, r) \in Words
    BY <1>1
  <2>4. UserRegs(p, n, c) \in RegFiles
    BY <2>1, <2>2, <2>3 DEF UserRegs, RegFiles
  <2>5. UserPc(p, n, c) \in Words
    BY <2>1, <2>3 DEF UserPc, Conducts
  <2>. QED
    BY <2>4, <2>5
<1>5. ASSUME NEW p \in Nat PROVE FreshRegs(p) \in RegFiles
  <2>1. Word("user", p, 0, "sp") \in Words
    BY <1>1, <1>2
  <2>. QED
    BY <2>1, WordTypes DEF FreshRegs, RegFiles
<1>6. \A p \in Nat : Word("user", p, 0, "pc") \in Words
  BY <1>1 DEF Places
<1>. QED
  BY <1>3, <1>4, <1>5, <1>6

LEMMA FrameTypes ==
  /\ Trusted \in Statuses /\ Trusted["spp"] = 0 /\ Trusted["sie"] = 0
  /\ NoFrame \in Frames /\ NoFrame.sstatus = Trusted
  /\ \A i \in Tasks : FirstFrame(i) \in Frames /\ FirstFrame(i).sstatus = Trusted
<1>1. Trusted \in Statuses /\ Trusted["spp"] = 0 /\ Trusted["sie"] = 0
  BY DEF Trusted, Statuses
<1>2. [r \in RegNames |-> Zero] \in RegFiles
  BY WordTypes DEF RegFiles
<1>3. NoFrame \in Frames /\ NoFrame.sstatus = Trusted
  BY <1>1, <1>2, WordTypes DEF NoFrame, Frames, RegFiles, Statuses, Causes
<1>4. ASSUME NEW i \in Tasks
      PROVE  FirstFrame(i) \in Frames /\ FirstFrame(i).sstatus = Trusted
  <2>1. i \in Nat /\ Word("user", i, 0, "s") \in Words /\ Word("user", i, 0, "pc") \in Words
    BY TrapBridgeAssumption DEF Word, Words, RegNames, Places
  <2>2. [FreshRegs(i) EXCEPT !["s"] = Word("user", i, 0, "s")] \in RegFiles
    BY <2>1, RegFileTypes DEF RegFiles
  <2>. QED
    BY <1>3, <2>1, <2>2 DEF FirstFrame, Frames, RegFiles
<1>. QED
  BY <1>1, <1>3, <1>4

(* What the bridge reads and writes through a stack address.               *)
LEMMA MemoryFacts ==
  ASSUME Typed, NEW a \in FrameAddresses, NEW f \in Frames
  PROVE  /\ Load(a) = mem[a] /\ mem[a] \in Frames
         /\ Store(a, f) = [mem EXCEPT ![a] = f]
         /\ Store(a, f) \in [FrameAddresses -> Frames]
         /\ Store(a, f)[a] = f
         /\ \A b \in FrameAddresses \ {a} : Store(a, f)[b] = mem[b]
BY DEF Typed, Load, Store

(* A frame as its fields, and the ways the bridge changes one.             *)
LEMMA FrameParts ==
  ASSUME NEW f \in Frames
  PROVE  /\ f.x \in RegFiles /\ f.sstatus \in Statuses /\ f.sepc \in Words
         /\ f.scause \in Causes
BY DEF Frames, RegFiles, Statuses, Causes

LEMMA AnsweredFacts ==
  ASSUME NEW f \in Frames
  PROVE  /\ Answered(f) \in Frames /\ Answered(f).sstatus = Trusted
         /\ Answered(f).scause = f.scause /\ Answered(f).sepc = Resumed(f.sepc)
         /\ \A r \in RegNames : r # "a0" => Answered(f).x[r] = f.x[r]
<1>1. /\ f.x \in RegFiles /\ f.sepc \in Words
  BY FrameParts
<1>2. Word("result", f.sepc.of, f.sepc.n, "") \in Words /\ Resumed(f.sepc) \in Words
  BY <1>1 DEF Words, Word, Resumed, Places
<1>3. [f.x EXCEPT !["a0"] = Word("result", f.sepc.of, f.sepc.n, "")] \in RegFiles
  BY <1>1, <1>2 DEF RegFiles
<1>4. /\ Answered(f).x = [f.x EXCEPT !["a0"] = Word("result", f.sepc.of, f.sepc.n, "")]
      /\ Answered(f).sepc = Resumed(f.sepc)
      /\ Answered(f).sstatus = Trusted /\ Answered(f).scause = f.scause
  BY DEF Answered, Frames
<1>5. Answered(f) \in Frames
  BY <1>2, <1>3, <1>4, FrameTypes DEF Answered, Frames, RegFiles, Statuses
<1>. QED
  BY <1>1, <1>4, <1>5 DEF RegFiles

(***************************************************************************)
(* The steps.                                                              *)
(***************************************************************************)
USE DEF csrVars, memVars, rustVars, runVars, Scheduling

LEMMA BridgeInit == Init => BridgeInv
<1>. SUFFICES ASSUME Init PROVE BridgeInv
  OBVIOUS
<1>1. 0 \in 0..MaxCalls /\ 0 \in Tasks /\ build \in AllBuilds
  BY TrapBridgeAssumption DEF Init
<1>2. Typed
  <2>1. [r \in CalleeSaved |-> Zero] \in [CalleeSaved -> Words]
    BY WordTypes
  <2>. QED
    BY <1>1, <2>1, WordTypes, RegFileTypes, FrameTypes DEF Init, Typed, Causes, Conducts
<1>3. pc = "manager" /\ regs = ManagerRegs(0) /\ call = 0
  BY DEF Init
<1>4. Stages
  BY <1>3, FrameTypes DEF Init, Stages, AtManager, AtUser, AtEntry, OnFrame, OnKernelRegs,
                          AtHandler, AtHandled, WayBack, AtFault
<1>5. KernelKept /\ Dispatched /\ pc \in PCs
  BY <1>1, <1>3, FrameTypes DEF Init, KernelKept, CallPCs, Dispatched, PCs
<1>. QED
  BY <1>2, <1>4, <1>5 DEF BridgeInv

LEMMA SavedContextTypes ==
  ASSUME NEW r \in RegFiles
  PROVE  SavedContext(r) \in [CalleeSaved -> Words]
BY DEF SavedContext, RegFiles, CalleeSaved, RegNames

LEMMA RunUserInv == ASSUME BridgeInv, RunUser PROVE BridgeInv'
<1>1. /\ UNCHANGED <<regs, upc, csrVars, mem, rustVars, call>>
      /\ pc = "manager" /\ pc' = "fresh" /\ running' = 0 /\ build # "scheduling"
      /\ call < MaxCalls
      /\ work' = [work EXCEPT ![0] = 0] /\ conduct' = [conduct EXCEPT ![0] = "proper"]
      /\ kernel_gp_saved' = regs["gp"] /\ kernel_tp_saved' = regs["tp"]
      /\ \/ kernel_context' = SavedContext(regs)
         \/ build = "lesson08" /\ kernel_context' = kernel_context
  BY DEF RunUser, SavesKernel
<1>2. regs = ManagerRegs(call) /\ call \in 0..MaxCalls
  BY <1>1 DEF BridgeInv, Stages, AtManager, Typed
<1>3. regs["gp"] = KernelGp /\ regs["tp"] = KernelTp
  BY <1>2, RegFileTypes
<1>4. Typed'
  BY <1>1, <1>3, WordTypes, SavedContextTypes, TrapBridgeAssumption
  DEF BridgeInv, Typed, Conducts
<1>5. KernelKept'
  BY <1>1, <1>2, <1>3 DEF KernelKept
<1>6. Dispatched' /\ pc' \in PCs
  BY <1>1 DEF BridgeInv, Dispatched, PCs
<1>7. Stages'
  BY <1>1 DEF Stages, AtManager, AtUser, AtEntry, OnFrame, OnKernelRegs, AtHandler,
              AtHandled, WayBack, AtFault
<1>. QED
  BY <1>4, <1>5, <1>6, <1>7 DEF BridgeInv

LEMMA RunTaskInv == ASSUME BridgeInv, NEW i \in Tasks, RunTask(i) PROVE BridgeInv'
<1> DEFINE a == FrameOf(i)
<1>1. /\ UNCHANGED <<upc, csrVars, build, exchange, done, saved, live, call, work, conduct>>
      /\ pc = "manager" /\ pc' = "restore" /\ running' = i /\ build = "scheduling"
      /\ call < MaxCalls
      /\ kernel_gp_saved' = regs["gp"] /\ kernel_tp_saved' = regs["tp"]
      /\ kernel_context' = SavedContext(regs)
      /\ mem' = Store(a, saved[i]) /\ expected' = a
      /\ regs' = [regs EXCEPT !["sp"] = a, !["a0"] = a, !["t0"] = Junk]
  BY DEF RunTask, SavesKernel, FrameOf, DispatchedFrame
<1>2. regs = ManagerRegs(call) /\ call \in 0..MaxCalls /\ regs \in RegFiles
  BY <1>1 DEF BridgeInv, Stages, AtManager, Typed
<1>3. regs["gp"] = KernelGp /\ regs["tp"] = KernelTp
  BY <1>2, RegFileTypes
<1>4. a \in FrameAddresses /\ a \in Words /\ saved[i] \in Frames /\ saved[i].sstatus = Trusted
  BY <1>1, FrameFacts, WordTypes DEF BridgeInv, Typed, Dispatched
<1>. HIDE DEF a
<1>5. mem' \in [FrameAddresses -> Frames] /\ mem'[a] = saved[i]
  BY <1>1, <1>4, MemoryFacts DEF BridgeInv
<1>6. regs' \in RegFiles /\ regs'["sp"] = a
  BY <1>1, <1>2, <1>4, WordTypes DEF RegFiles, RegNames
<1>7. Typed'
  BY <1>1, <1>2, <1>3, <1>5, <1>6, WordTypes, SavedContextTypes DEF BridgeInv, Typed
<1>8. KernelKept'
  BY <1>1, <1>2, <1>3 DEF KernelKept
<1>9. Dispatched' /\ pc' \in PCs
  BY <1>1 DEF BridgeInv, Dispatched, PCs, a
<1>10. Stages'
  BY <1>1, <1>4, <1>5, <1>6
     DEF Stages, AtManager, AtUser, AtEntry, OnFrame, OnKernelRegs, AtHandler, AtHandled,
         WayBack, AtFault, a
<1>. QED
  BY <1>7, <1>8, <1>9, <1>10 DEF BridgeInv

LEMMA SretFacts ==
  ASSUME NEW status \in Statuses, Sret(status)
  PROVE  /\ sstatus' \in Statuses /\ sstatus'["spp"] = 0
         /\ status["spp"] = 0 => pc' = "user"
BY DEF Sret, Statuses

LEMMA EnterFreshInv == ASSUME BridgeInv, EnterFresh PROVE BridgeInv'
<1>1. /\ UNCHANGED <<scause, memVars, rustVars, runVars>> /\ pc = "fresh"
      /\ stvec' = "user_trap_entry" /\ sscratch' = TrapTop(running)
      /\ sepc' = Word("user", Program, 0, "pc") /\ upc' = sepc'
      /\ regs' = FreshRegs(Program) /\ Sret(Trusted)
  BY DEF EnterFresh
<1>2. pc' = "user" /\ sstatus' \in Statuses /\ sstatus'["spp"] = 0
  BY <1>1, SretFacts, FrameTypes
<1>3. Program \in Nat
  BY TrapBridgeAssumption DEF BridgeInv, Typed, Program
<1>4. Typed'
  BY <1>1, <1>2, <1>3, RegFileTypes, WordTypes DEF BridgeInv, Typed
<1>5. KernelKept'
  BY <1>1, <1>2 DEF BridgeInv, KernelKept, CallPCs, PCs
<1>6. Dispatched' /\ pc' \in PCs
  BY <1>1, <1>2 DEF BridgeInv, Dispatched, PCs
<1>7. Stages'
  BY <1>1, <1>2 DEF Stages, AtManager, AtUser, AtEntry, OnFrame, OnKernelRegs, AtHandler,
                    AtHandled, WayBack, AtFault
<1>. QED
  BY <1>4, <1>5, <1>6, <1>7 DEF BridgeInv

LEMMA UserWorkInv == ASSUME BridgeInv, NEW c \in Conducts, UserWork(c) PROVE BridgeInv'
<1>1. /\ UNCHANGED <<pc, csrVars, memVars, rustVars, running, call>> /\ pc = "user"
      /\ work' = [work EXCEPT ![running] = @ + 1]
      /\ conduct' = [conduct EXCEPT ![running] = c]
      /\ regs' = UserRegs(Program, work'[running], c)
      /\ upc' = UserPc(Program, work'[running], c)
  BY DEF UserWork
<1>2. Program \in Nat /\ work' \in [Tasks -> Nat] /\ work'[running] \in Nat
  BY <1>1, TrapBridgeAssumption DEF BridgeInv, Typed, Program
<1>3. Typed'
  BY <1>1, <1>2, RegFileTypes DEF BridgeInv, Typed
<1>4. KernelKept' /\ Dispatched' /\ pc' \in PCs
  BY <1>1 DEF BridgeInv, KernelKept, Dispatched
<1>5. Stages'
  BY <1>1 DEF BridgeInv, Stages, AtManager, AtUser, AtEntry, OnFrame, OnKernelRegs,
              AtHandler, AtHandled, WayBack, AtFault
<1>. QED
  BY <1>3, <1>4, <1>5 DEF BridgeInv

LEMMA UserTrapInv ==
  ASSUME BridgeInv, NEW cause \in UserCauses, UserTrap(cause)
  PROVE  BridgeInv'
<1>1. /\ UNCHANGED <<regs, upc, stvec, sscratch, memVars, rustVars, runVars>>
      /\ pc = "user" /\ scause' = cause /\ sepc' = upc
      /\ sstatus' = [spp |-> 0, spie |-> sstatus["sie"], sie |-> 0]
      /\ pc' = IF stvec = "user_trap_entry" THEN "entry" ELSE "kernel_entry"
  BY DEF UserTrap, HardwareTrap
<1>2. pc' = "entry" /\ sscratch = TrapTop(running)
  BY <1>1 DEF BridgeInv, Stages, AtUser
<1>3. sstatus' \in Statuses /\ sstatus'["spp"] = 0 /\ sstatus'["sie"] = 0
  BY <1>1 DEF BridgeInv, Typed, Statuses
<1>4. Typed'
  BY <1>1, <1>3 DEF BridgeInv, Typed, Causes
<1>5. KernelKept' /\ Dispatched' /\ pc' \in PCs
  BY <1>1, <1>2 DEF BridgeInv, KernelKept, CallPCs, PCs, Dispatched
<1>6. Stages'
  BY <1>1, <1>2, <1>3 DEF BridgeInv, Stages, AtManager, AtUser, AtEntry, OnFrame,
              OnKernelRegs, AtHandler, AtHandled, WayBack, AtFault
<1>. QED
  BY <1>4, <1>5, <1>6 DEF BridgeInv

LEMMA EntrySwapFacts ==
  ASSUME BridgeInv, EntrySwap
  PROVE  LET a == FrameOf(running)
         IN /\ UNCHANGED <<upc, stvec, sepc, scause, sstatus, kernel_context,
                           kernel_gp_saved, kernel_tp_saved, rustVars, runVars>>
            /\ pc = "entry" /\ pc' = "entry_vector" /\ sscratch' = regs["sp"]
            /\ regs \in RegFiles /\ regs' \in RegFiles /\ regs["sp"] \in Words
            /\ regs'["sp"] = a
            /\ \A r \in RegNames : r \notin {"sp", "t0"} => regs'[r] = regs[r]
            /\ mem' \in [FrameAddresses -> Frames]
            /\ \A r \in {"t0", "gp", "tp", "sp"} : mem'[a].x[r] = regs[r]
<1> DEFINE a == FrameOf(running)
           f == FirstSaved(a)
<1>1. /\ UNCHANGED <<upc, stvec, sepc, scause, sstatus, kernel_context, kernel_gp_saved,
                     kernel_tp_saved, rustVars, runVars>>
      /\ pc = "entry" /\ pc' = "entry_vector" /\ sscratch' = regs["sp"]
      /\ mem' = Store(a, f)
      /\ regs' = [regs EXCEPT !["sp"] = a, !["t0"] = regs["sp"]]
  <2>1. pc = "entry" /\ sscratch = TrapTop(running)
    BY DEF EntrySwap, BridgeInv, Stages, AtUser
  <2>. QED
    BY <2>1 DEF EntrySwap, FrameOf
<1>2. a \in FrameAddresses /\ a \in Words /\ regs \in RegFiles
  BY FrameFacts, WordTypes DEF BridgeInv, Typed
<1>. HIDE DEF a
<1>3. Load(a) \in Frames
  BY <1>2, MemoryFacts, FrameTypes DEF BridgeInv
<1>4. f \in Frames /\ \A r \in {"t0", "gp", "tp", "sp"} : f.x[r] = regs[r]
  <2>1. Load(a).x \in RegFiles
    BY <1>3, FrameParts
  <2>2. f.x = [Load(a).x EXCEPT !["t0"] = regs["t0"], !["gp"] = regs["gp"],
                                !["tp"] = regs["tp"], !["sp"] = regs["sp"]]
    BY <1>3 DEF FirstSaved, Frames
  <2>3. f.x \in RegFiles /\ \A r \in {"t0", "gp", "tp", "sp"} : f.x[r] = regs[r]
    BY <1>2, <2>1, <2>2 DEF RegFiles, RegNames
  <2>4. f \in Frames
    BY <1>3, <2>2, <2>3 DEF FirstSaved, Frames, RegFiles
  <2>. QED
    BY <2>3, <2>4
<1>. HIDE DEF f
<1>5. mem' \in [FrameAddresses -> Frames] /\ mem'[a] = f
  BY <1>1, <1>2, <1>4, MemoryFacts DEF BridgeInv
<1>6. /\ regs' \in RegFiles /\ regs'["sp"] = a /\ regs["sp"] \in Words
      /\ \A r \in RegNames : r \notin {"sp", "t0"} => regs'[r] = regs[r]
  BY <1>1, <1>2 DEF RegFiles, RegNames
<1>. QED
  BY <1>1, <1>2, <1>4, <1>5, <1>6 DEF a

LEMMA EntrySwapInv == ASSUME BridgeInv, EntrySwap PROVE BridgeInv'
<1>1. Typed'
  BY EntrySwapFacts DEF BridgeInv, Typed
<1>2. KernelKept' /\ Dispatched' /\ pc' \in PCs
  BY EntrySwapFacts DEF BridgeInv, KernelKept, CallPCs, PCs, Dispatched
<1>3. Stages'
  <2>1. sstatus["spp"] = 0 /\ sstatus["sie"] = 0
    BY EntrySwapFacts DEF BridgeInv, Stages, AtEntry
  <2>. QED
    BY <2>1, EntrySwapFacts
       DEF Stages, AtManager, AtUser, AtEntry, OnFrame, OnKernelRegs, AtHandler, AtHandled,
           WayBack, AtFault, RegNames
<1>. QED
  BY <1>1, <1>2, <1>3 DEF BridgeInv

LEMMA EntryVectorInv == ASSUME BridgeInv, EntryVector PROVE BridgeInv'
<1>1. /\ UNCHANGED <<upc, sscratch, sepc, scause, sstatus, memVars, rustVars, runVars>>
      /\ pc = "entry_vector" /\ pc' = "entry_save" /\ stvec' = "trap_entry"
      /\ regs' = [regs EXCEPT !["gp"] = kernel_gp_saved, !["tp"] = kernel_tp_saved,
                              !["t0"] = Junk]
  BY DEF EntryVector, HandlerVector
<1>2. /\ kernel_gp_saved = KernelGp /\ kernel_tp_saved = KernelTp /\ regs \in RegFiles
      /\ regs["sp"] = FrameOf(running) /\ sstatus["spp"] = 0 /\ sstatus["sie"] = 0
  BY <1>1 DEF BridgeInv, KernelKept, CallPCs, PCs, Typed, Stages, OnFrame, AtEntry
<1>3. /\ regs' \in RegFiles /\ regs'["sp"] = FrameOf(running)
      /\ regs'["gp"] = KernelGp /\ regs'["tp"] = KernelTp
  BY <1>1, <1>2, WordTypes DEF RegFiles, RegNames
<1>4. Typed'
  BY <1>1, <1>3 DEF BridgeInv, Typed
<1>5. KernelKept' /\ Dispatched' /\ pc' \in PCs
  BY <1>1 DEF BridgeInv, KernelKept, CallPCs, PCs, Dispatched
<1>6. Stages'
  BY <1>1, <1>2, <1>3
     DEF Stages, AtManager, AtUser, AtEntry, OnFrame, OnKernelRegs, AtHandler, AtHandled,
         WayBack, AtFault
<1>. QED
  BY <1>4, <1>5, <1>6 DEF BridgeInv

(* The frame EntrySave completes.                                          *)
Completed(f) ==
    [f EXCEPT !.x = [r \in RegNames |-> IF r \in {"t0", "gp", "tp", "sp"} THEN @[r] ELSE regs[r]],
              !.sstatus = sstatus, !.sepc = sepc, !.scause = scause]

LEMMA CompletedFacts ==
  ASSUME Typed, NEW f \in Frames
  PROVE  /\ Completed(f) \in Frames /\ Completed(f).sstatus = sstatus
         /\ Completed(f).scause = scause /\ Completed(f).sepc = sepc
         /\ Completed(f).x =
              [r \in RegNames |-> IF r \in {"t0", "gp", "tp", "sp"} THEN f.x[r] ELSE regs[r]]
<1>1. f.x \in RegFiles /\ regs \in RegFiles
  BY FrameParts DEF Typed
<1>2. [r \in RegNames |-> IF r \in {"t0", "gp", "tp", "sp"} THEN f.x[r] ELSE regs[r]]
        \in [RegNames -> Words]
  BY <1>1 DEF RegFiles
<1>. QED
  BY <1>2 DEF Completed, Frames, Typed, Statuses, Causes

LEMMA EntrySaveInv == ASSUME BridgeInv, EntrySave PROVE BridgeInv'
<1> DEFINE a == FrameOf(running)
<1>0. pc = "entry_save" /\ regs["sp"] = a
  BY DEF EntrySave, BridgeInv, Stages, OnFrame
<1>1. /\ UNCHANGED <<upc, csrVars, kernel_context, kernel_gp_saved, kernel_tp_saved,
                     rustVars, runVars>>
      /\ pc' = "handler" /\ mem' = Store(a, Completed(Load(a)))
      /\ regs' = [regs EXCEPT !["a0"] = a, !["t0"] = Junk, !["ra"] = Junk]
  BY <1>0 DEF EntrySave, Completed
<1>2. a \in FrameAddresses /\ a \in Words /\ regs \in RegFiles
  BY FrameFacts, WordTypes DEF BridgeInv, Typed
<1>. HIDE DEF a
<1>3. mem[a] \in Frames /\ Load(a) = mem[a]
  BY <1>2, MemoryFacts, FrameTypes DEF BridgeInv
<1>4. /\ mem' \in [FrameAddresses -> Frames]
      /\ mem'[a].sstatus = sstatus /\ mem'[a].scause = scause
  <2>1. /\ Completed(mem[a]) \in Frames /\ Completed(mem[a]).sstatus = sstatus
        /\ Completed(mem[a]).scause = scause
    BY <1>3, CompletedFacts DEF BridgeInv
  <2>2. mem' = Store(a, Completed(mem[a]))
    BY <1>1, <1>3
  <2>. HIDE DEF Completed
  <2>3. mem' \in [FrameAddresses -> Frames] /\ mem'[a] = Completed(mem[a])
    BY <1>2, <2>1, <2>2, MemoryFacts DEF BridgeInv
  <2>. QED
    BY <2>1, <2>3
<1>5. /\ regs' \in RegFiles /\ regs'["sp"] = a /\ regs'["a0"] = a
      /\ regs'["gp"] = regs["gp"] /\ regs'["tp"] = regs["tp"]
  BY <1>0, <1>1, <1>2, WordTypes DEF RegFiles, RegNames
<1>6. Typed'
  BY <1>1, <1>4, <1>5 DEF BridgeInv, Typed
<1>7. KernelKept' /\ Dispatched' /\ pc' \in PCs
  BY <1>0, <1>1 DEF BridgeInv, KernelKept, CallPCs, PCs, Dispatched
<1>8. Stages'
  <2>1. /\ sstatus["spp"] = 0 /\ sstatus["sie"] = 0 /\ stvec = "trap_entry"
        /\ regs["gp"] = KernelGp /\ regs["tp"] = KernelTp
    BY <1>0 DEF BridgeInv, Stages, AtEntry, OnKernelRegs
  <2>. QED
    BY <1>1, <1>4, <1>5, <2>1
       DEF Stages, AtManager, AtUser, AtEntry, OnFrame, OnKernelRegs, AtHandler, AtHandled,
           WayBack, AtFault, a
<1>. QED
  BY <1>6, <1>7, <1>8 DEF BridgeInv

(* What the handlers find.                                                 *)
LEMMA HandlerFacts ==
  ASSUME BridgeInv, pc = "handler"
  PROVE  /\ FrameOf(running) \in FrameAddresses /\ FrameOf(running) \in Words
         /\ Frame = mem[FrameOf(running)] /\ Frame \in Frames
         /\ regs \in RegFiles /\ regs["a0"] = FrameOf(running) /\ regs["sp"] = FrameOf(running)
         /\ regs["gp"] = KernelGp /\ regs["tp"] = KernelTp
         /\ stvec = "trap_entry" /\ sstatus["sie"] = 0
         /\ Frame.sstatus["spp"] = 0 /\ Frame.scause = scause
         /\ HandedOver
<1>1. FrameOf(running) \in FrameAddresses /\ FrameOf(running) \in Words
  BY FrameFacts, WordTypes DEF BridgeInv, Typed
<1>2. /\ regs \in RegFiles /\ regs["a0"] = FrameOf(running) /\ regs["sp"] = FrameOf(running)
      /\ regs["gp"] = KernelGp /\ regs["tp"] = KernelTp
      /\ stvec = "trap_entry" /\ sstatus["sie"] = 0
      /\ mem[FrameOf(running)].sstatus["spp"] = 0 /\ mem[FrameOf(running)].scause = scause
  BY DEF BridgeInv, Typed, Stages, OnFrame, OnKernelRegs, AtHandler
<1>3. Frame = mem[FrameOf(running)] /\ Frame \in Frames
  BY <1>1, <1>2, MemoryFacts, FrameTypes DEF BridgeInv, Frame
<1>4. FrameWhereExpected
  <2>1. CASE Scheduling
    BY <1>2, <2>1 DEF BridgeInv, Dispatched, FrameWhereExpected
  <2>2. CASE ~Scheduling
    <3>1. running = 0 /\ build \in {"lesson08", "lesson09", "lesson10"}
      BY <2>2 DEF BridgeInv, Typed, AllBuilds, Dispatched
    <3>2. FrameOf(0).kind = "trap" /\ FrameOf(0).of = 0 /\ FrameOf(0).n >= 1
      BY FrameWords, WordFacts
    <3>3. build \in {"lesson09", "lesson10"} => expected \in {Zero, FrameOf(0)}
      BY <2>2 DEF BridgeInv, Dispatched
    <3>. QED
      BY <1>2, <3>1, <3>2, <3>3 DEF FrameWhereExpected, FrameOf
  <2>. QED
    BY <2>1, <2>2
<1>5. HandedOver
  BY <1>2, <1>3, <1>4 DEF HandedOver
<1>. QED
  BY <1>1, <1>2, <1>3, <1>4, <1>5

LEMMA AfterCallFacts ==
  ASSUME NEW n \in Nat, regs \in RegFiles
  PROVE  /\ AfterCall(n) \in RegFiles /\ AfterCall(n)["a0"] = Action(n)
         /\ \A r \in {"sp", "gp", "tp"} : AfterCall(n)[r] = regs[r]
BY WordTypes DEF AfterCall, RegFiles, RegNames

LEMMA HandleProcessInv == ASSUME BridgeInv, HandleProcess PROVE BridgeInv'
<1> DEFINE a == FrameOf(running)
<1>0. pc = "handler" /\ build # "scheduling" /\ regs["a0"] = a
  BY HandlerFacts DEF HandleProcess
<1>1. /\ UNCHANGED <<upc, csrVars, kernel_context, kernel_gp_saved, kernel_tp_saved,
                     build, exchange, done, saved, live, runVars>>
      /\ pc' = "handled" /\ expected' = IF build = "lesson08" THEN expected ELSE a
      /\ \/ mem' = Store(a, Answered(Frame)) /\ regs' = AfterCall(0)
         \/ build # "lesson08" /\ mem' = mem /\ regs' = AfterCall(1)
  BY <1>0 DEF HandleProcess, Accepted, SupportedCauses
<1>2. a \in FrameAddresses /\ Frame \in Frames
  BY <1>0, HandlerFacts
<1>. HIDE DEF a
<1>3. /\ mem' \in [FrameAddresses -> Frames]
      /\ regs' = AfterCall(0) => mem'[a].sstatus = Trusted
  <2>1. AfterCall(0)["a0"] = Action(0) /\ AfterCall(1)["a0"] = Action(1)
    BY <1>0, HandlerFacts, AfterCallFacts
  <2>2. AfterCall(0) # AfterCall(1)
    BY <2>1, WordTypes
  <2>3. mem \in [FrameAddresses -> Frames]
    BY DEF BridgeInv, Typed
  <2>. QED
    BY <1>1, <1>2, <2>2, <2>3, MemoryFacts, AnsweredFacts DEF BridgeInv
<1>4. /\ regs' \in RegFiles /\ regs'["sp"] = FrameOf(running)
      /\ regs'["gp"] = KernelGp /\ regs'["tp"] = KernelTp
      /\ \/ regs'["a0"] = Action(0) /\ regs' = AfterCall(0)
         \/ regs'["a0"] = Action(1) /\ build # "lesson08"
  BY <1>0, <1>1, HandlerFacts, AfterCallFacts
<1>5. Typed'
  BY <1>1, <1>3, <1>4 DEF BridgeInv, Typed
<1>6. KernelKept' /\ Dispatched' /\ pc' \in PCs
  BY <1>0, <1>1 DEF BridgeInv, KernelKept, CallPCs, PCs, Dispatched, a
<1>7. Stages'
  BY <1>0, <1>1, <1>3, <1>4, HandlerFacts, WordTypes
     DEF Stages, AtManager, AtUser, AtEntry, OnFrame, OnKernelRegs, AtHandler, AtHandled,
         WayBack, AtFault, a
<1>. QED
  BY <1>5, <1>6, <1>7 DEF BridgeInv

LEMMA HandleTaskInv == ASSUME BridgeInv, HandleTask PROVE BridgeInv'
<1> DEFINE a == FrameOf(running)
<1>0. pc = "handler" /\ build = "scheduling" /\ regs["a0"] = a
  BY HandlerFacts DEF HandleTask
<1>1. /\ UNCHANGED <<upc, csrVars, kernel_context, kernel_gp_saved, kernel_tp_saved,
                     build, saved, live, expected, runVars>>
      /\ pc' = "handled" /\ mem' = Store(a, exchange') /\ regs' = AfterCall(1)
      /\ exchange' \in {Answered(Frame), [Frame EXCEPT !.sstatus = Trusted]}
  BY <1>0 DEF HandleTask
<1>2. a \in FrameAddresses /\ Frame \in Frames
  BY <1>0, HandlerFacts
<1>. HIDE DEF a
<1>3. exchange' \in Frames /\ exchange'.sstatus = Trusted
  <2>1. /\ [Frame EXCEPT !.sstatus = Trusted] \in Frames
        /\ [Frame EXCEPT !.sstatus = Trusted].sstatus = Trusted
    BY <1>2, FrameTypes DEF Frames, Statuses
  <2>. QED
    BY <1>1, <1>2, <2>1, AnsweredFacts
<1>4. mem' \in [FrameAddresses -> Frames] /\ mem'[a] = exchange'
  BY <1>1, <1>2, <1>3, MemoryFacts DEF BridgeInv
<1>5. /\ regs' \in RegFiles /\ regs'["sp"] = FrameOf(running)
      /\ regs'["gp"] = KernelGp /\ regs'["tp"] = KernelTp /\ regs'["a0"] = Action(1)
  BY <1>0, <1>1, HandlerFacts, AfterCallFacts
<1>6. Typed'
  BY <1>1, <1>3, <1>4, <1>5 DEF BridgeInv, Typed
<1>7. KernelKept' /\ pc' \in PCs
  BY <1>0, <1>1 DEF BridgeInv, KernelKept, CallPCs, PCs
<1>8. Dispatched'
  BY <1>0, <1>1, <1>3, <1>4 DEF BridgeInv, Dispatched, a
<1>9. Stages'
  BY <1>0, <1>1, <1>5, HandlerFacts, WordTypes
     DEF Stages, AtManager, AtUser, AtEntry, OnFrame, OnKernelRegs, AtHandler, AtHandled,
         WayBack, AtFault
<1>. QED
  BY <1>6, <1>7, <1>8, <1>9 DEF BridgeInv

LEMMA HandlerStopsInv == ASSUME BridgeInv, HandlerStops PROVE BridgeInv'
<1>1. /\ UNCHANGED <<regs, upc, csrVars, memVars, rustVars, runVars>> /\ pc = "handler"
      /\ pc' = IF HandedOver THEN "refused" ELSE "panic"
  BY DEF HandlerStops
<1>2. pc' = "refused"
  BY <1>1, HandlerFacts
<1>3. Typed' /\ KernelKept' /\ Dispatched' /\ pc' \in PCs
  BY <1>1, <1>2 DEF BridgeInv, Typed, KernelKept, CallPCs, PCs, Dispatched
<1>4. Stages'
  BY <1>2 DEF Stages, AtManager, AtUser, AtEntry, OnFrame, OnKernelRegs, AtHandler,
              AtHandled, WayBack, AtFault
<1>. QED
  BY <1>3, <1>4 DEF BridgeInv

(* What restore_user_frame finds, from run_task or after a call.           *)
LEMMA RestoreFacts ==
  ASSUME BridgeInv, Restore
  PROVE  LET f == mem[FrameOf(running)]
         IN /\ regs["sp"] = FrameOf(running) /\ f \in Frames /\ f.sstatus = Trusted
            /\ pc \in {"restore", "handled"} /\ pc' = "leave"
            /\ sepc' = f.sepc /\ sstatus' = f.sstatus /\ sscratch' = f.x["sp"]
            /\ regs' = [RestoredRegs(f) EXCEPT !["t0"] = f.x["sp"]]
            /\ UNCHANGED <<upc, stvec, scause, memVars, rustVars, runVars>>
            /\ pc = "handled" => ~Scheduling /\ regs["a0"] = Action(0)
<1>1. pc \in {"restore", "handled"} /\ pc' = "leave" /\ (pc = "handled" => regs["a0"] # Action(1))
  BY DEF Restore
<1>2. regs["sp"] = FrameOf(running) /\ FrameOf(running) \in FrameAddresses
  BY <1>1, FrameFacts DEF BridgeInv, Stages, OnFrame, Typed
<1>3. Load(regs["sp"]) = mem[FrameOf(running)] /\ mem[FrameOf(running)] \in Frames
  BY <1>2, MemoryFacts, FrameTypes DEF BridgeInv
<1>4. /\ mem[FrameOf(running)].sstatus = Trusted
      /\ pc = "handled" => ~Scheduling /\ regs["a0"] = Action(0)
  BY <1>1 DEF BridgeInv, Stages, WayBack, AtHandled
<1>. QED
  BY <1>1, <1>2, <1>3, <1>4 DEF Restore

LEMMA RestoreInv == ASSUME BridgeInv, Restore PROVE BridgeInv'
<1> DEFINE f == mem[FrameOf(running)]
<1>1. /\ regs["sp"] = FrameOf(running) /\ f \in Frames /\ f.sstatus = Trusted
      /\ pc \in {"restore", "handled"} /\ pc' = "leave"
      /\ sepc' = f.sepc /\ sstatus' = f.sstatus /\ sscratch' = f.x["sp"]
      /\ regs' = [RestoredRegs(f) EXCEPT !["t0"] = f.x["sp"]]
      /\ UNCHANGED <<upc, stvec, scause, memVars, rustVars, runVars>>
      /\ pc = "handled" => ~Scheduling
  BY RestoreFacts
<1>. HIDE DEF f
<1>2. f.x \in RegFiles /\ f.sepc \in Words /\ regs \in RegFiles
  BY <1>1, FrameParts DEF BridgeInv, Typed
<1>3. regs' \in RegFiles /\ regs'["sp"] = FrameOf(running) /\ f.x["sp"] \in Words
  BY <1>1, <1>2 DEF RestoredRegs, RegFiles, RegNames
<1>4. Typed'
  BY <1>1, <1>2, <1>3, FrameTypes DEF BridgeInv, Typed
<1>5. KernelKept' /\ Dispatched' /\ pc' \in PCs
  BY <1>1 DEF BridgeInv, KernelKept, CallPCs, PCs, Dispatched
<1>6. Stages'
  BY <1>1, <1>3, FrameTypes
     DEF Stages, AtManager, AtUser, AtEntry, OnFrame, OnKernelRegs, AtHandler, AtHandled,
         WayBack, AtFault
<1>. QED
  BY <1>4, <1>5, <1>6 DEF BridgeInv

LEMMA LeaveFacts ==
  ASSUME BridgeInv, Leave
  PROVE  /\ pc = "leave" /\ pc' = "user" /\ stvec' = "user_trap_entry"
         /\ regs' = [regs EXCEPT !["t0"] = mem[FrameOf(running)].x["t0"], !["sp"] = sscratch]
         /\ sscratch' = TrapTop(running) /\ upc' = sepc
         /\ sstatus' \in Statuses /\ sstatus'["spp"] = 0
         /\ UNCHANGED <<sepc, scause, memVars, rustVars, runVars>>
         /\ mem[FrameOf(running)] \in Frames
<1>1. pc = "leave" /\ regs["sp"] = FrameOf(running) /\ sstatus["spp"] = 0
      /\ FrameOf(running) \in FrameAddresses /\ sstatus \in Statuses
  BY FrameFacts DEF Leave, BridgeInv, Stages, OnFrame, WayBack, Typed
<1>2. Load(regs["sp"]) = mem[FrameOf(running)] /\ mem[FrameOf(running)] \in Frames
  BY <1>1, MemoryFacts, FrameTypes DEF BridgeInv
<1>3. Freed(regs["sp"]) = TrapTop(running)
  BY <1>1, FrameWords DEF Freed
<1>4. pc' = "user" /\ sstatus' \in Statuses /\ sstatus'["spp"] = 0
  BY <1>1, SretFacts DEF Leave
<1>. QED
  BY <1>1, <1>2, <1>3, <1>4 DEF Leave

LEMMA LeaveInv == ASSUME BridgeInv, Leave PROVE BridgeInv'
<1>1. mem[FrameOf(running)].x["t0"] \in Words
  BY LeaveFacts, FrameParts DEF RegFiles, RegNames
<1>2. regs' \in RegFiles
  BY <1>1, LeaveFacts DEF BridgeInv, Typed, RegFiles, RegNames
<1>3. Typed'
  BY <1>2, LeaveFacts, WordTypes DEF BridgeInv, Typed
<1>4. KernelKept' /\ Dispatched' /\ pc' \in PCs
  BY LeaveFacts DEF BridgeInv, KernelKept, CallPCs, PCs, Dispatched
<1>5. Stages'
  BY LeaveFacts
     DEF Stages, AtManager, AtUser, AtEntry, OnFrame, OnKernelRegs, AtHandler, AtHandled,
         WayBack, AtFault
<1>. QED
  BY <1>3, <1>4, <1>5 DEF BridgeInv

(* terminate_process gives the manager's registers back.                   *)
LEMMA TerminateFacts ==
  ASSUME BridgeInv, Terminate
  PROVE  /\ pc = "handled" /\ pc' = "returned" /\ build # "lesson08" /\ sscratch' = Zero
         /\ regs' \in RegFiles /\ regs'["a0"] = Action(1)
         /\ \A r \in CalleeSaved : regs'[r] = kernel_context[r]
         /\ kernel_context = SavedContext(ManagerRegs(call))
         /\ regs'["sp"] = BootSp(call)
         /\ UNCHANGED <<upc, stvec, sepc, scause, sstatus, memVars, rustVars, runVars>>
<1>1. /\ pc = "handled" /\ pc' = "returned" /\ sscratch' = Zero /\ regs["a0"] = Action(1)
      /\ regs' = [r \in RegNames |->
                    IF r \in CalleeSaved THEN kernel_context[r]
                    ELSE IF r = "t1" THEN kernel_context["sp"]
                    ELSE IF r = "t0" THEN Junk ELSE regs[r]]
      /\ UNCHANGED <<upc, stvec, sepc, scause, sstatus, memVars, rustVars, runVars>>
  BY DEF Terminate
<1>2. /\ build # "lesson08" /\ kernel_context = SavedContext(ManagerRegs(call))
      /\ kernel_context \in [CalleeSaved -> Words] /\ regs \in RegFiles
      /\ call \in 0..MaxCalls
  BY <1>1 DEF BridgeInv, Stages, AtHandled, KernelKept, CallPCs, PCs, Typed
<1>3. kernel_context["sp"] = BootSp(call)
  BY <1>2, RegFileTypes DEF SavedContext, CalleeSaved
<1>4. /\ regs' \in RegFiles /\ regs'["a0"] = Action(1)
      /\ \A r \in CalleeSaved : regs'[r] = kernel_context[r]
  BY <1>1, <1>2, WordTypes DEF RegFiles, RegNames, CalleeSaved
<1>5. regs'["sp"] = BootSp(call)
  BY <1>3, <1>4 DEF CalleeSaved
<1>. QED
  BY <1>1, <1>2, <1>4, <1>5

LEMMA TerminateInv == ASSUME BridgeInv, Terminate PROVE BridgeInv'
<1>1. Typed'
  BY TerminateFacts, WordTypes DEF BridgeInv, Typed
<1>2. KernelKept' /\ Dispatched' /\ pc' \in PCs
  BY TerminateFacts DEF BridgeInv, KernelKept, CallPCs, PCs, Dispatched
<1>3. Stages'
  <2>1. stvec = "trap_entry" /\ sstatus["sie"] = 0
    BY TerminateFacts DEF BridgeInv, Stages, OnKernelRegs
  <2>. QED
    BY <2>1, TerminateFacts
       DEF Stages, AtManager, AtUser, AtEntry, OnFrame, OnKernelRegs, AtHandler, AtHandled,
           WayBack, AtFault
<1>. QED
  BY <1>1, <1>2, <1>3 DEF BridgeInv

LEMMA ManagerGoesOnFacts ==
  ASSUME BridgeInv, ManagerGoesOn
  PROVE  /\ pc = "returned" /\ pc' = "manager" /\ call' = call + 1 /\ call' \in 0..MaxCalls
         /\ regs' = ManagerRegs(call') /\ stvec = "trap_entry" /\ sstatus["sie"] = 0
         /\ saved' = IF Scheduling THEN [saved EXCEPT ![running] = exchange] ELSE saved
         /\ UNCHANGED <<upc, csrVars, memVars, build, exchange, done, expected, running, work,
                        conduct>>
<1>1. pc = "returned" /\ regs["a0"] = Action(1) /\ regs["sp"] = Word("boot", call, 0, "sp")
  BY DEF ManagerGoesOn, BridgeInv, Stages, WayBack, BootSp
<1>2. /\ stvec = "trap_entry" /\ sstatus["sie"] = 0
      /\ call \in 0..MaxCalls /\ call < MaxCalls
  BY <1>1 DEF BridgeInv, Stages, OnKernelRegs, Typed, KernelKept, CallPCs, PCs
<1>3. MaxCalls \in Nat
  BY TrapBridgeAssumption
<1>. QED
  BY <1>1, <1>2, <1>3 DEF ManagerGoesOn

LEMMA ManagerGoesOnInv == ASSUME BridgeInv, ManagerGoesOn PROVE BridgeInv'
<1>1. saved' \in [Tasks -> Frames] /\ (Scheduling => \A i \in Tasks : saved'[i].sstatus = Trusted)
  <2>1. saved \in [Tasks -> Frames] /\ exchange \in Frames /\ running \in Tasks
    BY DEF BridgeInv, Typed
  <2>2. Scheduling => exchange.sstatus = Trusted /\ \A i \in Tasks : saved[i].sstatus = Trusted
    BY ManagerGoesOnFacts DEF BridgeInv, Dispatched
  <2>. QED
    BY <2>1, <2>2, ManagerGoesOnFacts
<1>2. Typed'
  BY <1>1, ManagerGoesOnFacts, RegFileTypes DEF BridgeInv, Typed
<1>3. KernelKept' /\ Dispatched' /\ pc' \in PCs
  BY <1>1, ManagerGoesOnFacts DEF BridgeInv, KernelKept, CallPCs, PCs, Dispatched
<1>4. Stages'
  BY ManagerGoesOnFacts
     DEF Stages, AtManager, AtUser, AtEntry, OnFrame, OnKernelRegs, AtHandler, AtHandled,
         WayBack, AtFault
<1>. QED
  BY <1>2, <1>3, <1>4 DEF BridgeInv

LEMMA KernelFaultInv == ASSUME BridgeInv, KernelFault PROVE BridgeInv'
<1>1. /\ UNCHANGED <<regs, upc, stvec, sscratch, memVars, rustVars, runVars>>
      /\ pc \in {"manager", "handler"} /\ scause' = "illegal"
      /\ sepc' = Word("kernel", call, 0, "pc")
      /\ sstatus' = [spp |-> 1, spie |-> sstatus["sie"], sie |-> 0]
      /\ pc' = IF stvec = "user_trap_entry" THEN "entry" ELSE "kernel_entry"
  BY DEF KernelFault, HardwareTrap
<1>2. call \in 0..MaxCalls /\ call \in Nat
  BY DEF BridgeInv, Typed
<1>3. /\ stvec = "trap_entry" /\ sstatus["sie"] = 0
      /\ regs["sp"] \in {BootSp(call), FrameOf(running)}
  <2>1. CASE pc = "handler"
    BY <2>1, HandlerFacts
  <2>2. CASE pc = "manager"
    BY <1>2, <2>2, RegFileTypes DEF BridgeInv, Stages, AtManager
  <2>. QED
    BY <1>1, <2>1, <2>2
<1>4. pc' = "kernel_entry"
  BY <1>1, <1>3
<1>5. sstatus' \in Statuses /\ sstatus'["spp"] = 1 /\ sepc' \in Words
  BY <1>1, <1>2, <1>3 DEF Statuses, Words, Word, Places
<1>6. Typed'
  BY <1>1, <1>5 DEF BridgeInv, Typed, Causes, UserCauses
<1>7. KernelKept' /\ Dispatched' /\ pc' \in PCs
  BY <1>1, <1>4 DEF BridgeInv, KernelKept, CallPCs, PCs, Dispatched
<1>8. Stages'
  BY <1>1, <1>3, <1>4, <1>5
     DEF Stages, AtManager, AtUser, AtEntry, OnFrame, OnKernelRegs, AtHandler, AtHandled,
         WayBack, AtFault
<1>. QED
  BY <1>6, <1>7, <1>8 DEF BridgeInv

(* The frame of a fault is not the frame of the interrupted task.          *)
LEMMA KernelEntryFacts ==
  ASSUME BridgeInv, KernelEntry
  PROVE  LET a == Below(regs["sp"])
             f == [x |-> regs, sstatus |-> sstatus, sepc |-> sepc, scause |-> scause]
         IN /\ pc = "kernel_entry" /\ pc' = "report"
            /\ a \in {Below(BootSp(call)), Below(FrameOf(running))}
            /\ a \in FrameAddresses /\ a \in Words /\ f \in Frames /\ a # FrameOf(running)
            /\ regs["sp"].kind = a.kind
            /\ mem' = [mem EXCEPT ![a] = f] /\ mem' \in [FrameAddresses -> Frames]
            /\ regs' = [regs EXCEPT !["sp"] = a, !["a0"] = a, !["t0"] = Junk]
            /\ f.sstatus["spp"] = 1
            /\ UNCHANGED <<upc, csrVars, kernel_context, kernel_gp_saved, kernel_tp_saved,
                           rustVars, runVars>>
<1> DEFINE a == Below(regs["sp"])
           f == [x |-> regs, sstatus |-> sstatus, sepc |-> sepc, scause |-> scause]
<1>1. /\ pc = "kernel_entry" /\ pc' = "report" /\ mem' = Store(a, f)
      /\ regs' = [regs EXCEPT !["sp"] = a, !["a0"] = a, !["t0"] = Junk]
      /\ UNCHANGED <<upc, csrVars, kernel_context, kernel_gp_saved, kernel_tp_saved,
                     rustVars, runVars>>
  BY DEF KernelEntry, KernelFrame
<1>2. regs["sp"] \in {BootSp(call), FrameOf(running)} /\ sstatus["spp"] = 1
  BY <1>1 DEF BridgeInv, Stages, AtFault
<1>3. call \in 0..MaxCalls /\ running \in Tasks
  BY DEF BridgeInv, Typed
<1>4. /\ a \in {Below(BootSp(call)), Below(FrameOf(running))}
      /\ a \in FrameAddresses /\ a \in Words /\ a # FrameOf(running)
      /\ regs["sp"].kind = a.kind
  BY <1>2, <1>3, FrameFacts, BootFacts, WordTypes
<1>5. f \in Frames
  BY DEF BridgeInv, Typed, Frames, RegFiles, Statuses, Causes
<1>6. f.sstatus["spp"] = 1
  BY <1>2
<1>. HIDE DEF a, f
<1>7. mem' = [mem EXCEPT ![a] = f] /\ mem' \in [FrameAddresses -> Frames]
  BY <1>1, <1>4, <1>5, MemoryFacts DEF BridgeInv
<1>. QED
  BY <1>1, <1>4, <1>5, <1>6, <1>7 DEF a, f

LEMMA KernelEntryInv == ASSUME BridgeInv, KernelEntry PROVE BridgeInv'
<1> DEFINE a == Below(regs["sp"])
           f == [x |-> regs, sstatus |-> sstatus, sepc |-> sepc, scause |-> scause]
<1>1. /\ pc = "kernel_entry" /\ pc' = "report"
      /\ a \in {Below(BootSp(call)), Below(FrameOf(running))}
      /\ a \in FrameAddresses /\ a \in Words
      /\ mem' = [mem EXCEPT ![a] = f] /\ mem' \in [FrameAddresses -> Frames]
      /\ regs' = [regs EXCEPT !["sp"] = a, !["a0"] = a, !["t0"] = Junk]
      /\ f.sstatus["spp"] = 1
      /\ UNCHANGED <<upc, csrVars, kernel_context, kernel_gp_saved, kernel_tp_saved,
                     rustVars, runVars>>
  BY KernelEntryFacts
<1>. HIDE DEF a, f
<1>2. mem \in [FrameAddresses -> Frames] /\ regs \in RegFiles
  BY DEF BridgeInv, Typed
<1>3. regs' \in RegFiles /\ regs'["sp"] = a /\ mem'[a] = f
  BY <1>1, <1>2, WordTypes DEF RegFiles, RegNames
<1>4. Typed'
  BY <1>1, <1>3 DEF BridgeInv, Typed
<1>5. KernelKept' /\ Dispatched' /\ pc' \in PCs
  BY <1>1 DEF BridgeInv, KernelKept, CallPCs, PCs, Dispatched
<1>6. Stages'
  BY <1>1, <1>3
     DEF Stages, AtManager, AtUser, AtEntry, OnFrame, OnKernelRegs, AtHandler, AtHandled,
         WayBack, AtFault
<1>. QED
  BY <1>4, <1>5, <1>6 DEF BridgeInv

LEMMA BridgeNext == BridgeInv /\ [Next]_vars => BridgeInv'
<1>. SUFFICES ASSUME BridgeInv, [Next]_vars PROVE BridgeInv'
  OBVIOUS
<1>1. CASE UNCHANGED vars
  BY <1>1 DEF vars, BridgeInv, Typed, KernelKept, Dispatched, Stages, AtManager, AtUser, AtEntry,
              OnFrame, OnKernelRegs, AtHandler, AtHandled, WayBack, AtFault
<1>2. CASE UserSpin \/ Stopped
  BY <1>1, <1>2 DEF UserSpin, Stopped
<1>3. CASE RunUser \/ (\E i \in Tasks : RunTask(i)) \/ EnterFresh
  BY <1>3, RunUserInv, RunTaskInv, EnterFreshInv
<1>4. CASE (\E c \in Conducts : UserWork(c)) \/ \E cause \in UserCauses : UserTrap(cause)
  BY <1>4, UserWorkInv, UserTrapInv
<1>5. CASE EntrySwap \/ EntryVector \/ EntrySave
  BY <1>5, EntrySwapInv, EntryVectorInv, EntrySaveInv
<1>6. CASE HandleProcess \/ HandleTask \/ HandlerStops
  BY <1>6, HandleProcessInv, HandleTaskInv, HandlerStopsInv
<1>7. CASE Restore \/ Leave \/ Terminate \/ ManagerGoesOn
  BY <1>7, RestoreInv, LeaveInv, TerminateInv, ManagerGoesOnInv
<1>8. CASE KernelFault \/ KernelEntry
  BY <1>8, KernelFaultInv, KernelEntryInv
<1>. QED
  BY <1>1, <1>2, <1>3, <1>4, <1>5, <1>6, <1>7, <1>8 DEF Next, BridgeStep, UserStep

(* At every instruction of the bridge each word is where the next one will *)
(* look for it (trap.S, user.S, with the checks of the Rust handlers).     *)
THEOREM BridgeInvariance == Spec => []BridgeInv
BY BridgeInit, BridgeNext, PTL DEF Spec

(* Whatever a program does to gp, tp and sp, the manager and the handlers  *)
(* run with the kernel's, with interrupts off and with trap_entry as the   *)
(* vector of their own faults (trap.S user_trap_entry, terminate_process). *)
THEOREM RustIsTrusted == Spec => []RustRunsTrusted
<1>1. BridgeInv => RustRunsTrusted
  <2>. SUFFICES ASSUME BridgeInv PROVE RustRunsTrusted
    OBVIOUS
  <2>1. CASE pc = "handler"
    BY <2>1, HandlerFacts DEF RustRunsTrusted, FrameOf
  <2>2. CASE pc = "manager"
    BY <2>2, RegFileTypes DEF BridgeInv, Typed, Stages, AtManager, RustRunsTrusted, BootSp
  <2>3. CASE pc \notin {"handler", "manager"}
    BY <2>3 DEF RustRunsTrusted
  <2>. QED
    BY <2>1, <2>2, <2>3
<1>. QED
  BY <1>1, BridgeInvariance, PTL

(* A program always runs with the user entry installed and sscratch on the *)
(* empty trap stack of its own task, however it was entered: fresh, after  *)
(* a call, or dispatched again.                                            *)
THEOREM UserIsReady == Spec => []UserRunsReady
<1>1. BridgeInv => UserRunsReady
  BY DEF BridgeInv, Stages, AtUser, UserRunsReady
<1>. QED
  BY <1>1, BridgeInvariance, PTL

(* A fault of the manager or of a handler gets a frame of its own, below   *)
(* the one it is working on, and is reported as a fault of the kernel.     *)
THEOREM FaultIsReported == Spec => []FaultReportedFromKernel
<1>1. BridgeInv => FaultReportedFromKernel
  <2>. SUFFICES ASSUME BridgeInv, pc = "report" PROVE FaultReportedFromKernel
    BY DEF FaultReportedFromKernel
  <2>1. /\ regs["sp"] \in {Below(BootSp(call)), Below(FrameOf(running))}
        /\ mem[regs["sp"]].sstatus["spp"] = 1
        /\ call \in 0..MaxCalls /\ running \in Tasks
    BY DEF BridgeInv, Typed, Stages, AtFault
  <2>. QED
    BY <2>1, FrameFacts, BootFacts DEF FaultReportedFromKernel
<1>. QED
  BY <1>1, BridgeInvariance, PTL

(***************************************************************************)
(* The bridge implements UserContexts.  First the mapping as a table, now  *)
(* and in the next state.                                                  *)
(***************************************************************************)
EntryPCs == {"entry", "entry_vector", "entry_save", "handler"}
StopPCs  == {"kernel_entry", "report", "refused"}
InsidePCs == CallPCs \ {"returned"}

Waiting(i) == IF Scheduling THEN InFrame(saved[i]) ELSE None

Returning(i) == IF ~Scheduling THEN None
                ELSE InFrame(IF i = running THEN exchange ELSE saved[i])

Inside(i) == IF i = running THEN ContextOfRunning ELSE Waiting(i)

WhoTable ==
    /\ pc \in {"manager", "returned"} => Who = "manager"
    /\ pc = "user" => Who = "user"
    /\ pc \in EntryPCs /\ scause = "ecall" => Who = "called"
    /\ pc \in EntryPCs /\ scause # "ecall" => Who = "kernel"
    /\ pc \in {"fresh", "restore", "handled", "leave"} => Who = "kernel"
    /\ pc \in StopPCs => Who = "stopped"

ContextTable ==
    \A i \in Tasks :
       /\ pc = "manager" => ContextOf(i) = Waiting(i)
       /\ pc = "returned" => ContextOf(i) = Returning(i)
       /\ pc \in InsidePCs => ContextOf(i) = Inside(i)
       /\ pc \in StopPCs /\ regs["sp"].kind = "boot" => ContextOf(i) = Waiting(i)
       /\ pc \in StopPCs /\ regs["sp"].kind # "boot" => ContextOf(i) = Inside(i)

RunningTable ==
    LET f == mem[FrameOf(running)]
    IN /\ pc = "fresh" => ContextOfRunning =
                            [x |-> FreshRegs(Program), pc |-> Word("user", Program, 0, "pc")]
       /\ pc = "user" => ContextOfRunning = [x |-> regs, pc |-> upc]
       /\ pc = "entry" => ContextOfRunning = [x |-> regs, pc |-> sepc]
       /\ pc = "entry_vector" => ContextOfRunning = Partly({"t0", "sp"})
       /\ pc = "entry_save" => ContextOfRunning = Partly({"t0", "sp", "gp", "tp"})
       /\ pc = "leave" => ContextOfRunning = Partly({"t0"})
       /\ pc \in {"restore", "handler", "handled"} \cup StopPCs => ContextOfRunning = InFrame(f)

ManagerTable ==
    /\ build = "lesson08" => ManagerContext = [r \in CalleeSaved |-> Zero]
    /\ build # "lesson08" /\ pc \in {"manager", "returned"} => ManagerContext = SavedContext(regs)
    /\ build # "lesson08" /\ pc \in InsidePCs => ManagerContext = kernel_context

LEMMA WhoIs == WhoTable /\ WhoTable'
<1>. USE DEF EntryPCs, StopPCs
<1>1. WhoTable
  BY DEF WhoTable, Who
<1>2. WhoTable'
  BY DEF WhoTable, Who
<1>. QED
  BY <1>1, <1>2

LEMMA ContextIs == ContextTable /\ ContextTable'
<1>1. pc \in InsidePCs => Who # "stopped" /\ pc \notin {"manager", "returned"}
  BY WhoIs DEF WhoTable, EntryPCs, StopPCs, InsidePCs, CallPCs, PCs
<1>2. ContextTable
  BY <1>1, WhoIs DEF ContextTable, ContextOf, ManagerStopped, WhoTable, StopPCs, Waiting,
                     Returning, Inside
<1>3. (pc \in InsidePCs)' => Who' # "stopped" /\ pc' \notin {"manager", "returned"}
  BY WhoIs DEF WhoTable, EntryPCs, StopPCs, InsidePCs, CallPCs, PCs
<1>4. ContextTable'
  BY <1>3, WhoIs DEF ContextTable, ContextOf, ManagerStopped, WhoTable, StopPCs, Waiting,
                     Returning, Inside
<1>. QED
  BY <1>2, <1>4

LEMMA RunningIs == RunningTable /\ RunningTable'
<1>1. RunningTable
  BY DEF RunningTable, ContextOfRunning, StopPCs, FrameOf
<1>2. RunningTable'
  BY DEF RunningTable, ContextOfRunning, StopPCs, FrameOf
<1>. QED
  BY <1>1, <1>2

LEMMA ManagerIs == ManagerTable /\ ManagerTable'
<1>1. pc \in InsidePCs => Who # "manager" /\ Who # "stopped"
  BY WhoIs DEF WhoTable, EntryPCs, StopPCs, InsidePCs, CallPCs, PCs
<1>2. ManagerTable
  BY <1>1, WhoIs DEF ManagerTable, ManagerContext, ManagerStopped, WhoTable
<1>3. (pc \in InsidePCs)' => Who' # "manager" /\ Who' # "stopped"
  BY WhoIs DEF WhoTable, EntryPCs, StopPCs, InsidePCs, CallPCs, PCs
<1>4. ManagerTable'
  BY <1>3, WhoIs DEF ManagerTable, ManagerContext, ManagerStopped, WhoTable
<1>. QED
  BY <1>2, <1>4

(***************************************************************************)
(* Then what each step of UserContexts asks for.                           *)
(***************************************************************************)
Abstract == [Contexts!CNext]_(Contexts!cvars)

SameContexts == \A j \in Tasks : ContextOf(j)' = ContextOf(j)

OthersSame(i) == \A j \in Tasks : j # i => ContextOf(j)' = ContextOf(j)

LEMMA AbstractStutter ==
  ASSUME Who' = Who, running' = running, SameContexts, ManagerContext' = ManagerContext
  PROVE  Abstract
BY DEF Abstract, SameContexts, Contexts!cvars

LEMMA AbstractBegin ==
  ASSUME NEW i \in Tasks, Who = "manager", Who' = "kernel", running' = i, OthersSame(i),
         ContextOf(i) # None => ContextOf(i)' = ContextOf(i),
         ManagerContext' = ManagerContext
  PROVE  Abstract
<1>1. Contexts!Begin(i)
  BY DEF OthersSame, Contexts!Begin, Contexts!OthersKeep
<1>. QED
  BY <1>1 DEF Abstract, Contexts!CNext

LEMMA AbstractGo ==
  ASSUME Who = "kernel", Who' = "user", running' = running, SameContexts,
         ManagerContext' = ManagerContext
  PROVE  Abstract
BY DEF Abstract, SameContexts, Contexts!Go, Contexts!CNext

LEMMA AbstractWork ==
  ASSUME running \in Tasks, Who = "user", Who' = "user", running' = running,
         OthersSame(running), ManagerContext' = ManagerContext
  PROVE  Abstract
BY DEF Abstract, OthersSame, Contexts!Work, Contexts!OthersKeep, Contexts!CNext

LEMMA AbstractTrap ==
  ASSUME Who = "user", Who' \in {"called", "kernel"}, running' = running, SameContexts,
         ManagerContext' = ManagerContext
  PROVE  Abstract
BY DEF Abstract, SameContexts, Contexts!Trap, Contexts!CNext

LEMMA AbstractAnswer ==
  ASSUME running \in Tasks, Who = "called", Who' = "kernel", running' = running,
         OthersSame(running),
         \A i \in Tasks : i = running =>
             \A r \in DOMAIN ContextOf(i).x : r # "a0" => ContextOf(i)'.x[r] = ContextOf(i).x[r],
         ManagerContext' = ManagerContext
  PROVE  Abstract
BY DEF Abstract, OthersSame, Contexts!Answer, Contexts!OthersKeep, Contexts!CNext

LEMMA AbstractReturn ==
  ASSUME running \in Tasks, Who = "kernel", Who' = "manager", running' = running,
         SameContexts, ManagerContext' = ManagerContext
  PROVE  Abstract
BY DEF Abstract, SameContexts, Contexts!Return, Contexts!OthersKeep, Contexts!CNext

LEMMA AbstractManagerWork ==
  ASSUME Who = "manager", Who' = "manager", running' = running, SameContexts
  PROVE  Abstract
BY DEF Abstract, SameContexts, Contexts!ManagerWork, Contexts!CNext

LEMMA AbstractStop ==
  ASSUME Who' = "stopped", running' = running, SameContexts
  PROVE  Abstract
BY DEF Abstract, SameContexts, Contexts!Stop, Contexts!CNext

(***************************************************************************)
(* Every step of the bridge is a step of UserContexts or none.             *)
(***************************************************************************)
LEMMA InsideStep ==
  ASSUME pc \in InsidePCs, pc' \in InsidePCs, UNCHANGED <<running, saved, build, kernel_context>>
  PROVE  /\ OthersSame(running) /\ ManagerContext' = ManagerContext
         /\ ContextOfRunning' = ContextOfRunning => SameContexts
<1>1. \A i \in Tasks : ContextOf(i) = Inside(i) /\ ContextOf(i)' = Inside(i)'
  BY ContextIs DEF ContextTable
<1>2. \A i \in Tasks : Waiting(i)' = Waiting(i)
  BY DEF Waiting
<1>3. ManagerContext' = ManagerContext
  BY ManagerIs DEF ManagerTable
<1>. QED
  BY <1>1, <1>2, <1>3 DEF OthersSame, SameContexts, Inside

LEMMA InsideFacts ==
  /\ \A p \in {"fresh", "restore", "user", "entry", "entry_vector", "entry_save", "handler",
               "handled", "leave"} : p \in InsidePCs
  /\ \A p \in EntryPCs : p \in InsidePCs
BY DEF InsidePCs, CallPCs, PCs, EntryPCs

LEMMA RunUserMaps == ASSUME BridgeInv, RunUser PROVE Abstract
<1>1. /\ UNCHANGED <<regs, build, saved>>
      /\ pc = "manager" /\ pc' = "fresh" /\ running' = 0 /\ build # "scheduling"
      /\ \/ kernel_context' = SavedContext(regs)
         \/ build = "lesson08" /\ kernel_context' = kernel_context
  BY DEF RunUser, SavesKernel
<1>2. Who = "manager" /\ Who' = "kernel"
  BY <1>1, WhoIs DEF WhoTable
<1>3. ManagerContext' = ManagerContext
  BY <1>1, InsideFacts, ManagerIs DEF ManagerTable
<1>4. \A i \in Tasks : /\ ContextOf(i) = None
                       /\ i # 0 => ContextOf(i)' = None
  BY <1>1, InsideFacts, ContextIs DEF ContextTable, Waiting, Inside
<1>. QED
  BY <1>1, <1>2, <1>3, <1>4, TrapBridgeAssumption, AbstractBegin DEF OthersSame

LEMMA RunTaskMaps == ASSUME BridgeInv, NEW i \in Tasks, RunTask(i) PROVE Abstract /\ SameContexts
<1>1. /\ UNCHANGED <<build, saved>>
      /\ pc = "manager" /\ pc' = "restore" /\ running' = i /\ build = "scheduling"
      /\ kernel_context' = SavedContext(regs) /\ mem' = Store(FrameOf(i), saved[i])
  BY DEF RunTask, SavesKernel, FrameOf, DispatchedFrame
<1>2. Who = "manager" /\ Who' = "kernel"
  BY <1>1, WhoIs DEF WhoTable
<1>3. ManagerContext' = ManagerContext
  BY <1>1, InsideFacts, ManagerIs DEF ManagerTable
<1>4. mem'[FrameOf(i)] = saved[i]
  BY <1>1, FrameFacts, MemoryFacts DEF BridgeInv, Typed
<1>5. ContextOfRunning' = InFrame(saved[i])
  BY <1>1, <1>4, RunningIs DEF RunningTable, InFrame
<1>6. \A j \in Tasks : /\ ContextOf(j) = InFrame(saved[j])
                       /\ ContextOf(j)' = InFrame(saved[j])
  BY <1>1, <1>5, InsideFacts, ContextIs DEF ContextTable, Waiting, Inside, InFrame
<1>. QED
  BY <1>1, <1>2, <1>3, <1>6, AbstractBegin DEF OthersSame, SameContexts

LEMMA EnterFreshMaps == ASSUME BridgeInv, EnterFresh PROVE Abstract
<1>1. /\ UNCHANGED <<build, saved, running, call, kernel_context>>
      /\ pc = "fresh" /\ regs' = FreshRegs(Program)
      /\ upc' = Word("user", Program, 0, "pc") /\ Sret(Trusted)
  BY DEF EnterFresh
<1>2. pc' = "user"
  BY <1>1, SretFacts, FrameTypes
<1>3. Who = "kernel" /\ Who' = "user"
  BY <1>1, <1>2, WhoIs DEF WhoTable
<1>4. ContextOfRunning' = ContextOfRunning
  BY <1>1, <1>2, RunningIs DEF RunningTable
<1>. QED
  BY <1>1, <1>2, <1>3, <1>4, InsideFacts, InsideStep, AbstractGo

LEMMA UserMaps ==
  ASSUME BridgeInv,
         (\E c \in Conducts : UserWork(c)) \/ \E cause \in UserCauses : UserTrap(cause)
  PROVE  Abstract
<1>0. running \in Tasks
  BY DEF BridgeInv, Typed
<1>1. CASE \E c \in Conducts : UserWork(c)
  <2>1. UNCHANGED <<build, saved, running, kernel_context>> /\ pc = "user" /\ pc' = "user"
    BY <1>1 DEF UserWork
  <2>2. Who = "user" /\ Who' = "user"
    BY <2>1, WhoIs DEF WhoTable
  <2>. QED
    BY <1>0, <2>1, <2>2, InsideFacts, InsideStep, AbstractWork
<1>2. CASE \E cause \in UserCauses : UserTrap(cause)
  <2>1. /\ UNCHANGED <<regs, stvec, build, saved, running, kernel_context>>
        /\ pc = "user" /\ sepc' = upc
        /\ pc' = IF stvec = "user_trap_entry" THEN "entry" ELSE "kernel_entry"
    BY <1>2 DEF UserTrap, HardwareTrap
  <2>2. pc' = "entry"
    BY <2>1 DEF BridgeInv, Stages, AtUser
  <2>3. Who = "user" /\ Who' \in {"called", "kernel"}
    BY <2>1, <2>2, WhoIs DEF WhoTable, EntryPCs
  <2>4. ContextOfRunning' = ContextOfRunning
    BY <2>1, <2>2, RunningIs DEF RunningTable
  <2>. QED
    BY <2>1, <2>2, <2>3, <2>4, InsideFacts, InsideStep, AbstractTrap
<1>. QED
  BY <1>1, <1>2

(* The entry moves the registers to the frame one by one.                  *)
LEMMA EntryStep ==
  ASSUME pc \in EntryPCs, pc' \in EntryPCs,
         UNCHANGED <<running, saved, build, kernel_context, scause>>,
         ContextOfRunning' = ContextOfRunning
  PROVE  Abstract
<1>1. Who' = Who
  BY WhoIs DEF WhoTable
<1>. QED
  BY <1>1, InsideFacts, InsideStep, AbstractStutter

LEMMA EntrySwapMaps == ASSUME BridgeInv, EntrySwap PROVE Abstract
<1> DEFINE a == FrameOf(running)
<1>1. /\ UNCHANGED <<sepc, scause, running, saved, build, kernel_context>>
      /\ pc = "entry" /\ pc' = "entry_vector" /\ regs \in RegFiles
      /\ \A r \in RegNames : r \notin {"sp", "t0"} => regs'[r] = regs[r]
      /\ \A r \in {"t0", "gp", "tp", "sp"} : mem'[a].x[r] = regs[r]
  BY EntrySwapFacts
<1>2. [r \in RegNames |-> IF r \in {"t0", "sp"} THEN mem'[a].x[r] ELSE regs'[r]] = regs
  BY <1>1 DEF RegFiles
<1>3. ContextOfRunning' =
        [x |-> [r \in RegNames |-> IF r \in {"t0", "sp"} THEN mem'[a].x[r] ELSE regs'[r]],
         pc |-> sepc]
  <2>1. ContextOfRunning' = Partly({"t0", "sp"})'
    BY <1>1, RunningIs DEF RunningTable
  <2>. QED
    BY <1>1, <2>1 DEF Partly, FrameOf
<1>4. ContextOfRunning = [x |-> regs, pc |-> sepc]
  BY <1>1, RunningIs DEF RunningTable
<1>. QED
  BY <1>1, <1>2, <1>3, <1>4, EntryStep DEF EntryPCs

LEMMA EntryVectorMaps == ASSUME BridgeInv, EntryVector PROVE Abstract
<1> DEFINE f == mem[FrameOf(running)]
<1>1. /\ UNCHANGED <<mem, sepc, scause, running, saved, build, kernel_context, sscratch>>
      /\ pc = "entry_vector" /\ pc' = "entry_save"
      /\ regs' = [regs EXCEPT !["gp"] = kernel_gp_saved, !["tp"] = kernel_tp_saved,
                              !["t0"] = Junk]
  BY DEF EntryVector
<1>2. f.x["gp"] = regs["gp"] /\ f.x["tp"] = regs["tp"] /\ regs \in RegFiles
  BY <1>1 DEF BridgeInv, Typed, Stages, AtEntry
<1>3. ContextOfRunning =
        [x |-> [r \in RegNames |-> IF r \in {"t0", "sp"} THEN f.x[r] ELSE regs[r]], pc |-> sepc]
  <2>1. ContextOfRunning = Partly({"t0", "sp"})
    BY <1>1, RunningIs DEF RunningTable
  <2>. QED
    BY <2>1 DEF Partly, FrameOf
<1>4. ContextOfRunning' =
        [x |-> [r \in RegNames |-> IF r \in {"t0", "sp", "gp", "tp"} THEN f.x[r] ELSE regs'[r]],
         pc |-> sepc]
  <2>1. ContextOfRunning' = Partly({"t0", "sp", "gp", "tp"})'
    BY <1>1, RunningIs DEF RunningTable
  <2>. QED
    BY <1>1, <2>1 DEF Partly, FrameOf
<1>5. [r \in RegNames |-> IF r \in {"t0", "sp", "gp", "tp"} THEN f.x[r] ELSE regs'[r]]
        = [r \in RegNames |-> IF r \in {"t0", "sp"} THEN f.x[r] ELSE regs[r]]
  <2>1. \A r \in RegNames : r \notin {"gp", "tp", "t0"} => regs'[r] = regs[r]
    BY <1>1, <1>2 DEF RegFiles
  <2>. QED
    BY <1>2, <2>1
<1>. QED
  BY <1>1, <1>3, <1>4, <1>5, EntryStep DEF EntryPCs

LEMMA EntrySaveMaps == ASSUME BridgeInv, EntrySave PROVE Abstract
<1> DEFINE a == FrameOf(running)
           f == mem[a]
<1>0. pc = "entry_save" /\ regs["sp"] = a
  BY DEF EntrySave, BridgeInv, Stages, OnFrame
<1>1. /\ UNCHANGED <<sepc, scause, running, saved, build, kernel_context>>
      /\ pc' = "handler" /\ mem' = Store(a, Completed(Load(a)))
  BY <1>0 DEF EntrySave, Completed
<1>2. a \in FrameAddresses
  BY FrameFacts DEF BridgeInv, Typed
<1>3. f \in Frames /\ Load(a) = f
  BY <1>2, MemoryFacts, FrameTypes DEF BridgeInv
<1>4. /\ Completed(f) \in Frames /\ Completed(f).sepc = sepc
      /\ Completed(f).x =
           [r \in RegNames |-> IF r \in {"t0", "gp", "tp", "sp"} THEN f.x[r] ELSE regs[r]]
  BY <1>3, CompletedFacts DEF BridgeInv
<1>5. mem' = Store(a, Completed(f))
  BY <1>1, <1>3
<1>6. mem'[a] = Completed(f)
  BY <1>2, <1>4, <1>5, MemoryFacts DEF BridgeInv
<1>7. ContextOfRunning' = [x |-> Completed(f).x, pc |-> sepc]
  BY <1>1, <1>4, <1>6, RunningIs DEF RunningTable, InFrame
<1>8. ContextOfRunning =
        [x |-> [r \in RegNames |-> IF r \in {"t0", "sp", "gp", "tp"} THEN f.x[r] ELSE regs[r]],
         pc |-> sepc]
  <2>1. ContextOfRunning = Partly({"t0", "sp", "gp", "tp"})
    BY <1>0, RunningIs DEF RunningTable
  <2>. QED
    BY <2>1 DEF Partly, FrameOf
<1>. QED
  BY <1>0, <1>1, <1>4, <1>7, <1>8, EntryStep DEF EntryPCs

LEMMA InFrameFacts ==
  ASSUME NEW f
  PROVE  InFrame(f).x = f.x /\ InFrame(f).pc = f.sepc
BY DEF InFrame

(* What a handler leaves in the frame.                                     *)
LEMMA HandleFacts ==
  ASSUME BridgeInv, HandleProcess \/ HandleTask
  PROVE  LET a == FrameOf(running)
             f == mem[a]
         IN /\ pc = "handler" /\ pc' = "handled" /\ Accepted /\ Frame = f
            /\ UNCHANGED <<running, saved, build, kernel_context, scause, conduct>>
            /\ a \in FrameAddresses /\ f \in Frames /\ f.scause = scause
            /\ \/ scause = "ecall" /\ mem' = Store(a, Answered(f))
               \/ mem' = mem
               \/ mem' = Store(a, [f EXCEPT !.sstatus = Trusted])
<1>1. /\ pc = "handler" /\ pc' = "handled" /\ Accepted
      /\ UNCHANGED <<running, saved, build, kernel_context, scause, conduct>>
  BY DEF HandleProcess, HandleTask
<1>2. /\ FrameOf(running) \in FrameAddresses /\ mem[FrameOf(running)] \in Frames
      /\ Frame = mem[FrameOf(running)] /\ regs["a0"] = FrameOf(running)
      /\ Frame.scause = scause
  BY <1>1, HandlerFacts
<1>3. \/ scause = "ecall" /\ mem' = Store(FrameOf(running), Answered(Frame))
      \/ mem' = mem
      \/ mem' = Store(FrameOf(running), [Frame EXCEPT !.sstatus = Trusted])
  <2>1. CASE HandleProcess
    BY <1>2, <2>1 DEF HandleProcess
  <2>2. CASE HandleTask
    BY <1>2, <2>2 DEF HandleTask
  <2>. QED
    BY <2>1, <2>2
<1>. QED
  BY <1>1, <1>2, <1>3

LEMMA HandleMaps == ASSUME BridgeInv, HandleProcess \/ HandleTask PROVE Abstract
<1> DEFINE a == FrameOf(running)
           f == mem[a]
<1>1. /\ pc = "handler" /\ pc' = "handled"
      /\ UNCHANGED <<running, saved, build, kernel_context>>
      /\ a \in FrameAddresses /\ f \in Frames
  BY HandleFacts
<1>2. a \in FrameAddresses /\ f \in Frames
  BY <1>1
<1>3. running \in Tasks
  BY DEF BridgeInv, Typed
<1>4. \/ scause = "ecall" /\ mem' = Store(a, Answered(f))
      \/ mem' = mem
      \/ mem' = Store(a, [f EXCEPT !.sstatus = Trusted])
  BY HandleFacts
<1>5. /\ ContextOf(running) = ContextOfRunning /\ ContextOfRunning = InFrame(f)
      /\ \A i \in Tasks : i = running => /\ ContextOf(i) = InFrame(f)
                                         /\ ContextOf(i)' = InFrame(mem'[a])
  <2>1. ContextOfRunning = InFrame(f) /\ ContextOfRunning' = InFrame(mem'[a])
    BY <1>1, RunningIs DEF RunningTable, InFrame
  <2>2. \A i \in Tasks : ContextOf(i) = Inside(i) /\ ContextOf(i)' = Inside(i)'
    BY <1>1, InsideFacts, ContextIs DEF ContextTable
  <2>. QED
    BY <1>1, <1>3, <2>1, <2>2 DEF Inside
<1>6. OthersSame(running) /\ ManagerContext' = ManagerContext
  BY <1>1, InsideFacts, InsideStep
<1>7. Who' = "kernel" /\ Who = IF scause = "ecall" THEN "called" ELSE "kernel"
  BY <1>1, WhoIs DEF WhoTable, EntryPCs
<1>. HIDE DEF a, f
<1>8. ASSUME mem'[a].x = f.x, mem'[a].sepc = f.sepc PROVE Abstract
  <2>1. InFrame(mem'[a]) = InFrame(f)
    BY <1>8 DEF InFrame
  <2>2. SameContexts
    BY <1>5, <1>6, <2>1 DEF SameContexts, OthersSame
  <2>3. CASE scause = "ecall"
    BY <1>1, <1>3, <1>5, <1>6, <1>7, <2>1, <2>3, AbstractAnswer
  <2>4. CASE scause # "ecall"
    BY <1>1, <1>6, <1>7, <2>2, <2>4, AbstractStutter
  <2>. QED
    BY <2>3, <2>4
<1>9. CASE mem' = mem
  BY <1>2, <1>8, <1>9 DEF f
<1>10. CASE mem' = Store(a, [f EXCEPT !.sstatus = Trusted])
  <2>1. /\ [f EXCEPT !.sstatus = Trusted] \in Frames
        /\ [f EXCEPT !.sstatus = Trusted].x = f.x /\ [f EXCEPT !.sstatus = Trusted].sepc = f.sepc
    BY <1>2, FrameTypes DEF Frames, Statuses
  <2>2. mem'[a] = [f EXCEPT !.sstatus = Trusted]
    BY <1>2, <1>10, <2>1, MemoryFacts DEF BridgeInv
  <2>. QED
    BY <1>8, <2>1, <2>2
<1>11. CASE scause = "ecall" /\ mem' = Store(a, Answered(f))
  <2>1. mem'[a] = Answered(f)
    BY <1>2, <1>11, MemoryFacts, AnsweredFacts DEF BridgeInv
  <2>2. f.x \in RegFiles /\ \A r \in RegNames : r # "a0" => Answered(f).x[r] = f.x[r]
    BY <1>2, FrameParts, AnsweredFacts
  <2>3. DOMAIN InFrame(f).x = RegNames /\ InFrame(f).x = f.x
        /\ InFrame(mem'[a]).x = Answered(f).x
    BY <2>1, <2>2, InFrameFacts DEF RegFiles
  <2>4. \A i \in Tasks : i = running =>
            \A r \in DOMAIN ContextOf(i).x : r # "a0" => ContextOf(i)'.x[r] = ContextOf(i).x[r]
    BY <1>5, <2>2, <2>3
  <2>. QED
    BY <1>1, <1>3, <1>6, <1>7, <1>11, <2>4, AbstractAnswer
<1>. QED
  BY <1>4, <1>9, <1>10, <1>11

LEMMA HandlerStopsMaps == ASSUME BridgeInv, HandlerStops PROVE Abstract
<1>1. /\ UNCHANGED <<regs, mem, saved, build, running>> /\ pc = "handler"
      /\ pc' = "refused"
  <2>1. BridgeInv'
    BY HandlerStopsInv
  <2>. QED
    BY <2>1 DEF HandlerStops, BridgeInv, PCs
<1>2. regs["sp"].kind # "boot"
  <2>1. regs["sp"] = FrameOf(running) /\ running \in Tasks
    BY <1>1, HandlerFacts DEF BridgeInv, Typed
  <2>. QED
    BY <2>1, FrameFacts
<1>3. ContextOfRunning' = ContextOfRunning
  BY <1>1, RunningIs DEF RunningTable, StopPCs, InFrame
<1>4. SameContexts
  BY <1>1, <1>2, <1>3, InsideFacts, ContextIs
     DEF ContextTable, StopPCs, Inside, Waiting, SameContexts
<1>5. Who' = "stopped"
  BY <1>1, WhoIs DEF WhoTable, StopPCs
<1>. QED
  BY <1>1, <1>4, <1>5, AbstractStop

LEMMA KernelFaultMaps == ASSUME BridgeInv, KernelFault PROVE Abstract
<1>1. /\ UNCHANGED <<regs, mem, saved, build, running>> /\ pc \in {"manager", "handler"}
      /\ pc' = IF stvec = "user_trap_entry" THEN "entry" ELSE "kernel_entry"
  BY DEF KernelFault, HardwareTrap
<1>2. running \in Tasks /\ call \in 0..MaxCalls
  BY DEF BridgeInv, Typed
<1>3. CASE pc = "manager"
  <2>1. pc' = "kernel_entry" /\ regs["sp"] = BootSp(call)
    BY <1>1, <1>2, <1>3, RegFileTypes DEF BridgeInv, Stages, AtManager
  <2>2. regs["sp"].kind = "boot"
    BY <1>2, <2>1, BootFacts
  <2>3. SameContexts
    BY <1>1, <1>3, <2>1, <2>2, ContextIs DEF ContextTable, StopPCs, Waiting, SameContexts
  <2>4. Who' = "stopped"
    BY <2>1, WhoIs DEF WhoTable, StopPCs
  <2>. QED
    BY <1>1, <2>3, <2>4, AbstractStop
<1>4. CASE pc = "handler"
  <2>1. pc' = "kernel_entry" /\ regs["sp"] = FrameOf(running)
    BY <1>1, <1>4, HandlerFacts
  <2>2. regs["sp"].kind # "boot"
    BY <1>2, <2>1, FrameFacts
  <2>3. ContextOfRunning' = ContextOfRunning
    BY <1>1, <1>4, <2>1, RunningIs DEF RunningTable, StopPCs, InFrame
  <2>4. SameContexts
    BY <1>1, <1>4, <2>1, <2>2, <2>3, InsideFacts, ContextIs
       DEF ContextTable, StopPCs, Inside, Waiting, SameContexts
  <2>5. Who' = "stopped"
    BY <2>1, WhoIs DEF WhoTable, StopPCs
  <2>. QED
    BY <1>1, <2>4, <2>5, AbstractStop
<1>. QED
  BY <1>1, <1>3, <1>4

LEMMA KernelEntryMaps == ASSUME BridgeInv, KernelEntry PROVE Abstract
<1> DEFINE a == Below(regs["sp"])
           f == [x |-> regs, sstatus |-> sstatus, sepc |-> sepc, scause |-> scause]
<1>1. /\ pc = "kernel_entry" /\ pc' = "report" /\ UNCHANGED <<saved, build, running>>
      /\ a # FrameOf(running) /\ regs["sp"].kind = a.kind
      /\ mem' = [mem EXCEPT ![a] = f]
      /\ regs' = [regs EXCEPT !["sp"] = a, !["a0"] = a, !["t0"] = Junk]
  BY KernelEntryFacts
<1>. HIDE DEF a, f
<1>2. running \in Tasks /\ regs \in RegFiles /\ mem \in [FrameAddresses -> Frames]
  BY DEF BridgeInv, Typed
<1>3. mem'[FrameOf(running)] = mem[FrameOf(running)]
  BY <1>1, <1>2, FrameFacts
<1>4. regs'["sp"].kind = regs["sp"].kind
  <2>1. regs'["sp"] = a
    BY <1>1, <1>2 DEF RegFiles, RegNames
  <2>. QED
    BY <1>1, <2>1
<1>5. ContextOfRunning' = ContextOfRunning
  BY <1>1, <1>3, RunningIs DEF RunningTable, StopPCs, InFrame
<1>6. \A i \in Tasks : Inside(i)' = Inside(i) /\ Waiting(i)' = Waiting(i)
  BY <1>1, <1>5 DEF Inside, Waiting
<1>7. SameContexts
  BY <1>1, <1>4, <1>6, ContextIs DEF ContextTable, StopPCs, SameContexts
<1>8. Who' = "stopped"
  BY <1>1, WhoIs DEF WhoTable, StopPCs
<1>. QED
  BY <1>1, <1>7, <1>8, AbstractStop

(* The way back moves them from the frame to the registers.                *)
LEMMA RestoreMaps == ASSUME BridgeInv, Restore PROVE Abstract
<1> DEFINE f == mem[FrameOf(running)]
<1>1. /\ f \in Frames /\ pc \in {"restore", "handled"} /\ pc' = "leave"
      /\ sepc' = f.sepc /\ sscratch' = f.x["sp"]
      /\ regs' = [RestoredRegs(f) EXCEPT !["t0"] = f.x["sp"]]
      /\ UNCHANGED <<mem, running, saved, build, kernel_context>>
  BY RestoreFacts
<1>2. ContextOfRunning = InFrame(f)
  BY <1>1, RunningIs DEF RunningTable
<1>3. ContextOfRunning' =
        [x |-> [r \in RegNames |-> IF r = "sp" THEN sscratch'
                                   ELSE IF r = "t0" THEN f.x[r] ELSE regs'[r]],
         pc |-> sepc']
  <2>1. ContextOfRunning' = Partly({"t0"})'
    BY <1>1, RunningIs DEF RunningTable
  <2>. QED
    BY <1>1, <2>1 DEF Partly, FrameOf
<1>. HIDE DEF f
<1>4. f.x \in RegFiles
  BY <1>1, FrameParts
<1>5. [r \in RegNames |-> IF r = "sp" THEN sscratch' ELSE IF r = "t0" THEN f.x[r] ELSE regs'[r]]
        = f.x
  <2>1. \A r \in RegNames : r \notin {"sp", "t0"} => regs'[r] = f.x[r]
    BY <1>1 DEF RestoredRegs, RegNames
  <2>. QED
    BY <1>1, <1>4, <2>1 DEF RegFiles
<1>6. ContextOfRunning' = ContextOfRunning
  BY <1>1, <1>2, <1>3, <1>5 DEF InFrame
<1>7. Who = "kernel" /\ Who' = "kernel"
  BY <1>1, WhoIs DEF WhoTable
<1>. QED
  BY <1>1, <1>6, <1>7, InsideFacts, InsideStep, AbstractStutter

LEMMA LeaveMaps == ASSUME BridgeInv, Leave PROVE Abstract
<1> DEFINE f == mem[FrameOf(running)]
<1>1. /\ pc = "leave" /\ pc' = "user" /\ upc' = sepc
      /\ regs' = [regs EXCEPT !["t0"] = f.x["t0"], !["sp"] = sscratch]
      /\ UNCHANGED <<sepc, mem, running, saved, build, kernel_context>>
      /\ regs \in RegFiles
  BY LeaveFacts DEF BridgeInv, Typed
<1>2. ContextOfRunning =
        [x |-> [r \in RegNames |-> IF r = "sp" THEN sscratch
                                   ELSE IF r = "t0" THEN f.x[r] ELSE regs[r]],
         pc |-> sepc]
  <2>1. ContextOfRunning = Partly({"t0"})
    BY <1>1, RunningIs DEF RunningTable
  <2>. QED
    BY <2>1 DEF Partly, FrameOf
<1>3. ContextOfRunning' = [x |-> regs', pc |-> sepc]
  BY <1>1, RunningIs DEF RunningTable
<1>4. [r \in RegNames |-> IF r = "sp" THEN sscratch ELSE IF r = "t0" THEN f.x[r] ELSE regs[r]]
        = regs'
  BY <1>1 DEF RegFiles
<1>5. Who = "kernel" /\ Who' = "user"
  BY <1>1, WhoIs DEF WhoTable
<1>. QED
  BY <1>1, <1>2, <1>3, <1>4, <1>5, InsideFacts, InsideStep, AbstractGo

LEMMA TerminateMaps ==
  ASSUME BridgeInv, Terminate PROVE Abstract /\ (Scheduling => SameContexts)
<1>1. /\ pc = "handled" /\ pc' = "returned" /\ build # "lesson08" /\ regs' \in RegFiles
      /\ \A r \in CalleeSaved : regs'[r] = kernel_context[r]
      /\ UNCHANGED <<mem, running, saved, build, exchange, kernel_context>>
      /\ running \in Tasks /\ kernel_context \in [CalleeSaved -> Words]
  BY TerminateFacts DEF BridgeInv, Typed
<1>2. ManagerContext' = ManagerContext
  <2>1. ManagerContext = kernel_context
    BY <1>1, InsideFacts, ManagerIs DEF ManagerTable
  <2>2. ManagerContext' = [r \in CalleeSaved |-> regs'[r]]
    BY <1>1, ManagerIs DEF ManagerTable, SavedContext
  <2>. QED
    BY <1>1, <2>1, <2>2
<1>3. Scheduling => exchange = mem[FrameOf(running)]
  BY <1>1 DEF BridgeInv, Dispatched
<1>4. ~Scheduling => running = 0
  BY DEF BridgeInv, Dispatched
<1>5. ContextOfRunning = InFrame(mem[FrameOf(running)])
  BY <1>1, RunningIs DEF RunningTable
<1>6. \A i \in Tasks : /\ ContextOf(i) = Inside(i)
                       /\ ContextOf(i)' = Returning(i)'
  BY <1>1, InsideFacts, ContextIs DEF ContextTable
<1>7. Who = "kernel" /\ Who' = "manager"
  BY <1>1, WhoIs DEF WhoTable
<1>8. CASE Scheduling
  <2>1. SameContexts
    BY <1>1, <1>3, <1>5, <1>6, <1>8 DEF SameContexts, Inside, Waiting, Returning, InFrame
  <2>. QED
    BY <1>1, <1>2, <1>7, <2>1, AbstractReturn
<1>9. CASE ~Scheduling
  <2>1. \A i \in Tasks : /\ i # running => ContextOf(i)' = ContextOf(i)
                         /\ ContextOf(i)' = None
    BY <1>1, <1>6, <1>9 DEF Inside, Waiting, Returning
  <2>2. Contexts!Return
    BY <1>1, <1>2, <1>7, <2>1 DEF Contexts!Return, Contexts!OthersKeep
  <2>. QED
    BY <1>9, <2>2 DEF Abstract, Contexts!CNext
<1>. QED
  BY <1>8, <1>9

LEMMA ManagerGoesOnMaps == ASSUME BridgeInv, ManagerGoesOn PROVE Abstract
<1>1. /\ pc = "returned" /\ pc' = "manager" /\ UNCHANGED <<build, running>>
      /\ saved' = IF Scheduling THEN [saved EXCEPT ![running] = exchange] ELSE saved
      /\ saved \in [Tasks -> Frames] /\ running \in Tasks
  BY ManagerGoesOnFacts DEF BridgeInv, Typed
<1>2. \A i \in Tasks : Scheduling => saved'[i] = IF i = running THEN exchange ELSE saved[i]
  BY <1>1
<1>3. SameContexts
  BY <1>1, <1>2, ContextIs DEF ContextTable, Waiting, Returning, SameContexts, InFrame
<1>4. Who = "manager" /\ Who' = "manager"
  BY <1>1, WhoIs DEF WhoTable
<1>. QED
  BY <1>1, <1>3, <1>4, AbstractManagerWork

LEMMA StutterMaps == ASSUME UNCHANGED vars PROVE Abstract
<1>1. UNCHANGED <<Who, ManagerStopped, ContextOfRunning, ManagerContext, running>>
  BY DEF vars, Who, ManagerStopped, ContextOfRunning, ManagerContext, Program, InFrame, Partly
<1>2. SameContexts
  BY <1>1 DEF vars, SameContexts, ContextOf, InFrame
<1>. QED
  BY <1>1, <1>2, AbstractStutter

LEMMA BridgeMaps == BridgeInv /\ [Next]_vars => Abstract
<1>. SUFFICES ASSUME BridgeInv, [Next]_vars PROVE Abstract
  OBVIOUS
<1>1. CASE UNCHANGED vars \/ UserSpin \/ Stopped
  BY <1>1, StutterMaps DEF UserSpin, Stopped
<1>2. CASE RunUser \/ (\E i \in Tasks : RunTask(i)) \/ EnterFresh
  BY <1>2, RunUserMaps, RunTaskMaps, EnterFreshMaps
<1>3. CASE (\E c \in Conducts : UserWork(c)) \/ \E cause \in UserCauses : UserTrap(cause)
  BY <1>3, UserMaps
<1>4. CASE EntrySwap \/ EntryVector \/ EntrySave
  BY <1>4, EntrySwapMaps, EntryVectorMaps, EntrySaveMaps
<1>5. CASE HandleProcess \/ HandleTask \/ HandlerStops
  BY <1>5, HandleMaps, HandlerStopsMaps
<1>6. CASE Restore \/ Leave \/ Terminate \/ ManagerGoesOn
  BY <1>6, RestoreMaps, LeaveMaps, TerminateMaps, ManagerGoesOnMaps
<1>7. CASE KernelFault \/ KernelEntry
  BY <1>7, KernelFaultMaps, KernelEntryMaps
<1>. QED
  BY <1>1, <1>2, <1>3, <1>4, <1>5, <1>6, <1>7 DEF Next, BridgeStep, UserStep

(* The bridge loses and mixes up nothing: at every instruction the words   *)
(* of every program and of the manager are somewhere, and they come back   *)
(* as they were, but for the answer to a call (trap.S and user.S as a      *)
(* whole implement the coroutines of UserContexts).                        *)
THEOREM BridgeImplementsContexts == Spec => BridgeKeepsContexts
<1>1. Init => Who = "manager"
  BY DEF Init, Who
<1>2. BridgeInv /\ [Next]_vars => [Contexts!CNext]_(Contexts!cvars)
  BY BridgeMaps DEF Abstract
<1>. QED
  BY <1>1, <1>2, BridgeInvariance, PTL DEF Spec, BridgeKeepsContexts, Contexts!CSpec
(***************************************************************************)
(* The checks of the program.  Wherever the bridge keeps the context of a  *)
(* program, its sp and pc are where the program's last instruction put     *)
(* them, or behind the call it made.                                       *)
(***************************************************************************)
Fits(c, w) ==
    /\ c # "sp" => InUserStack(w.x["sp"])
    /\ w.pc.kind = "user"
    /\ w.pc.reg \in (CASE c \in {"proper", "sp"}    -> {"pc", "pc+4"}
                       [] c \in {"last", "spill"}   -> {c, "end"}
                       [] OTHER                     -> {c})

Fitting ==
    \A i \in Tasks : Scheduling \/ (i = running /\ pc \in InsidePCs)
                        => Fits(conduct[i], ContextOf(i))

(* Only the timer finds a program behind a call it has made.               *)
AtTrap ==
    \A i \in Tasks : i = running /\ pc \in EntryPCs /\ scause # "timer"
                        => ContextOf(i).pc.reg \notin {"pc+4", "end"}

Judged ==
    /\ pc = "refused" => Misbehaved
    /\ pc = "handled" => conduct[running] # "stray"

ConductInv == Fitting /\ AtTrap /\ Judged

(* A step of UserContexts that is neither work, nor a begin, an answer or  *)
(* a return, leaves the contexts alone.                                    *)
LEMMA AbstractKeeps ==
  ASSUME Abstract, Who # "user" \/ Who' # "user", Who # "manager" \/ Who' # "kernel",
         Who # "called" \/ Who' # "kernel", Who # "kernel" \/ Who' # "manager"
  PROVE  SameContexts
<1>1. CASE UNCHANGED Contexts!cvars
  BY <1>1 DEF Contexts!cvars, SameContexts
<1>2. CASE Contexts!CNext
  BY <1>2 DEF Contexts!CNext, Contexts!Begin, Contexts!Go, Contexts!Work, Contexts!Trap,
              Contexts!Answer, Contexts!Return, Contexts!ManagerWork, Contexts!Stop, SameContexts
<1>. QED
  BY <1>1, <1>2 DEF Abstract

LEMMA FittingKept ==
  ASSUME Fitting, SameContexts, build' = build, conduct' = conduct,
         ~Scheduling /\ pc' \in InsidePCs => pc \in InsidePCs /\ running' = running
  PROVE  Fitting'
BY DEF Fitting, SameContexts

LEMMA ConductKept ==
  ASSUME ConductInv, SameContexts, build' = build, conduct' = conduct, running' = running,
         scause' = scause, pc' \in InsidePCs => pc \in InsidePCs, pc' \in EntryPCs => pc \in EntryPCs,
         pc' \notin {"handled", "refused"}
  PROVE  ConductInv'
<1>1. Fitting'
  BY FittingKept DEF ConductInv
<1>2. AtTrap' /\ Judged'
  BY DEF ConductInv, AtTrap, Judged, SameContexts
<1>. QED
  BY <1>1, <1>2 DEF ConductInv

LEMMA UserWords ==
  ASSUME NEW p, NEW n, NEW c \in Conducts
  PROVE  /\ Fits("proper", [x |-> FreshRegs(p), pc |-> Word("user", p, 0, "pc")])
         /\ Fits(c, [x |-> UserRegs(p, n, c), pc |-> UserPc(p, n, c)])
         /\ Fits("proper", InFrame(FirstFrame(p)))
<1>1. FreshRegs(p)["sp"] = Word("user", p, 0, "sp")
  BY DEF FreshRegs, RegNames
<1>2. c # "sp" => UserRegs(p, n, c)["sp"] = Word("user", p, n, "sp")
  BY DEF UserRegs, RegNames
<1>3. InFrame(FirstFrame(p)).x["sp"] = Word("user", p, 0, "sp")
  BY <1>1 DEF InFrame, FirstFrame, NoFrame, FreshRegs
<1>4. InFrame(FirstFrame(p)).pc = Word("user", p, 0, "pc")
  BY DEF InFrame, FirstFrame, NoFrame
<1>5. \A q \in {"sp", "pc"} : /\ Word("user", p, 0, q).kind = "user" /\ Word("user", p, 0, q).reg = q
                              /\ Word("user", p, n, q).kind = "user" /\ Word("user", p, n, q).reg = q
  BY WordFacts
<1>6. /\ UserPc(p, n, c).kind = "user"
      /\ UserPc(p, n, c).reg = IF c \in {"proper", "sp"} THEN "pc" ELSE c
  BY WordFacts DEF UserPc
<1>7. Fits("proper", [x |-> FreshRegs(p), pc |-> Word("user", p, 0, "pc")])
  BY <1>1, <1>5 DEF Fits, InUserStack
<1>8. Fits(c, [x |-> UserRegs(p, n, c), pc |-> UserPc(p, n, c)])
  BY <1>2, <1>5, <1>6 DEF Fits, InUserStack, Conducts
<1>9. Fits("proper", InFrame(FirstFrame(p)))
  BY <1>3, <1>4, <1>5 DEF Fits, InUserStack
<1>. QED
  BY <1>7, <1>8, <1>9

LEMMA ConductInit == Init => ConductInv
<1>. SUFFICES ASSUME Init PROVE ConductInv
  OBVIOUS
<1>1. pc = "manager" /\ \A i \in Tasks : conduct[i] = "proper" /\ saved[i] = FirstFrame(i)
  BY DEF Init
<1>2. pc \notin InsidePCs /\ pc \notin EntryPCs
  BY <1>1 DEF InsidePCs, CallPCs, EntryPCs
<1>3. \A i \in Tasks : Scheduling => ContextOf(i) = InFrame(FirstFrame(i))
  BY <1>1, ContextIs DEF ContextTable, Waiting
<1>4. \A i \in Tasks : Fits("proper", InFrame(FirstFrame(i)))
  BY UserWords DEF Conducts
<1>5. Fitting
  BY <1>1, <1>2, <1>3, <1>4 DEF Fitting
<1>. QED
  BY <1>1, <1>2, <1>5 DEF ConductInv, AtTrap, Judged

LEMMA RunUserConduct == ASSUME BridgeInv, ConductInv, RunUser PROVE ConductInv'
<1>1. /\ pc' = "fresh" /\ running' = 0 /\ build # "scheduling" /\ build' = build
      /\ conduct' = [conduct EXCEPT ![0] = "proper"] /\ 0 \in Tasks
      /\ conduct \in [Tasks -> Conducts]
  BY TrapBridgeAssumption DEF RunUser, BridgeInv, Typed
<1>2. \A i \in Tasks : i = running' =>
          ContextOf(i)' = [x |-> FreshRegs(Program'), pc |-> Word("user", Program', 0, "pc")]
  BY <1>1, InsideFacts, ContextIs, RunningIs DEF ContextTable, RunningTable, Inside
<1>3. Fits("proper", [x |-> FreshRegs(Program'), pc |-> Word("user", Program', 0, "pc")])
  BY UserWords DEF Conducts
<1>4. Fitting'
  BY <1>1, <1>2, <1>3 DEF Fitting
<1>. QED
  BY <1>1, <1>4 DEF ConductInv, AtTrap, Judged, EntryPCs

LEMMA RunTaskConduct ==
  ASSUME BridgeInv, ConductInv, NEW i \in Tasks, RunTask(i) PROVE ConductInv'
<1>1. SameContexts /\ pc' = "restore" /\ Scheduling /\ UNCHANGED <<build, conduct>>
  BY RunTaskMaps DEF RunTask
<1>2. Fitting'
  BY <1>1, FittingKept DEF ConductInv
<1>. QED
  BY <1>1, <1>2 DEF ConductInv, AtTrap, Judged, EntryPCs

LEMMA UserWorkConduct ==
  ASSUME BridgeInv, ConductInv, NEW c \in Conducts, UserWork(c) PROVE ConductInv'
<1>1. /\ UNCHANGED <<running, build, saved, kernel_context, call>> /\ pc = "user" /\ pc' = "user"
      /\ conduct' = [conduct EXCEPT ![running] = c]
      /\ regs' = UserRegs(Program, work'[running], c)
      /\ upc' = UserPc(Program, work'[running], c)
      /\ conduct \in [Tasks -> Conducts] /\ running \in Tasks
  BY DEF UserWork, BridgeInv, Typed
<1>2. OthersSame(running)
  BY <1>1, InsideFacts, InsideStep
<1>3. \A i \in Tasks : i = running => ContextOf(i)' = [x |-> regs', pc |-> upc']
  BY <1>1, InsideFacts, ContextIs, RunningIs DEF ContextTable, RunningTable, Inside
<1>4. Fits(c, [x |-> regs', pc |-> upc'])
  BY <1>1, UserWords
<1>5. Fitting'
  BY <1>1, <1>2, <1>3, <1>4 DEF ConductInv, Fitting, OthersSame
<1>. QED
  BY <1>1, <1>5 DEF ConductInv, AtTrap, Judged, EntryPCs

LEMMA UserTrapConduct ==
  ASSUME BridgeInv, ConductInv, NEW cause \in UserCauses, UserTrap(cause) PROVE ConductInv'
<1>1. /\ pc = "user" /\ pc' = "entry" /\ scause' = cause
      /\ UNCHANGED <<running, build, conduct>>
      /\ cause # "timer" => upc.reg \notin {"pc+4", "end"}
  BY DEF UserTrap, HardwareTrap, BridgeInv, Stages, AtUser
<1>2. Who = "user" /\ Who' # "user"
  BY <1>1, WhoIs DEF WhoTable, EntryPCs
<1>3. SameContexts
  BY <1>2, UserMaps, AbstractKeeps
<1>4. Fitting'
  BY <1>1, <1>3, InsideFacts, FittingKept DEF ConductInv
<1>5. \A i \in Tasks : i = running => ContextOf(i) = [x |-> regs, pc |-> upc]
  BY <1>1, InsideFacts, ContextIs, RunningIs DEF ContextTable, RunningTable, Inside
<1>6. AtTrap'
  BY <1>1, <1>3, <1>5 DEF AtTrap, SameContexts
<1>. QED
  BY <1>1, <1>4, <1>6 DEF ConductInv, Judged

LEMMA EntryConduct ==
  ASSUME BridgeInv, ConductInv, EntrySwap \/ EntryVector \/ EntrySave PROVE ConductInv'
<1>1. /\ pc \in EntryPCs /\ pc' \in EntryPCs
      /\ UNCHANGED <<running, build, conduct, scause>>
  BY DEF EntrySwap, EntryVector, EntrySave, EntryPCs
<1>2. Who \in {"called", "kernel"} /\ Who' = Who
  BY <1>1, WhoIs DEF WhoTable
<1>3. SameContexts
  BY <1>2, EntrySwapMaps, EntryVectorMaps, EntrySaveMaps, AbstractKeeps
<1>. QED
  BY <1>1, <1>3, InsideFacts, ConductKept DEF EntryPCs

(* An answer moves the pc behind the call, and nothing else of what the    *)
(* checks look at.                                                         *)
LEMMA ResumedFits ==
  ASSUME NEW c \in Conducts, NEW f \in Frames, NEW g \in Frames, Fits(c, InFrame(f)),
         g.x["sp"] = f.x["sp"],
         \/ g.sepc = f.sepc
         \/ g.sepc = Resumed(f.sepc) /\ f.sepc.reg \notin {"pc+4", "end", "stray"}
  PROVE  Fits(c, InFrame(g))
<1>1. Resumed(f.sepc).kind = f.sepc.kind
      /\ Resumed(f.sepc).reg = IF f.sepc.reg = "pc" THEN "pc+4" ELSE "end"
  <2>1. f.sepc \in Words
    BY FrameParts
  <2>. QED
    BY <2>1 DEF Resumed, Words
<1>. QED
  BY <1>1, InFrameFacts DEF Fits, Conducts

LEMMA HandleConduct ==
  ASSUME BridgeInv, ConductInv, HandleProcess \/ HandleTask PROVE ConductInv'
<1> DEFINE a == FrameOf(running)
           f == mem[a]
           g == mem'[a]
<1>1. /\ pc = "handler" /\ pc' = "handled" /\ Accepted /\ Frame = f
      /\ UNCHANGED <<running, saved, build, kernel_context, scause, conduct>>
      /\ a \in FrameAddresses /\ f \in Frames /\ f.scause = scause
      /\ \/ scause = "ecall" /\ mem' = Store(a, Answered(f))
         \/ mem' = mem
         \/ mem' = Store(a, [f EXCEPT !.sstatus = Trusted])
  BY HandleFacts
<1>2. running \in Tasks /\ conduct[running] \in Conducts
  BY DEF BridgeInv, Typed
<1>3. OthersSame(running)
  BY <1>1, InsideFacts, InsideStep
<1>4. \A i \in Tasks : i = running => /\ ContextOf(i) = InFrame(f)
                                      /\ ContextOf(i)' = InFrame(g)
  BY <1>1, InsideFacts, ContextIs, RunningIs DEF ContextTable, RunningTable, Inside
<1>5. Fits(conduct[running], InFrame(f))
  BY <1>1, <1>2, <1>4, InsideFacts DEF ConductInv, Fitting
<1>6. scause = "ecall" => f.sepc.reg \notin {"pc+4", "end"}
  BY <1>1, <1>2, <1>4, InFrameFacts DEF ConductInv, AtTrap, EntryPCs
<1>7. f.sepc.reg # "stray"
  BY <1>1 DEF Accepted, InBounds, InCode
<1>8. conduct[running] # "stray"
  BY <1>5, <1>7, InFrameFacts DEF Fits
<1>. HIDE DEF a, f, g
<1>9. /\ g \in Frames /\ g.x["sp"] = f.x["sp"]
      /\ g.sepc = f.sepc \/ (scause = "ecall" /\ g.sepc = Resumed(f.sepc))
  <2>1. /\ [f EXCEPT !.sstatus = Trusted] \in Frames
        /\ [f EXCEPT !.sstatus = Trusted].x = f.x /\ [f EXCEPT !.sstatus = Trusted].sepc = f.sepc
    BY <1>1, FrameTypes DEF Frames, Statuses
  <2>2. /\ Answered(f) \in Frames /\ Answered(f).x["sp"] = f.x["sp"]
        /\ Answered(f).sepc = Resumed(f.sepc)
    BY <1>1, AnsweredFacts DEF RegNames
  <2>3. CASE mem' = mem
    BY <1>1, <2>3 DEF f, g
  <2>4. CASE mem' = Store(a, [f EXCEPT !.sstatus = Trusted])
    <3>1. g = [f EXCEPT !.sstatus = Trusted]
      BY <1>1, <2>1, <2>4, MemoryFacts DEF BridgeInv, g
    <3>. QED
      BY <2>1, <3>1
  <2>5. CASE scause = "ecall" /\ mem' = Store(a, Answered(f))
    <3>1. g = Answered(f)
      BY <1>1, <2>2, <2>5, MemoryFacts DEF BridgeInv, g
    <3>. QED
      BY <2>2, <2>5, <3>1
  <2>. QED
    BY <1>1, <2>3, <2>4, <2>5
<1>10. Fits(conduct[running], InFrame(g))
  BY <1>1, <1>2, <1>5, <1>6, <1>7, <1>9, ResumedFits
<1>11. Fitting'
  BY <1>1, <1>3, <1>4, <1>10, InsideFacts DEF ConductInv, Fitting, OthersSame
<1>. QED
  BY <1>1, <1>8, <1>11 DEF ConductInv, AtTrap, Judged, EntryPCs

(* A frame that was handed over and is refused shows what the program did. *)
LEMMA HandlerStopsConduct ==
  ASSUME BridgeInv, ConductInv, HandlerStops PROVE ConductInv'
<1>1. /\ pc = "handler" /\ ~Accepted
      /\ UNCHANGED <<running, build, conduct, scause>> /\ pc' \in {"panic", "refused"}
  BY DEF HandlerStops
<1>2. pc' = "refused" /\ Frame = mem[FrameOf(running)] /\ HandedOver
      /\ Frame.scause = scause /\ running \in Tasks /\ conduct[running] \in Conducts
  BY HandlerFacts DEF HandlerStops, BridgeInv, Typed
<1>3. Who' = "stopped" /\ Who \in {"called", "kernel"}
  BY <1>1, <1>2, WhoIs DEF WhoTable, StopPCs, EntryPCs
<1>4. SameContexts
  BY <1>3, HandlerStopsMaps, AbstractKeeps
<1>5. pc' \notin InsidePCs /\ pc' \notin EntryPCs
  BY <1>2 DEF InsidePCs, CallPCs, EntryPCs
<1>6. Fitting'
  BY <1>1, <1>4, <1>5, FittingKept DEF ConductInv
<1>7. \A i \in Tasks : i = running => ContextOf(i) = InFrame(Frame)
  BY <1>1, <1>2, InsideFacts, ContextIs, RunningIs DEF ContextTable, RunningTable, Inside
<1>8. /\ conduct[running] # "sp" => InUserStack(Frame.x["sp"])
      /\ Frame.sepc.kind = "user"
      /\ conduct[running] \in {"proper", "sp"} => Frame.sepc.reg \in {"pc", "pc+4"}
      /\ conduct[running] \in {"last", "spill"} => Frame.sepc.reg \in {conduct[running], "end"}
      /\ scause # "timer" => Frame.sepc.reg \notin {"pc+4", "end"}
  <2>1. Fits(conduct[running], InFrame(Frame))
    BY <1>1, <1>2, <1>7, InsideFacts DEF ConductInv, Fitting
  <2>2. scause # "timer" => InFrame(Frame).pc.reg \notin {"pc+4", "end"}
    BY <1>1, <1>2, <1>7 DEF ConductInv, AtTrap, EntryPCs
  <2>. QED
    BY <2>1, <2>2, InFrameFacts DEF Fits
<1>9. scause \in SupportedCauses => ~InBounds
  BY <1>1, <1>2 DEF Accepted
<1>10. Misbehaved
  <2>. SUFFICES ASSUME scause \in SupportedCauses, ~InBounds PROVE Misbehaved
    BY <1>9 DEF Misbehaved
  <2>1. CASE build \in {"lesson08", "lesson09"}
    BY <1>2, <1>8, <2>1 DEF InBounds, InCode, Misbehaved, SupportedCauses, Conducts
  <2>2. CASE build = "lesson10"
    BY <1>2, <1>8, <2>2 DEF InBounds, InCode, Misbehaved, SupportedCauses, Conducts
  <2>3. CASE build = "scheduling"
    BY <1>2, <1>8, <2>3 DEF InBounds, InCode, Misbehaved, Conducts
  <2>. QED
    BY <2>1, <2>2, <2>3 DEF BridgeInv, Typed, AllBuilds
<1>11. Misbehaved'
  BY <1>1, <1>10 DEF Misbehaved, SupportedCauses
<1>. QED
  BY <1>2, <1>5, <1>6, <1>11 DEF ConductInv, AtTrap, Judged

LEMMA FaultConduct ==
  ASSUME BridgeInv, ConductInv, KernelFault \/ KernelEntry PROVE ConductInv'
<1>1. UNCHANGED <<running, build, conduct>>
  BY DEF KernelFault, KernelEntry
<1>2. pc' \in {"kernel_entry", "report"}
  BY KernelFaultInv, KernelEntryFacts, HandlerFacts
     DEF KernelFault, HardwareTrap, BridgeInv, Stages, AtManager
<1>3. SameContexts
  <2>1. Who' = "stopped"
    BY <1>2, WhoIs DEF WhoTable, StopPCs
  <2>. QED
    BY <2>1, KernelFaultMaps, KernelEntryMaps, AbstractKeeps
<1>4. pc' \notin InsidePCs /\ pc' \notin EntryPCs
  BY <1>2 DEF InsidePCs, CallPCs, EntryPCs
<1>5. Fitting'
  BY <1>1, <1>3, <1>4, FittingKept DEF ConductInv
<1>. QED
  BY <1>2, <1>4, <1>5 DEF ConductInv, AtTrap, Judged

LEMMA WayConduct ==
  ASSUME BridgeInv, ConductInv, EnterFresh \/ Restore \/ Leave \/ ManagerGoesOn \/ Terminate
  PROVE  ConductInv'
<1>1. UNCHANGED <<running, build, conduct>>
  BY DEF EnterFresh, Restore, Leave, ManagerGoesOn, Terminate
<1>2. CASE EnterFresh \/ Restore \/ Leave
  <2>1. /\ pc \in {"fresh", "restore", "handled", "leave"} /\ pc' \in {"user", "leave"}
        /\ Abstract /\ scause' = scause
    BY <1>2, RestoreFacts, LeaveFacts, SretFacts, FrameTypes, EnterFreshMaps, RestoreMaps,
       LeaveMaps DEF EnterFresh
  <2>2. Who = "kernel" /\ Who' \in {"kernel", "user"}
    BY <2>1, WhoIs DEF WhoTable
  <2>3. SameContexts
    BY <2>1, <2>2, AbstractKeeps
  <2>. QED
    BY <1>1, <2>1, <2>3, InsideFacts, ConductKept DEF EntryPCs
<1>3. CASE ManagerGoesOn
  <2>1. pc = "returned" /\ pc' = "manager" /\ Abstract
    BY <1>3, ManagerGoesOnFacts, ManagerGoesOnMaps
  <2>2. Who = "manager" /\ Who' = "manager"
    BY <2>1, WhoIs DEF WhoTable
  <2>3. SameContexts /\ pc' \notin InsidePCs /\ pc' \notin EntryPCs
    BY <2>1, <2>2, AbstractKeeps DEF InsidePCs, CallPCs, EntryPCs
  <2>4. Fitting'
    BY <1>1, <2>3, FittingKept DEF ConductInv
  <2>. QED
    BY <2>1, <2>3, <2>4 DEF ConductInv, AtTrap, Judged
<1>4. CASE Terminate
  <2>1. pc' = "returned" /\ (Scheduling => SameContexts)
    BY <1>4, TerminateMaps, TerminateFacts
  <2>2. pc' \notin InsidePCs /\ pc' \notin EntryPCs
    BY <2>1 DEF InsidePCs, CallPCs, EntryPCs
  <2>3. Fitting'
    BY <1>1, <2>1, <2>2 DEF ConductInv, Fitting, SameContexts
  <2>. QED
    BY <2>1, <2>2, <2>3 DEF ConductInv, AtTrap, Judged
<1>. QED
  BY <1>2, <1>3, <1>4

LEMMA StutterConduct == ASSUME ConductInv, UNCHANGED vars PROVE ConductInv'
<1>1. /\ SameContexts /\ UNCHANGED <<pc, running, scause, build, conduct>>
  <2>1. UNCHANGED <<Who, ManagerStopped, ContextOfRunning>>
    BY DEF vars, Who, ManagerStopped, ContextOfRunning, Program, InFrame, Partly
  <2>. QED
    BY <2>1 DEF vars, SameContexts, ContextOf, InFrame
<1>. QED
  BY <1>1 DEF ConductInv, Fitting, AtTrap, Judged, Misbehaved, SupportedCauses, SameContexts

LEMMA ConductNext == BridgeInv /\ ConductInv /\ [Next]_vars => ConductInv'
<1>. SUFFICES ASSUME BridgeInv, ConductInv, [Next]_vars PROVE ConductInv'
  OBVIOUS
<1>1. CASE UNCHANGED vars \/ UserSpin \/ Stopped
  BY <1>1, StutterConduct DEF UserSpin, Stopped
<1>2. CASE RunUser \/ (\E i \in Tasks : RunTask(i))
  BY <1>2, RunUserConduct, RunTaskConduct
<1>3. CASE (\E c \in Conducts : UserWork(c)) \/ \E cause \in UserCauses : UserTrap(cause)
  BY <1>3, UserWorkConduct, UserTrapConduct
<1>4. CASE EntrySwap \/ EntryVector \/ EntrySave
  BY <1>4, EntryConduct
<1>5. CASE HandleProcess \/ HandleTask \/ HandlerStops
  BY <1>5, HandleConduct, HandlerStopsConduct
<1>6. CASE EnterFresh \/ Restore \/ Leave \/ Terminate \/ ManagerGoesOn
  BY <1>6, WayConduct
<1>7. CASE KernelFault \/ KernelEntry
  BY <1>7, FaultConduct
<1>. QED
  BY <1>1, <1>2, <1>3, <1>4, <1>5, <1>6, <1>7 DEF Next, BridgeStep, UserStep

(* The assertions of the handlers about the place, origin and vector of a  *)
(* trap and of the manager about its stack pointer and its action never    *)
(* fail, and sret never leaves the kernel with the wrong privilege.  The   *)
(* checks of cause, sp, pc and resume address fail only for what the       *)
(* program itself did before this trap, however often it was interrupted,  *)
(* and a program outside its code is never answered or ended in order.     *)
THEOREM AssertionsHold == Spec => []BridgeAssertionsHold
<1>1. BridgeInv /\ ConductInv => BridgeAssertionsHold
  BY DEF BridgeInv, PCs, ConductInv, Judged, BridgeAssertionsHold
<1>2. Spec => []ConductInv
  BY ConductInit, ConductNext, BridgeInvariance, PTL DEF Spec
<1>. QED
  BY <1>1, <1>2, BridgeInvariance, PTL

================================================================================
