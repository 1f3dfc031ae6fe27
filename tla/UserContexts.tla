------------------------------ MODULE UserContexts ------------------------------
(***************************************************************************)
(* What the bridge promises: user programs and the manager take turns as   *)
(* coroutines.  A program's registers change only while it runs, the       *)
(* kernel's one answer to a call touches only its result and its next      *)
(* instruction, and the manager finds its own registers as it left them.   *)
(***************************************************************************)
EXTENDS Integers

CONSTANTS Tasks,        \* the programs' slots
          NoContext     \* of a slot without a program

VARIABLES who,          \* "manager", "user", "called", "kernel" or "stopped"
          at,           \* whose turn it is
          ctx,          \* the registers and next instruction of each program
          mgr           \* the registers a call must not change

cvars == <<who, at, ctx, mgr>>

OthersKeep(i) == \A j \in Tasks \ {i} : ctx'[j] = ctx[j]

(* The manager turns to program i, a new one or one that has run before.   *)
Begin(i) ==
    /\ who = "manager" /\ who' = "kernel"
    /\ at' = i
    /\ OthersKeep(i)
    /\ ctx[i] # NoContext => ctx'[i] = ctx[i]
    /\ mgr' = mgr

Go == who = "kernel" /\ who' = "user" /\ UNCHANGED <<at, ctx, mgr>>

Work == who = "user" /\ OthersKeep(at) /\ UNCHANGED <<who, at, mgr>>

(* A call awaits an answer, an interrupt or a fault does not.              *)
Trap == who = "user" /\ who' \in {"called", "kernel"} /\ UNCHANGED <<at, ctx, mgr>>

Answer ==
    /\ who = "called" /\ who' = "kernel"
    /\ OthersKeep(at)
    /\ \A r \in DOMAIN ctx[at].x : r # "a0" => ctx'[at].x[r] = ctx[at].x[r]
    /\ UNCHANGED <<at, mgr>>

(* Back to the manager; a program may end here.                            *)
Return ==
    /\ who = "kernel" /\ who' = "manager"
    /\ OthersKeep(at)
    /\ ctx'[at] \in {ctx[at], NoContext}
    /\ UNCHANGED <<at, mgr>>

ManagerWork == who = "manager" /\ UNCHANGED <<who, at, ctx>>

(* A fault of the kernel loses nothing a report could show.                *)
Stop == who' = "stopped" /\ UNCHANGED <<at, ctx>>

CNext == (\E i \in Tasks : Begin(i)) \/ Go \/ Work \/ Trap \/ Answer \/ Return
            \/ ManagerWork \/ Stop

CSpec == who = "manager" /\ [][CNext]_cvars
================================================================================
