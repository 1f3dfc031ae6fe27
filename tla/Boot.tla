---------------------------------- MODULE Boot ----------------------------------
(***************************************************************************)
(* From _start to the lesson of the build (src/main.rs, with linker.ld,    *)
(* memory::report_and_validate() and trap::init()).  _start clears what    *)
(* lies between two linker symbols before anybody has looked at them; the  *)
(* report looks later, from Rust, on the stack it is to check.             *)
(***************************************************************************)
EXTENDS MemoryLayout, Sequences

CONSTANTS
    Images,       \* what the linker may have made, see Image
    Builds,       \* sets of cargo features
    FrameBytes    \* what rust_main and the report push

(* The sections the linker places, and the symbols around them.            *)
Loaded == {"TEXT", "RODATA", "DATA"}
Sections == Loaded \cup {"BOOT_STACK", "USER_STACK", "TRAP_STACK", "PROBE", "BSS"}
Symbols == {"stext", "etext", "srodata", "erodata", "sdata", "edata",
            "sboot_stack", "eboot_stack", "sbss", "ebss"}

Image == [sec : [Sections -> Region], sym : [Symbols -> Address]]

SingleProcess == {"lesson07", "lesson08", "lesson09", "lesson10"}
Features == {"panic", "probe", "skip", "trap", "scheduling"} \cup SingleProcess

(* compile_error! keeps the checkpoints of one process apart, and from the *)
(* scheduler.                                                              *)
OneLesson(features) == \A f, g \in features \cap SingleProcess : f = g

Compiles(features) ==
    OneLesson(features)
    /\ ("scheduling" \in features => features \cap SingleProcess = {})

(* What is loaded comes first; the linker gives a section one place.       *)
ASSUME BootAssumption ==
    /\ FrameBytes \in Nat /\ FrameBytes < BootStackBytes
    /\ \A i \in Images :
          /\ i \in Image
          /\ \A x \in Sections : IsWellFormed(i.sec[x])
          /\ \A x \in Loaded : i.sec[x].end <= i.sec["BOOT_STACK"].start
          /\ Size(i.sec["BOOT_STACK"]) = BootStackBytes
    /\ \A b \in Builds : b \subseteq Features /\ Compiles(b)

VARIABLES
    image, build,
    pc,
    cursor,      \* t0 of the loop
    zeroed,      \* the addresses it has cleared
    probe,       \* the 8 bytes at bss_probe: 0, PATTERN or what was in RAM
    vector,      \* stvec is trap_entry
    console      \* milestones of the output

vars == <<image, build, pc, cursor, zeroed, probe, vector, console>>

PATTERN == 1
GARBAGE == 2

Has(feature) == feature \in build

Symbol(s) == image.sym[s]

TheLayout ==
    [text |-> Span(Symbol("stext"), Symbol("etext")),
     rodata |-> Span(Symbol("srodata"), Symbol("erodata")),
     data |-> Span(Symbol("sdata"), Symbol("edata")),
     boot_stack |-> Span(Symbol("sboot_stack"), Symbol("eboot_stack")),
     bss |-> Span(Symbol("sbss"), Symbol("ebss"))]

Addresses(r) == r.start .. (r.end - 1)

Damaged(section) == zeroed \cap Addresses(image.sec[section]) # {}

Say(line) == console' = Append(console, line)

(***************************************************************************)
(* _start                                                                  *)
(***************************************************************************)
(* Mutant: the probe is left alone, and the clear shows nothing.           *)
NoPattern == probe

Primed == IF Has("probe") THEN PATTERN ELSE probe

Start ==
    /\ pc = "start"
    /\ probe' = Primed
    /\ cursor' = Symbol("sbss")
    /\ pc' = IF Has("skip") THEN "call" ELSE "clear"
    /\ UNCHANGED <<image, build, zeroed, vector, console>>

(* Mutant: the end symbol is cleared, too.                                 *)
ClearsTheEnd == cursor <= Symbol("ebss")

MoreToClear == cursor < Symbol("ebss")

(* bgeu, sb, addi, j.  Where this is the loop itself, zeros follow.        *)
Clear ==
    /\ pc = "clear"
    /\ IF MoreToClear
       THEN /\ zeroed' = zeroed \cup {cursor}
            /\ probe' = IF Contains(image.sec["PROBE"], cursor) THEN 0 ELSE probe
            /\ cursor' = cursor + 1
            /\ pc' = IF Contains(image.sec["TEXT"], cursor) THEN "lost" ELSE pc
       ELSE pc' = "call" /\ UNCHANGED <<zeroed, probe, cursor>>
    /\ UNCHANGED <<image, build, vector, console>>

(***************************************************************************)
(* rust_main()                                                             *)
(***************************************************************************)
(* Without its constants println! may go anywhere.                         *)
Hello ==
    /\ pc = "call"
    /\ \/ pc' = "report" /\ Say("hello")
       \/ Damaged("RODATA") /\ pc' = "lost" /\ UNCHANGED console
    /\ UNCHANGED <<image, build, cursor, zeroed, probe, vector>>

Panic == pc' = "halt" /\ Say("panic")

CurrentSp == image.sec["BOOT_STACK"].end - FrameBytes

Valid == LayoutAccepted(TheLayout, image.sec["TEXT"].start, CurrentSp)

ProbeAccepted == Has("skip") \/ probe = 0

Report ==
    /\ pc = "report"
    /\ IF Valid /\ ProbeAccepted
       THEN pc' = "init" /\ Say("memory layout ok")
       ELSE Panic
    /\ UNCHANGED <<image, build, cursor, zeroed, probe, vector>>

TrapInit ==
    /\ pc = "init"
    /\ vector' = TRUE /\ Say("trap ready")
    /\ pc' = IF Has("trap") THEN "trigger" ELSE "model"
    /\ UNCHANGED <<image, build, cursor, zeroed, probe>>

(* trigger_lesson05(): rust_trap_handler() reports, and stops.             *)
Trigger ==
    /\ pc = "trigger"
    /\ IF vector THEN pc' = "halt" /\ Say("trap") ELSE pc' = "lost" /\ UNCHANGED console
    /\ UNCHANGED <<image, build, cursor, zeroed, probe, vector>>

(* run_lesson06_model() is UserRun's; then lesson 3 or the user programs.  *)
Model ==
    /\ pc = "model"
    /\ Say("process model ok")
    /\ pc' = IF Has("panic") THEN "panic"
             ELSE IF build \cap SingleProcess # {} THEN "prepare"
             ELSE IF Has("scheduling") THEN "scheduler"
             ELSE "halt"
    /\ UNCHANGED <<image, build, cursor, zeroed, probe, vector>>

DeliberatePanic ==
    /\ pc = "panic"
    /\ Panic
    /\ UNCHANGED <<image, build, cursor, zeroed, probe, vector>>

(* The range checks of prepare_process(); the rest of it is UserRun's.     *)
Prepare ==
    /\ pc = "prepare"
    /\ IF /\ RuntimeRangesAccepted(image.sec["USER_STACK"], image.sec["TRAP_STACK"],
                                   TheLayout.boot_stack)
          /\ StackPointersAccepted(image.sec["USER_STACK"], image.sec["TRAP_STACK"])
       THEN pc' = "user" /\ Say("enter")
       ELSE Panic
    /\ UNCHANGED <<image, build, cursor, zeroed, probe, vector>>

(* wfi in a loop, with sie = 0; a lesson; or nobody knows where.           *)
Resting == pc \in {"halt", "user", "scheduler", "lost"} /\ UNCHANGED vars

(* NOBITS sections are not in the file: RAM may hold anything there.       *)
Init ==
    /\ image \in Images /\ build \in Builds
    /\ pc = "start" /\ cursor = 0 /\ zeroed = {}
    /\ probe \in {0, GARBAGE}
    /\ vector = FALSE /\ console = <<>>

Step ==
    \/ Start \/ Clear \/ Hello \/ Report \/ TrapInit \/ Trigger
    \/ Model \/ DeliberatePanic \/ Prepare

Next == Step \/ Resting

Spec == Init /\ [][Next]_vars

(* One hart executes one instruction after the other.                      *)
FairSpec == Spec /\ WF_vars(Step)

(***************************************************************************)
(* Properties.                                                             *)
(***************************************************************************)
Accepted == \E k \in DOMAIN console : console[k] = "memory layout ok"

(* A report that ends well was not too late: wherever the symbols were     *)
(* put, the clear has touched nothing that was loaded, has cleared all of  *)
(* [sbss, ebss) and only that, and no two of the five regions share an     *)
(* address.                                                                *)
AcceptedIsSafe ==
    Accepted =>
      /\ \A x \in Loaded : ~Damaged(x)
      /\ zeroed = IF Has("skip") THEN {} ELSE Addresses(TheLayout.bss)
      /\ \A p, q \in Parts :
            p # q => Addresses(TheLayout[p]) \cap Addresses(TheLayout[q]) = {}

(* With the pattern written first, an accepted report tells whether BSS    *)
(* was cleared: 0 where it was, the pattern where the loop was skipped.    *)
ProbeTellsTheClear ==
    Accepted /\ Has("probe") => (probe = 0 <=> ~Has("skip"))

(* What tests/lesson-03.sh to lesson-07.sh look for.                       *)
ExpectedConsole ==
    <<"hello", "memory layout ok", "trap ready">>
    \o (IF Has("trap") THEN <<"trap">>
        ELSE <<"process model ok">>
             \o IF Has("panic") THEN <<"panic">>
                ELSE IF build \cap SingleProcess # {} THEN <<"enter">> ELSE <<>>)

(* The build is where it is meant to be.                                   *)
Arrived == pc \in {"halt", "user", "scheduler"} /\ console = ExpectedConsole
================================================================================
