---------------------------------- MODULE MCBoot ----------------------------------
(***************************************************************************)
(* The images for Boot: what the linker makes of linker.ld and of scripts  *)
(* with MaxMoves of its lines moved elsewhere.  An address is a word of 8  *)
(* bytes; a page is 4 of them, for 4 KiB.                                  *)
(***************************************************************************)
EXTENDS Boot

SE == INSTANCE SequencesExt

CONSTANTS MaxMoves, TextSizes, OtherSizes

ALIGN == "ALIGN"

Script ==
    <<ALIGN, "stext", "TEXT", "etext", ALIGN, "srodata", "RODATA", "erodata",
      ALIGN, "sdata", "DATA", "edata", ALIGN, "sboot_stack", "BOOT_STACK", "eboot_stack",
      ALIGN, "sbss", "USER_STACK", "TRAP_STACK", "PROBE", "BSS", "ebss">>

Alignment(line) ==
    CASE line \in {ALIGN, "BOOT_STACK"} -> 4
      [] line \in {"USER_STACK", "TRAP_STACK"} -> SpAlign
      [] OTHER -> 1

AlignUp(a, n) == ((a + n - 1) \div n) * n

(* Where each line of a script puts what it places, from address 1 on.     *)
Place(script, size) ==
    LET SizeOf(line) == IF line \in Sections THEN size[line] ELSE 0
        placed[k \in 0..Len(script)] ==
          IF k = 0 THEN <<>>
          ELSE LET before == placed[k - 1]
                   start == AlignUp(IF k = 1 THEN 1 ELSE before[k - 1].end,
                                    Alignment(script[k]))
               IN Append(before, Span(start, start + SizeOf(script[k])))
    IN placed[Len(script)]

Link(script, size) ==
    LET place == Place(script, size)
        at(line) == place[CHOOSE k \in 1..Len(script) : script[k] = line]
    IN [sec |-> [x \in Sections |-> at(x)], sym |-> [x \in Symbols |-> at(x).start]]

Sizes(texts, others) ==
    {[x \in Sections |->
        CASE x = "TEXT" -> t [] x = "RODATA" -> r [] x = "DATA" -> d [] x = "BSS" -> b
          [] x = "BOOT_STACK" -> BootStackBytes [] x = "PROBE" -> 1 [] OTHER -> StackBytes] :
       t \in texts, r \in others, d \in others, b \in others}

Originals == {Link(Script, z) : z \in Sizes(TextSizes, OtherSizes)}

Movable == Symbols \cup {"BOOT_STACK", "USER_STACK", "TRAP_STACK", "PROBE"}

(* One move takes a line out and puts it at some position.                 *)
Scripts ==
    LET after[n \in 0..MaxMoves] ==
          IF n = 0 THEN {Script}
          ELSE {SE!InsertAt(SE!Remove(s, line), to, line) :
                  s \in after[n - 1], line \in Movable, to \in 1..Len(Script)}
    IN after[MaxMoves]

(* Loaded sections stay below the boot stack.                              *)
Edited ==
    {i \in {Link(s, z) : s \in Scripts, z \in Sizes({1}, {1})} :
       \A x \in Loaded : i.sec[x].end <= i.sec["BOOT_STACK"].start}

MCImages == Originals \cup Edited

AllBuilds == {b \in SUBSET Features : Compiles(b)}

(* What the layout can matter to, for the edited scripts.                  *)
LayoutBuilds == {{"lesson09"}, {"probe"}, {"probe", "skip"}}

MCInit == Init /\ (image \in Originals \/ build \in LayoutBuilds)

MCSpec == MCInit /\ [][Next]_vars /\ WF_vars(Step)

(* The script of the repository, whatever the sizes of the sections and    *)
(* the RAM before: every build that compiles gets to where it is meant to, *)
(* and the report raises no false alarm.                                   *)
EveryBuildArrives == image \in Originals => <>Arrived
================================================================================
