------------------------------- MODULE BootProofs -------------------------------
(***************************************************************************)
(* That the report of lesson 4 comes in time, for every image, and what    *)
(* its checks amount to.                                                   *)
(***************************************************************************)
EXTENDS Boot, SequenceTheorems, TLAPS

(* overlaps() of memory.rs and process.rs: two regions that are not empty  *)
(* overlap exactly if some address is in both.                             *)
THEOREM OverlapsIsSharing ==
    ASSUME NEW l \in Region, NEW r \in Region, l.start < l.end, r.start < r.end
    PROVE  Overlaps(l, r) <=> \E a \in Address : Contains(l, a) /\ Contains(r, a)
<1>1. ASSUME Overlaps(l, r)
      PROVE  \E a \in Address : Contains(l, a) /\ Contains(r, a)
  <2>1. CASE l.start <= r.start
    <3>1. Contains(l, r.start) /\ Contains(r, r.start)
      BY <1>1, <2>1 DEF Overlaps, Contains, Region, Address
    <3> QED BY <3>1 DEF Region
  <2>2. CASE r.start < l.start
    <3>1. Contains(l, l.start) /\ Contains(r, l.start)
      BY <1>1, <2>2 DEF Overlaps, Contains, Region, Address
    <3> QED BY <3>1 DEF Region
  <2> QED BY <2>1, <2>2 DEF Region, Address
<1>2. ASSUME NEW a \in Address, Contains(l, a), Contains(r, a)
      PROVE  Overlaps(l, r)
  BY <1>2 DEF Overlaps, Contains, Region, Address
<1> QED BY <1>1, <1>2

(* The report compares neighbours only; that is enough, because each       *)
(* region is well formed: no two of the five share an address.             *)
THEOREM AcceptedLayoutIsDisjoint ==
    ASSUME NEW l \in Layout, NEW entry \in Address, NEW sp \in Int,
           LayoutAccepted(l, entry, sp)
    PROVE  \A p, q \in Parts : p # q => Addresses(l[p]) \cap Addresses(l[q]) = {}
<1>0. \A p \in Parts : l[p] \in Region
  BY DEF Layout, Parts
<1>1. \A p \in Parts : l[p].start \in Nat /\ l[p].end \in Nat /\ l[p].start <= l[p].end
  BY <1>0 DEF LayoutAccepted, IsWellFormed, Region, Address
<1>2. /\ l.text.end <= l.rodata.start
      /\ l.rodata.end <= l.data.start
      /\ l.data.end <= l.boot_stack.start
      /\ l.boot_stack.end <= l.bss.start
  BY DEF LayoutAccepted, InOrder
<1>3. \A p, q \in Parts : p # q => l[p].end <= l[q].start \/ l[q].end <= l[p].start
  BY <1>1, <1>2 DEF Parts
<1>4. ASSUME NEW p \in Parts, NEW q \in Parts, p # q, NEW a \in Addresses(l[p]),
             a \in Addresses(l[q])
      PROVE  FALSE
  BY <1>1, <1>3, <1>4 DEF Addresses
<1> QED BY <1>4

-----------------------------------------------------------------------------
(***************************************************************************)
(* The inductive invariant: how far the loop has come, and that an         *)
(* accepted report means a valid layout and a loop that has run.           *)
(***************************************************************************)
Bss == TheLayout.bss

Lines ==
    {"hello", "memory layout ok", "trap ready", "trap", "process model ok", "enter", "panic"}

Typed ==
    /\ image \in Images /\ build \in Builds
    /\ cursor \in Nat /\ console \in Seq(Lines)

Progress ==
    /\ pc = "start" \/ Has("skip") => zeroed = {}
    /\ pc = "clear" => ~Has("skip")
    /\ ~Has("skip") /\ pc # "start" =>
          /\ zeroed = Symbol("sbss") .. (cursor - 1)
          /\ Symbol("sbss") <= cursor
          /\ cursor <= Symbol("ebss") \/ cursor = Symbol("sbss")
    /\ ~Has("skip") /\ (pc \notin {"start", "clear", "lost"} \/ Accepted) =>
          cursor >= Symbol("ebss")
    /\ pc \in {"start", "clear"} => ~Accepted
    /\ Accepted => Valid

IInv == Typed /\ Progress

(* A milestone other than the report's leaves Accepted as it is.           *)
LEMMA SayAny ==
    ASSUME NEW line \in Lines, console \in Seq(Lines), Say(line)
    PROVE  /\ console' \in Seq(Lines)
           /\ Len(console') = Len(console) + 1
           /\ \A k \in 1..Len(console) : console'[k] = console[k]
           /\ console'[Len(console) + 1] = line
  BY AppendProperties, Zenon DEF Say

LEMMA OneMore ==
    ASSUME NEW ok \in Lines, NEW line \in Lines, line # ok,
           console \in Seq(Lines), console' \in Seq(Lines),
           Len(console') = Len(console) + 1,
           \A k \in 1..Len(console) : console'[k] = console[k],
           console'[Len(console) + 1] = line
    PROVE  (\E k \in DOMAIN console' : console'[k] = ok)
             <=> (\E k \in DOMAIN console : console[k] = ok)
<1>1. /\ DOMAIN console = 1..Len(console) /\ Len(console) \in Nat
      /\ DOMAIN console' = 1..Len(console')
  OBVIOUS
<1>2. DOMAIN console' = DOMAIN console \cup {Len(console) + 1}
  BY <1>1
<1> QED BY <1>1, <1>2

LEMMA SayAnother ==
    ASSUME NEW line \in Lines \ {"memory layout ok"}, console \in Seq(Lines), Say(line)
    PROVE  console' \in Seq(Lines) /\ (Accepted' <=> Accepted)
<1>1. /\ console' \in Seq(Lines)
      /\ Len(console') = Len(console) + 1
      /\ \A k \in 1..Len(console) : console'[k] = console[k]
      /\ console'[Len(console) + 1] = line
  BY SayAny, Zenon
<1>2. "memory layout ok" \in Lines /\ line \in Lines /\ line # "memory layout ok"
  BY Zenon DEF Lines
<1>3. (\E k \in DOMAIN console' : console'[k] = "memory layout ok")
        <=> \E k \in DOMAIN console : console[k] = "memory layout ok"
  BY <1>1, <1>2, OneMore, Zenon
<1> QED BY <1>1, <1>3, Zenon DEF Accepted

LEMMA ImageFacts ==
    ASSUME image \in Images
    PROVE  /\ \A x \in Symbols : Symbol(x) \in Nat
           /\ \A x \in Sections : image.sec[x] \in Region
           /\ \A x \in Loaded : image.sec[x].end <= image.sec["BOOT_STACK"].start
           /\ CurrentSp \in Int /\ CurrentSp > image.sec["BOOT_STACK"].start
           /\ TheLayout \in Layout
<1>1. image \in Image
  BY BootAssumption
<1>2. /\ \A x \in Symbols : Symbol(x) \in Nat
      /\ \A x \in Sections : image.sec[x] \in Region
  BY <1>1 DEF Image, Symbol, Address
<1>3. /\ \A x \in Loaded : image.sec[x].end <= image.sec["BOOT_STACK"].start
      /\ Size(image.sec["BOOT_STACK"]) = BootStackBytes
      /\ FrameBytes \in Nat /\ FrameBytes < BootStackBytes
      /\ BootStackBytes \in Nat \ {0}
  BY BootAssumption, LayoutAssumption
<1>4. CurrentSp \in Int /\ CurrentSp > image.sec["BOOT_STACK"].start
  <2>1. image.sec["BOOT_STACK"] \in Region
    BY <1>2 DEF Sections
  <2> QED BY <2>1, <1>3 DEF Size, CurrentSp, Region, Address
<1>5. TheLayout \in Layout
  BY <1>2 DEF TheLayout, Layout, Region, Address, Span, Symbols, Parts
<1> QED BY <1>2, <1>3, <1>4, <1>5

(* A step of rust_main that is not the report's good end.                  *)
Onward ==
    /\ image' = image /\ build' = build /\ cursor' = cursor /\ zeroed' = zeroed
    /\ pc \notin {"start", "clear", "lost"}
    /\ pc' \notin {"start", "clear"}
    /\ \/ console' = console
       \/ Say("hello") \/ Say("trap ready") \/ Say("trap")
       \/ Say("process model ok") \/ Say("enter") \/ Say("panic")

LEMMA Initially == Init => IInv
  BY BootAssumption DEF Init, IInv, Typed, Progress, Accepted

LEMMA Inductive == IInv /\ [Next]_vars => IInv'
<1> SUFFICES ASSUME IInv, [Next]_vars PROVE IInv'
  OBVIOUS
<1>0. \A x \in Symbols : Symbol(x) \in Nat
  BY ImageFacts DEF IInv, Typed
<1>s. Symbol("sbss") \in Nat /\ Symbol("ebss") \in Nat
  BY <1>0 DEF Symbols
<1> USE DEF IInv, Typed
<1>1. CASE Start
  <2>1. Accepted' <=> Accepted
    BY <1>1, Zenon DEF Start, Accepted
  <2>2. QED
    <3>1. zeroed = {} /\ ~Accepted
      BY <1>1, Zenon DEF Start, Progress
    <3>2. /\ cursor' = image.sym["sbss"] /\ image' = image /\ build' = build
          /\ zeroed' = zeroed /\ console' = console
          /\ pc' = IF "skip" \in build THEN "call" ELSE "clear"
      BY <1>1, Zenon DEF Start, Symbol, Has
    <3>3. image.sym["sbss"] .. (image.sym["sbss"] - 1) = {}
      BY <1>s DEF Symbol
    <3> QED
      BY <1>s, <2>1, <3>1, <3>2, <3>3 DEF Progress, Has, Symbol
<1>2. CASE Clear
  <2>1. Accepted' <=> Accepted
    BY <1>2, Zenon DEF Clear, Accepted
  <2>2. CASE MoreToClear
    <3>1. /\ zeroed' = zeroed \cup {cursor} /\ cursor' = cursor + 1
          /\ image' = image /\ build' = build /\ console' = console
          /\ pc = "clear" /\ pc' \in {"clear", "lost"}
      BY <1>2, <2>2, Zenon DEF Clear
    <3>2. cursor < image.sym["ebss"]
      BY <2>2 DEF MoreToClear, Symbol
    <3>3. ~("skip" \in build) => zeroed' = image.sym["sbss"] .. (cursor' - 1)
      BY <3>1, <3>2, <1>s DEF Progress, Has, Symbol
    <3> QED
      BY <2>1, <3>1, <3>2, <3>3, <1>s DEF Progress, Has, Symbol
  <2>3. CASE ~MoreToClear
    BY <1>2, <2>1, <2>3, <1>s
    DEF Clear, Progress, MoreToClear, Has, Symbol, Valid, TheLayout, CurrentSp
  <2> QED BY <2>2, <2>3
<1>3. CASE Report /\ Valid /\ ProbeAccepted
  <2>1. /\ pc = "report" /\ pc' = "init" /\ Say("memory layout ok")
        /\ UNCHANGED <<image, build, cursor, zeroed>>
    BY <1>3, Zenon DEF Report
  <2>2. console' \in Seq(Lines)
    BY <2>1, SayAny, Zenon DEF Lines
  <2>3. /\ pc = "report" /\ pc' = "init"
        /\ UNCHANGED <<image, build, cursor, zeroed>>
    BY <2>1, Zenon
  <2> QED
    BY <1>3, <2>2, <2>3 DEF Progress, Has, Symbol, Valid, TheLayout, CurrentSp
<1>4. Onward => IInv'
  <2> SUFFICES ASSUME Onward PROVE IInv'
    OBVIOUS
  <2>1. CASE console' = console
    <3>1. /\ image' = image /\ build' = build /\ cursor' = cursor /\ zeroed' = zeroed
          /\ pc \notin {"start", "clear", "lost"} /\ pc' \notin {"start", "clear"}
      BY Zenon DEF Onward
    <3>2. Accepted' <=> Accepted
      BY <2>1, Zenon DEF Accepted
    <3> QED
      BY <2>1, <3>1, <3>2 DEF Progress, Has, Symbol, Valid, TheLayout, CurrentSp
  <2>2. CASE console' # console
    <3>1. console' \in Seq(Lines) /\ (Accepted' <=> Accepted)
      BY <2>2, SayAnother, Zenon DEF Onward, Lines
    <3>2. /\ image' = image /\ build' = build /\ cursor' = cursor /\ zeroed' = zeroed
          /\ pc \notin {"start", "clear", "lost"} /\ pc' \notin {"start", "clear"}
      BY Zenon DEF Onward
    <3> QED
      BY <3>1, <3>2 DEF Progress, Has, Symbol, Valid, TheLayout, CurrentSp
  <2> QED BY <2>1, <2>2
<1>5. CASE Hello
  <2>1. Onward BY <1>5 DEF Hello, Onward
  <2> QED BY <1>4, <2>1
<1>6. CASE Report /\ ~(Valid /\ ProbeAccepted)
  <2>1. Onward BY <1>6 DEF Report, Panic, Onward
  <2> QED BY <1>4, <2>1
<1>7. CASE TrapInit
  <2>1. Onward BY <1>7 DEF TrapInit, Onward
  <2> QED BY <1>4, <2>1
<1>8. CASE Trigger
  <2>1. Onward BY <1>8 DEF Trigger, Onward
  <2> QED BY <1>4, <2>1
<1>9. CASE Model
  <2>1. Onward BY <1>9 DEF Model, Onward
  <2> QED BY <1>4, <2>1
<1>10. CASE DeliberatePanic
  <2>1. Onward BY <1>10 DEF DeliberatePanic, Panic, Onward
  <2> QED BY <1>4, <2>1
<1>11. CASE Prepare
  <2>1. Onward BY <1>11 DEF Prepare, Panic, Onward
  <2> QED BY <1>4, <2>1
<1>12. CASE UNCHANGED vars
  BY <1>12 DEF vars, Progress, Has, Symbol, Accepted, Valid, TheLayout, CurrentSp
<1> QED
  BY <1>1, <1>2, <1>3, <1>5, <1>6, <1>7, <1>8, <1>9, <1>10, <1>11, <1>12
  DEF Next, Step, Resting

LEMMA Suffices == IInv => AcceptedIsSafe
<1> SUFFICES ASSUME IInv, Accepted
    PROVE  /\ \A x \in Loaded : ~Damaged(x)
           /\ zeroed = IF Has("skip") THEN {} ELSE Addresses(Bss)
           /\ \A p, q \in Parts :
                p # q => Addresses(TheLayout[p]) \cap Addresses(TheLayout[q]) = {}
  BY DEF AcceptedIsSafe, Bss
<1> USE DEF IInv, Typed
<1>1. /\ \A x \in Symbols : Symbol(x) \in Nat
      /\ \A x \in Sections : image.sec[x] \in Region
      /\ \A x \in Loaded : image.sec[x].end <= image.sec["BOOT_STACK"].start
      /\ CurrentSp \in Int /\ CurrentSp > image.sec["BOOT_STACK"].start
      /\ TheLayout \in Layout
  BY ImageFacts
<1>2. LayoutAccepted(TheLayout, image.sec["TEXT"].start, CurrentSp)
  BY DEF Progress, Valid
<1>3. image.sec["TEXT"].start \in Address
  BY <1>1 DEF Sections, Loaded, Region
<1>4. \A p, q \in Parts :
         p # q => Addresses(TheLayout[p]) \cap Addresses(TheLayout[q]) = {}
  BY <1>1, <1>2, <1>3, AcceptedLayoutIsDisjoint
<1>5. Bss = Span(Symbol("sbss"), Symbol("ebss"))
  BY DEF Bss, TheLayout, Parts
<1>6. Symbol("sbss") \in Nat /\ Symbol("ebss") \in Nat
  BY <1>1 DEF Symbols
<1>7. zeroed = IF Has("skip") THEN {} ELSE Addresses(Bss)
  BY <1>5, <1>6 DEF Progress, Addresses, Span
<1>8. CurrentSp <= Symbol("sbss")
  <2>1. /\ CurrentSp <= TheLayout.boot_stack.end
        /\ TheLayout.boot_stack.end <= TheLayout.bss.start
    BY <1>2 DEF LayoutAccepted, SpInside, InOrder
  <2>2. TheLayout.bss.start = Symbol("sbss")
    BY <1>5 DEF Bss, Span
  <2>3. TheLayout.boot_stack.end \in Nat
    BY <1>1 DEF Layout, Parts, Region, Address
  <2> QED BY <2>1, <2>2, <2>3, <1>1, <1>6
<1>9. ASSUME NEW x \in Loaded PROVE ~Damaged(x)
  <2>1. /\ image.sec[x] \in Region /\ image.sec["BOOT_STACK"] \in Region
        /\ image.sec[x].end <= image.sec["BOOT_STACK"].start
    BY <1>1 DEF Sections
  <2>2. \A a \in zeroed : a \in Int /\ a >= Symbol("sbss")
    BY <1>5, <1>6, <1>7 DEF Addresses, Span
  <2> QED BY <2>1, <2>2, <1>1, <1>6, <1>8 DEF Damaged, Addresses, Region, Address
<1> QED BY <1>4, <1>7, <1>9

(* Whatever the linker made of a script that loads code and data below the *)
(* boot stack: if the report is printed, the clear that ran before it hit  *)
(* nothing but [sbss, ebss), and all of it.                                *)
THEOREM ReportComesInTime == Spec => []AcceptedIsSafe
  BY Initially, Inductive, Suffices, PTL DEF Spec

-----------------------------------------------------------------------------
(* What the probe says at each point.  Nothing clears it in a build that   *)
(* skips the loop, and no report is accepted before the loop has ended.    *)
ProbeState ==
    /\ Has("probe") /\ Has("skip") /\ pc # "start" => probe = PATTERN
    /\ Accepted /\ ~Has("skip") => probe = 0

LEMMA ProbeKept == IInv /\ ProbeState /\ [Next]_vars => ProbeState'
<1> SUFFICES ASSUME IInv, ProbeState, [Next]_vars PROVE ProbeState'
  OBVIOUS
<1>1. CASE Start
  <2>1. /\ pc = "start" /\ build' = build /\ console' = console
        /\ probe' = IF "probe" \in build THEN PATTERN ELSE probe
    BY <1>1, Zenon DEF Start, Primed, Has
  <2>2. ~Accepted'
    BY <2>1, Zenon DEF IInv, Progress, Accepted
  <2> QED BY <2>1, <2>2 DEF ProbeState, Has
<1>2. CASE Clear
  <2>1. pc = "clear" /\ build' = build /\ console' = console
    BY <1>2, Zenon DEF Clear
  <2>2. ~Accepted' /\ ~("skip" \in build)
    BY <2>1, Zenon DEF IInv, Progress, Accepted, Has
  <2> QED BY <2>1, <2>2 DEF ProbeState, Has
<1>3. CASE Report /\ Valid /\ ProbeAccepted
  <2>1. /\ pc = "report" /\ build' = build /\ probe' = probe
        /\ "skip" \in build \/ probe = 0
    BY <1>3, Zenon DEF Report, ProbeAccepted, Has
  <2> QED BY <2>1 DEF ProbeState, Has
<1>4. Onward /\ probe' = probe => ProbeState'
  <2> SUFFICES ASSUME Onward, probe' = probe PROVE ProbeState'
    OBVIOUS
  <2>1. build' = build /\ pc # "start"
    BY Zenon DEF Onward
  <2>2. Accepted' <=> Accepted
    <3>1. CASE console' = console
      BY <3>1, Zenon DEF Accepted
    <3>2. CASE console' # console
      BY <3>2, SayAnother, Zenon DEF Onward, Lines, IInv, Typed
    <3> QED BY <3>1, <3>2
  <2> QED BY <2>1, <2>2 DEF ProbeState, Has
<1>5. CASE \/ Hello \/ TrapInit \/ Trigger \/ Model \/ DeliberatePanic \/ Prepare
           \/ Report /\ ~(Valid /\ ProbeAccepted)
  <2>1. Onward /\ probe' = probe
    BY <1>5 DEF Hello, TrapInit, Trigger, Model, DeliberatePanic, Prepare, Report,
                Panic, Onward
  <2> QED BY <2>1, <1>4
<1>6. CASE UNCHANGED vars
  BY <1>6 DEF vars, ProbeState, Has, Accepted
<1> QED
  BY <1>1, <1>2, <1>3, <1>5, <1>6 DEF Next, Step, Resting

(* Lesson 3's probe is evidence for every image: where the pattern was     *)
(* written first and the report is accepted, it reads 0 if and only if the *)
(* loop has run.                                                           *)
THEOREM ProbeIsEvidence == Spec => []ProbeTellsTheClear
<1>1. Init => ProbeState
  BY DEF Init, ProbeState, Accepted
<1>2. IInv /\ ProbeState => ProbeTellsTheClear
  <2>1. PATTERN # 0
    BY DEF PATTERN
  <2> QED BY <2>1 DEF IInv, Progress, ProbeState, ProbeTellsTheClear
<1> QED BY Initially, Inductive, ProbeKept, <1>1, <1>2, PTL DEF Spec
================================================================================
