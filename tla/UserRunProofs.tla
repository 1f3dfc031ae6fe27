----------------------------- MODULE UserRunProofs -----------------------------
(***************************************************************************)
(* What holds of UserRun for every largest PID and every number of stress  *)
(* runs.                                                                   *)
(***************************************************************************)
EXTENDS UserRun, SequenceTheorems, TLAPS

Lessons == {"lesson07", "lesson08", "lesson09", "lesson10"}

(* The lessons whose manager goes on after an exit.                        *)
Managed == {"lesson09", "lesson10"}

(***************************************************************************)
(* The runs of each build.                                                 *)
(***************************************************************************)
StressRun == [program |-> ExitStress, expect |-> Exited(0)]
DemoRun == [program |-> ExitDemo, expect |-> Exited(7)]
FaultRun == [program |-> Illegal, expect |-> Faulted(1)]
AfterRun == [program |-> AfterFault, expect |-> Exited(0)]

(* The CASE of Runs, one alternative at a time.                            *)
LEMMA Choice ==
  ASSUME NEW b \in Lessons, NEW P7, NEW P8, NEW P9, NEW P10, NEW R,
         R = CASE b = "lesson07" -> P7 [] b = "lesson08" -> P8
               [] b = "lesson09" -> P9 [] b = "lesson10" -> P10
  PROVE  /\ b = "lesson07" => R = P7
         /\ b = "lesson08" => R = P8
         /\ b = "lesson09" => R = P9
         /\ b = "lesson10" => R = P10
BY SMT DEF Lessons

LEMMA RunsOfBuild ==
  ASSUME NEW b \in Lessons
  PROVE  /\ b = "lesson07" => Runs(b) = <<[program |-> Ecall, expect |-> Nothing]>>
         /\ b = "lesson08" => Runs(b) = <<[program |-> Syscalls, expect |-> Nothing]>>
         /\ b = "lesson09" => Runs(b) = <<DemoRun>> \o [k \in 1..StressRuns |-> StressRun]
         /\ b = "lesson10" => Runs(b) = <<DemoRun, FaultRun, AfterRun>>
                                          \o [k \in 1..StressRuns |-> StressRun]
<1>. DEFINE S == [k \in 1..StressRuns |-> [program |-> ExitStress, expect |-> Exited(0)]]
<1>1. Runs(b) = CASE b = "lesson07" -> <<[program |-> Ecall, expect |-> Nothing]>>
                  [] b = "lesson08" -> <<[program |-> Syscalls, expect |-> Nothing]>>
                  [] b = "lesson09" -> <<[program |-> ExitDemo, expect |-> Exited(7)]>> \o S
                  [] b = "lesson10" -> <<[program |-> ExitDemo, expect |-> Exited(7)],
                                         [program |-> Illegal, expect |-> Faulted(1)],
                                         [program |-> AfterFault, expect |-> Exited(0)]>> \o S
  BY Zenon DEF Runs
<1>2. /\ b = "lesson07" => Runs(b) = <<[program |-> Ecall, expect |-> Nothing]>>
      /\ b = "lesson08" => Runs(b) = <<[program |-> Syscalls, expect |-> Nothing]>>
      /\ b = "lesson09" => Runs(b) = <<[program |-> ExitDemo, expect |-> Exited(7)]>> \o S
      /\ b = "lesson10" => Runs(b) = <<[program |-> ExitDemo, expect |-> Exited(7)],
                                       [program |-> Illegal, expect |-> Faulted(1)],
                                       [program |-> AfterFault, expect |-> Exited(0)]>> \o S
  BY <1>1, Choice, Zenon
<1>. QED
  BY <1>2, Zenon DEF StressRun, DemoRun, FaultRun, AfterRun

(* How many there are, and which is which.                                 *)
LEMMA RunFacts ==
  ASSUME build \in Lessons
  PROVE  /\ build = "lesson07" =>
              Len(Runs(build)) = 1 /\ Runs(build)[1] = [program |-> Ecall, expect |-> Nothing]
         /\ build = "lesson08" =>
              Len(Runs(build)) = 1 /\ Runs(build)[1] = [program |-> Syscalls, expect |-> Nothing]
         /\ build = "lesson09" =>
              /\ Len(Runs(build)) = 1 + StressRuns
              /\ Runs(build)[1] = DemoRun
              /\ \A k \in 2..(1 + StressRuns) : Runs(build)[k] = StressRun
         /\ build = "lesson10" =>
              /\ Len(Runs(build)) = 3 + StressRuns
              /\ Runs(build)[1] = DemoRun
              /\ Runs(build)[2] = FaultRun
              /\ Runs(build)[3] = AfterRun
              /\ \A k \in 4..(3 + StressRuns) : Runs(build)[k] = StressRun
<1>. DEFINE S == [k \in 1..StressRuns |-> StressRun]
<1>0. StressRuns \in Nat \ {0}
  BY UserRunAssumption
<1>1. S \in Seq({StressRun}) /\ Len(S) = StressRuns /\ \A k \in 1..StressRuns : S[k] = StressRun
  BY <1>0
<1>. HIDE DEF S
<1>2. <<DemoRun>> \in Seq({DemoRun}) /\ Len(<<DemoRun>>) = 1 /\ <<DemoRun>>[1] = DemoRun
  OBVIOUS
<1> DEFINE First == <<DemoRun, FaultRun, AfterRun>>
<1>4. /\ First \in Seq({DemoRun, FaultRun, AfterRun}) /\ Len(First) = 3
      /\ First[1] = DemoRun /\ First[2] = FaultRun /\ First[3] = AfterRun
  OBVIOUS
<1>. HIDE DEF First
<1>3. \A D : Len(<<D>>) = 1 /\ <<D>>[1] = D
  OBVIOUS
<1>5. CASE build = "lesson07" \/ build = "lesson08"
  BY <1>3, <1>5, RunsOfBuild
<1>6. CASE build = "lesson09"
  <2>1. Runs(build) = <<DemoRun>> \o S
    BY <1>6, RunsOfBuild, Zenon DEF S
  <2>2. /\ Len(<<DemoRun>> \o S) = 1 + StressRuns /\ (<<DemoRun>> \o S)[1] = DemoRun
        /\ \A k \in 2..(1 + StressRuns) : (<<DemoRun>> \o S)[k] = StressRun
    BY <1>0, <1>1, <1>2
  <2>. QED
    BY <1>6, <2>1, <2>2, Zenon
<1>7. CASE build = "lesson10"
  <2>1. Runs(build) = First \o S
    BY <1>7, RunsOfBuild, Zenon DEF S, First
  <2>2. /\ Len(First \o S) = 3 + StressRuns /\ (First \o S)[1] = DemoRun
        /\ (First \o S)[2] = FaultRun /\ (First \o S)[3] = AfterRun
        /\ \A k \in 4..(3 + StressRuns) : (First \o S)[k] = StressRun
    <3>1. /\ First \in Seq({DemoRun, FaultRun, AfterRun, StressRun})
          /\ S \in Seq({DemoRun, FaultRun, AfterRun, StressRun})
      BY <1>1, <1>4
    <3>2. /\ Len(First \o S) = Len(First) + Len(S)
          /\ \A k \in 1..(Len(First) + Len(S)) :
               (First \o S)[k] = IF k <= Len(First) THEN First[k] ELSE S[k - Len(First)]
      BY <3>1, ConcatProperties, Zenon
    <3> DEFINE C == First \o S
    <3>. HIDE DEF C
    <3>3. /\ Len(C) = 3 + StressRuns
          /\ \A k \in 1..(3 + StressRuns) : C[k] = IF k <= 3 THEN First[k] ELSE S[k - 3]
      BY <1>1, <1>4, <3>2, Zenon DEF C
    <3>4. /\ Len(C) = 3 + StressRuns /\ C[1] = DemoRun /\ C[2] = FaultRun /\ C[3] = AfterRun
          /\ \A k \in 4..(3 + StressRuns) : C[k] = StressRun
      BY <1>0, <1>1, <1>4, <3>3
    <3>. QED
      BY <3>4, Zenon DEF C
  <2>. QED
    BY <1>7, <2>1, <2>2, Zenon
<1>. QED
  BY <1>5, <1>6, <1>7, Zenon DEF Lessons

(***************************************************************************)
(* The invariant.  Counting: a process has the PID before the next one,    *)
(* and the runs follow the two processes of the model.  Lifecycle: the     *)
(* state each step finds.  OnCourse: a program never leaves its main       *)
(* branch, and none goes on after its exit or fault.  Stacks: what may be  *)
(* left of whom.                                                           *)
(***************************************************************************)
ModelPCs == {"boot", "model_run", "model_exit", "model_reject", "model_second"}
RunPCs == {"enter", "user", "trap", "take", "clear"}

Counting ==
    /\ build \in Lessons /\ pidMax \in Nat /\ index \in 1..Len(Runs(build))
    /\ next \in Nat /\ pid \in Nat /\ pid < next
    /\ pc \in ModelPCs => index = 1
    /\ pc = "boot" => next = 1
    /\ pc \in {"model_run", "model_exit"} => next \in 2..3 /\ pid = next - 1
    /\ pc \in {"model_reject", "model_second"} => next = 2
    /\ pc = "prepare" => next = index + 2
    /\ pc \in RunPCs => next = index + 3

Lifecycle ==
    /\ pc \in ModelPCs \cup {"prepare"} \cup RunPCs \cup {"stop", "panic"}
    /\ pc = "model_run" => state = Ready
    /\ pc = "model_exit" => state = Running
    /\ pc = "model_reject" => state = Exited(0)
    /\ pc \in {"enter", "user", "trap", "take"} => state = Running
    /\ pc = "take" => mailbox = Run.expect /\ build \in Managed
    /\ pc = "clear" => state = Run.expect /\ build \in Managed

(* The call with which the program of this run ends, or in lessons 7 and 8 *)
(* the last one.                                                           *)
LastCall ==
    IF build = "lesson07" THEN 1
    ELSE IF build = "lesson08" THEN 3
    ELSE IF index = 1 THEN 2
    ELSE IF build = "lesson10" /\ index = 3 THEN 5 ELSE 1

OnCourse ==
    /\ pc \in {"user", "trap"} => failing = FALSE /\ at \in 1..(LastCall + 1)
    /\ pc = "user" /\ at = LastCall + 1 => build = "lesson08"
    /\ pc = "trap" => at # LastCall + 1

Stacks ==
    /\ pc \in ModelPCs \cup {"prepare", "enter"} => userStack = 0 /\ trapStack = 0
    /\ NoResidue

IInv == Counting /\ Lifecycle /\ OnCourse /\ Stacks /\ LifecycleAssertionsHold

(* What the dispatcher answers to the calls of the programs.               *)
LEMMA Answers ==
  /\ Dispatch(999, 0) = Return(-1, <<>>)
  /\ Dispatch(PUTCHAR, 256) = Return(-2, <<>>) /\ Dispatch(EXIT, 256) = Return(-2, <<>>)
  /\ Dispatch(PUTCHAR, 79) = Return(0, <<79>>) /\ Dispatch(PUTCHAR, 65) = Return(0, <<65>>)
  /\ Dispatch(EXIT, 7) = Exit(7) /\ Dispatch(EXIT, 0) = Exit(0)
<1>1. 999 # PUTCHAR /\ 999 # EXIT /\ PUTCHAR # EXIT
  BY DEF PUTCHAR, EXIT
<1>2. Dispatch(999, 0) = Return(-1, <<>>)
  BY <1>1, Zenon DEF Dispatch, ERR_UNKNOWN_SYSCALL
<1>3. \A b \in 0..127 : Dispatch(PUTCHAR, b) = Return(0, <<b>>)
  BY <1>1, Zenon DEF Dispatch
<1>4. \A c \in 0..255 : Dispatch(EXIT, c) = Exit(c)
  BY <1>1, Zenon DEF Dispatch
<1>5. 256 \notin 0..127 /\ 256 \notin 0..255
  OBVIOUS
<1>6. Dispatch(PUTCHAR, 256) = Return(-2, <<>>) /\ Dispatch(EXIT, 256) = Return(-2, <<>>)
  BY <1>1, <1>5, Zenon DEF Dispatch, ERR_INVALID_ARGUMENT
<1>7. 79 \in 0..127 /\ 65 \in 0..127 /\ 7 \in 0..255 /\ 0 \in 0..255
  OBVIOUS
<1>. QED
  BY <1>2, <1>3, <1>4, <1>6, <1>7, Zenon

(* The three ways a trap of a program can go.                              *)
LEMMA CallReturns ==
  ASSUME build # "lesson07", Trapping.number # ILLEGAL,
         Trapping.known = TRUE \/ build = "lesson10",
         NEW value, NEW out, Served = Return(value, out), Trapping.want \in {ANY, value}
  PROVE  Expected /\ ~GivesUp /\ Trapping.want \in {ANY, ResultOf(Served.value)}
<1>1. Served.kind = "Return" /\ Served.value = value
  BY DEF Return
<1>. QED
  BY <1>1 DEF Expected, GivesUp, ResultOf

LEMMA CallExits ==
  ASSUME build \in Managed, Trapping.number = EXIT,
         Trapping.known = TRUE \/ build = "lesson10",
         NEW code, Served = Exit(code)
  PROVE  Expected /\ GivesUp /\ Completion = Exited(code)
<1>1. Served.kind = "Exit" /\ Served.value = code /\ EXIT # ILLEGAL
  BY DEF Exit, EXIT, ILLEGAL
<1>. QED
  BY <1>1 DEF Expected, GivesUp, Completion, Managed

LEMMA FaultEnds ==
  ASSUME build = "lesson10", Trapping.number = ILLEGAL
  PROVE  Expected /\ GivesUp /\ Completion = Faulted(at)
BY DEF Expected, GivesUp, Completion

(***************************************************************************)
(* Every program is on its way to the end its manager expects: each of its *)
(* traps is one its lesson knows, each call that returns gives the result  *)
(* the program insists on, and the last one leaves the right completion.   *)
(***************************************************************************)
LEMMA TrapFacts ==
  ASSUME build \in Lessons, build # "lesson07", index \in 1..Len(Runs(build)),
         failing = FALSE, at \in 1..LastCall
  PROVE  /\ at \in 1..Len(Code)
         /\ Expected
         /\ GivesUp => build \in Managed /\ at = LastCall /\ Completion = Run.expect
         /\ ~GivesUp => /\ at # LastCall \/ build = "lesson08"
                        /\ Trapping.want \in {ANY, ResultOf(Served.value)}
<1>0. StressRuns \in Nat \ {0} /\ index \in Nat /\ at \in Nat
  BY UserRunAssumption DEF LastCall
<1>1. /\ PUTCHAR # ILLEGAL /\ EXIT # ILLEGAL /\ 999 # ILLEGAL
      /\ -1 \in {ANY, -1} /\ -2 \in {ANY, -2} /\ 0 \in {ANY, 0} /\ ANY \in {ANY, 0}
  BY DEF PUTCHAR, EXIT, ILLEGAL
<1>2. CASE build = "lesson08"
  <2>0. /\ Len(Runs(build)) = 1
        /\ Runs(build)[1] = [program |-> Syscalls, expect |-> Nothing]
    BY <1>2, RunFacts, Zenon
  <2>1. index = 1 /\ Run = [program |-> Syscalls, expect |-> Nothing]
    BY <1>0, <2>0 DEF Run
  <2>2. Code = Syscalls.main /\ LastCall = 3
    BY <1>2, <2>1 DEF Code, LastCall
  <2>3. /\ Len(Code) = 3 /\ Code[1] = Call(999, 0, TRUE, -1)
        /\ Code[2] = Call(PUTCHAR, 256, TRUE, -2) /\ Code[3] = Call(PUTCHAR, 79, TRUE, 0)
    BY <2>2 DEF Syscalls
  <2>4. Expected /\ ~GivesUp /\ Trapping.want \in {ANY, ResultOf(Served.value)}
    <3>1. CASE at = 1
      <4>1. Trapping = Call(999, 0, TRUE, -1)
        BY <2>3, <3>1, Zenon DEF Trapping
      <4>2. /\ Trapping.number = 999 /\ Trapping.known = TRUE /\ Trapping.want = -1
           /\ Served = Return(-1, <<>>)
        BY <4>1, Answers DEF Call, Served
      <4>. QED
        BY <1>1, <1>2, <3>1, <4>2, CallReturns
    <3>2. CASE at = 2
      <4>1. Trapping = Call(PUTCHAR, 256, TRUE, -2)
        BY <2>3, <3>2, Zenon DEF Trapping
      <4>2. /\ Trapping.number = PUTCHAR /\ Trapping.known = TRUE /\ Trapping.want = -2
           /\ Served = Return(-2, <<>>)
        BY <4>1, Answers DEF Call, Served
      <4>. QED
        BY <1>1, <1>2, <3>2, <4>2, CallReturns
    <3>3. CASE at = 3
      <4>1. Trapping = Call(PUTCHAR, 79, TRUE, 0)
        BY <2>3, <3>3, Zenon DEF Trapping
      <4>2. /\ Trapping.number = PUTCHAR /\ Trapping.known = TRUE /\ Trapping.want = 0
           /\ Served = Return(0, <<79>>)
        BY <4>1, Answers DEF Call, Served
      <4>. QED
        BY <1>1, <1>2, <3>3, <4>2, CallReturns
    <3>. QED
      BY <2>2, <3>1, <3>2, <3>3
  <2>. QED
    BY <1>2, <2>2, <2>3, <2>4
<1>3. CASE build \in Managed /\ index = 1
  <2>1. Run = DemoRun
    BY <1>0, <1>3, RunFacts DEF Run, Managed
  <2>2. Code = ExitDemo.main /\ LastCall = 2 /\ Run.expect = Exited(7)
    BY <1>3, <2>1 DEF Code, DemoRun, LastCall, Managed
  <2>3. /\ Len(Code) = 3 /\ Code[1] = Call(EXIT, 256, TRUE, -2)
        /\ Code[2] = Call(EXIT, 7, TRUE, ANY)
    BY <2>2 DEF ExitDemo
  <2>4. CASE at = 1
    <3>1. Trapping = Call(EXIT, 256, TRUE, -2)
      BY <2>3, <2>4, Zenon DEF Trapping
    <3>2. /\ Trapping.number = EXIT /\ Trapping.known = TRUE /\ Trapping.want = -2
         /\ Served = Return(-2, <<>>)
      BY <3>1, Answers DEF Call, Served
    <3>3. Expected /\ ~GivesUp /\ Trapping.want \in {ANY, ResultOf(Served.value)}
      BY <1>1, <1>3, <3>2, CallReturns DEF Managed
    <3>. QED
      BY <2>2, <2>3, <2>4, <3>3
  <2>5. CASE at = 2
    <3>1. Trapping = Call(EXIT, 7, TRUE, ANY)
      BY <2>3, <2>5, Zenon DEF Trapping
    <3>2. /\ Trapping.number = EXIT /\ Trapping.known = TRUE
         /\ Served = Exit(7)
      BY <3>1, Answers DEF Call, Served
    <3>3. Expected /\ GivesUp /\ Completion = Exited(7)
      BY <1>3, <3>2, CallExits
    <3>. QED
      BY <1>3, <2>2, <2>3, <2>5, <3>3
  <2>. QED
    BY <2>2, <2>4, <2>5
<1>4. CASE build = "lesson10" /\ index = 2
  <2>1. Run = FaultRun
    BY <1>4, RunFacts, Zenon DEF Run
  <2>2. Code = Illegal.main /\ LastCall = 1 /\ Run.expect = Faulted(1)
    BY <1>4, <2>1 DEF Code, FaultRun, LastCall
  <2>3. at = 1 /\ Len(Code) = 1 /\ Code[1] = Call(ILLEGAL, 0, FALSE, ANY)
    BY <1>0, <2>2 DEF Illegal
  <2>4. Trapping.number = ILLEGAL
    BY <2>3 DEF Call, Trapping
  <2>. QED
    BY <1>4, <2>2, <2>3, <2>4, FaultEnds DEF Managed
<1>5. CASE build = "lesson10" /\ index = 3
  <2>1. Run = AfterRun
    BY <1>5, RunFacts, Zenon DEF Run
  <2>2. Code = AfterFault.main /\ LastCall = 5 /\ Run.expect = Exited(0)
    BY <1>5, <2>1 DEF Code, AfterRun, LastCall
  <2>3. /\ Len(Code) = 6 /\ Code[1] = Call(999, 0, FALSE, -1)
        /\ Code[2] = Call(PUTCHAR, 256, FALSE, -2) /\ Code[3] = Call(PUTCHAR, 79, FALSE, ANY)
        /\ Code[4] = Call(PUTCHAR, 65, FALSE, ANY) /\ Code[5] = Call(EXIT, 0, FALSE, ANY)
    BY <2>2 DEF AfterFault
  <2>4. ASSUME at # 5
        PROVE  Expected /\ ~GivesUp /\ Trapping.want \in {ANY, ResultOf(Served.value)}
    <3>1. CASE at = 1
      <4>1. Trapping = Call(999, 0, FALSE, -1)
        BY <2>3, <3>1, Zenon DEF Trapping
      <4>2. /\ Trapping.number = 999 /\ Trapping.known = FALSE /\ Trapping.want = -1
           /\ Served = Return(-1, <<>>)
        BY <4>1, Answers DEF Call, Served
      <4>. QED
        BY <1>1, <1>5, <3>1, <4>2, CallReturns
    <3>2. CASE at = 2
      <4>1. Trapping = Call(PUTCHAR, 256, FALSE, -2)
        BY <2>3, <3>2, Zenon DEF Trapping
      <4>2. /\ Trapping.number = PUTCHAR /\ Trapping.known = FALSE /\ Trapping.want = -2
           /\ Served = Return(-2, <<>>)
        BY <4>1, Answers DEF Call, Served
      <4>. QED
        BY <1>1, <1>5, <3>2, <4>2, CallReturns
    <3>3. CASE at = 3
      <4>1. Trapping = Call(PUTCHAR, 79, FALSE, ANY)
        BY <2>3, <3>3, Zenon DEF Trapping
      <4>2. /\ Trapping.number = PUTCHAR /\ Trapping.known = FALSE /\ Trapping.want = ANY
           /\ Served = Return(0, <<79>>)
        BY <4>1, Answers DEF Call, Served
      <4>. QED
        BY <1>1, <1>5, <3>3, <4>2, CallReturns
    <3>4. CASE at = 4
      <4>1. Trapping = Call(PUTCHAR, 65, FALSE, ANY)
        BY <2>3, <3>4, Zenon DEF Trapping
      <4>2. /\ Trapping.number = PUTCHAR /\ Trapping.known = FALSE /\ Trapping.want = ANY
           /\ Served = Return(0, <<65>>)
        BY <4>1, Answers DEF Call, Served
      <4>. QED
        BY <1>1, <1>5, <3>4, <4>2, CallReturns
    <3>. QED
      BY <2>2, <2>4, <3>1, <3>2, <3>3, <3>4
  <2>5. CASE at = 5
    <3>1. Trapping = Call(EXIT, 0, FALSE, ANY)
      BY <2>3, <2>5, Zenon DEF Trapping
    <3>2. /\ Trapping.number = EXIT /\ Trapping.known = FALSE
         /\ Served = Exit(0)
      BY <3>1, Answers DEF Call, Served
    <3>. QED
      BY <1>5, <2>2, <2>3, <2>5, <3>2, CallExits DEF Managed
  <2>. QED
    BY <1>5, <2>2, <2>3, <2>4, <2>5 DEF Managed
<1>6. CASE build \in Managed /\ index # 1 /\ (build = "lesson10" => index \notin {2, 3})
  <2>1. Run = StressRun
    BY <1>0, <1>6, RunFacts DEF Run, Managed
  <2>2. Code = ExitStress.main /\ LastCall = 1 /\ Run.expect = Exited(0)
    BY <1>6, <2>1 DEF Code, StressRun, LastCall, Managed
  <2>3. at = 1 /\ Len(Code) = 1 /\ Code[1] = Call(EXIT, 0, TRUE, ANY)
    BY <1>0, <2>2 DEF ExitStress
  <2>4. Trapping.number = EXIT /\ Trapping.known = TRUE /\ Served = Exit(0)
    BY <2>3, Answers DEF Call, Served, Trapping
  <2>. QED
    BY <1>6, <2>2, <2>3, <2>4, CallExits
<1>. QED
  BY <1>2, <1>3, <1>4, <1>5, <1>6 DEF Lessons, Managed

(***************************************************************************)
(* The invariant holds initially and every step preserves it.              *)
(***************************************************************************)
(* Enough PIDs for a build are at least those up to the run in progress.   *)
LEMMA NeedFacts ==
  ASSUME build \in Lessons, index \in 1..Len(Runs(build))
  PROVE  /\ PidsNeeded \in Nat /\ 3 <= PidsNeeded /\ index + 2 <= PidsNeeded
         /\ Len(Runs(build)) \in Nat \ {0}
         /\ build \notin Managed => index = 1
<1>1. StressRuns \in Nat \ {0}
  BY UserRunAssumption
<1>2. CASE build \in {"lesson07", "lesson08"}
  <2>1. Len(Runs(build)) = 1
    BY <1>2, RunFacts
  <2>. QED
    BY <1>2, <2>1 DEF PidsNeeded, Managed
<1>3. CASE build \in Managed
  <2>1. Len(Runs(build)) \in {1 + StressRuns, 3 + StressRuns}
    BY <1>3, RunFacts DEF Managed
  <2>. QED
    BY <1>1, <1>3, <2>1 DEF PidsNeeded, Managed
<1>. QED
  BY <1>2, <1>3 DEF Lessons, Managed

LEMMA SameRun ==
  ASSUME UNCHANGED <<build, index>>
  PROVE  /\ Run' = Run /\ LastCall' = LastCall /\ PidsNeeded' = PidsNeeded
         /\ Len(Runs(build))' = Len(Runs(build))
BY DEF Run, LastCall, PidsNeeded, Runs

LEMMA InitInv == Init => IInv
<1>. SUFFICES ASSUME Init PROVE IInv
  OBVIOUS
<1>1. build \in Lessons /\ pidMax \in Nat
  BY UserRunAssumption DEF Init, Lessons
<1>2. Len(Runs(build)) \in Nat \ {0}
  <2>1. StressRuns \in Nat \ {0}
    BY UserRunAssumption
  <2>. QED
    BY <1>1, <2>1, RunFacts DEF Lessons
<1>. QED
  BY <1>1, <1>2 DEF Init, IInv, Counting, Lifecycle, OnCourse, Stacks, NoResidue,
     LifecycleAssertionsHold, ModelPCs, RunPCs

USE DEF image, userVars

LEMMA ModelInv ==
  ASSUME IInv, ModelAllocate \/ ModelRun \/ ModelExit \/ ModelReject
  PROVE  IInv'
<1>1. UNCHANGED <<build, pidMax, index, userVars, mailbox>>
  BY DEF ModelAllocate, ModelRun, ModelExit, ModelReject
<1>2. /\ Run' = Run /\ LastCall' = LastCall /\ PidsNeeded' = PidsNeeded
      /\ Len(Runs(build))' = Len(Runs(build)) /\ 3 <= PidsNeeded /\ PidsNeeded \in Nat
  BY <1>1, SameRun, NeedFacts DEF IInv, Counting
<1>3. CASE ModelAllocate
  <2>1. pc \in {"boot", "model_second"}
    BY <1>3, Zenon DEF ModelAllocate
  <2>2. next \in 1..2 /\ index = 1 /\ userStack = 0 /\ trapStack = 0 /\ pidMax \in Nat
    BY <2>1 DEF IInv, Counting, Stacks, ModelPCs
  <2>3. CASE next + 1 <= pidMax
    <3>1. pid' = next /\ next' = next + 1 /\ state' = Ready /\ pc' = "model_run"
          /\ UNCHANGED panicked
      BY <1>3, <2>3 DEF ModelAllocate, CheckedAdd, IsPid, Panic
    <3>2. Counting'
      BY <1>1, <1>2, <2>2, <3>1 DEF IInv, Counting, ModelPCs, RunPCs
    <3>3. Lifecycle'
      BY <1>1, <1>2, <3>1 DEF IInv, Lifecycle, ModelPCs, RunPCs
    <3>4. OnCourse'
      BY <1>1, <1>2, <3>1 DEF IInv, OnCourse
    <3>5. Stacks'
      BY <1>1, <2>2, <3>1 DEF IInv, Stacks, NoResidue
    <3>6. LifecycleAssertionsHold'
      BY <1>1, <1>2, <3>1 DEF IInv, LifecycleAssertionsHold
    <3>. QED
      BY <3>2, <3>3, <3>4, <3>5, <3>6 DEF IInv
  <2>4. CASE ~(next + 1 <= pidMax)
    <3>1. pc' = "panic" /\ panicked' = "PID overflow" /\ UNCHANGED <<pid, next, state>>
      BY <1>3, <2>4 DEF ModelAllocate, CheckedAdd, IsPid, Panic
    <3>2. Counting'
      BY <1>1, <1>2, <2>2, <3>1 DEF IInv, Counting, ModelPCs, RunPCs
    <3>3. Lifecycle' /\ OnCourse' /\ Stacks'
      BY <1>1, <1>2, <3>1 DEF Lifecycle, OnCourse, Stacks, NoResidue, ModelPCs, RunPCs
    <3>4. LifecycleAssertionsHold'
      <4>1. PidsNeeded > pidMax
        BY <1>2, <2>2, <2>4
      <4>. QED
        BY <1>1, <1>2, <3>1, <4>1 DEF LifecycleAssertionsHold
    <3>. QED
      BY <3>2, <3>3, <3>4 DEF IInv
  <2>. QED
    BY <2>3, <2>4
<1>4. CASE ModelRun
  <2>1. state = Ready /\ Allowed(state, Running)
    BY <1>4 DEF ModelRun, IInv, Lifecycle, Allowed, Ready, Running
  <2>. QED
    BY <1>1, <1>2, <1>4, <2>1 DEF ModelRun, Transition, IInv, Counting, Lifecycle, OnCourse, Stacks,
       NoResidue, LifecycleAssertionsHold, ModelPCs, RunPCs
<1>5. CASE ModelExit
  <2>1. Allowed(state, Exited(0))
    BY <1>5 DEF ModelExit, IInv, Lifecycle, Allowed, Running, Exited, Ended
  <2>2. /\ pc = "model_exit" /\ state' = Exited(0) /\ UNCHANGED <<next, pid, panicked>>
        /\ pc' = IF pid = 1 THEN "model_reject" ELSE "prepare"
    BY <1>5, <2>1, Zenon DEF ModelExit, Transition
  <2>3. Counting'
    BY <1>1, <1>2, <2>2 DEF IInv, Counting, ModelPCs, RunPCs
  <2>4. Lifecycle' /\ OnCourse'
    BY <1>1, <1>2, <2>2 DEF Lifecycle, OnCourse, ModelPCs, RunPCs
  <2>5. Stacks' /\ LifecycleAssertionsHold'
    BY <1>1, <1>2, <2>2 DEF IInv, Stacks, NoResidue, ModelPCs, LifecycleAssertionsHold
  <2>. QED
    BY <2>3, <2>4, <2>5 DEF IInv
<1>6. CASE ModelReject
  <2>1. ~Allowed(state, Running)
    BY <1>6 DEF ModelReject, IInv, Lifecycle, Allowed, Running, Exited, Ended
  <2>. QED
    BY <1>1, <1>2, <1>6, <2>1 DEF ModelReject, IInv, Counting, Lifecycle, OnCourse, Stacks,
       NoResidue, LifecycleAssertionsHold, ModelPCs, RunPCs
<1>. QED
  BY <1>3, <1>4, <1>5, <1>6

LEMMA PrepareInv == ASSUME IInv, Prepare PROVE IInv'
<1>1. UNCHANGED <<build, pidMax, index, at, failing, mailbox>> /\ pc = "prepare"
  BY Zenon DEF Prepare
<1>2. /\ Run' = Run /\ LastCall' = LastCall /\ PidsNeeded' = PidsNeeded
      /\ Len(Runs(build))' = Len(Runs(build))
      /\ index + 2 <= PidsNeeded /\ PidsNeeded \in Nat
  BY <1>1, SameRun, NeedFacts DEF IInv, Counting
<1>3. /\ next = index + 2 /\ index \in Nat /\ pidMax \in Nat /\ userStack = 0 /\ trapStack = 0
  BY <1>1 DEF IInv, Counting, Stacks
<1>4. CASE next <= pidMax
  <2>1. /\ pid' = next /\ next' = next + 1 /\ state' = Running /\ pc' = "enter"
        /\ userStack' = 0 /\ trapStack' = 0 /\ UNCHANGED panicked
    BY <1>3, <1>4 DEF Prepare, CheckedAdd, IsPid
  <2>2. Counting'
    BY <1>1, <1>2, <1>3, <2>1 DEF IInv, Counting, ModelPCs, RunPCs
  <2>3. Lifecycle' /\ OnCourse'
    BY <1>1, <1>2, <2>1 DEF Lifecycle, OnCourse, ModelPCs, RunPCs
  <2>4. Stacks' /\ LifecycleAssertionsHold'
    BY <1>1, <1>2, <2>1 DEF IInv, Stacks, NoResidue, LifecycleAssertionsHold
  <2>. QED
    BY <2>2, <2>3, <2>4 DEF IInv
<1>5. CASE ~(next <= pidMax)
  <2>1. pc' = "panic" /\ panicked' = "PID overflow" /\ UNCHANGED <<pid, next>>
    BY <1>5 DEF Prepare, IsPid, Panic
  <2>2. PidsNeeded > pidMax
    BY <1>2, <1>3, <1>5
  <2>3. Counting'
    BY <1>1, <1>2, <2>1 DEF IInv, Counting, ModelPCs, RunPCs
  <2>4. Lifecycle' /\ OnCourse' /\ Stacks'
    BY <2>1 DEF Lifecycle, OnCourse, Stacks, NoResidue, ModelPCs, RunPCs
  <2>5. LifecycleAssertionsHold'
    BY <1>1, <1>2, <2>1, <2>2 DEF LifecycleAssertionsHold
  <2>. QED
    BY <2>3, <2>4, <2>5 DEF IInv
<1>. QED
  BY <1>4, <1>5

LEMMA EnterInv == ASSUME IInv, Enter PROVE IInv'
<1>1. /\ UNCHANGED <<build, pidMax, index, panicked, next, pid, state, userStack, trapStack>>
      /\ pc = "enter" /\ pc' = "user" /\ at' = 1 /\ failing' = FALSE
      /\ build \in Managed => mailbox' = Nothing
  BY DEF Enter, Managed
<1>2. /\ Run' = Run /\ LastCall' = LastCall /\ PidsNeeded' = PidsNeeded
      /\ Len(Runs(build))' = Len(Runs(build))
  BY <1>1, SameRun
<1>3. Counting'
  BY <1>1, <1>2 DEF IInv, Counting, ModelPCs, RunPCs
<1>4. Lifecycle'
  BY <1>1, <1>2 DEF IInv, Lifecycle, ModelPCs, RunPCs
<1>5. OnCourse'
  BY <1>1, <1>2 DEF OnCourse, LastCall
<1>6. Stacks' /\ LifecycleAssertionsHold'
  BY <1>1, <1>2 DEF IInv, Stacks, NoResidue, LifecycleAssertionsHold, ModelPCs, Managed
<1>. QED
  BY <1>3, <1>4, <1>5, <1>6 DEF IInv

(* The program traps, or its lesson ends with the evidence of the trap.    *)
LEMMA TrapInv == ASSUME IInv, UserTraps \/ Evidence PROVE IInv'
<1>1. /\ UNCHANGED <<build, pidMax, index, panicked, next, pid, state, at, failing, mailbox>>
      /\ \/ pc = "user" /\ pc' = "trap" /\ at <= Len(Code)
            /\ userStack' \in {userStack, pid} /\ trapStack' = pid
         \/ pc = "trap" /\ pc' = "stop"
  BY DEF UserTraps, Evidence
<1>2. /\ Run' = Run /\ LastCall' = LastCall /\ PidsNeeded' = PidsNeeded
      /\ Len(Runs(build))' = Len(Runs(build))
  BY <1>1, SameRun
<1>3. Counting'
  BY <1>1, <1>2 DEF IInv, Counting, ModelPCs, RunPCs
<1>4. Lifecycle'
  BY <1>1, <1>2 DEF IInv, Lifecycle, ModelPCs, RunPCs
<1>5. OnCourse'
  <2>1. CASE pc = "user"
    <3>1. at # LastCall + 1
      <4>1. SUFFICES ASSUME build = "lesson08", at = 4 PROVE FALSE
        BY <2>1 DEF IInv, OnCourse, LastCall
      <4>2. index = 1
        BY <4>1, NeedFacts DEF IInv, Counting, Managed
      <4>3. Run.program = Syscalls /\ failing = FALSE
        BY <2>1, <4>1, <4>2, RunFacts DEF Run, Lessons, IInv, OnCourse
      <4>4. Len(Code) = 3
        BY <4>3 DEF Code, Syscalls
      <4>. QED
        BY <1>1, <2>1, <4>1, <4>4
    <3>. QED
      BY <1>1, <1>2, <2>1, <3>1 DEF IInv, OnCourse
  <2>2. CASE pc' = "stop"
    BY <2>2 DEF OnCourse
  <2>. QED
    BY <1>1, <2>1, <2>2
<1>6. Stacks'
  BY <1>1 DEF IInv, Stacks, NoResidue, ModelPCs
<1>7. LifecycleAssertionsHold'
  BY <1>1, <1>2 DEF IInv, LifecycleAssertionsHold
<1>. QED
  BY <1>3, <1>4, <1>5, <1>6, <1>7 DEF IInv

(* In a trap the facts of TrapFacts hold.                                  *)
LEMMA HandlerFacts ==
  ASSUME IInv, pc = "trap", build # "lesson07"
  PROVE  /\ Expected
         /\ GivesUp => build \in Managed /\ Completion = Run.expect
         /\ ~GivesUp => /\ at # LastCall \/ build = "lesson08"
                        /\ Trapping.want \in {ANY, ResultOf(Served.value)}
         /\ at \in 1..LastCall
<1>1. /\ build \in Lessons /\ index \in 1..Len(Runs(build)) /\ failing = FALSE
      /\ at \in 1..LastCall
  BY DEF IInv, Counting, OnCourse, LastCall
<1>. QED
  BY <1>1, TrapFacts

LEMMA ReturnInv == ASSUME IInv, HandleReturn PROVE IInv'
<1>0. pc = "trap" /\ build # "lesson07" /\ ~GivesUp
  BY Zenon DEF HandleReturn
<1>1. /\ UNCHANGED <<build, pidMax, index, panicked, next, pid, state, mailbox, userStack,
                    trapStack, failing>>
      /\ pc' = "user" /\ at' = at + 1
  BY <1>0, HandlerFacts, Zenon DEF HandleReturn
<1>2. /\ Run' = Run /\ LastCall' = LastCall /\ PidsNeeded' = PidsNeeded
      /\ Len(Runs(build))' = Len(Runs(build))
  BY <1>1, SameRun
<1>3. Counting'
  BY <1>0, <1>1, <1>2 DEF IInv, Counting, ModelPCs, RunPCs
<1>4. Lifecycle'
  BY <1>0, <1>1, <1>2 DEF IInv, Lifecycle, ModelPCs, RunPCs
<1>5. OnCourse'
  <2>1. at \in 1..LastCall /\ (at # LastCall \/ build = "lesson08") /\ failing = FALSE
    BY <1>0, HandlerFacts DEF IInv, OnCourse
  <2>2. LastCall \in Nat
    BY DEF LastCall
  <2>. QED
    BY <1>1, <1>2, <2>1, <2>2 DEF OnCourse
<1>6. Stacks' /\ LifecycleAssertionsHold'
  BY <1>0, <1>1, <1>2 DEF IInv, Stacks, NoResidue, LifecycleAssertionsHold, ModelPCs
<1>. QED
  BY <1>3, <1>4, <1>5, <1>6 DEF IInv

LEMMA EndInv == ASSUME IInv, HandleEnd PROVE IInv'
<1>0. pc = "trap" /\ build # "lesson07" /\ (Expected => GivesUp)
  BY Zenon DEF HandleEnd
<1>1. /\ UNCHANGED <<build, pidMax, index, panicked, next, pid, state, userVars>>
      /\ pc' = "take" /\ mailbox' = Run.expect /\ build \in Managed
  BY <1>0, HandlerFacts, Zenon DEF HandleEnd
<1>2. /\ Run' = Run /\ LastCall' = LastCall /\ PidsNeeded' = PidsNeeded
      /\ Len(Runs(build))' = Len(Runs(build))
  BY <1>1, SameRun
<1>3. Counting'
  BY <1>0, <1>1, <1>2 DEF IInv, Counting, ModelPCs, RunPCs
<1>4. Lifecycle'
  BY <1>0, <1>1, <1>2 DEF IInv, Lifecycle, ModelPCs, RunPCs
<1>5. OnCourse' /\ Stacks'
  BY <1>1 DEF OnCourse, Stacks, NoResidue, ModelPCs
<1>6. LifecycleAssertionsHold'
  BY <1>1, <1>2 DEF IInv, LifecycleAssertionsHold
<1>. QED
  BY <1>3, <1>4, <1>5, <1>6 DEF IInv

(* A manager always insists on an end, never on an empty mailbox.          *)
LEMMA ExpectedEnd ==
  ASSUME build \in Managed, index \in 1..Len(Runs(build))
  PROVE  Run.expect.kind \in Ended /\ Run.expect # Nothing
<1>0. StressRuns \in Nat \ {0}
  BY UserRunAssumption
<1>1. Run \in {DemoRun, FaultRun, AfterRun, StressRun}
  <2>1. CASE build = "lesson09"
    BY <1>0, <2>1, RunFacts DEF Run, Lessons
  <2>2. CASE build = "lesson10"
    BY <1>0, <2>2, RunFacts DEF Run, Lessons
  <2>. QED
    BY <2>1, <2>2 DEF Managed
<1>. QED
  BY <1>1 DEF DemoRun, FaultRun, AfterRun, StressRun, Exited, Faulted, Ended, Nothing

LEMMA TakeInv == ASSUME IInv, Take PROVE IInv'
<1>0. /\ pc = "take" /\ mailbox = Run.expect /\ state = Running
      /\ build \in Managed /\ index \in 1..Len(Runs(build))
  BY DEF Take, IInv, Lifecycle, Counting
<1>1. mailbox # Nothing /\ Allowed(state, mailbox)
  BY <1>0, ExpectedEnd DEF Allowed, Running
<1>2. /\ UNCHANGED <<build, pidMax, index, panicked, next, pid, userVars>>
      /\ pc' = "clear" /\ state' = mailbox
  BY <1>0, <1>1, Zenon DEF Take, Transition
<1>3. /\ Run' = Run /\ LastCall' = LastCall /\ PidsNeeded' = PidsNeeded
      /\ Len(Runs(build))' = Len(Runs(build))
  BY <1>2, SameRun
<1>4. Counting'
  BY <1>0, <1>2, <1>3 DEF IInv, Counting, ModelPCs, RunPCs
<1>5. Lifecycle'
  BY <1>0, <1>2, <1>3 DEF Lifecycle, ModelPCs, RunPCs
<1>6. OnCourse' /\ Stacks'
  BY <1>2 DEF OnCourse, Stacks, NoResidue, ModelPCs
<1>7. LifecycleAssertionsHold'
  BY <1>2, <1>3 DEF IInv, LifecycleAssertionsHold
<1>. QED
  BY <1>4, <1>5, <1>6, <1>7 DEF IInv

LEMMA ClearInv == ASSUME IInv, Clear PROVE IInv'
<1>0. pc = "clear" /\ state = Run.expect /\ next = index + 3
      /\ index \in 1..Len(Runs(build)) /\ Len(Runs(build)) \in Nat
  BY NeedFacts DEF Clear, IInv, Lifecycle, Counting, RunPCs
<1>1. /\ UNCHANGED <<build, pidMax, panicked, next, pid, state>>
      /\ userStack' = 0 /\ trapStack' = 0
      /\ \/ pc' = "prepare" /\ index' = index + 1 /\ index < Len(Runs(build))
         \/ pc' = "stop" /\ index' = index
  BY <1>0, Zenon DEF Clear, ClearedTrapStack
<1>2. PidsNeeded' = PidsNeeded /\ Len(Runs(build))' = Len(Runs(build))
  BY <1>1 DEF PidsNeeded, Runs
<1>3. Counting'
  BY <1>0, <1>1, <1>2 DEF IInv, Counting, ModelPCs, RunPCs
<1>4. Lifecycle' /\ OnCourse'
  BY <1>1 DEF Lifecycle, OnCourse, ModelPCs, RunPCs
<1>5. Stacks' /\ LifecycleAssertionsHold'
  BY <1>1, <1>2 DEF IInv, Stacks, NoResidue, LifecycleAssertionsHold, ModelPCs
<1>. QED
  BY <1>3, <1>4, <1>5 DEF IInv

LEMMA StutterInv == ASSUME IInv, UNCHANGED vars PROVE IInv'
<1>1. UNCHANGED <<build, pidMax, index, pc, panicked, next, pid, state, at, failing, mailbox,
                  userStack, trapStack>>
  BY DEF vars
<1>2. /\ Run' = Run /\ LastCall' = LastCall /\ PidsNeeded' = PidsNeeded
      /\ Len(Runs(build))' = Len(Runs(build))
  BY <1>1, SameRun
<1>3. Counting'
  BY <1>1, <1>2 DEF IInv, Counting, ModelPCs, RunPCs
<1>4. Lifecycle' /\ OnCourse'
  BY <1>1, <1>2 DEF IInv, Lifecycle, OnCourse, ModelPCs, RunPCs
<1>5. Stacks' /\ LifecycleAssertionsHold'
  BY <1>1, <1>2 DEF IInv, Stacks, NoResidue, LifecycleAssertionsHold, ModelPCs
<1>. QED
  BY <1>3, <1>4, <1>5 DEF IInv

LEMMA NextInv == IInv /\ [Next]_vars => IInv'
<1>. SUFFICES ASSUME IInv, [Next]_vars PROVE IInv'
  OBVIOUS
<1>1. CASE ModelAllocate \/ ModelRun \/ ModelExit \/ ModelReject
  BY <1>1, ModelInv
<1>2. CASE Prepare
  BY <1>2, PrepareInv
<1>3. CASE Enter
  BY <1>3, EnterInv
<1>4. CASE UserTraps \/ Evidence
  BY <1>4, TrapInv
<1>5. CASE HandleReturn
  BY <1>5, ReturnInv
<1>6. CASE HandleEnd
  BY <1>6, EndInv
<1>7. CASE Take
  BY <1>7, TakeInv
<1>8. CASE Clear
  BY <1>8, ClearInv
<1>9. CASE UNCHANGED vars
  BY <1>9, StutterInv
<1>. QED
  BY <1>1, <1>2, <1>3, <1>4, <1>5, <1>6, <1>7, <1>8, <1>9
     DEF Next, KernelStep, UserSpins, Stopped

(* What every step of the managers, the handlers and the programs keeps.   *)
THEOREM Invariance == Spec => []IInv
BY InitInv, NextInv, PTL DEF Spec

(* No transition of a process is refused, no trap is one its lesson does   *)
(* not expect, no mailbox is found empty and no end differs from the one   *)
(* its manager insists on (process.rs transition, user.rs and user10.rs    *)
(* run and handle functions), for every number of stress runs; the PIDs    *)
(* run out only where the build needs more than there are.                 *)
THEOREM LifecycleIsLegal == Spec => []LifecycleAssertionsHold
<1>1. IInv => LifecycleAssertionsHold
  BY DEF IInv
<1>. QED
  BY <1>1, Invariance, PTL

(* clear_runtime_stacks() and the emptied mailbox stand between any two    *)
(* processes: a running program finds nothing of another one.              *)
THEOREM NothingIsLeftBehind == Spec => []NoResidue
<1>1. IInv => NoResidue
  BY DEF IInv, Stacks
<1>. QED
  BY <1>1, Invariance, PTL

(* PidAllocator::allocate() and the managers' counter after it never give  *)
(* a PID twice, and none beyond the largest one (process.rs, user.rs).     *)
THEOREM PidsAreFresh == Spec => PidsIncrease
<1>1. IInv /\ [Next]_vars => [pid' # pid => pid' > pid /\ IsPid(pid')]_vars
  <2>. SUFFICES ASSUME IInv, [Next]_vars, pid' # pid PROVE pid' > pid /\ IsPid(pid')
    OBVIOUS
  <2>1. pid \in Nat /\ next \in Nat /\ pid < next /\ pidMax \in Nat /\ pidMax' = pidMax
    <3>1. pidMax' = pidMax
      BY DEF Next, KernelStep, UserSpins, Stopped, vars, ModelAllocate, ModelRun, ModelExit,
             ModelReject, Prepare, Enter, Evidence, HandleReturn, HandleEnd, Take, Clear, UserTraps
    <3>. QED
      BY <3>1 DEF IInv, Counting
  <2>2. CASE ModelAllocate \/ Prepare
    <3>1. pid' = next /\ (IsPid(CheckedAdd(next)) \/ IsPid(next))
      BY <2>2, Zenon DEF ModelAllocate, Prepare
    <3>2. next <= pidMax
      BY <2>1, <3>1 DEF CheckedAdd, IsPid
    <3>. QED
      BY <2>1, <3>1, <3>2 DEF IsPid
  <2>3. CASE pid' = pid
    BY <2>3
  <2>. QED
    BY <2>2, <2>3 DEF Next, KernelStep, UserSpins, Stopped, vars, ModelRun, ModelExit,
           ModelReject, Enter, Evidence, HandleReturn, HandleEnd, Take, Clear, UserTraps
<1>. QED
  BY <1>1, Invariance, PTL DEF Spec, PidsIncrease
================================================================================
