----------------------------- MODULE ProgramProofs -----------------------------
(***************************************************************************)
(* The user programs of Scheduler, instruction by instruction, across      *)
(* every preemption, call and boost: what their registers hold wherever    *)
(* they are, how many calls they have made by then, and that none of them  *)
(* ever exits with a code the kernel does not expect.                      *)
(***************************************************************************)
EXTENDS SchedulerProofs

(***************************************************************************)
(* What run() asks of a plan: markers that are characters, programs with   *)
(* something to do, and one task per timer batch that waits for at least   *)
(* one event.                                                              *)
(***************************************************************************)
WellPlanned ==
    /\ N <= 63
    /\ \A b \in 1..Len(Plan) :
          /\ \A i \in 0..(Plan[b].count - 1) :
                ~Plan[b].specs[i].fault /\ Plan[b].specs[i].mode # 4 =>
                   Plan[b].specs[i].iterations >= 1
          /\ Plan[b].policy = "Timer" =>
                Plan[b].count = 1 /\ Plan[b].limit >= 1 /\ ~Plan[b].specs[0].fault

(***************************************************************************)
(* Where a program may be, by its mode.                                    *)
(***************************************************************************)
Body == {sched_putchar, sched_putchar + 1, sched_yield, sched_yield + 1,
         sched_syscall, sched_syscall + 1, sched_next}

OnPath(spec, done, r) ==
    /\ r.sepc \in Body \cup {sched_entry, sched_loop, sched_exit, sched_wait,
                             sched_waitexit, sched_fail, sched_fault}
    /\ spec.fault <=> r.sepc = sched_fault
    /\ r.sepc \in {sched_putchar, sched_putchar + 1} => spec.mode = 0
    /\ r.sepc \in {sched_yield, sched_yield + 1} => spec.mode \in {0, 2}
    /\ r.sepc \in {sched_syscall, sched_syscall + 1} => spec.mode = 3
    /\ r.sepc \in {sched_next, sched_exit} => spec.mode # 4
    /\ r.sepc \in {sched_wait, sched_waitexit} => spec.mode = 4
    /\ r.sepc = sched_waitexit => done

(* The counter and the checksum: s3 is the sum of the rounds begun.        *)
Rounds(spec, r) ==
    /\ r.sepc \in Body \cup {sched_loop} /\ spec.mode # 4 => 2 * r.s3 = r.s2 * (r.s2 + 1)
    /\ r.sepc = sched_loop /\ spec.mode # 4 => r.s2 = 0 \/ r.s2 < spec.iterations
    /\ r.sepc \in Body => r.s2 >= 1 /\ (r.s2 = 1 \/ r.s2 <= spec.iterations)
    /\ r.sepc = sched_exit => r.s2 = spec.iterations

(* The calls made by then.                                                 *)
YieldsMade(spec, r) ==
    IF spec.mode \notin {0, 2} \/ r.sepc \in {sched_entry, sched_fault} THEN 0
    ELSE IF r.sepc \in {sched_putchar, sched_putchar + 1, sched_yield} THEN r.s2 - 1
    ELSE r.s2

SyscallsMade(spec, r) ==
    IF spec.mode \notin {0, 3} \/ r.sepc \in {sched_entry, sched_fault} THEN 0
    ELSE IF r.sepc \in {sched_putchar, sched_syscall} THEN r.s2 - 1 ELSE r.s2

(* No program of a plan fails: each call has given what it checks for.     *)
NoFailure(r) ==
    /\ r.sepc # sched_fail
    /\ r.sepc \in {sched_putchar + 1, sched_yield + 1} => r.a0 = 0
    /\ r.sepc = sched_syscall + 1 => r.a0 = -1

OnCourse(spec, done, r, i, y, c) ==
    /\ r.s0 = i
    /\ OnPath(spec, done, r)
    /\ Rounds(spec, r)
    /\ r.sepc # sched_fail => y = YieldsMade(spec, r) /\ c = SyscallsMade(spec, r)
    /\ WellPlanned => NoFailure(r)

(* What a program has done when it has ended as it should.                 *)
Once(spec, modes) == IF spec.mode \in modes /\ ~spec.fault THEN spec.iterations ELSE 0

Complete(spec, done, y, c) ==
    /\ y = Once(spec, {0, 2}) /\ c = Once(spec, {0, 3})
    /\ spec.mode = 4 /\ ~spec.fault => done

(* What a trap says of the program it left.                                *)
EventOnCourse(spec, done, e, i, y, c) ==
    /\ e.reason = "Yield"   => OnCourse(spec, done, e.frame, i, y + 1, c)
    /\ e.reason = "Syscall" => OnCourse(spec, done, e.frame, i, y, c + 1)
    /\ e.reason = "Timer"   => OnCourse(spec, done, e.frame, i, y, c)
    /\ e.reason = "Exit"    => /\ e.code = 0 => Complete(spec, done, y, c)
                               /\ WellPlanned => e.code = 0
    /\ e.reason = "Fault"   => spec.fault /\ Complete(spec, done, y, c)

(***************************************************************************)
(* The invariant: every program is on course, in its saved frame, in the   *)
(* registers of the hart or in the event that is being accounted.          *)
(***************************************************************************)
InBatch == pc \notin {"begin", "halt", "panic"}

(* The saved frame of the task that runs is out of date.                   *)
Saved(i) == state[i] # "Done" /\ ~(i = current /\ pc \in {"user", "trap", "account"})

TaskOnCourse(r, i) == OnCourse(SpecOf(i), timerDone, r, i, yields[i], syscalls[i])

ProgramInv ==
    /\ InBatch => \A i \in Tasks :
          /\ Saved(i) => TaskOnCourse(frame[i], i)
          /\ state[i] = "Done" => Complete(SpecOf(i), timerDone, yields[i], syscalls[i])
    /\ pc \in {"user", "trap"} => TaskOnCourse(regs, current)
    /\ pc = "trap" /\ scause = "ecall" => regs = AtEcall(regs)
    /\ pc = "trap" /\ scause = "illegal" => regs.sepc = sched_fault
    /\ pc = "account" =>
          EventOnCourse(SpecOf(current), timerDone, event, current, yields[current],
                        syscalls[current])

(* The timer of lesson 13: the flag, the count and the interrupt agree.    *)
TimerInv ==
    /\ pc \in {"begin", "halt"} => ~stie
    /\ InBatch /\ ~Timed => ~stie
    /\ InBatch /\ Policy = "Timer" =>
          /\ timers[0] <= Plan[bidx].limit
          /\ timerDone <=> timers[0] = Plan[bidx].limit
          /\ timerDone => ~stie
          /\ pc = "trap" /\ scause = "timer" => ~timerDone
          /\ pc = "account" /\ event.reason = "Timer" => ~timerDone

PInv == ProgramInv /\ (WellPlanned => TimerInv)
LEMMA PlanFacts ==
  ASSUME WellPlanned, bidx \in 1..Len(Plan)
  PROVE  /\ N <= 63
         /\ \A i \in Tasks : ~SpecOf(i).fault /\ SpecOf(i).mode # 4 =>
                               SpecOf(i).iterations >= 1
         /\ Policy = "Timer" => /\ Count = 1 /\ Tasks = {0} /\ Plan[bidx].limit >= 1
                                /\ ~SpecOf(0).fault
<1>1. /\ N <= 63
      /\ \A i \in Tasks : ~SpecOf(i).fault /\ SpecOf(i).mode # 4 => SpecOf(i).iterations >= 1
  BY DEF WellPlanned, SpecOf, Tasks, Count
<1>2. ASSUME Policy = "Timer"
      PROVE  Count = 1 /\ Plan[bidx].limit >= 1 /\ ~SpecOf(0).fault
  BY <1>2 DEF WellPlanned, SpecOf, Count, Policy
<1>3. Count = 1 => Tasks = {0}
  BY DEF Tasks
<1>. QED
  BY <1>1, <1>2, <1>3

(***************************************************************************)
(* One instruction.                                                        *)
(***************************************************************************)
LEMMA Triangle ==
  ASSUME NEW a \in Nat, NEW b \in Nat, 2 * b = a * (a + 1)
  PROVE  2 * (b + a + 1) = (a + 1) * (a + 1 + 1)
<1>1. (a + 1) * (a + 1 + 1) = a * (a + 1) + 2 * (a + 1)
  OBVIOUS
<1>. QED
  BY <1>1

LEMMA Addresses ==
  /\ sched_entry = 0 /\ sched_loop = 1 /\ sched_putchar = 2 /\ sched_yield = 4
  /\ sched_syscall = 6 /\ sched_next = 8 /\ sched_exit = 9 /\ sched_wait = 11
  /\ sched_waitexit = 12 /\ sched_fail = 13 /\ sched_fault = 15
  /\ Ecalls = {2, 4, 6, 9, 12, 13} /\ Body = {2, 3, 4, 5, 6, 7, 8}
BY DEF sched_entry, sched_loop, sched_putchar, sched_yield, sched_syscall, sched_next,
       sched_exit, sched_wait, sched_waitexit, sched_fail, sched_fault, Ecalls, Body

LEMMA InstructionFields ==
  ASSUME NEW r \in Frames
  PROVE  /\ Instruction(r).sepc = NextAddress(r) /\ Instruction(r).s0 = r.s0
         /\ Instruction(r).s2 = NextS2(r) /\ Instruction(r).s3 = NextS3(r)
         /\ Instruction(r).a0 = r.a0
BY DEF Instruction, Frames

LEMMA InstructionStays ==
  ASSUME bidx \in 1..Len(Plan), NEW r \in Frames, NEW i \in Tasks, NEW y, NEW c,
         r.sepc \notin Ecalls \cup {sched_fault},
         OnCourse(SpecOf(i), timerDone, r, i, y, c)
  PROVE  OnCourse(SpecOf(i), timerDone, Instruction(r), i, y, c)
<1>. DEFINE n == Instruction(r)
            spec == SpecOf(i)
<1>0. /\ r.s2 \in Nat /\ r.s3 \in Nat /\ r.s0 = i
      /\ spec.mode \in 0..4 /\ spec.iterations \in Nat /\ spec.fault \in BOOLEAN
  BY BatchFacts DEF OnCourse, Frames
<1>1. /\ n.sepc = NextAddress(r) /\ n.s0 = i /\ n.s2 = NextS2(r) /\ n.s3 = NextS3(r)
      /\ n.a0 = r.a0
  BY <1>0, InstructionFields
<1>2. r.sepc \in {0, 1, 3, 5, 7, 8, 11}
  BY Addresses DEF OnCourse, OnPath
<1>3. ~spec.fault
  BY <1>2, Addresses DEF OnCourse, OnPath
<1>. SUFFICES OnCourse(spec, timerDone, n, i, y, c)
  OBVIOUS
<1>. HIDE DEF n
<1>4. CASE r.sepc = 0
  <2>1. n.sepc = 1 /\ n.s2 = 0 /\ n.s3 = 0
    BY <1>1, <1>4, Addresses DEF NextAddress, NextS2, NextS3
  <2>2. y = 0 /\ c = 0
    BY <1>4, Addresses DEF OnCourse, YieldsMade, SyscallsMade
  <2>. QED
    BY <1>0, <1>1, <1>3, <2>1, <2>2, Addresses
       DEF OnCourse, OnPath, Rounds, YieldsMade, SyscallsMade, NoFailure
<1>5. CASE r.sepc = 1
  <2>1. CASE spec.mode = 4
    <3>1. n.sepc = 11
      BY <1>0, <1>1, <1>5, <2>1, Addresses DEF NextAddress, BranchOf
    <3>2. y = 0 /\ c = 0
      BY <1>5, <2>1, Addresses DEF OnCourse, YieldsMade, SyscallsMade
    <3>. QED
      BY <1>0, <1>1, <1>3, <2>1, <3>1, <3>2, Addresses
         DEF OnCourse, OnPath, Rounds, YieldsMade, SyscallsMade, NoFailure
  <2>2. CASE spec.mode # 4
    <3>1. n.s2 = r.s2 + 1 /\ n.s3 = r.s3 + r.s2 + 1
      BY <1>0, <1>1, <1>5, <2>2, Addresses DEF NextS2, NextS3, Counts
    <3>2. /\ spec.mode = 0 => n.sepc = 2
          /\ spec.mode = 1 => n.sepc = 8
          /\ spec.mode = 2 => n.sepc = 4
          /\ spec.mode = 3 => n.sepc = 6
      BY <1>0, <1>1, <1>5, Addresses DEF NextAddress, BranchOf
    <3>3. 2 * r.s3 = r.s2 * (r.s2 + 1)
      BY <1>5, <2>2, Addresses DEF OnCourse, Rounds
    <3>4. r.s2 = 0 \/ r.s2 < spec.iterations
      BY <1>5, <2>2, Addresses DEF OnCourse, Rounds
    <3>5. 2 * n.s3 = n.s2 * (n.s2 + 1)
      BY <1>0, <3>1, <3>3, Triangle
    <3>6. y = YieldsMade(spec, r) /\ c = SyscallsMade(spec, r)
      BY <1>5, Addresses DEF OnCourse
    <3>7. OnPath(spec, timerDone, n) /\ NoFailure(n)
      BY <1>0, <1>3, <2>2, <3>2, Addresses DEF OnPath, NoFailure
    <3>8. Rounds(spec, n)
      <4>1. n.s2 \in Nat /\ n.s2 >= 1 /\ (n.s2 = 1 \/ n.s2 <= spec.iterations)
        BY <1>0, <3>1, <3>4
      <4>2. n.sepc \in {2, 4, 6, 8}
        BY <1>0, <2>2, <3>2
      <4>. QED
        BY <3>5, <4>1, <4>2, Addresses DEF Rounds
    <3>9. y = YieldsMade(spec, n) /\ c = SyscallsMade(spec, n)
      BY <1>0, <1>5, <2>2, <3>1, <3>2, <3>6, Addresses, SMTT(30) DEF YieldsMade, SyscallsMade
    <3>. QED
      BY <1>1, <3>7, <3>8, <3>9 DEF OnCourse
  <2>. QED
    BY <2>1, <2>2
<1>6. CASE r.sepc \in {3, 5, 7}
  <2>1. n.s2 = r.s2 /\ n.s3 = r.s3
    BY <1>1, <1>6, Addresses DEF NextS2, NextS3, Counts
  <2>2. /\ r.sepc = 3 => n.sepc = (IF r.a0 = 0 THEN 4 ELSE 13)
        /\ r.sepc = 5 => n.sepc = (IF r.a0 = 0 THEN 8 ELSE 13)
        /\ r.sepc = 7 => n.sepc = (IF r.a0 = -1 THEN 8 ELSE 13)
    BY <1>1, <1>6, Addresses DEF NextAddress, OrFail
  <2>3. WellPlanned => n.sepc # 13
    BY <1>6, <2>2, Addresses DEF OnCourse, NoFailure
  <2>4. OnPath(spec, timerDone, n) /\ (WellPlanned => NoFailure(n))
    <3>1. OnPath(spec, timerDone, r) /\ n.sepc \in {4, 8, 13}
      BY <1>6, <2>2 DEF OnCourse
    <3>2. n.sepc = 4 => spec.mode = 0
      BY <1>6, <2>2, <3>1, Addresses DEF OnPath
    <3>3. n.sepc = 8 => spec.mode # 4
      BY <1>6, <2>2, <3>1, Addresses DEF OnPath
    <3>4. OnPath(spec, timerDone, n)
      BY <1>3, <3>1, <3>2, <3>3, Addresses DEF OnPath
    <3>. QED
      BY <2>3, <3>1, <3>4, Addresses DEF NoFailure
  <2>5. Rounds(spec, n)
    BY <1>6, <2>1, <2>2, Addresses DEF OnCourse, OnPath, Rounds
  <2>6. n.sepc # 13 => y = YieldsMade(spec, n) /\ c = SyscallsMade(spec, n)
    <3>1. OnPath(spec, timerDone, r) /\ y = YieldsMade(spec, r) /\ c = SyscallsMade(spec, r)
      BY <1>6, Addresses DEF OnCourse
    <3>2. r.sepc = 3 => spec.mode = 0 /\ (n.sepc # 13 => n.sepc = 4)
      BY <1>6, <2>2, <3>1, Addresses DEF OnPath
    <3>3. r.sepc = 5 => spec.mode \in {0, 2} /\ (n.sepc # 13 => n.sepc = 8)
      BY <1>6, <2>2, <3>1, Addresses DEF OnPath
    <3>4. r.sepc = 7 => spec.mode = 3 /\ (n.sepc # 13 => n.sepc = 8)
      BY <1>6, <2>2, <3>1, Addresses DEF OnPath
    <3>. QED
      BY <1>6, <2>1, <3>1, <3>2, <3>3, <3>4, Addresses, SMTT(30) DEF YieldsMade, SyscallsMade
  <2>. QED
    BY <1>1, <2>4, <2>5, <2>6, Addresses DEF OnCourse
<1>7. CASE r.sepc = 8
  <2>1. n.s2 = r.s2 /\ n.s3 = r.s3
    BY <1>1, <1>7, Addresses DEF NextS2, NextS3, Counts
  <2>2. n.sepc = IF r.s2 < spec.iterations THEN 1
                 ELSE IF 2 * r.s3 = spec.iterations * (spec.iterations + 1) THEN 9 ELSE 13
    BY <1>0, <1>1, <1>7, Addresses DEF NextAddress, OrFail
  <2>3. /\ 2 * r.s3 = r.s2 * (r.s2 + 1) /\ spec.mode # 4
        /\ r.s2 >= 1 /\ (r.s2 = 1 \/ r.s2 <= spec.iterations)
    BY <1>7, Addresses DEF OnCourse, OnPath, Rounds
  <2>4. n.sepc = 9 => r.s2 = spec.iterations
    <3>1. CASE spec.iterations = 0
      BY <1>0, <2>2, <2>3, <3>1
    <3>2. CASE spec.iterations # 0
      BY <1>0, <2>2, <2>3, <3>2
    <3>. QED
      BY <3>1, <3>2
  <2>5. ASSUME WellPlanned PROVE n.sepc # 13
    <3>1. spec.iterations >= 1
      BY <1>3, <2>3, <2>5, PlanFacts
    <3>2. r.s2 < spec.iterations \/ r.s2 = spec.iterations
      BY <1>0, <2>3, <3>1
    <3>. QED
      BY <2>2, <2>3, <3>2
  <2>6. OnPath(spec, timerDone, n) /\ (WellPlanned => NoFailure(n))
    BY <1>3, <2>2, <2>3, <2>5, Addresses DEF OnPath, NoFailure
  <2>7. Rounds(spec, n)
    BY <2>1, <2>2, <2>3, <2>4, Addresses DEF Rounds
  <2>8. n.sepc # 13 => y = YieldsMade(spec, n) /\ c = SyscallsMade(spec, n)
    BY <1>7, <2>1, <2>2, Addresses DEF OnCourse, YieldsMade, SyscallsMade
  <2>. QED
    BY <1>1, <2>6, <2>7, <2>8, Addresses DEF OnCourse
<1>8. CASE r.sepc = 11
  <2>1. n.s2 = r.s2 /\ n.s3 = r.s3 /\ spec.mode = 4
    BY <1>1, <1>8, Addresses DEF NextS2, NextS3, Counts, OnCourse, OnPath
  <2>2. n.sepc = IF timerDone THEN 12 ELSE 1
    BY <1>1, <1>8, Addresses DEF NextAddress
  <2>3. OnPath(spec, timerDone, n) /\ NoFailure(n) /\ Rounds(spec, n)
    BY <1>3, <2>1, <2>2, Addresses DEF OnPath, NoFailure, Rounds
  <2>4. y = YieldsMade(spec, n) /\ c = SyscallsMade(spec, n)
    BY <1>8, <2>1, Addresses DEF OnCourse, YieldsMade, SyscallsMade
  <2>. QED
    BY <1>1, <2>3, <2>4 DEF OnCourse
<1>. QED
  BY <1>2, <1>4, <1>5, <1>6, <1>7, <1>8
(***************************************************************************)
(* One trap.                                                               *)
(***************************************************************************)
LEMMA AtEcallFields ==
  ASSUME NEW r \in Frames
  PROVE  /\ AtEcall(r).sepc = r.sepc /\ AtEcall(r).s0 = r.s0 /\ AtEcall(r).s2 = r.s2
         /\ AtEcall(r).s3 = r.s3 /\ AtEcall(r).a0 = ArgumentOf(r)
         /\ AtEcall(r).a7 = NumberOf(r)
BY DEF AtEcall, Frames

LEMMA EcallStays ==
  ASSUME NEW spec, NEW done, NEW r \in Frames, NEW i, NEW y, NEW c, r.sepc \in Ecalls,
         OnCourse(spec, done, r, i, y, c)
  PROVE  OnCourse(spec, done, AtEcall(r), i, y, c) /\ AtEcall(AtEcall(r)) = AtEcall(r)
<1>. DEFINE n == AtEcall(r)
<1>1. n.sepc = r.sepc /\ n.s0 = r.s0 /\ n.s2 = r.s2 /\ n.s3 = r.s3
  BY AtEcallFields
<1>2. n.a0 = ArgumentOf(r) /\ n.a7 = NumberOf(r) /\ n \in Frames
  BY AtEcallFields, AtEcallTypes
<1>3. ArgumentOf(n) = ArgumentOf(r) /\ NumberOf(n) = NumberOf(r)
  <2>. HIDE DEF n
  <2>1. NumberOf(n) = NumberOf(r)
    BY <1>1 DEF NumberOf
  <2>2. ArgumentOf(n) = ArgumentOf(r)
    BY <1>1, <1>2 DEF ArgumentOf
  <2>. QED
    BY <2>1, <2>2
<1>4. AtEcall(n) = n
  <2>1. AtEcall(n) = [n EXCEPT !.a0 = n.a0, !.a7 = n.a7]
    BY <1>2, <1>3 DEF AtEcall
  <2>. HIDE DEF n
  <2>. QED
    BY <1>2, <2>1 DEF Frames
<1>. SUFFICES OnCourse(spec, done, n, i, y, c)
  BY <1>4
<1>. HIDE DEF n
<1>5. OnPath(spec, done, n) /\ Rounds(spec, n)
  BY <1>1 DEF OnCourse, OnPath, Rounds
<1>6. WellPlanned => NoFailure(n)
  BY <1>1, Addresses DEF OnCourse, NoFailure
<1>7. n.sepc # sched_fail => y = YieldsMade(spec, n) /\ c = SyscallsMade(spec, n)
  BY <1>1 DEF OnCourse, YieldsMade, SyscallsMade
<1>. QED
  BY <1>1, <1>5, <1>6, <1>7 DEF OnCourse

LEMMA DispatchGives ==
  ASSUME NEW arg \in Int
  PROVE  /\ Dispatch(1, arg).kind = "Return"
         /\ arg \in 0..127 => Dispatch(1, arg).value = 0
         /\ Dispatch(999, arg).kind = "Return" /\ Dispatch(999, arg).value = -1
         /\ arg \in 0..255 => Dispatch(2, arg).kind = "Exit" /\ Dispatch(2, arg).value = arg
<1>1. /\ arg \in 0..127 => Dispatch(1, arg) = Return(0, <<arg>>)
      /\ arg \notin 0..127 => Dispatch(1, arg) = Return(ERR_INVALID_ARGUMENT, <<>>)
  BY DEF Dispatch, PUTCHAR, EXIT
<1>2. arg \in 0..255 => Dispatch(2, arg) = Exit(arg)
  BY DEF Dispatch, PUTCHAR, EXIT
<1>3. Dispatch(999, arg) = Return(ERR_UNKNOWN_SYSCALL, <<>>)
  BY DEF Dispatch, PUTCHAR, EXIT
<1>4. \A n, out : Return(n, out).kind = "Return" /\ Return(n, out).value = n
  BY DEF Return
<1>5. Exit(arg).kind = "Exit" /\ Exit(arg).value = arg
  BY DEF Exit
<1>6. Dispatch(1, arg).kind = "Return" /\ (arg \in 0..127 => Dispatch(1, arg).value = 0)
  BY <1>1, <1>4, Zenon
<1>7. /\ Dispatch(999, arg).kind = "Return"
      /\ Dispatch(999, arg).value = ERR_UNKNOWN_SYSCALL
  <2>1. /\ Return(ERR_UNKNOWN_SYSCALL, <<>>).kind = "Return"
        /\ Return(ERR_UNKNOWN_SYSCALL, <<>>).value = ERR_UNKNOWN_SYSCALL
    BY <1>4
  <2>. QED
    BY <1>3, <2>1
<1>8. arg \in 0..255 => Dispatch(2, arg).kind = "Exit" /\ Dispatch(2, arg).value = arg
  BY <1>2, <1>5, Zenon
<1>9. ERR_UNKNOWN_SYSCALL = -1
  BY DEF ERR_UNKNOWN_SYSCALL
<1>. QED
  BY <1>6, <1>7, <1>8, <1>9

(* The frame a call returns to.                                            *)
LEMMA ServedStays ==
  ASSUME NEW spec \in Specs, NEW done, NEW r \in Frames, NEW i, NEW y \in Nat,
         NEW c \in Nat, NEW v \in Int, OnCourse(spec, done, r, i, y, c)
  PROVE  /\ r.sepc = sched_putchar /\ (WellPlanned => v = 0) =>
               OnCourse(spec, done, Served(r, v), i, y, c + 1)
         /\ r.sepc = sched_yield /\ v = 0 => OnCourse(spec, done, Served(r, v), i, y + 1, c)
         /\ r.sepc = sched_syscall /\ v = -1 =>
               OnCourse(spec, done, Served(r, v), i, y, c + 1)
<1>. DEFINE n == Served(r, v)
<1>0. spec.mode \in 0..4
  BY DEF Specs
<1>1. /\ n.sepc = r.sepc + 1 /\ n.s0 = r.s0 /\ n.s2 = r.s2 /\ n.s3 = r.s3 /\ n.a0 = v
      /\ r.s2 \in Nat /\ r.sepc \in Int
  BY DEF Served, Frames, CodeRange
<1>. SUFFICES /\ r.sepc = sched_putchar /\ (WellPlanned => v = 0) =>
                    OnCourse(spec, done, n, i, y, c + 1)
              /\ r.sepc = sched_yield /\ v = 0 => OnCourse(spec, done, n, i, y + 1, c)
              /\ r.sepc = sched_syscall /\ v = -1 => OnCourse(spec, done, n, i, y, c + 1)
  OBVIOUS
<1>. HIDE DEF n
<1>2. r.sepc \in {2, 4, 6} => OnPath(spec, done, n)
  <2>1. OnPath(spec, done, r)
    BY DEF OnCourse
  <2>2. r.sepc = 2 => n.sepc = 3 /\ OnPath(spec, done, n)
    BY <1>1, <2>1, Addresses DEF OnPath
  <2>3. r.sepc = 4 => n.sepc = 5 /\ OnPath(spec, done, n)
    BY <1>1, <2>1, Addresses DEF OnPath
  <2>4. r.sepc = 6 => n.sepc = 7 /\ OnPath(spec, done, n)
    BY <1>1, <2>1, Addresses DEF OnPath
  <2>. QED
    BY <2>2, <2>3, <2>4
<1>3. r.sepc \in {2, 4, 6} => Rounds(spec, n)
  BY <1>1, Addresses DEF OnCourse, Rounds
<1>4. /\ r.sepc = 2 /\ v = 0 => NoFailure(n)
      /\ r.sepc = 4 /\ v = 0 => NoFailure(n)
      /\ r.sepc = 6 /\ v = -1 => NoFailure(n)
  BY <1>1, Addresses DEF NoFailure
<1>5. r.sepc = 2 => y = YieldsMade(spec, n) /\ c + 1 = SyscallsMade(spec, n)
  BY <1>0, <1>1, Addresses DEF OnCourse, OnPath, YieldsMade, SyscallsMade
<1>6. r.sepc = 4 => y + 1 = YieldsMade(spec, n) /\ c = SyscallsMade(spec, n)
  BY <1>0, <1>1, Addresses DEF OnCourse, OnPath, YieldsMade, SyscallsMade
<1>7. r.sepc = 6 => y = YieldsMade(spec, n) /\ c + 1 = SyscallsMade(spec, n)
  BY <1>0, <1>1, Addresses DEF OnCourse, OnPath, YieldsMade, SyscallsMade
<1>8. n.s0 = i
  BY <1>1 DEF OnCourse
<1>. QED
  BY <1>2, <1>3, <1>4, <1>5, <1>6, <1>7, <1>8, Addresses DEF OnCourse
LEMMA SpecTypes ==
  ASSUME bidx \in 1..Len(Plan), NEW i \in Ids
  PROVE  SpecOf(i) \in Specs
<1>1. Plan[bidx] \in Batches
  BY SchedulerAssumption
<1>. QED
  BY <1>1 DEF Batches, SpecOf

LEMMA MarkerPrints ==
  ASSUME WellPlanned, NEW i \in Ids
  PROVE  Marker(i) \in 0..127
BY NAssumption DEF WellPlanned, Marker, Ids

(* handle() leaves the program where its trap should leave it, and an exit *)
(* only from its end.                                                      *)
LEMMA OutcomeStays ==
  ASSUME IInv, ProgramInv, pc = "trap"
  PROVE  EventOnCourse(SpecOf(current), timerDone, Outcome, current, yields[current],
                       syscalls[current])
<1>. DEFINE i == current
            spec == SpecOf(current)
            y == yields[current]
            c == syscalls[current]
            call == Dispatch(regs.a7, regs.a0)
<1>1. /\ i \in Ids /\ i \in Tasks /\ spec \in Specs /\ y \in Nat /\ c \in Nat
      /\ regs \in Frames /\ clock \in Nat /\ scause \in {"ecall", "timer", "illegal"}
  BY CurrentFacts, SpecTypes DEF TaskPCs, IInv, TypeOK, Shape
<1>2. OnCourse(spec, timerDone, regs, i, y, c)
  BY DEF ProgramInv, TaskOnCourse
<1>. SUFFICES EventOnCourse(spec, timerDone, Outcome, i, y, c)
  OBVIOUS
<1>3. CASE scause = "timer"
  <2>1. Outcome.reason = "Timer" /\ Outcome.frame = regs
    BY <1>3 DEF Outcome, Interrupted
  <2>. HIDE DEF i, spec, y, c
  <2>. QED
    BY <1>2, <2>1 DEF EventOnCourse
<1>4. CASE scause = "illegal"
  <2>1. Outcome.reason = "Fault"
    BY <1>4 DEF Outcome
  <2>2. regs.sepc = sched_fault
    BY <1>4 DEF ProgramInv
  <2>. HIDE DEF i, spec, y, c
  <2>3. spec.fault /\ y = 0 /\ c = 0
    BY <1>2, <2>2, Addresses DEF OnCourse, OnPath, YieldsMade, SyscallsMade
  <2>4. Complete(spec, timerDone, y, c)
    BY <2>3 DEF Complete, Once
  <2>. QED
    BY <2>1, <2>3, <2>4 DEF EventOnCourse
<1>5. CASE scause = "ecall"
  <2>1. /\ regs.sepc \in {2, 4, 6, 9, 12, 13} /\ regs.s0 = i
        /\ regs.a0 = ArgumentOf(regs) /\ regs.a7 = NumberOf(regs)
    BY <1>1, <1>2, <1>5, AtEcallFields, Addresses DEF ProgramInv, IInv, Shape, OnCourse
  <2>2. ~spec.fault
    BY <1>2, <2>1, Addresses DEF OnCourse, OnPath
  <2>3. /\ regs.a7 = 3 => Outcome.reason = "Yield" /\ Outcome.frame = Served(regs, 0)
        /\ regs.a7 # 3 /\ call.kind = "Exit" =>
              Outcome.reason = "Exit" /\ Outcome.code = call.value
        /\ regs.a7 # 3 /\ call.kind = "Return" =>
              Outcome.reason = "Syscall" /\ Outcome.frame = Served(regs, call.value)
    <3>. HIDE DEF call
    <3>1. regs.a7 = 3 => Outcome.reason = "Yield" /\ Outcome.frame = Served(regs, 0)
      BY <1>5 DEF Outcome
    <3>2. CASE regs.a7 # 3 /\ call.kind = "Exit"
      <4>1. Outcome = [frame |-> regs, reason |-> "Exit", code |-> call.value, time |-> clock]
        BY <1>5, <3>2 DEF Outcome, call
      <4>. QED
        BY <3>2, <4>1
    <3>3. CASE regs.a7 # 3 /\ call.kind = "Return"
      <4>1. Outcome = [frame |-> Served(regs, call.value), reason |-> "Syscall", code |-> 0,
                       time |-> clock]
        BY <1>5, <3>3 DEF Outcome, call
      <4>. QED
        BY <3>3, <4>1
    <3>. QED
      BY <3>1, <3>2, <3>3
  <2>4. regs.a0 \in Int /\ call.value \in Int
    BY <1>1, DispatchTypes DEF Frames
  <2>5. CASE regs.sepc = 2
    <3>1. regs.a7 = 1 /\ regs.a0 = Marker(i)
      BY <2>1, <2>5, Addresses DEF ArgumentOf, NumberOf, PUTCHAR
    <3>2. call.kind = "Return" /\ (WellPlanned => call.value = 0)
      <4>1. call = Dispatch(1, regs.a0)
        BY <3>1
      <4>2. call.kind = "Return"
        BY <2>4, <4>1, DispatchGives
      <4>3. \A arg \in 0..127 : Dispatch(1, arg).value = 0
        BY DispatchGives
      <4>4. WellPlanned => regs.a0 \in 0..127
        BY <1>1, <3>1, MarkerPrints
      <4>. QED
        BY <4>1, <4>2, <4>3, <4>4
    <3>. HIDE DEF i, spec, y, c, call
    <3>3. OnCourse(spec, timerDone, Served(regs, call.value), i, y, c + 1)
      BY <1>1, <1>2, <2>4, <2>5, <3>2, ServedStays, Addresses
    <3>. QED
      BY <2>3, <3>1, <3>2, <3>3 DEF EventOnCourse
  <2>6. CASE regs.sepc = 4
    <3>1. regs.a7 = 3
      BY <2>1, <2>6, Addresses DEF NumberOf
    <3>. HIDE DEF i, spec, y, c, call
    <3>2. OnCourse(spec, timerDone, Served(regs, 0), i, y + 1, c)
      BY <1>1, <1>2, <2>6, ServedStays, Addresses
    <3>. QED
      BY <2>3, <3>1, <3>2 DEF EventOnCourse
  <2>7. CASE regs.sepc = 6
    <3>1. regs.a7 = 999
      BY <2>1, <2>7, Addresses DEF NumberOf
    <3>2. call.kind = "Return" /\ call.value = -1
      BY <2>4, <3>1, DispatchGives
    <3>. HIDE DEF i, spec, y, c, call
    <3>3. OnCourse(spec, timerDone, Served(regs, -1), i, y, c + 1)
      BY <1>1, <1>2, <2>7, ServedStays, Addresses
    <3>. QED
      BY <2>3, <3>1, <3>2, <3>3 DEF EventOnCourse
  <2>8. CASE regs.sepc \in {9, 12, 13}
    <3>1. regs.a7 = 2 /\ regs.a0 = (IF regs.sepc = 13 THEN 99 ELSE 0)
      BY <2>1, <2>8, Addresses DEF ArgumentOf, NumberOf, EXIT
    <3>2. call.kind = "Exit" /\ call.value = regs.a0
      BY <3>1, DispatchGives
    <3>. HIDE DEF i, spec, y, c, call
    <3>3. Outcome.reason = "Exit" /\ Outcome.code = (IF regs.sepc = 13 THEN 99 ELSE 0)
      BY <2>3, <3>1, <3>2
    <3>4. regs.sepc = 13 => ~WellPlanned
      BY <1>2, Addresses DEF OnCourse, NoFailure
    <3>5. regs.sepc = 9 => Complete(spec, timerDone, y, c)
      <4>1. regs.sepc = 9 => /\ spec.mode # 4 /\ regs.s2 = spec.iterations
                             /\ y = YieldsMade(spec, regs) /\ c = SyscallsMade(spec, regs)
        BY <1>2, Addresses DEF OnCourse, OnPath, Rounds
      <4>. QED
        BY <2>2, <4>1, Addresses DEF Complete, Once, YieldsMade, SyscallsMade
    <3>6. regs.sepc = 12 => Complete(spec, timerDone, y, c)
      <4>1. regs.sepc = 12 => /\ spec.mode = 4 /\ timerDone
                              /\ y = YieldsMade(spec, regs) /\ c = SyscallsMade(spec, regs)
        BY <1>2, Addresses DEF OnCourse, OnPath
      <4>. QED
        BY <2>2, <4>1, Addresses DEF Complete, Once, YieldsMade, SyscallsMade
    <3>. QED
      BY <2>8, <3>3, <3>4, <3>5, <3>6 DEF EventOnCourse
  <2>. QED
    BY <2>1, <2>5, <2>6, <2>7, <2>8
<1>. QED
  BY <1>1, <1>3, <1>4, <1>5
(***************************************************************************)
(* The steps of the specification.                                         *)
(***************************************************************************)
USE DEF taskVars, batchVars, timerVars, userVars, timeVars, outVars, passVars, kernelVars

RunPCs == {"user", "trap", "account"}

(* The flag of lesson 13 goes up and stays up: a program on course stays   *)
(* on course.                                                              *)
LEMMA FlagRises ==
  ASSUME NEW spec, NEW done, NEW after, done => after, NEW r, NEW i, NEW y, NEW c
  PROVE  /\ OnCourse(spec, done, r, i, y, c) => OnCourse(spec, after, r, i, y, c)
         /\ Complete(spec, done, y, c) => Complete(spec, after, y, c)
<1>1. OnCourse(spec, done, r, i, y, c) => OnCourse(spec, after, r, i, y, c)
  <2>1. OnPath(spec, done, r) => OnPath(spec, after, r)
    BY DEF OnPath
  <2>. QED
    BY <2>1 DEF OnCourse
<1>2. Complete(spec, done, y, c) => Complete(spec, after, y, c)
  BY DEF Complete
<1>. QED
  BY <1>1, <1>2

(* A step of the loop that touches no program.                             *)
LEMMA QuietStep ==
  ASSUME ProgramInv, UNCHANGED <<frame, yields, syscalls, bidx, timerDone>>,
         pc \notin RunPCs, pc' \notin RunPCs, InBatch' => InBatch,
         \A i \in Tasks : state'[i] = "Done" <=> state[i] = "Done"
  PROVE  ProgramInv'
<1>1. Tasks' = Tasks /\ \A i : SpecOf(i)' = SpecOf(i)
  BY SameBatch DEF SpecOf
<1>2. ASSUME InBatch', NEW i \in Tasks
      PROVE  /\ Saved(i)' => TaskOnCourse(frame[i], i)'
             /\ state'[i] = "Done" =>
                   Complete(SpecOf(i), timerDone, yields[i], syscalls[i])'
  <2>1. /\ Saved(i) => TaskOnCourse(frame[i], i)
        /\ state[i] = "Done" => Complete(SpecOf(i), timerDone, yields[i], syscalls[i])
    BY <1>2 DEF ProgramInv
  <2>2. Saved(i)' => Saved(i)
    BY DEF Saved, RunPCs
  <2>. QED
    BY <1>1, <2>1, <2>2 DEF TaskOnCourse
<1>3. pc' \notin {"user", "trap", "account"}
  BY DEF RunPCs
<1>. QED
  BY <1>1, <1>2, <1>3 DEF ProgramInv

LEMMA BeginProgram == ASSUME IInv, Begin PROVE ProgramInv'
<1>1. pc' = "loop"
  BY BeginQueue
<1>2. /\ frame' = [i \in Ids |-> IF i \in Tasks THEN InitialFrame(i) ELSE NoFrame]
      /\ yields' = [i \in Ids |-> 0] /\ syscalls' = [i \in Ids |-> 0]
      /\ state' = [i \in Ids |-> IF i \in Tasks THEN "Ready" ELSE "Done"]
  BY Zenon DEF Begin
<1>3. bidx' = bidx
  BY Zenon DEF Begin
<1>4. Tasks' = Tasks /\ \A i : SpecOf(i)' = SpecOf(i)
  BY <1>3, SameBatch DEF SpecOf
<1>5. ASSUME NEW i \in Tasks
      PROVE  /\ OnCourse(SpecOf(i), timerDone', frame'[i], i, yields'[i], syscalls'[i])
             /\ state'[i] # "Done"
  <2>1. i \in Ids /\ SpecOf(i) \in Specs
    BY BatchFacts, SpecTypes DEF IInv, TypeOK
  <2>2. yields'[i] = 0 /\ syscalls'[i] = 0 /\ state'[i] = "Ready" /\ frame'[i] = InitialFrame(i)
    BY <1>2, <2>1
  <2>3. /\ InitialFrame(i).sepc = (IF SpecOf(i).fault THEN 15 ELSE 0)
        /\ InitialFrame(i).s0 = i
    BY Addresses DEF InitialFrame, NoFrame
  <2>. DEFINE r == InitialFrame(i)
              spec == SpecOf(i)
  <2>. HIDE DEF r, spec
  <2>4. OnPath(spec, timerDone', r)
    BY <2>1, <2>3, Addresses DEF OnPath, r, spec
  <2>5. Rounds(spec, r) /\ NoFailure(r) /\ 0 = YieldsMade(spec, r) /\ 0 = SyscallsMade(spec, r)
    BY <2>3, Addresses DEF Rounds, NoFailure, YieldsMade, SyscallsMade, r, spec
  <2>6. OnCourse(spec, timerDone', r, i, 0, 0)
    BY <2>3, <2>4, <2>5 DEF OnCourse, r
  <2>. QED
    BY <2>2, <2>6 DEF r, spec
<1>. QED
  BY <1>1, <1>4, <1>5 DEF ProgramInv, TaskOnCourse

LEMMA LoopProgram ==
  ASSUME IInv, ProgramInv, LoopTop \/ NextBoost \/ Select \/ Launch \/ SetDeadline
  PROVE  ProgramInv'
<1>1. CASE LoopTop
  <2>1. pc = "loop" /\ pc' \in {"boost", "select"}
    BY <1>1, LoopTopPasses DEF LoopTop, Proceed
  <2>2. UNCHANGED <<frame, yields, syscalls, bidx, timerDone, state>>
    BY <1>1, Zenon DEF LoopTop
  <2>. QED
    BY <2>1, <2>2, QuietStep DEF RunPCs, InBatch
<1>2. CASE NextBoost \/ Launch \/ SetDeadline
  <2>1. /\ pc \notin RunPCs /\ pc' \notin RunPCs /\ InBatch
        /\ UNCHANGED <<frame, yields, syscalls, bidx, timerDone, state>>
    BY <1>2 DEF NextBoost, Launch, SetDeadline, RunPCs, InBatch
  <2>. QED
    BY <2>1, QuietStep
<1>3. CASE Select
  <2>1. /\ pc \notin RunPCs /\ pc' \notin RunPCs /\ InBatch
        /\ UNCHANGED <<frame, yields, syscalls, bidx, timerDone>>
    BY <1>3 DEF Select, RunPCs, InBatch
  <2>2. \A p \in Positions(ready) : ready.ids[p] \in Ids /\ state[ready.ids[p]] = "Ready"
    BY QueueShape DEF IInv, TypeOK, QueueConsistent, Members
  <2>3. \A i \in Ids : state'[i] = "Done" <=> state[i] = "Done"
    BY <1>3, <2>2 DEF Select, IInv, TypeOK
  <2>4. Tasks \subseteq Ids
    BY BatchFacts DEF IInv, TypeOK
  <2>. QED
    BY <2>1, <2>3, <2>4, QuietStep
<1>. QED
  BY <1>1, <1>2, <1>3

(* What stays of the other tasks while one runs.                           *)
LEMMA OthersStay ==
  ASSUME ProgramInv, InBatch,
         timerDone => timerDone', NEW i \in Tasks, i # current,
         frame'[i] = frame[i], yields'[i] = yields[i], syscalls'[i] = syscalls[i],
         state'[i] = state[i]
  PROVE  /\ state'[i] # "Done" =>
               OnCourse(SpecOf(i), timerDone', frame'[i], i, yields'[i], syscalls'[i])
         /\ state'[i] = "Done" =>
               Complete(SpecOf(i), timerDone', yields'[i], syscalls'[i])
<1>1. /\ Saved(i) => TaskOnCourse(frame[i], i)
      /\ state[i] = "Done" => Complete(SpecOf(i), timerDone, yields[i], syscalls[i])
  BY DEF ProgramInv
<1>2. state[i] # "Done" => Saved(i)
  BY DEF Saved
<1>. QED
  BY <1>1, <1>2, FlagRises DEF TaskOnCourse
(* From its entry to the accounting of its trap a task is on the hart: the *)
(* saved frames do not change.                                             *)
LEMMA HartStep ==
  ASSUME IInv, ProgramInv, pc \in TaskPCs, pc' \in RunPCs \cup {"panic"},
         UNCHANGED <<frame, yields, syscalls, bidx, timerDone, state, current>>,
         pc' \in {"user", "trap"} => OnCourse(SpecOf(current), timerDone, regs', current,
                                              yields[current], syscalls[current]),
         pc' = "trap" /\ scause' = "ecall" => regs' = AtEcall(regs'),
         pc' = "trap" /\ scause' = "illegal" => regs'.sepc = sched_fault,
         pc' = "account" => EventOnCourse(SpecOf(current), timerDone, event', current,
                                          yields[current], syscalls[current])
  PROVE  ProgramInv'
<1>1. Tasks' = Tasks /\ \A i : SpecOf(i)' = SpecOf(i)
  BY SameBatch DEF SpecOf
<1>2. SpecOf(current)' = SpecOf(current)
  BY DEF SpecOf
<1>3. InBatch
  BY DEF InBatch, TaskPCs
<1>4. ASSUME InBatch', NEW i \in Tasks
      PROVE  /\ Saved(i)' => TaskOnCourse(frame[i], i)'
             /\ state'[i] = "Done" =>
                   Complete(SpecOf(i), timerDone, yields[i], syscalls[i])'
  <2>1. /\ Saved(i) => TaskOnCourse(frame[i], i)
        /\ state[i] = "Done" => Complete(SpecOf(i), timerDone, yields[i], syscalls[i])
    BY <1>3 DEF ProgramInv
  <2>2. pc' \in {"user", "trap", "account"}
    BY <1>4 DEF RunPCs, InBatch
  <2>3. Saved(i)' => Saved(i)
    BY <2>2 DEF Saved
  <2>. QED
    BY <1>1, <2>1, <2>3 DEF TaskOnCourse
<1>5. pc' \in {"user", "trap"} => TaskOnCourse(regs, current)'
  BY <1>2 DEF TaskOnCourse
<1>6. pc' = "account" => EventOnCourse(SpecOf(current), timerDone, event, current,
                                       yields[current], syscalls[current])'
  BY <1>2
<1>. QED
  BY <1>1, <1>4, <1>5, <1>6 DEF ProgramInv

LEMMA EnterProgram == ASSUME IInv, ProgramInv, Enter PROVE ProgramInv'
<1>1. /\ pc = "enter" /\ pc' = "user" /\ regs' = frame[current]
      /\ UNCHANGED <<frame, yields, syscalls, bidx, timerDone, state, current>>
  BY DEF Enter, Restored
<1>2. current \in Tasks /\ current \in Ids
  BY <1>1, CurrentFacts DEF TaskPCs
<1>3. Saved(current)
  BY <1>1, <1>2 DEF Saved, IInv, QueueConsistent
<1>4. OnCourse(SpecOf(current), timerDone, regs', current, yields[current], syscalls[current])
  BY <1>1, <1>2, <1>3 DEF ProgramInv, InBatch, TaskOnCourse
<1>. QED
  BY <1>1, <1>4, HartStep DEF TaskPCs, RunPCs

LEMMA UserProgram == ASSUME IInv, ProgramInv, UserRun \/ TimerInterrupt PROVE ProgramInv'
<1>0. /\ pc = "user" /\ pc' \in {"user", "trap"}
      /\ UNCHANGED <<frame, yields, syscalls, bidx, timerDone, state, current>>
  BY DEF UserRun, UserStep, UserEcall, UserIllegal, TimerInterrupt
<1>1. /\ OnCourse(SpecOf(current), timerDone, regs, current, yields[current], syscalls[current])
      /\ regs \in Frames /\ current \in Tasks /\ bidx \in 1..Len(Plan)
  BY <1>0, CurrentFacts DEF ProgramInv, TaskOnCourse, IInv, TypeOK, TaskPCs
<1>2. CASE UserStep
  <2>1. OnCourse(SpecOf(current), timerDone, regs', current, yields[current], syscalls[current])
    BY <1>1, <1>2, InstructionStays DEF UserStep
  <2>2. pc' = "user"
    BY <1>0, <1>2 DEF UserStep
  <2>. QED
    BY <1>0, <2>1, <2>2, HartStep DEF TaskPCs, RunPCs
<1>3. CASE UserEcall
  <2>1. regs' = AtEcall(regs) /\ pc' = "trap" /\ scause' = "ecall"
    BY <1>3 DEF UserEcall
  <2>2. /\ OnCourse(SpecOf(current), timerDone, AtEcall(regs), current, yields[current],
                    syscalls[current])
        /\ AtEcall(AtEcall(regs)) = AtEcall(regs)
    BY <1>1, <1>3, EcallStays DEF UserEcall
  <2>. QED
    BY <1>0, <2>1, <2>2, HartStep DEF TaskPCs, RunPCs
<1>4. CASE UserIllegal \/ TimerInterrupt
  <2>1. /\ regs' = regs /\ pc' = "trap" /\ scause' \in {"illegal", "timer"}
        /\ scause' = "illegal" => regs.sepc = sched_fault
    BY <1>4 DEF UserIllegal, TimerInterrupt
  <2>. QED
    BY <1>0, <1>1, <2>1, HartStep DEF TaskPCs, RunPCs
<1>. QED
  BY <1>2, <1>3, <1>4 DEF UserRun

LEMMA HandleProgram == ASSUME IInv, ProgramInv, Handle PROVE ProgramInv'
<1>1. /\ pc = "trap" /\ pc' \in {"account", "panic"} /\ event' = Outcome
      /\ UNCHANGED <<frame, yields, syscalls, bidx, timerDone, state, current>>
  BY DEF Handle, Proceed
<1>2. EventOnCourse(SpecOf(current), timerDone, Outcome, current, yields[current],
                    syscalls[current])
  BY <1>1, OutcomeStays
<1>. QED
  BY <1>1, <1>2, HartStep DEF TaskPCs, RunPCs

(* The accounting of a trap: the frame is saved, or the task is done.      *)
LEMMA AccountStep ==
  ASSUME IInv, ProgramInv, pc = "account", pc' \in {"loop", "panic"}, bidx' = bidx,
         timerDone => timerDone',
         \A i \in Tasks : i # current =>
            /\ frame'[i] = frame[i] /\ yields'[i] = yields[i] /\ syscalls'[i] = syscalls[i]
            /\ state'[i] = state[i],
         pc' = "loop" =>
            /\ state'[current] # "Done" =>
                  OnCourse(SpecOf(current), timerDone, frame'[current], current,
                           yields'[current], syscalls'[current])
            /\ state'[current] = "Done" =>
                  Complete(SpecOf(current), timerDone, yields'[current], syscalls'[current])
  PROVE  ProgramInv'
<1>1. Tasks' = Tasks /\ \A i : SpecOf(i)' = SpecOf(i)
  BY SameBatch DEF SpecOf
<1>2. InBatch
  BY DEF InBatch
<1>3. ASSUME pc' = "loop", NEW i \in Tasks
      PROVE  /\ Saved(i)' => TaskOnCourse(frame[i], i)'
             /\ state'[i] = "Done" =>
                   Complete(SpecOf(i), timerDone, yields[i], syscalls[i])'
  <2>1. /\ state'[i] # "Done" =>
               OnCourse(SpecOf(i), timerDone', frame'[i], i, yields'[i], syscalls'[i])
        /\ state'[i] = "Done" =>
               Complete(SpecOf(i), timerDone', yields'[i], syscalls'[i])
    <3>1. CASE i = current
      BY <1>3, <3>1, FlagRises
    <3>2. CASE i # current
      BY <1>2, <3>2, OthersStay
    <3>. QED
      BY <3>1, <3>2
  <2>. QED
    BY <1>1, <2>1 DEF TaskOnCourse, Saved
<1>. QED
  BY <1>1, <1>3 DEF ProgramInv, InBatch

LEMMA RetireProgram == ASSUME IInv, ProgramInv, Retire PROVE ProgramInv'
<1>0. pc = "account" /\ current \in Ids /\ current \in Tasks /\ Tasks \subseteq Ids
  BY CurrentFacts, BatchFacts DEF Retire, TaskPCs, IInv, TypeOK
<1>1. /\ state' = [state EXCEPT ![current] = "Done"]
      /\ frame' = [frame EXCEPT ![current] = event.frame]
      /\ UNCHANGED <<bidx, timerDone, yields, syscalls>> /\ pc' \in {"loop", "panic"}
      /\ event.reason \in {"Exit", "Fault"}
      /\ pc' = "loop" => (event.reason = "Exit" => event.code = 0)
  BY DEF Retire, EndOfPass, Proceed
<1>2. EventOnCourse(SpecOf(current), timerDone, event, current, yields[current],
                    syscalls[current])
  BY <1>0 DEF ProgramInv
<1>3. pc' = "loop" => Complete(SpecOf(current), timerDone, yields[current], syscalls[current])
  BY <1>1, <1>2 DEF EventOnCourse
<1>4. \A i \in Ids : /\ state'[i] = IF i = current THEN "Done" ELSE state[i]
                     /\ i # current => frame'[i] = frame[i]
  BY <1>1 DEF IInv, TypeOK
<1>. QED
  BY <1>0, <1>1, <1>3, <1>4, AccountStep

LEMMA SettleProgram ==
  ASSUME IInv, ProgramInv, OnYield \/ OnSyscall \/ OnTimer
  PROVE  ProgramInv'
<1>0. /\ pc = "account" /\ current \in Ids /\ current \in Tasks /\ Tasks \subseteq Ids
      /\ yields \in [Ids -> Nat] /\ syscalls \in [Ids -> Nat] /\ frame \in [Ids -> Frames]
      /\ state \in [Ids -> {"Ready", "Running", "Done"}] /\ state[current] = "Running"
  BY CurrentFacts, BatchFacts
     DEF OnYield, OnSyscall, OnTimer, TaskPCs, IInv, TypeOK, QueueConsistent
<1>1. PICK asked \in BOOLEAN : Settle(asked)
  BY DEF OnYield, OnSyscall, OnTimer
<1>2. pc' = "loop"
  BY <1>0, <1>1, SettleTypes
<1>3. /\ frame' = [frame EXCEPT ![current] = event.frame] /\ bidx' = bidx
      /\ state' = state \/ state' = [state EXCEPT ![current] = "Ready"]
  BY <1>1 DEF Settle, EndOfPass
<1>4. EventOnCourse(SpecOf(current), timerDone, event, current, yields[current],
                    syscalls[current])
  BY <1>0 DEF ProgramInv
<1>5. timerDone => timerDone'
  BY DEF OnYield, OnSyscall, OnTimer
<1>6. \/ /\ event.reason = "Yield" /\ yields' = [yields EXCEPT ![current] = @ + 1]
         /\ syscalls' = syscalls
      \/ /\ event.reason = "Syscall" /\ syscalls' = [syscalls EXCEPT ![current] = @ + 1]
         /\ yields' = yields
      \/ event.reason = "Timer" /\ UNCHANGED <<yields, syscalls>>
  BY DEF OnYield, OnSyscall, OnTimer
<1>7. OnCourse(SpecOf(current), timerDone, event.frame, current, yields'[current],
               syscalls'[current])
  BY <1>0, <1>4, <1>6 DEF EventOnCourse
<1>8. \A i \in Ids : i # current =>
         /\ frame'[i] = frame[i] /\ yields'[i] = yields[i] /\ syscalls'[i] = syscalls[i]
         /\ state'[i] = state[i]
  BY <1>0, <1>3, <1>6
<1>9. frame'[current] = event.frame /\ state'[current] # "Done"
  BY <1>0, <1>3
<1>. QED
  BY <1>0, <1>2, <1>3, <1>5, <1>7, <1>8, <1>9, AccountStep

LEMMA ProgramInit == Init => ProgramInv
BY DEF Init, ProgramInv, InBatch

LEMMA ProgramNext == IInv /\ ProgramInv /\ [Next]_vars => ProgramInv'
<1>. SUFFICES ASSUME IInv, ProgramInv, [Next]_vars PROVE ProgramInv'
  OBVIOUS
<1>1. CASE Finish
  <2>1. pc' \in {"begin", "halt", "panic"}
    BY <1>1 DEF Finish, Proceed
  <2>. QED
    BY <2>1 DEF ProgramInv, InBatch
<1>2. CASE Tick \/ UNCHANGED vars
  <2>1. UNCHANGED <<pc, frame, yields, syscalls, bidx, timerDone, state, current, regs,
                    scause, event>>
    BY <1>2 DEF Tick, vars
  <2>2. Tasks' = Tasks /\ \A i : SpecOf(i)' = SpecOf(i)
    BY <2>1, SameBatch DEF SpecOf
  <2>3. SpecOf(current)' = SpecOf(current) /\ InBatch' = InBatch
    BY <2>1 DEF SpecOf, InBatch
  <2>4. \A i \in Tasks : Saved(i)' = Saved(i) /\ TaskOnCourse(frame[i], i)' = TaskOnCourse(frame[i], i)
    BY <2>1, <2>2 DEF Saved, TaskOnCourse
  <2>5. TaskOnCourse(regs, current)' = TaskOnCourse(regs, current)
    BY <2>1, <2>3 DEF TaskOnCourse
  <2>. QED
    BY <2>1, <2>2, <2>3, <2>4, <2>5 DEF ProgramInv
<1>. QED
  BY <1>1, <1>2, BeginProgram, LoopProgram, EnterProgram, UserProgram, HandleProgram,
     RetireProgram, SettleProgram DEF Next, KernelStep, Stopped

(* The user programs of every plan, under every policy and however they    *)
(* are preempted, have at every instruction the counter, the checksum and  *)
(* the number of served calls that belong there: the frames the scheduler  *)
(* saves and restores (scheduler.rs:354, 376) never repeat, skip or mix     *)
(* up an instruction.                                                      *)
THEOREM ProgramsStayOnCourse == Spec => []ProgramInv
<1>. QED
  BY InitInv, NextInv, ProgramInit, ProgramNext, PTL DEF Spec

LEMMA AllDone ==
  ASSUME IInv, pc = "finish", NEW i \in Tasks
  PROVE  state[i] = "Done"
<1>1. i \in Ids /\ current = NoTask /\ ready.len = 0
  BY BatchFacts DEF IInv, TypeOK, Shape
<1>2. Members(ready) = {} /\ i # current
  BY <1>1, NAssumption DEF Members, Positions, NoTask, Ids
<1>. QED
  BY <1>1, <1>2 DEF IInv, TypeOK, QueueConsistent

(* A batch that ends has served every call of every program exactly once.  *)
THEOREM EveryCallIsServedOnce == Spec => []CallsServedOnce
<1>1. IInv /\ ProgramInv => CallsServedOnce
  <2>. SUFFICES ASSUME IInv, ProgramInv, pc = "finish", NEW i \in Tasks
                PROVE  Complete(SpecOf(i), timerDone, yields[i], syscalls[i])
    BY DEF CallsServedOnce, Complete, Once
  <2>. QED
    BY AllDone DEF ProgramInv, InBatch
<1>. QED
  BY <1>1, Invariance, ProgramsStayOnCourse, PTL
(***************************************************************************)
(* The assertions of the kernel.                                           *)
(***************************************************************************)
LEMMA TimerReported ==
  ASSUME IInv, pc = "trap", Outcome.reason = "Timer"
  PROVE  scause = "timer"
<1>1. scause \in {"ecall", "timer", "illegal"}
  BY DEF IInv, TypeOK, Shape
<1>2. CASE scause = "illegal"
  BY <1>2 DEF Outcome
<1>3. CASE scause = "ecall"
  <2>1. Outcome.reason \in {"Yield", "Exit", "Syscall"}
    BY <1>3 DEF Outcome
  <2>. QED
    BY <2>1
<1>. QED
  BY <1>1, <1>2, <1>3

LEMMA TimerUnchanged ==
  ASSUME TimerInv, UNCHANGED <<bidx, stie, timers, timerDone>>,
         pc' \in {"begin", "halt"} => pc \in {"begin", "halt"},
         InBatch' => InBatch,
         pc' = "trap" /\ scause' = "timer" =>
            (pc = "trap" /\ scause = "timer") \/ (Policy = "Timer" => ~timerDone),
         pc' = "account" /\ event'.reason = "Timer" =>
            (pc = "account" /\ event.reason = "Timer") \/ (Policy = "Timer" => ~timerDone)
  PROVE  TimerInv'
<1>1. Policy' = Policy /\ Timed' = Timed /\ Plan[bidx]' = Plan[bidx]
  BY DEF Policy, Timed
<1>2. (pc' \in {"begin", "halt"} => ~stie') /\ (InBatch' /\ ~Timed' => ~stie')
  BY <1>1 DEF TimerInv
<1>3. ASSUME InBatch', Policy' = "Timer"
      PROVE  /\ timers'[0] <= Plan[bidx'].limit
             /\ timerDone' <=> timers'[0] = Plan[bidx'].limit
             /\ timerDone' => ~stie'
             /\ pc' = "trap" /\ scause' = "timer" => ~timerDone'
             /\ pc' = "account" /\ event'.reason = "Timer" => ~timerDone'
  BY <1>1, <1>3 DEF TimerInv
<1>. QED
  BY <1>2, <1>3 DEF TimerInv

LEMMA TimerNext ==
  ASSUME WellPlanned, IInv, TimerInv, [Next]_vars
  PROVE  TimerInv'
<1>0. /\ bidx \in 1..Len(Plan) /\ Plan[bidx].limit \in Nat
      /\ timers \in [Ids -> Nat] /\ 0 \in Ids
      /\ Policy = "Timer" => Tasks = {0} /\ Plan[bidx].limit >= 1
  <2>1. bidx \in 1..Len(Plan) /\ timers \in [Ids -> Nat]
    BY DEF IInv, TypeOK
  <2>2. 0 \in Ids
    BY NAssumption DEF Ids
  <2>3. Plan[bidx].limit \in Nat
    BY <2>1, BatchFacts
  <2>. QED
    BY <2>1, <2>2, <2>3, PlanFacts
<1>1. CASE Begin
  <2>1. pc = "begin" /\ pc' = "loop"
    BY <1>1, BeginQueue DEF Begin
  <2>2. /\ timers' = [i \in Ids |-> 0] /\ timerDone' = FALSE /\ bidx' = bidx
        /\ IF Timed THEN stie' = FALSE /\ mtimecmp' = UMAX ELSE UNCHANGED timerVars
    BY <1>1, Zenon DEF Begin
  <2>3. stie' = FALSE
    BY <2>1, <2>2 DEF TimerInv
  <2>4. timers'[0] = 0
    BY <1>0, <2>2
  <2>. QED
    BY <1>0, <2>1, <2>2, <2>3, <2>4 DEF TimerInv, Policy, Timed
<1>2. CASE LoopTop
  <2>1. pc = "loop" /\ pc' \in {"boost", "select"}
    BY <1>2, LoopTopPasses DEF LoopTop, Proceed
  <2>2. UNCHANGED <<bidx, stie, timers, timerDone>>
    BY <1>2, Zenon DEF LoopTop
  <2>. QED
    BY <2>1, <2>2, TimerUnchanged DEF InBatch
<1>3. CASE NextBoost \/ Select \/ Launch \/ SetDeadline
  <2>1. /\ UNCHANGED <<bidx, stie, timers, timerDone>> /\ InBatch
        /\ pc' \in {"select", "launch", "finish", "deadline", "enter"}
    BY <1>3 DEF NextBoost, Select, Launch, SetDeadline, InBatch
  <2>. QED
    BY <2>1, TimerUnchanged
<1>4. CASE Enter
  <2>1. /\ pc = "enter" /\ pc' = "user" /\ UNCHANGED <<bidx, timers, timerDone>>
        /\ stie' = stie \/ (ArmsTimer /\ stie' = TRUE)
    BY <1>4 DEF Enter
  <2>2. current \in Tasks
    BY <2>1, CurrentFacts DEF TaskPCs
  <2>3. ArmsTimer => Timed /\ (Policy = "Timer" => ~timerDone)
    BY <1>0, <2>1, <2>2 DEF ArmsTimer, TimerInv, InBatch
  <2>. QED
    BY <2>1, <2>3 DEF TimerInv, InBatch, Policy, Timed
<1>5. CASE UserRun \/ TimerInterrupt
  <2>1. /\ pc = "user" /\ pc' \in {"user", "trap"}
        /\ UNCHANGED <<bidx, stie, timers, timerDone>>
        /\ pc' = "trap" /\ scause' = "timer" => stie
    BY <1>5 DEF UserRun, UserStep, UserEcall, UserIllegal, TimerInterrupt, InterruptDue
  <2>2. stie /\ Policy = "Timer" => ~timerDone
    BY <2>1 DEF TimerInv, InBatch
  <2>. QED
    BY <2>1, <2>2, TimerUnchanged DEF InBatch
<1>6. CASE Handle
  <2>1. /\ pc = "trap" /\ pc' \in {"account", "panic"} /\ event' = Outcome
        /\ UNCHANGED <<bidx, stie, timers, timerDone>>
    BY <1>6 DEF Handle, Proceed
  <2>2. event'.reason = "Timer" /\ Policy = "Timer" => ~timerDone
    BY <2>1, TimerReported DEF TimerInv, InBatch
  <2>. QED
    BY <2>1, <2>2, TimerUnchanged DEF InBatch
<1>7. CASE Retire \/ OnYield \/ OnSyscall
  <2>1. /\ pc = "account" /\ pc' \in {"loop", "panic"}
        /\ UNCHANGED <<bidx, stie, timers, timerDone>>
    BY <1>7 DEF Retire, OnYield, OnSyscall, Settle, EndOfPass, Proceed
  <2>. QED
    BY <2>1, TimerUnchanged DEF InBatch
<1>8. CASE OnTimer
  <2>1. /\ pc = "account" /\ event.reason = "Timer" /\ pc' \in {"loop", "panic"}
        /\ UNCHANGED bidx
    BY <1>8 DEF OnTimer, Settle, EndOfPass, Proceed
  <2>2. CASE Policy # "Timer"
    <3>1. UNCHANGED <<timers, stie, timerDone>>
      BY <1>8, <2>2 DEF OnTimer
    <3>. QED
      BY <2>1, <3>1, TimerUnchanged DEF InBatch
  <2>3. CASE Policy = "Timer"
    <3>1. current = 0
      BY <1>0, <2>1, <2>3, CurrentFacts DEF TaskPCs
    <3>2. ~timerDone /\ timers[0] <= Plan[bidx].limit /\ timers[0] # Plan[bidx].limit
      BY <2>1, <2>3 DEF TimerInv, InBatch
    <3>3. /\ timers' = [timers EXCEPT ![0] = @ + 1]
          /\ LastEvent => stie' = FALSE /\ timerDone' = TRUE
          /\ ~LastEvent => timerDone' = timerDone
      BY <1>8, <2>3, <3>1 DEF OnTimer
    <3>4. timers'[0] = timers[0] + 1 /\ timers[0] \in Nat
      BY <1>0, <3>3
    <3>5. LastEvent <=> timers[0] + 1 = Plan[bidx].limit
      BY <3>1 DEF LastEvent
    <3>. QED
      BY <1>0, <2>1, <2>3, <3>2, <3>3, <3>4, <3>5 DEF TimerInv, Policy, Timed, InBatch
  <2>. QED
    BY <2>2, <2>3
<1>9. CASE Finish
  <2>1. /\ pc = "finish" /\ pc' \in {"begin", "halt", "panic"}
        /\ IF Timed THEN stie' = FALSE /\ mtimecmp' = UMAX ELSE UNCHANGED timerVars
    BY <1>9, Zenon DEF Finish, Proceed
  <2>2. stie' = FALSE
    BY <2>1 DEF TimerInv, InBatch, IInv, TypeOK
  <2>. QED
    BY <2>1, <2>2 DEF TimerInv, InBatch
<1>10. CASE Tick \/ UNCHANGED vars
  <2>1. UNCHANGED <<pc, bidx, stie, timers, timerDone, scause, event>>
    BY <1>10 DEF Tick, vars
  <2>. QED
    BY <2>1, TimerUnchanged DEF InBatch
<1>. QED
  BY <1>1, <1>2, <1>3, <1>4, <1>5, <1>6, <1>7, <1>8, <1>9, <1>10
     DEF Next, KernelStep, Stopped
LEMMA TimerInit == Init => TimerInv
BY DEF Init, TimerInv, InBatch

(* Every assertion but those of an exit and of a finished batch has been   *)
(* shown to hold already.                                                  *)
LEMMA OthersPass ==
  ASSUME IInv, [Next]_vars
  PROVE  panicked' = panicked \/ Retire \/ Finish
<1>1. CASE Begin
  BY <1>1, BeginQueue DEF Begin, Proceed
<1>2. CASE LoopTop
  BY <1>2, LoopTopPasses DEF LoopTop, Proceed
<1>3. CASE Handle
  <2>1. regs.sepc \in CodeRange
    BY DEF IInv, TypeOK, Frames
  <2>. QED
    BY <1>3, <2>1 DEF Handle, Proceed
<1>4. CASE OnYield \/ OnSyscall \/ OnTimer
  <2>1. pc = "account" /\ \E asked \in BOOLEAN : Settle(asked)
    BY <1>4 DEF OnYield, OnSyscall, OnTimer
  <2>. QED
    BY <2>1, SettleTypes
<1>5. CASE NextBoost \/ Select \/ Launch \/ SetDeadline \/ Enter
  BY <1>5 DEF NextBoost, Select, Launch, SetDeadline, Enter
<1>6. CASE UserRun \/ TimerInterrupt \/ Tick \/ UNCHANGED vars
  BY <1>6 DEF UserRun, UserStep, UserEcall, UserIllegal, TimerInterrupt, Tick, vars
<1>. QED
  BY <1>1, <1>2, <1>3, <1>4, <1>5, <1>6 DEF Next, KernelStep, Stopped

LEMMA AssertionsNext ==
  ASSUME WellPlanned, IInv, ProgramInv, TimerInv, KernelAssertionsHold, [Next]_vars
  PROVE  KernelAssertionsHold'
<1>1. CASE panicked' = panicked
  BY <1>1 DEF KernelAssertionsHold
<1>2. CASE Retire
  <2>1. pc = "account" /\ event.reason \in {"Exit", "Fault"}
    BY <1>2 DEF Retire
  <2>2. EventOnCourse(SpecOf(current), timerDone, event, current, yields[current],
                      syscalls[current])
    BY <2>1 DEF ProgramInv
  <2>3. /\ event.reason = "Exit" => event.code = 0
        /\ event.reason = "Fault" => SpecOf(current).fault
    BY <2>2 DEF EventOnCourse
  <2>4. Delta >= 0
    BY <2>1 DEF Delta, IInv, TypeOK, Shape, Events
  <2>5. panicked' = panicked
    BY <1>2, <2>3, <2>4 DEF Retire, Proceed
  <2>. QED
    BY <1>1, <2>5
<1>3. CASE Finish
  <2>1. pc = "finish" /\ bidx \in 1..Len(Plan)
    BY <1>3 DEF Finish, IInv, TypeOK
  <2>2. ASSUME NEW i \in Tasks
        PROVE  /\ state[i] = "Done"
               /\ SpecOf(i).mode = 4 /\ Policy = "Timer" => timers[i] = Plan[bidx].limit
    <3>1. state[i] = "Done"
      BY <2>1, AllDone
    <3>2. Complete(SpecOf(i), timerDone, yields[i], syscalls[i])
      BY <2>1, <3>1 DEF ProgramInv, InBatch
    <3>3. ASSUME SpecOf(i).mode = 4, Policy = "Timer"
          PROVE  timers[i] = Plan[bidx].limit
      <4>1. i = 0 /\ ~SpecOf(i).fault
        BY <2>1, <3>3, PlanFacts
      <4>2. timerDone
        BY <3>2, <3>3, <4>1 DEF Complete
      <4>. QED
        BY <2>1, <3>3, <4>1, <4>2 DEF TimerInv, InBatch
    <3>. QED
      BY <3>1, <3>3
  <2>3. FinishedWell
    BY <2>2 DEF FinishedWell
  <2>4. IF Timed THEN stie' = FALSE /\ mtimecmp' = UMAX ELSE UNCHANGED timerVars
    BY <1>3, Zenon DEF Finish
  <2>5. stie' = FALSE
    BY <2>1, <2>4 DEF TimerInv, InBatch, IInv, TypeOK
  <2>6. panicked' \in {panicked, "escaped accounting"}
    BY <1>3, <2>3, <2>5 DEF Finish, Proceed
  <2>. QED
    BY <2>6 DEF KernelAssertionsHold
<1>. QED
  BY <1>1, <1>2, <1>3, OthersPass

(* For every plan like those of run() no assertion of the kernel ever      *)
(* fails: no program exits with another code than 0 or faults where it     *)
(* should not (scheduler.rs:390, 396), every batch ends with all its tasks *)
(* done, lesson 13 with exactly as many timer events as it asked for, and  *)
(* the timer stopped (scheduler.rs:466, 469, 492).                         *)
THEOREM AssertionsNeverFail == WellPlanned => (Spec => []KernelAssertionsHold)
<1>. SUFFICES ASSUME WellPlanned PROVE Spec => []KernelAssertionsHold
  OBVIOUS
<1>1. Init => KernelAssertionsHold
  BY DEF Init, KernelAssertionsHold
<1>2. IInv /\ TimerInv /\ [Next]_vars => TimerInv'
  BY TimerNext
<1>3. IInv /\ ProgramInv /\ TimerInv /\ KernelAssertionsHold /\ [Next]_vars
         => KernelAssertionsHold'
  BY AssertionsNext
<1>. QED
  BY <1>1, <1>2, <1>3, TimerInit, Invariance, ProgramsStayOnCourse, PTL DEF Spec

(***************************************************************************)
(* Turns.                                                                  *)
(***************************************************************************)
(* What a batch has to be for its tasks to take turns to the end, as the   *)
(* one that begins lesson 12: they have equally many iterations and none   *)
(* is the faulty one.  It is the first of its checkpoint, because until it *)
(* has begun the console still shows the batch before.                     *)
EvenTurns ==
    \A b \in 1..Len(Plan) :
        (/\ Plan[b].policy = "Yield"
         /\ \A i \in 0..(Plan[b].count - 1) : Plan[b].specs[i].mode = 0)
        => /\ b \in Checkpoints
           /\ \A i \in 0..(Plan[b].count - 1) :
                 /\ ~Plan[b].specs[i].fault
                 /\ Plan[b].specs[i].iterations = Plan[b].specs[0].iterations

Turning == Policy = "Yield" /\ \A i \in Tasks : SpecOf(i).mode = 0

Laps == SpecOf(0).iterations

(* The calls of putchar handled, of which the last may not be counted yet. *)
Printed(i) ==
    IF pc = "account" /\ event.reason = "Syscall" /\ i = current THEN syscalls[i] + 1
                                                                 ELSE syscalls[i]

(* It is t's turn: t runs, or is the first in line.                        *)
First(t) == IF current = NoTask THEN t ELSE t + 1

Around(x) == IF x < Count THEN x ELSE x - Count

Lined(lap, t) ==
    /\ ready.len = IF lap = Laps THEN Count - First(t)
                   ELSE IF current = NoTask THEN Count ELSE Count - 1
    /\ \A p \in Positions(ready) : ready.ids[p] = Around(First(t) + p)

(* In the last lap everybody only leaves.                                  *)
AtTurn(lap, t) ==
    /\ lap \in 0..Laps /\ t \in 0..Count /\ (lap < Laps => t < Count)
    /\ current # NoTask => current = t
    /\ \A i \in Tasks : yields[i] = IF lap < Laps /\ i < t THEN lap + 1 ELSE lap
    /\ \A i \in Tasks : i # current => syscalls[i] = yields[i]
    /\ Lined(lap, t)
    /\ Len(console) = IF lap = Laps THEN Laps * Count
                      ELSE IF current = NoTask THEN lap * Count + t
                      ELSE lap * Count + t + Printed(current) - yields[current]

(* No timer, no fault: a task gives up the processor itself.               *)
OwnTrap ==
    /\ pc = "trap" => scause = "ecall"
    /\ pc = "account" =>
          /\ event.reason \in {"Yield", "Syscall", "Exit"}
          /\ event.reason = "Yield" => event.frame.sepc = sched_yield + 1
          /\ event.reason = "Syscall" => event.frame.sepc = sched_putchar + 1

(* Whoever's turn it is, the queue, the calls of every task and the length *)
(* of the console agree on how far the batch is.                           *)
TurnInv ==
    Turning =>
       /\ pc = "begin" => console = <<>>
       /\ InBatch => OwnTrap /\ \E lap, t \in Nat : AtTurn(lap, t)
       /\ \A k \in 1..Len(console) : console[k] = Marker((k - 1) % Count)

LEMMA Remainder ==
  ASSUME NEW m \in Nat, NEW c \in Nat \ {0}, NEW t \in 0..(c - 1)
  PROVE  (m * c + t) % c = t
<1>. DEFINE a == m * c + t
            q == a \div c
            r == a % c
<1>1. a \in Int
  OBVIOUS
<1>2. r \in 0..(c - 1) /\ q \in Int /\ a = c * q + r
  BY <1>1
<1>. HIDE DEF q, r
<1>3. (m - q) * c = r - t
  BY <1>2
<1>4. m - q >= 1 => (m - q) * c >= c
  BY <1>2
<1>5. m - q <= -1 => (m - q) * c <= -c
  BY <1>2
<1>6. m = q
  BY <1>2, <1>3, <1>4, <1>5
<1>7. r = t
  BY <1>2, <1>3, <1>6
<1>. QED
  BY <1>7 DEF r

LEMMA TurnFacts ==
  ASSUME WellPlanned, EvenTurns, Turning, bidx \in 1..Len(Plan)
  PROVE  /\ Laps \in Nat /\ Laps >= 1 /\ Count \in 1..N /\ Count \in Nat
         /\ Tasks = 0..(Count - 1) /\ Tasks \subseteq Ids /\ 0 \in Tasks
         /\ \A i \in Tasks : /\ SpecOf(i).mode = 0 /\ SpecOf(i).iterations = Laps
                             /\ SpecOf(i).fault = FALSE
         /\ ~Mlfq /\ ~Timed /\ bidx \in Checkpoints
<1>1. /\ Count \in 1..N /\ Count \in Nat /\ Tasks = 0..(Count - 1) /\ Tasks \subseteq Ids
      /\ 0 \in Tasks
  BY BatchFacts, NAssumption DEF Tasks
<1>2. bidx \in Checkpoints /\ \A i \in Tasks : /\ ~SpecOf(i).fault
                                               /\ SpecOf(i).iterations = SpecOf(0).iterations
  BY DEF EvenTurns, Turning, Policy, Tasks, Count, SpecOf
<1>3. \A i \in Tasks : SpecOf(i).mode = 0
  BY DEF Turning
<1>4. Laps \in Nat /\ Laps >= 1
  BY <1>1, <1>2, <1>3, PlanFacts, BatchFacts DEF Laps
<1>5. ~Mlfq /\ ~Timed
  BY DEF Turning, Mlfq, Timed
<1>. QED
  BY <1>1, <1>2, <1>3, <1>4, <1>5 DEF Laps

LEMMA SameTurning ==
  ASSUME bidx' = bidx
  PROVE  /\ Turning' = Turning /\ Laps' = Laps /\ Count' = Count /\ Tasks' = Tasks
BY DEF Turning, Laps, Count, Tasks, Policy, SpecOf

(* A step that moves nobody and counts for the current task only.          *)
LEMMA TurnQuiet ==
  ASSUME NEW lap, NEW t, AtTurn(lap, t), UNCHANGED <<bidx, ready, current, yields>>,
         \A i \in Tasks : i # current => syscalls'[i] = syscalls[i],
         current # NoTask => Printed(current)' = Printed(current),
         console' = console
  PROVE  AtTurn(lap, t)'
<1>1. Laps' = Laps /\ Count' = Count /\ Tasks' = Tasks
  BY SameTurning
<1>2. Lined(lap, t)'
  BY <1>1 DEF AtTurn, Lined, First, Around
<1>. QED
  BY <1>1, <1>2 DEF AtTurn

LEMMA BeginTurns ==
  ASSUME WellPlanned, EvenTurns, Turning, IInv, Begin
  PROVE  AtTurn(0, 0)' /\ OwnTrap' /\ console' = <<>>
<1>0. bidx \in 1..Len(Plan) /\ Tasks \subseteq Ids
  BY BatchFacts DEF IInv, TypeOK
<1>1. /\ bidx' = bidx /\ console' = <<>> /\ current' = NoTask /\ ready' = Loaded(Count)
      /\ yields' = [i \in Ids |-> 0] /\ syscalls' = [i \in Ids |-> 0]
  BY Zenon DEF Begin
<1>2. pc' = "loop"
  BY BeginQueue
<1>3. Laps' = Laps /\ Count' = Count /\ Tasks' = Tasks
  BY <1>1, SameTurning
<1>4. Laps \in Nat /\ Laps >= 1 /\ Count \in 1..N /\ Count \in Nat
      /\ Tasks = 0..(Count - 1) /\ 0 * Count + 0 = 0
  BY <1>0, TurnFacts
<1>5. ready'.len = Count /\ \A p \in 0..(Count - 1) : ready'.ids[p] = p
  BY <1>1, <1>4, NAssumption DEF Loaded, Ids
<1>6. Lined(0, 0)'
  BY <1>1, <1>3, <1>4, <1>5 DEF Lined, First, Around, Positions
<1>7. \A i \in Tasks : yields'[i] = 0 /\ syscalls'[i] = 0
  BY <1>0, <1>1
<1>8. Len(console') = 0
  BY <1>1
<1>9. AtTurn(0, 0)'
  BY <1>1, <1>3, <1>4, <1>6, <1>7, <1>8 DEF AtTurn
<1>. QED
  BY <1>1, <1>2, <1>9 DEF OwnTrap

LEMMA SelectTurns ==
  ASSUME WellPlanned, EvenTurns, Turning, IInv, Select, NEW lap, NEW t, AtTurn(lap, t)
  PROVE  AtTurn(lap, t)' /\ OwnTrap'
<1>0. bidx \in 1..Len(Plan) /\ ready \in Queues /\ current \in Ids \cup {NoTask}
  BY DEF IInv, TypeOK
<1>1. /\ UNCHANGED <<bidx, yields, syscalls, console>> /\ pc = "select"
      /\ pc' \in {"launch", "finish"}
  <2>1. UNCHANGED <<bidx, yields, syscalls, console>> /\ pc = "select"
    BY Zenon DEF Select
  <2>. QED
    BY <2>1 DEF Select
<1>2. OwnTrap'
  BY <1>1 DEF OwnTrap
<1>3. CASE ready' = ready /\ current' = current
  <2>1. Printed(current)' = Printed(current)
    BY <1>1, <1>3 DEF Printed
  <2>. QED
    BY <1>1, <1>2, <1>3, <2>1, TurnQuiet
<1>4. CASE ~(ready' = ready /\ current' = current)
  <2>1. /\ Laps \in Nat /\ Count \in 1..N /\ Count \in Nat /\ Tasks = 0..(Count - 1) /\ ~Mlfq
    BY <1>0, TurnFacts
  <2>2. PICK p \in Positions(ready) :
           /\ current = NoTask /\ IsPopPosition(ready, level, Mlfq, p)
           /\ current' = ready.ids[p] /\ ready' = RemoveAt(ready, p)
    BY <1>4 DEF Select
  <2>3. p = 0
    BY <2>1, <2>2 DEF IsPopPosition
  <2>4. /\ lap \in 0..Laps /\ t \in 0..Count /\ (lap < Laps => t < Count)
        /\ Len(console) = IF lap = Laps THEN Laps * Count ELSE lap * Count + t
        /\ ready.len = IF lap = Laps THEN Count - t ELSE Count
        /\ \A o \in Positions(ready) : ready.ids[o] = Around(t + o)
        /\ \A i \in Tasks : yields[i] = IF lap < Laps /\ i < t THEN lap + 1 ELSE lap
        /\ \A i \in Tasks : syscalls[i] = yields[i]
    BY <2>1, <2>2, NAssumption DEF AtTurn, Lined, First, NoTask, Tasks, Ids
  <2>5. 0 \in Positions(ready) /\ ready.len \in 1..N /\ t < Count
    BY <1>0, <2>1, <2>2, <2>3, <2>4 DEF Positions, Queues
  <2>6. current' = t /\ t \in Tasks /\ t # NoTask
    BY <2>1, <2>2, <2>3, <2>4, <2>5 DEF Around, NoTask
  <2>7. /\ ready'.len = ready.len - 1
        /\ \A o \in Positions(ready') : ready'.ids[o] = ready.ids[o + 1]
    BY <1>0, <2>2, <2>3, <2>5, NAssumption DEF RemoveAt, Positions, Ids
  <2>8. Laps' = Laps /\ Count' = Count /\ Tasks' = Tasks
    BY <1>1, SameTurning
  <2>9. \A o \in Positions(ready') : ready'.ids[o] = Around(t + 1 + o)
    <3>. SUFFICES ASSUME NEW o \in Positions(ready') PROVE ready'.ids[o] = Around(t + 1 + o)
      OBVIOUS
    <3>1. o \in Nat /\ o + 1 \in Positions(ready)
      BY <2>5, <2>7 DEF Positions
    <3>2. t + (o + 1) = t + 1 + o
      BY <2>4, <3>1
    <3>. QED
      BY <2>4, <2>7, <3>1, <3>2
  <2>10. Lined(lap, t)'
    BY <2>1, <2>4, <2>6, <2>7, <2>8, <2>9 DEF Lined, First, Around
  <2>11. Printed(current)' = yields[t]
    BY <1>1, <2>4, <2>6 DEF Printed
  <2>12. Len(console') = IF lap = Laps THEN Laps * Count
                         ELSE lap * Count + t + Printed(current)' - yields'[current']
    <3>1. yields[t] \in Int
      BY <2>1, <2>4, <2>6
    <3>2. lap * Count + t \in Int
      BY <2>1, <2>4
    <3>. DEFINE b == lap * Count + t
    <3>. HIDE DEF b
    <3>3. b + yields[t] - yields[t] = b
      BY <3>1, <3>2 DEF b
    <3>. QED
      BY <1>1, <2>4, <2>6, <2>11, <3>3 DEF b
  <2>. QED
    BY <1>1, <1>2, <2>4, <2>6, <2>8, <2>10, <2>12 DEF AtTurn
<1>. QED
  BY <1>3, <1>4

LEMMA OutOf ==
  ASSUME NEW arg \in Int
  PROVE  /\ arg \in 0..127 => Dispatch(1, arg).out = <<arg>>
         /\ arg \in 0..255 => Dispatch(2, arg).out = <<>>
<1>1. /\ arg \in 0..127 => Dispatch(1, arg) = Return(0, <<arg>>)
      /\ arg \in 0..255 => Dispatch(2, arg) = Exit(arg)
  BY DEF Dispatch, PUTCHAR, EXIT
<1>2. Return(0, <<arg>>).out = <<arg>> /\ Exit(arg).out = <<>>
  BY DEF Return, Exit
<1>. QED
  BY <1>1, <1>2

(* The traps of a program that prints and yields.                          *)
LEMMA TurnTrap ==
  ASSUME WellPlanned, EvenTurns, Turning, IInv, ProgramInv, OwnTrap, pc = "trap"
  PROVE  LET call == Dispatch(regs.a7, regs.a0)
         IN \/ /\ regs.a7 = 1 /\ call.out = <<Marker(current)>>
               /\ Outcome.reason = "Syscall" /\ Outcome.frame.sepc = sched_putchar + 1
               /\ yields[current] = syscalls[current] /\ yields[current] < Laps
            \/ /\ regs.a7 = 3
               /\ Outcome.reason = "Yield" /\ Outcome.frame.sepc = sched_yield + 1
            \/ regs.a7 = 2 /\ call.out = <<>> /\ Outcome.reason = "Exit"
<1>. DEFINE i == current
            call == Dispatch(regs.a7, regs.a0)
<1>1. /\ i \in Ids /\ i \in Tasks /\ regs \in Frames /\ scause = "ecall"
      /\ bidx \in 1..Len(Plan)
  BY CurrentFacts DEF TaskPCs, IInv, TypeOK, OwnTrap
<1>2. OnCourse(SpecOf(i), timerDone, regs, i, yields[i], syscalls[i])
  BY DEF ProgramInv, TaskOnCourse
<1>3. /\ SpecOf(i).mode = 0 /\ SpecOf(i).iterations = Laps /\ SpecOf(i).fault = FALSE
      /\ Laps \in Nat /\ Laps >= 1
  BY <1>1, TurnFacts
<1>4. /\ regs.sepc \in {2, 4, 6, 9, 12, 13} /\ regs.s0 = i
      /\ regs.a0 = ArgumentOf(regs) /\ regs.a7 = NumberOf(regs)
  BY <1>1, <1>2, AtEcallFields, Addresses DEF ProgramInv, IInv, Shape, OnCourse
<1>5. regs.sepc \in {2, 4, 9}
  BY <1>2, <1>3, <1>4, Addresses DEF OnCourse, OnPath, NoFailure
<1>6. \A v : Served(regs, v).sepc = regs.sepc + 1
  BY <1>1 DEF Served, Frames
<1>7. /\ regs.a7 = 3 => Outcome.reason = "Yield" /\ Outcome.frame = Served(regs, 0)
      /\ regs.a7 # 3 /\ call.kind = "Exit" => Outcome.reason = "Exit"
      /\ regs.a7 # 3 /\ call.kind = "Return" =>
            Outcome.reason = "Syscall" /\ Outcome.frame = Served(regs, call.value)
  <2>. HIDE DEF call
  <2>1. regs.a7 = 3 => Outcome.reason = "Yield" /\ Outcome.frame = Served(regs, 0)
    BY <1>1 DEF Outcome
  <2>2. CASE regs.a7 # 3 /\ call.kind = "Exit"
    <3>1. Outcome = [frame |-> regs, reason |-> "Exit", code |-> call.value, time |-> clock]
      BY <1>1, <2>2 DEF Outcome, call
    <3>. QED
      BY <2>2, <3>1
  <2>3. CASE regs.a7 # 3 /\ call.kind = "Return"
    <3>1. Outcome = [frame |-> Served(regs, call.value), reason |-> "Syscall", code |-> 0,
                     time |-> clock]
      BY <1>1, <2>3 DEF Outcome, call
    <3>. QED
      BY <2>3, <3>1
  <2>. QED
    BY <2>1, <2>2, <2>3
<1>8. regs.a0 \in Int
  BY <1>1 DEF Frames
<1>9. CASE regs.sepc = 2
  <2>1. regs.a7 = 1 /\ regs.a0 = Marker(i)
    BY <1>4, <1>9, Addresses DEF ArgumentOf, NumberOf, PUTCHAR
  <2>2. Marker(i) \in 0..127
    BY <1>1, MarkerPrints
  <2>3. call.kind = "Return" /\ call.out = <<Marker(i)>>
    <3>1. Dispatch(1, regs.a0).kind = "Return" /\ Dispatch(1, regs.a0).out = <<regs.a0>>
      <4>1. regs.a0 \in 0..127
        BY <2>1, <2>2
      <4>2. Dispatch(1, regs.a0).kind = "Return"
        BY <1>8, DispatchGives
      <4>3. Dispatch(1, regs.a0).out = <<regs.a0>>
        BY <1>8, <4>1, OutOf, Zenon
      <4>. QED
        BY <4>2, <4>3
    <3>. QED
      BY <2>1, <3>1
  <2>4. /\ yields[i] = regs.s2 - 1 /\ syscalls[i] = regs.s2 - 1
        /\ regs.s2 >= 1 /\ (regs.s2 = 1 \/ regs.s2 <= Laps)
    BY <1>2, <1>3, <1>9, Addresses DEF OnCourse, Rounds, YieldsMade, SyscallsMade
  <2>5. yields[i] = syscalls[i] /\ yields[i] < Laps
    BY <1>1, <1>3, <2>4 DEF Frames
  <2>. HIDE DEF i, call
  <2>6. Outcome.reason = "Syscall" /\ Outcome.frame.sepc = sched_putchar + 1
    BY <1>6, <1>7, <1>9, <2>1, <2>3, Addresses
  <2>. QED
    BY <2>1, <2>3, <2>5, <2>6 DEF i, call
<1>10. CASE regs.sepc = 4
  <2>1. regs.a7 = 3
    BY <1>4, <1>10, Addresses DEF NumberOf
  <2>. HIDE DEF i, call
  <2>2. Outcome.reason = "Yield" /\ Outcome.frame.sepc = sched_yield + 1
    BY <1>6, <1>7, <1>10, <2>1, Addresses
  <2>. QED
    BY <2>1, <2>2
<1>11. CASE regs.sepc = 9
  <2>1. regs.a7 = 2 /\ regs.a0 = 0
    BY <1>4, <1>11, Addresses DEF ArgumentOf, NumberOf, EXIT
  <2>2. call.kind = "Exit" /\ call.out = <<>>
    BY <1>8, <2>1, DispatchGives, OutOf
  <2>. HIDE DEF i, call
  <2>3. Outcome.reason = "Exit"
    BY <1>7, <2>1, <2>2
  <2>. QED
    BY <2>1, <2>2, <2>3 DEF call
<1>. QED
  BY <1>5, <1>9, <1>10, <1>11

LEMMA HandleTurns ==
  ASSUME WellPlanned, EvenTurns, Turning, IInv, ProgramInv, OwnTrap, Handle,
         NEW lap, NEW t, AtTurn(lap, t),
         \A k \in 1..Len(console) : console[k] = Marker((k - 1) % Count)
  PROVE  /\ AtTurn(lap, t)' /\ OwnTrap'
         /\ \A k \in 1..Len(console') : console'[k] = Marker((k - 1) % Count)
<1>0. /\ bidx \in 1..Len(Plan) /\ regs \in Frames /\ console \in Seq(Int) /\ pc = "trap"
      /\ current \in Tasks /\ yields \in [Ids -> Nat] /\ syscalls \in [Ids -> Nat]
  BY CurrentFacts DEF Handle, IInv, TypeOK, TaskPCs
<1>1. /\ pc' = "account" /\ event' = Outcome
      /\ UNCHANGED <<bidx, ready, current, yields, syscalls>>
  <2>1. regs.sepc \in CodeRange
    BY <1>0 DEF Frames
  <2>. QED
    BY <2>1, Zenon DEF Handle, Proceed
<1>2. console' = IF regs.a7 # 3 THEN console \o Dispatch(regs.a7, regs.a0).out ELSE console
  <2>1. scause = "ecall"
    BY <1>0 DEF OwnTrap
  <2>. QED
    BY <2>1 DEF Handle
<1>3. /\ Laps \in Nat /\ Count \in 1..N /\ Count \in Nat /\ Tasks = 0..(Count - 1)
      /\ Tasks \subseteq Ids
  BY <1>0, TurnFacts
<1>4. OwnTrap'
  BY <1>0, <1>1, TurnTrap DEF OwnTrap
<1>5. CASE Outcome.reason = "Syscall"
  <2>1. /\ console' = Append(console, Marker(current))
        /\ yields[current] = syscalls[current] /\ yields[current] < Laps
    <3>1. /\ regs.a7 = 1 /\ Dispatch(regs.a7, regs.a0).out = <<Marker(current)>>
          /\ yields[current] = syscalls[current] /\ yields[current] < Laps
      BY <1>0, <1>5, TurnTrap
    <3>2. console' = console \o <<Marker(current)>>
      <4>1. regs.a7 # 3
        BY <3>1
      <4>. QED
        BY <1>2, <3>1, <4>1, Zenon
    <3>3. Marker(current) \in Int
      BY <1>0, <1>3 DEF Marker
    <3>. QED
      BY <1>0, <3>1, <3>2, <3>3
  <2>2. /\ current = t /\ t \in 0..(Count - 1) /\ current # NoTask /\ current \in Ids
    BY <1>0, <1>3 DEF AtTurn, NoTask
  <2>3. lap = yields[current] /\ lap \in Nat /\ lap # Laps
    BY <1>0, <1>3, <2>1, <2>2 DEF AtTurn
  <2>4. Printed(current) = yields[current] /\ Printed(current)' = yields[current] + 1
    BY <1>0, <1>1, <1>5, <2>1 DEF Printed
  <2>. DEFINE b == lap * Count + t
  <2>5. b \in Nat /\ b % Count = t
    <3>1. Count \in Nat \ {0} /\ lap * Count \in Nat
      BY <1>3, <2>3
    <3>2. (lap * Count + t) % Count = t
      BY <2>2, <2>3, <3>1, Remainder, Zenon
    <3>. QED
      BY <2>2, <3>1, <3>2
  <2>6. Len(console) = b
    <3>1. Len(console) = b + yields[current] - yields[current]
      BY <2>2, <2>3, <2>4 DEF AtTurn
    <3>. HIDE DEF b
    <3>. QED
      BY <2>3, <2>5, <3>1
  <2>7. Len(console') = b + Printed(current)' - yields[current]
    <3>1. Len(console') = Len(console) + 1
      BY <1>0, <2>1
    <3>. HIDE DEF b
    <3>. QED
      BY <2>3, <2>4, <2>5, <2>6, <3>1
  <2>8. Laps' = Laps /\ Count' = Count /\ Tasks' = Tasks
    BY <1>1, SameTurning
  <2>9. Lined(lap, t)'
    BY <1>1, <2>8 DEF AtTurn, Lined, First, Around
  <2>10. AtTurn(lap, t)'
    BY <1>1, <2>2, <2>3, <2>7, <2>8, <2>9 DEF AtTurn
  <2>11. ASSUME NEW k \in 1..Len(console')
         PROVE  console'[k] = Marker((k - 1) % Count)
    <3>. HIDE DEF b
    <3>1. Len(console') = b + 1
      BY <1>0, <2>1, <2>6
    <3>2. CASE k = b + 1
      <4>1. k - 1 = b
        BY <2>5, <3>2
      <4>2. console'[k] = Marker(t)
        BY <1>0, <2>1, <2>2, <2>6, <3>2
      <4>. QED
        BY <2>5, <4>1, <4>2
    <3>3. CASE k # b + 1
      <4>1. k \in 1..Len(console)
        BY <2>5, <2>6, <3>1, <3>3
      <4>2. console'[k] = console[k]
        BY <1>0, <2>1, <4>1
      <4>. QED
        BY <4>1, <4>2
    <3>. QED
      BY <3>2, <3>3
  <2>. QED
    BY <1>4, <2>10, <2>11
<1>6. CASE Outcome.reason # "Syscall"
  <2>1. console' = console
    <3>1. regs.a7 = 3 \/ Dispatch(regs.a7, regs.a0).out = <<>>
      BY <1>0, <1>6, TurnTrap
    <3>. QED
      BY <1>0, <1>2, <3>1
  <2>2. Printed(current)' = Printed(current)
    BY <1>0, <1>1, <1>6 DEF Printed
  <2>3. AtTurn(lap, t)'
    BY <1>1, <2>1, <2>2, TurnQuiet
  <2>. QED
    BY <1>4, <2>1, <2>3
<1>. QED
  BY <1>5, <1>6

LEMMA RetireTurns ==
  ASSUME WellPlanned, EvenTurns, Turning, IInv, ProgramInv, OwnTrap, Retire,
         NEW lap, NEW t, AtTurn(lap, t)
  PROVE  AtTurn(lap, t + 1)' /\ OwnTrap'
<1>0. /\ bidx \in 1..Len(Plan) /\ pc = "account" /\ current \in Tasks
      /\ yields \in [Ids -> Nat] /\ syscalls \in [Ids -> Nat]
  BY CurrentFacts DEF Retire, IInv, TypeOK, TaskPCs
<1>1. /\ UNCHANGED <<bidx, ready, yields, syscalls, console>> /\ current' = NoTask
      /\ pc' \in {"loop", "panic"} /\ event.reason \in {"Exit", "Fault"}
  BY DEF Retire, EndOfPass, Proceed
<1>2. /\ Laps \in Nat /\ Count \in 1..N /\ Count \in Nat /\ Tasks = 0..(Count - 1)
      /\ SpecOf(current).mode = 0 /\ SpecOf(current).iterations = Laps
      /\ SpecOf(current).fault = FALSE
  BY <1>0, TurnFacts
<1>3. yields[current] = Laps /\ syscalls[current] = Laps
  <2>1. event.reason = "Exit" /\ event.code = 0
    BY <1>0, <1>1 DEF OwnTrap, ProgramInv, EventOnCourse
  <2>2. Complete(SpecOf(current), timerDone, yields[current], syscalls[current])
    BY <1>0, <2>1 DEF ProgramInv, EventOnCourse
  <2>. QED
    BY <1>2, <2>2 DEF Complete, Once
<1>4. current = t /\ t \in 0..(Count - 1) /\ current # NoTask
  BY <1>0, <1>2 DEF AtTurn, NoTask
<1>5. lap = Laps
  BY <1>0, <1>2, <1>3, <1>4 DEF AtTurn
<1>6. Laps' = Laps /\ Count' = Count /\ Tasks' = Tasks
  BY <1>1, SameTurning
<1>7. Lined(lap, t + 1)'
  BY <1>1, <1>4, <1>5, <1>6 DEF AtTurn, Lined, First, Around
<1>8. AtTurn(lap, t + 1)'
  BY <1>1, <1>2, <1>3, <1>4, <1>5, <1>6, <1>7 DEF AtTurn
<1>. QED
  BY <1>1, <1>8 DEF OwnTrap

LEMMA YieldTurns ==
  ASSUME WellPlanned, EvenTurns, Turning, IInv, ProgramInv, OwnTrap, OnYield,
         NEW lap, NEW t, AtTurn(lap, t)
  PROVE  (AtTurn(lap, t + 1)' \/ AtTurn(lap + 1, 0)') /\ OwnTrap'
<1>0. /\ bidx \in 1..Len(Plan) /\ pc = "account" /\ current \in Tasks /\ ready \in Queues
      /\ yields \in [Ids -> Nat] /\ syscalls \in [Ids -> Nat] /\ event.reason = "Yield"
      /\ event.frame \in Frames
  BY CurrentFacts DEF OnYield, IInv, TypeOK, TaskPCs, Events
<1>1. /\ UNCHANGED <<bidx, syscalls, console>> /\ current' = NoTask /\ pc' = "loop"
      /\ yields' = [yields EXCEPT ![current] = @ + 1]
      /\ ready' = Push(ready, current) /\ PushResult(ready, current) = "ok"
  <2>1. Settle(TRUE) /\ syscalls' = syscalls /\ yields' = [yields EXCEPT ![current] = @ + 1]
    BY DEF OnYield
  <2>2. pc' = "loop"
    BY <1>0, <2>1, SettleTypes
  <2>3. bidx' = bidx /\ console' = console /\ current' = NoTask /\ ready' = Push(ready, current)
    BY <2>1 DEF Settle, EndOfPass
  <2>4. PushResult(ready, current) = "ok"
    BY <2>1, <2>2 DEF Settle, Proceed
  <2>. QED
    BY <2>1, <2>2, <2>3, <2>4
<1>2. /\ Laps \in Nat /\ Count \in 1..N /\ Count \in Nat /\ Tasks = 0..(Count - 1)
      /\ Tasks \subseteq Ids
      /\ SpecOf(current).mode = 0 /\ SpecOf(current).iterations = Laps /\ Laps >= 1
  BY <1>0, TurnFacts
<1>3. yields[current] < Laps /\ syscalls[current] = yields[current] + 1
  <2>1. OnCourse(SpecOf(current), timerDone, event.frame, current, yields[current] + 1,
                 syscalls[current])
    BY <1>0 DEF ProgramInv, EventOnCourse
  <2>2. event.frame.sepc = 5
    BY <1>0, Addresses DEF OwnTrap
  <2>3. /\ yields[current] + 1 = event.frame.s2 /\ syscalls[current] = event.frame.s2
        /\ event.frame.s2 >= 1 /\ (event.frame.s2 = 1 \/ event.frame.s2 <= Laps)
    <3>1. event.frame.sepc \in Body \cup {sched_loop} /\ event.frame.sepc \in Body
      BY <2>2, Addresses
    <3>2. /\ event.frame.sepc # sched_fail
          /\ event.frame.sepc \notin {sched_entry, sched_fault, sched_putchar,
                                     sched_putchar + 1, sched_yield, sched_syscall}
      BY <2>2, Addresses
    <3>3. /\ yields[current] + 1 = YieldsMade(SpecOf(current), event.frame)
          /\ syscalls[current] = SyscallsMade(SpecOf(current), event.frame)
          /\ Rounds(SpecOf(current), event.frame)
      BY <2>1, <3>2 DEF OnCourse
    <3>4. /\ YieldsMade(SpecOf(current), event.frame) = event.frame.s2
          /\ SyscallsMade(SpecOf(current), event.frame) = event.frame.s2
      BY <1>2, <3>2 DEF YieldsMade, SyscallsMade
    <3>5. event.frame.s2 >= 1 /\ (event.frame.s2 = 1 \/ event.frame.s2 <= Laps)
      BY <1>2, <3>1, <3>3, Zenon DEF Rounds
    <3>. QED
      BY <3>3, <3>4, <3>5
  <2>4. yields[current] \in Nat /\ event.frame.s2 \in Nat
    BY <1>0, <1>2 DEF Frames
  <2>. QED
    BY <1>2, <2>3, <2>4
<1>4. current = t /\ t \in 0..(Count - 1) /\ current # NoTask
  BY <1>0, <1>2 DEF AtTurn, NoTask
<1>5. lap = yields[current] /\ lap \in Nat /\ lap < Laps /\ lap # Laps
  BY <1>0, <1>2, <1>3, <1>4 DEF AtTurn
<1>6. Laps' = Laps /\ Count' = Count /\ Tasks' = Tasks
  BY <1>1, SameTurning
<1>7. ready.len = Count - 1 /\ \A p \in Positions(ready) : ready.ids[p] = Around(t + 1 + p)
  BY <1>4, <1>5 DEF AtTurn, Lined, First
<1>8. /\ ready'.len = Count /\ ready'.ids[Count - 1] = t
      /\ \A p \in 0..(Count - 2) : ready'.ids[p] = Around(t + 1 + p)
  <2>1. ready' = [ids |-> [ready.ids EXCEPT ![ready.len] = current], len |-> ready.len + 1]
    BY <1>1 DEF Push
  <2>2. ready.ids \in [Ids -> Ids] /\ Count - 1 \in Ids /\ 0..(Count - 2) \subseteq Ids
    <3>1. ready.ids \in [Ids -> Ids]
      BY <1>0 DEF Queues
    <3>2. Count - 1 \in Ids
      BY <1>2, NAssumption DEF Ids
    <3>3. \A p \in 0..(Count - 2) : p \in Ids
      BY <1>2, NAssumption DEF Ids
    <3>. QED
      BY <3>1, <3>2, <3>3
  <2>3. Positions(ready) = 0..(Count - 2)
    BY <1>2, <1>7 DEF Positions
  <2>4. /\ ready'.len = Count
        /\ ready'.ids = [ready.ids EXCEPT ![Count - 1] = t]
    BY <1>2, <1>4, <1>7, <2>1
  <2>. QED
    BY <1>2, <1>7, <2>2, <2>3, <2>4
<1>9. Positions(ready') = 0..(Count - 1)
  BY <1>8 DEF Positions
<1>10. \A i \in Tasks : yields'[i] = IF i <= t THEN lap + 1 ELSE lap
  <2>. SUFFICES ASSUME NEW i \in Tasks
                PROVE  yields'[i] = IF i <= t THEN lap + 1 ELSE lap
    OBVIOUS
  <2>1. i \in Ids /\ i \in Nat /\ t \in Nat
    BY <1>2, <1>4
  <2>2. yields[i] = IF i < t THEN lap + 1 ELSE lap
    BY <1>5 DEF AtTurn
  <2>3. yields'[i] = IF i = t THEN yields[i] + 1 ELSE yields[i]
    BY <1>0, <1>1, <1>4, <2>1
  <2>. QED
    BY <1>5, <2>1, <2>2, <2>3
<1>11. \A i \in Tasks : syscalls'[i] = yields'[i]
  BY <1>0, <1>1, <1>2, <1>3, <1>4 DEF AtTurn
<1>. DEFINE b == lap * Count
<1>12. b \in Nat /\ (lap + 1) * Count = b + Count
  BY <1>2, <1>5
<1>13. Len(console') = b + t + 1
  <2>1. Printed(current) = yields[current] + 1
    BY <1>0, <1>3 DEF Printed
  <2>2. Len(console) = b + t + Printed(current) - yields[current]
    BY <1>4, <1>5 DEF AtTurn
  <2>. HIDE DEF b
  <2>. QED
    BY <1>0, <1>1, <1>4, <1>5, <1>12, <2>1, <2>2
<1>14. CASE t + 1 < Count
  <2>1. \A p \in Positions(ready') : ready'.ids[p] = Around(t + 1 + p)
    <3>. SUFFICES ASSUME NEW p \in 0..(Count - 1)
                  PROVE  ready'.ids[p] = Around(t + 1 + p)
      BY <1>9
    <3>1. CASE p = Count - 1
      <4>1. Around(t + 1 + p) = t
        BY <1>2, <1>4, <3>1 DEF Around
      <4>2. ready'.ids[p] = t
        BY <1>8, <3>1
      <4>. QED
        BY <4>1, <4>2
    <3>2. CASE p # Count - 1
      <4>1. p \in 0..(Count - 2)
        BY <1>2, <3>2
      <4>. QED
        BY <1>8, <4>1
    <3>. QED
      BY <3>1, <3>2
  <2>2. Lined(lap, t + 1)'
    BY <1>1, <1>5, <1>6, <1>8, <2>1 DEF Lined, First, Around
  <2>3. \A i \in Tasks : yields'[i] = IF i < t + 1 THEN lap + 1 ELSE lap
    BY <1>2, <1>4, <1>10
  <2>4. Len(console') = lap * Count + (t + 1)
    <3>. HIDE DEF b
    <3>1. Len(console') = b + (t + 1)
      BY <1>4, <1>12, <1>13
    <3>. QED
      BY <3>1 DEF b
  <2>5. AtTurn(lap, t + 1)'
    BY <1>1, <1>2, <1>4, <1>5, <1>6, <1>11, <1>14, <2>2, <2>3, <2>4 DEF AtTurn
  <2>. QED
    BY <1>1, <2>5 DEF OwnTrap
<1>15. CASE t + 1 = Count
  <2>1. \A p \in Positions(ready') : ready'.ids[p] = p
    BY <1>2, <1>4, <1>8, <1>9, <1>15 DEF Around
  <2>2. Lined(lap + 1, 0)'
    BY <1>1, <1>2, <1>6, <1>8, <1>9, <2>1 DEF Lined, First, Around
  <2>3. \A i \in Tasks : yields'[i] = lap + 1 /\ ~(i < 0)
    BY <1>2, <1>4, <1>10, <1>15
  <2>4. Len(console') = (lap + 1) * Count
    <3>. HIDE DEF b
    <3>. QED
      BY <1>2, <1>4, <1>12, <1>13, <1>15
  <2>5. Len(console') = IF lap + 1 = Laps THEN Laps * Count ELSE (lap + 1) * Count + 0
    <3>1. \A n \in Nat : n + 0 = n
      OBVIOUS
    <3>2. (lap + 1) * Count \in Nat
      BY <1>2, <1>5
    <3>3. (lap + 1) * Count + 0 = (lap + 1) * Count
      BY <3>1, <3>2, Zenon
    <3>. QED
      BY <2>4, <3>3, Zenon
  <2>6. AtTurn(lap + 1, 0)'
    <3>1. lap + 1 \in 0..Laps /\ 0 \in 0..Count /\ 0 < Count
      BY <1>2, <1>5
    <3>2. \A i \in Tasks : yields'[i] = IF lap + 1 < Laps /\ i < 0 THEN lap + 1 + 1 ELSE lap + 1
      BY <2>3
    <3>. QED
      BY <1>1, <1>6, <1>11, <2>2, <2>5, <3>1, <3>2, Zenon DEF AtTurn
  <2>. QED
    BY <1>1, <2>6 DEF OwnTrap
<1>. QED
  BY <1>2, <1>4, <1>14, <1>15

LEMMA SyscallTurns ==
  ASSUME WellPlanned, EvenTurns, Turning, IInv, OwnTrap, OnSyscall,
         NEW lap, NEW t, AtTurn(lap, t)
  PROVE  AtTurn(lap, t)' /\ OwnTrap'
<1>0. /\ bidx \in 1..Len(Plan) /\ pc = "account" /\ current \in Tasks /\ Tasks \subseteq Ids
      /\ syscalls \in [Ids -> Nat] /\ event.reason = "Syscall" /\ Settle(FALSE)
      /\ syscalls' = [syscalls EXCEPT ![current] = @ + 1] /\ yields' = yields
  BY CurrentFacts, BatchFacts DEF OnSyscall, IInv, TypeOK, TaskPCs
<1>1. ~Mlfq /\ Policy # "Rr"
  BY <1>0, TurnFacts DEF Turning
<1>2. ~(FALSE \/ Demotes \/ Refills \/ Expires)
  BY <1>1 DEF Demotes, Refills, Expires
<1>3. UNCHANGED <<bidx, ready, current, console>>
  BY <1>0, <1>2 DEF Settle, EndOfPass
<1>4. pc' = "loop"
  BY <1>0, SettleTypes
<1>5. \A i \in Tasks : i # current => syscalls'[i] = syscalls[i]
  BY <1>0
<1>6. Printed(current)' = Printed(current)
  BY <1>0, <1>3, <1>4 DEF Printed
<1>7. AtTurn(lap, t)'
  BY <1>0, <1>3, <1>5, <1>6, TurnQuiet
<1>. QED
  BY <1>4, <1>7 DEF OwnTrap

(* The rest of a pass and the program's own instructions move nobody.      *)
LEMMA HartTurns ==
  ASSUME WellPlanned, EvenTurns, Turning, IInv, ProgramInv, TimerInv, OwnTrap,
         LoopTop \/ NextBoost \/ Launch \/ SetDeadline \/ Enter \/ UserRun
            \/ TimerInterrupt \/ Tick \/ UNCHANGED vars,
         InBatch, NEW lap, NEW t, AtTurn(lap, t)
  PROVE  AtTurn(lap, t)' /\ OwnTrap' /\ UNCHANGED <<bidx, console>>
<1>0. bidx \in 1..Len(Plan) /\ ~Timed
  BY TurnFacts DEF IInv, TypeOK
<1>1. UNCHANGED <<bidx, console, ready, current, yields, syscalls>>
  <2>1. CASE LoopTop
    BY <2>1, Zenon DEF LoopTop
  <2>2. CASE ~LoopTop
    BY <2>2 DEF NextBoost, Launch, SetDeadline, Enter, UserRun, UserStep, UserEcall,
                UserIllegal, TimerInterrupt, Tick, vars
  <2>. QED
    BY <2>1, <2>2
<1>2. \/ pc \notin {"trap", "account"} /\ pc' \notin {"trap", "account"}
      \/ pc = "user" /\ pc' = "trap" /\ scause' = "ecall"
      \/ UNCHANGED <<pc, scause, event>>
  <2>1. CASE LoopTop
    BY <2>1 DEF LoopTop, Proceed
  <2>2. CASE NextBoost \/ Launch \/ SetDeadline \/ Enter \/ UserStep
    BY <2>2 DEF NextBoost, Launch, SetDeadline, Enter, UserStep
  <2>3. CASE UserEcall
    BY <2>3 DEF UserEcall
  <2>4. CASE UserIllegal
    <3>1. current \in Tasks /\ pc = "user" /\ regs.sepc = sched_fault
      BY <2>4, CurrentFacts DEF UserIllegal, TaskPCs
    <3>2. SpecOf(current).fault
      BY <3>1 DEF ProgramInv, TaskOnCourse, OnCourse, OnPath
    <3>3. SpecOf(current).fault = FALSE
      BY <1>0, <3>1, TurnFacts
    <3>. QED
      BY <3>2, <3>3
  <2>5. CASE TimerInterrupt
    BY <1>0, <2>5 DEF TimerInterrupt, InterruptDue, TimerInv
  <2>6. CASE Tick \/ UNCHANGED vars
    BY <2>6 DEF Tick, vars
  <2>. QED
    BY <2>1, <2>2, <2>3, <2>4, <2>5, <2>6 DEF UserRun
<1>3. Printed(current)' = Printed(current)
  BY <1>1, <1>2 DEF Printed
<1>4. AtTurn(lap, t)'
  BY <1>1, <1>3, TurnQuiet
<1>5. OwnTrap'
  BY <1>2 DEF OwnTrap
<1>. QED
  BY <1>1, <1>4, <1>5

LEMMA TurnInit == Init => TurnInv
BY DEF Init, TurnInv, InBatch

(* The numbers of a turn are numbers.                                      *)
LEMMA TurnNumbers ==
  ASSUME WellPlanned, EvenTurns, Turning, IInv, bidx' = bidx, NEW lap, NEW t, AtTurn(lap, t)'
  PROVE  lap \in Nat /\ t \in Nat
<1>1. Laps \in Nat /\ Count \in Nat
  BY TurnFacts DEF IInv, TypeOK
<1>2. Laps' = Laps /\ Count' = Count
  BY SameTurning
<1>. QED
  BY <1>1, <1>2 DEF AtTurn

LEMMA TurnNext ==
  ASSUME WellPlanned, EvenTurns, IInv, ProgramInv, TimerInv, TurnInv, [Next]_vars
  PROVE  TurnInv'
<1>. SUFFICES ASSUME Turning' PROVE TurnInv'
  BY DEF TurnInv
<1>0. IInv'
  BY NextInv
<1>1. CASE Finish
  <2>1. /\ pc = "finish" /\ pc' \in {"begin", "halt", "panic"} /\ console' = console
        /\ pc' = "begin" => ~LastBatch
        /\ bidx' = IF LastBatch THEN bidx ELSE bidx + 1
    BY <1>1 DEF Finish, Proceed
  <2>2. bidx' \in 1..Len(Plan) /\ bidx' \in Checkpoints
    <3>1. bidx' \in 1..Len(Plan)
      BY <1>0 DEF IInv, TypeOK
    <3>. QED
      BY <3>1 DEF EvenTurns, Turning, Policy, Tasks, Count, SpecOf
  <2>3. bidx' = bidx /\ pc' # "begin"
    BY <2>1, <2>2 DEF LastBatch
  <2>4. Turning /\ Count' = Count
    BY <2>3, SameTurning
  <2>. QED
    BY <2>1, <2>3, <2>4 DEF TurnInv, InBatch
<1>2. CASE ~Finish
  <2>1. bidx' = bidx
    BY <1>2 DEF Next, KernelStep, Begin, LoopTop, NextBoost, Select, Launch, SetDeadline, Enter,
                Handle, Retire, OnYield, OnSyscall, OnTimer, Settle, EndOfPass, UserRun,
                UserStep, UserEcall, UserIllegal, TimerInterrupt, Tick, Stopped, vars
  <2>2. Turning /\ Count' = Count
    BY <2>1, SameTurning
  <2>3. CASE ~InBatch /\ ~Begin
    <3>1. UNCHANGED <<pc, console>>
      BY <1>2, <2>3 DEF InBatch, Next, KernelStep, LoopTop, NextBoost, Select, Launch,
                SetDeadline, Enter, Handle, Retire, OnYield, OnSyscall, OnTimer, UserRun,
                UserStep, UserEcall, UserIllegal, TimerInterrupt, Tick, Stopped, vars
    <3>. QED
      BY <2>2, <2>3, <3>1 DEF TurnInv, InBatch
  <2>4. CASE Begin
    <3>1. /\ AtTurn(0, 0)' /\ OwnTrap' /\ console' = <<>> /\ pc' = "loop"
      BY <2>2, <2>4, BeginTurns, BeginQueue
    <3>. QED
      BY <3>1 DEF TurnInv
  <2>5. CASE InBatch
    <3>1. PICK lap \in Nat, t \in Nat : AtTurn(lap, t)
      BY <2>2, <2>5 DEF TurnInv
    <3>2. /\ OwnTrap /\ \A k \in 1..Len(console) : console[k] = Marker((k - 1) % Count)
      BY <2>2, <2>5 DEF TurnInv
    <3>. DEFINE Goes == OwnTrap' /\ \E l, u \in Nat : AtTurn(l, u)'
                Shows == \A k \in 1..Len(console') : console'[k] = Marker((k - 1) % Count)
    <3>3. ASSUME NEW l, NEW u, AtTurn(l, u)', OwnTrap'
          PROVE  Goes
      <4>1. l \in Nat /\ u \in Nat
        BY <2>1, <2>2, <3>3, TurnNumbers
      <4>. QED
        BY <3>3, <4>1
    <3>4. pc' # "begin"
      BY <1>2, <2>5 DEF InBatch, Next, KernelStep, Begin, LoopTop, NextBoost, Select, Launch,
                SetDeadline, Enter, Handle, Retire, OnYield, OnSyscall, OnTimer, Settle,
                UserRun, UserStep, UserEcall, UserIllegal, TimerInterrupt, Tick, Stopped,
                Proceed, vars
    <3>5. CASE Select
      <4>1. AtTurn(lap, t)' /\ OwnTrap' /\ console' = console
        BY <2>2, <3>1, <3>5, SelectTurns DEF Select
      <4>. QED
        BY <2>2, <3>2, <3>3, <3>4, <4>1 DEF TurnInv
    <3>6. CASE Handle
      <4>1. AtTurn(lap, t)' /\ OwnTrap' /\ Shows
        BY <2>2, <3>1, <3>2, <3>6, HandleTurns
      <4>. QED
        BY <2>2, <3>3, <3>4, <4>1 DEF TurnInv
    <3>7. CASE Retire \/ OnYield \/ OnSyscall
      <4>1. OwnTrap' /\ \E l, u : AtTurn(l, u)'
        BY <2>2, <3>1, <3>2, <3>7, RetireTurns, YieldTurns, SyscallTurns
      <4>2. console' = console
        BY <3>7 DEF Retire, OnYield, OnSyscall, Settle, EndOfPass
      <4>. QED
        BY <2>2, <3>2, <3>3, <3>4, <4>1, <4>2 DEF TurnInv
    <3>8. CASE OnTimer
      BY <3>2, <3>8 DEF OnTimer, OwnTrap
    <3>9. CASE ~(Begin \/ Select \/ Handle \/ Retire \/ OnYield \/ OnSyscall \/ OnTimer)
      <4>1. LoopTop \/ NextBoost \/ Launch \/ SetDeadline \/ Enter \/ UserRun
              \/ TimerInterrupt \/ Tick \/ UNCHANGED vars
        BY <1>2, <3>9 DEF Next, KernelStep, Stopped
      <4>2. AtTurn(lap, t)' /\ OwnTrap' /\ console' = console
        BY <2>2, <2>5, <3>1, <3>2, <4>1, HartTurns
      <4>. QED
        BY <2>2, <3>2, <3>3, <3>4, <4>2 DEF TurnInv
    <3>10. ~Begin
      BY <2>5 DEF InBatch, Begin
    <3>. QED
      BY <3>5, <3>6, <3>7, <3>8, <3>9, <3>10
  <2>. QED
    BY <2>3, <2>4, <2>5
<1>. QED
  BY <1>1, <1>2

(* Tasks that print and yield equally often take turns from the first      *)
(* character to the last, for any number of tasks and iterations: a yield  *)
(* keeps the place in line (scheduler.rs:458), a syscall keeps the         *)
(* processor, a popped task is the one that has waited longest.            *)
THEOREM TasksTakeTurns == WellPlanned /\ EvenTurns => (Spec => []TakeTurns)
<1>. SUFFICES ASSUME WellPlanned, EvenTurns PROVE Spec => []TakeTurns
  OBVIOUS
<1>1. Init => TurnInv /\ TimerInv /\ ProgramInv
  BY TurnInit, TimerInit, ProgramInit
<1>2. IInv /\ ProgramInv /\ TimerInv /\ TurnInv /\ [Next]_vars
         => TurnInv' /\ TimerInv' /\ ProgramInv'
  BY TurnNext, TimerNext, ProgramNext
<1>3. TurnInv => TakeTurns
  BY DEF TurnInv, Turning, TakeTurns
<1>. QED
  BY <1>1, <1>2, <1>3, InitInv, NextInv, PTL DEF Spec
================================================================================
