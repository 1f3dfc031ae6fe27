---------------------------- MODULE SchedulerProofs ----------------------------
(***************************************************************************)
(* What holds of Scheduler for every number of tasks, every quantum, every *)
(* plan of batches and every behaviour of the clock.                       *)
(***************************************************************************)
EXTENDS SchedulerRefinement, FiniteSets, FunctionTheorems, FiniteSetTheorems, TLAPS

(***************************************************************************)
(* Facts about the operators of ReadyQueue, for every capacity N.          *)
(***************************************************************************)
LEMMA QueueShape ==
  ASSUME NEW q \in Queues
  PROVE  /\ q.ids \in [Ids -> Ids] /\ q.len \in 0..N /\ q.len \in Nat
         /\ Positions(q) \subseteq Ids
         /\ \A p \in Positions(q) : q.ids[p] \in Ids
BY NAssumption DEF Queues, Positions, Ids

LEMMA BelowCount ==
  ASSUME NEW n \in Nat
  PROVE  IsFiniteSet(0..(n - 1)) /\ Cardinality(0..(n - 1)) = n
<1>1. 0 \in Int /\ n - 1 \in Int
  OBVIOUS
<1>2. /\ IsFiniteSet(0..(n - 1))
      /\ Cardinality(0..(n - 1)) = IF 0 > n - 1 THEN 0 ELSE (n - 1) - 0 + 1
  BY <1>1, FS_Interval
<1>. QED
  BY <1>2

(* A queue without repetition whose entries are below n has at most n.     *)
LEMMA FitsBelow ==
  ASSUME NEW q \in Queues, Unique(q), NEW n \in Nat, Members(q) \subseteq 0..(n - 1)
  PROVE  q.len <= n
<1> DEFINE f == [p \in Positions(q) |-> q.ids[p]]
<1>1. q.len \in Nat
  BY QueueShape
<1>2. /\ IsFiniteSet(Positions(q)) /\ Cardinality(Positions(q)) = q.len
      /\ IsFiniteSet(0..(n - 1)) /\ Cardinality(0..(n - 1)) = n
  BY <1>1, BelowCount DEF Positions
<1>3. f \in Injection(Positions(q), 0..(n - 1))
  BY DEF Injection, IsInjective, Unique, Members
<1>. HIDE DEF f
<1>4. Cardinality(Positions(q)) <= Cardinality(0..(n - 1))
  BY <1>2, <1>3, FS_Injection
<1>. QED
  BY <1>2, <1>4

(* As long as some task is not queued there is room for it.                *)
LEMMA RoomLeft ==
  ASSUME NEW q \in Queues, Unique(q), NEW i \in Ids, i \notin Members(q)
  PROVE  q.len < N
<1> DEFINE f == [p \in Positions(q) |-> q.ids[p]]
<1>1. q.len \in Nat
  BY QueueShape
<1>2. /\ IsFiniteSet(Positions(q)) /\ Cardinality(Positions(q)) = q.len
      /\ IsFiniteSet(Ids) /\ Cardinality(Ids) = N
  BY <1>1, BelowCount, NAssumption DEF Positions, Ids
<1>3. IsFiniteSet(Ids \ {i}) /\ Cardinality(Ids \ {i}) = N - 1
  BY <1>2, FS_RemoveElement
<1>4. f \in Injection(Positions(q), Ids \ {i})
  BY QueueShape DEF Injection, IsInjective, Unique, Members
<1>. HIDE DEF f
<1>5. Cardinality(Positions(q)) <= Cardinality(Ids \ {i})
  BY <1>3, <1>4, FS_Injection
<1>. QED
  BY <1>1, <1>2, <1>3, <1>5, NAssumption

(* push() of a task that is not queued succeeds and adds just that task.   *)
LEMMA PushAdds ==
  ASSUME NEW q \in Queues, Unique(q), NEW i \in Ids, i \notin Members(q)
  PROVE  /\ PushResult(q, i) = "ok"
         /\ Push(q, i) \in Queues
         /\ Unique(Push(q, i))
         /\ Members(Push(q, i)) = Members(q) \cup {i}
<1>1. q.len < N
  BY RoomLeft
<1>2. PushResult(q, i) = "ok"
  BY <1>1, QueueShape DEF PushResult
<1> DEFINE r == [ids |-> [q.ids EXCEPT ![q.len] = i], len |-> q.len + 1]
<1>3. Push(q, i) = r
  BY <1>2 DEF Push
<1>4. /\ q.len \in Ids /\ q.ids \in [Ids -> Ids] /\ q.len \in Nat
      /\ Positions(q) \subseteq Ids
  BY <1>1, QueueShape, NAssumption DEF Ids
<1>5. r \in Queues
  BY <1>1, <1>4, NAssumption DEF Queues, Ids
<1>6. Positions(r) = Positions(q) \cup {q.len} /\ q.len \notin Positions(q)
  BY <1>4 DEF Positions
<1>7. r.ids[q.len] = i /\ \A p \in Positions(q) : r.ids[p] = q.ids[p]
  BY <1>4, <1>6
<1>. HIDE DEF r
<1>8. Unique(r)
  BY <1>6, <1>7 DEF Unique, Members
<1>9. Members(r) = Members(q) \cup {i}
  BY <1>6, <1>7 DEF Members
<1>. QED
  BY <1>2, <1>3, <1>5, <1>8, <1>9

(* Removing one position removes exactly the task that stood there.        *)
LEMMA RemoveTakesOne ==
  ASSUME NEW q \in Queues, Unique(q), NEW p \in Positions(q)
  PROVE  /\ RemoveAt(q, p) \in Queues
         /\ Unique(RemoveAt(q, p))
         /\ Members(RemoveAt(q, p)) = Members(q) \ {q.ids[p]}
<1> DEFINE r == RemoveAt(q, p)
<1>1. /\ q.ids \in [Ids -> Ids] /\ q.len \in Nat /\ q.len <= N /\ Positions(q) \subseteq Ids
      /\ p \in Int /\ 0 <= p /\ p < q.len
  BY QueueShape DEF Positions
<1>2. r \in Queues
  BY <1>1, NAssumption DEF RemoveAt, Queues, Ids
<1>3. \A k \in Positions(r) : /\ k \in Positions(q) /\ k + 1 \in Positions(q)
                              /\ r.ids[k] = IF p <= k THEN q.ids[k + 1] ELSE q.ids[k]
  BY <1>1 DEF RemoveAt, Positions, Ids
<1>4. Unique(r)
  <2> SUFFICES ASSUME NEW a \in Positions(r), NEW b \in Positions(r), r.ids[a] = r.ids[b]
               PROVE  a = b
    BY DEF Unique
  <2>1. a \in Int /\ b \in Int
    BY <1>1 DEF Positions, RemoveAt
  <2>. QED
    BY <1>1, <1>3, <2>1 DEF Unique
<1>5. Members(r) \subseteq Members(q) \ {q.ids[p]}
  <2> SUFFICES ASSUME NEW k \in Positions(r)
               PROVE  r.ids[k] \in Members(q) /\ r.ids[k] # q.ids[p]
    BY DEF Members
  <2>1. k \in Int
    BY <1>1 DEF Positions, RemoveAt
  <2>. QED
    BY <1>1, <1>3, <2>1 DEF Members, Unique
<1>6. Members(q) \ {q.ids[p]} \subseteq Members(r)
  <2> SUFFICES ASSUME NEW k \in Positions(q), k # p
               PROVE  \E m \in Positions(r) : r.ids[m] = q.ids[k]
    BY DEF Members
  <2>1. k \in Int /\ 0 <= k /\ k < q.len
    BY <1>1 DEF Positions
  <2>2. CASE k < p
    <3>1. k \in Positions(r)
      BY <1>1, <2>1, <2>2 DEF Positions, RemoveAt
    <3>. QED
      BY <1>1, <1>3, <2>1, <2>2, <3>1
  <2>3. CASE k > p
    <3>1. k - 1 \in Positions(r)
      BY <1>1, <2>1, <2>3 DEF Positions, RemoveAt
    <3>2. p <= k - 1 /\ (k - 1) + 1 = k
      BY <1>1, <2>1, <2>3
    <3>3. r.ids[k - 1] = q.ids[k]
      BY <1>3, <3>1, <3>2
    <3>. QED
      BY <3>1, <3>3
  <2>. QED
    BY <1>1, <2>1, <2>2, <2>3
<1>. QED
  BY <1>2, <1>4, <1>5, <1>6

(* The queue a batch starts with holds tasks 0..n - 1.                     *)
LEMMA LoadedHolds ==
  ASSUME NEW n \in 0..N
  PROVE  /\ Loaded(n) \in Queues
         /\ Unique(Loaded(n))
         /\ Members(Loaded(n)) = 0..(n - 1)
<1>1. n \in Nat /\ 0..(n - 1) \subseteq Ids /\ 0 \in Ids
  BY NAssumption DEF Ids
<1>2. Loaded(n) \in Queues
  BY <1>1, NAssumption DEF Loaded, Queues, Ids
<1>3. Positions(Loaded(n)) = 0..(n - 1)
  BY DEF Loaded, Positions
<1>4. \A p \in 0..(n - 1) : Loaded(n).ids[p] = p
  BY <1>1 DEF Loaded
<1>. QED
  BY <1>2, <1>3, <1>4 DEF Unique, Members

(* The self-test of the queue passes whatever the capacity.                *)
THEOREM ProbeAlwaysPasses == ProbePasses
<1>1. \A n \in 0..N : /\ Loaded(n) \in Queues /\ Unique(Loaded(n))
                      /\ Members(Loaded(n)) = 0..(n - 1)
  BY LoadedHolds
<1>2. Loaded(0) = EmptyQueue
  BY NAssumption DEF Loaded, EmptyQueue, Ids
<1>3. ASSUME NEW k \in Ids
      PROVE  /\ PushResult(Loaded(k), k) = "ok"
             /\ Push(Loaded(k), k) = Loaded(k + 1)
  <2>1. k \in 0..N /\ k \notin 0..(k - 1) /\ k \in Nat
    BY NAssumption DEF Ids
  <2>2. PushResult(Loaded(k), k) = "ok"
    BY <1>1, <2>1, PushAdds
  <2>3. Push(Loaded(k), k) = [ids |-> [Loaded(k).ids EXCEPT ![k] = k], len |-> k + 1]
    BY <2>2 DEF Push, Loaded
  <2>4. [Loaded(k).ids EXCEPT ![k] = k] = Loaded(k + 1).ids
    <3>1. \A p \in Ids : p < k + 1 <=> p < k \/ p = k
      BY <2>1, NAssumption DEF Ids
    <3>2. Loaded(k).ids = [p \in Ids |-> IF p < k THEN p ELSE 0]
      BY DEF Loaded
    <3>3. Loaded(k + 1).ids = [p \in Ids |-> IF p < k + 1 THEN p ELSE 0]
      BY DEF Loaded
    <3>. QED
      BY <3>1, <3>2, <3>3
  <2>. QED
    BY <2>2, <2>3, <2>4 DEF Loaded
<1>4. PushResult(Loaded(1), 0) = "duplicate task"
  <2>1. 1 \in 0..N /\ 0 \in Ids /\ 1 # N /\ 0 \in 0..(1 - 1)
    BY NAssumption DEF Ids
  <2>2. 0 \in Members(Loaded(1)) /\ Loaded(1).len = 1
    BY <1>1, <2>1 DEF Loaded
  <2>. QED
    BY <2>1, <2>2 DEF PushResult
<1>5. PushResult(Loaded(N), 0) = "queue full"
  BY NAssumption DEF PushResult, Loaded, Ids
<1>6. ASSUME NEW k \in Ids
      PROVE  /\ Drained(k).ids[0] = k
             /\ RemoveAt(Drained(k), 0) = Drained(k + 1)
  <2>1. k \in Nat /\ k < N /\ 0 \in Ids
    BY NAssumption DEF Ids
  <2>2. Drained(k).ids[0] = k
    BY <2>1 DEF Drained
  <2>3. RemoveAt(Drained(k), 0).ids = Drained(k + 1).ids
    <3> SUFFICES ASSUME NEW m \in Ids
                 PROVE  RemoveAt(Drained(k), 0).ids[m] = Drained(k + 1).ids[m]
      BY DEF RemoveAt, Drained
    <3>1. m \in Nat /\ m < N
      BY NAssumption DEF Ids
    <3>2. CASE m + 1 < N - k
      <4>1. m + 1 \in Ids
        BY <2>1, <3>1, <3>2, NAssumption DEF Ids
      <4>. QED
        BY <2>1, <3>1, <3>2, <4>1, NAssumption DEF RemoveAt, Drained
    <3>3. CASE ~(m + 1 < N - k)
      BY <2>1, <3>1, <3>3, NAssumption DEF RemoveAt, Drained
    <3>. QED
      BY <3>2, <3>3
  <2>4. RemoveAt(Drained(k), 0).len = Drained(k + 1).len
    BY <2>1, NAssumption DEF RemoveAt, Drained
  <2>. QED
    BY <2>2, <2>3, <2>4 DEF RemoveAt, Drained
<1>7. Drained(0) = Loaded(N) /\ Drained(N).len = 0
  BY NAssumption DEF Drained, Loaded, Ids
<1>. QED
  BY <1>2, <1>3, <1>4, <1>5, <1>6, <1>7 DEF ProbePasses

-----------------------------------------------------------------------------
(***************************************************************************)
(* Facts about the constants and the operators.                            *)
(***************************************************************************)
LEMMA BatchFacts ==
  ASSUME bidx \in 1..Len(Plan)
  PROVE  /\ Policy \in Policies /\ Plan[bidx].limit \in Nat
         /\ Count \in 1..N /\ Count \in Nat /\ Tasks \subseteq Ids
         /\ \A i \in Ids : /\ SpecOf(i).mode \in 0..4
                           /\ SpecOf(i).iterations \in Nat
                           /\ SpecOf(i).fault \in BOOLEAN
<1>1. Plan[bidx] \in Batches
  BY SchedulerAssumption
<1>2. \A i \in Ids : SpecOf(i) \in Specs
  BY <1>1 DEF Batches, SpecOf
<1>. QED
  BY <1>1, <1>2, NAssumption DEF Batches, Policy, Count, Tasks, Specs, Ids

LEMMA BudgetFacts ==
  ASSUME NEW l \in 0..2
  PROVE  SliceOf(l) \in Nat \ {0} /\ AllotOf(l) \in Nat \ {0}
BY SchedulerAssumption DEF SliceOf, AllotOf

LEMMA MonusFacts ==
  ASSUME NEW a \in Int, NEW b \in Int
  PROVE  Monus(a, b) \in Nat
BY DEF Monus

(* The next boost is later than the instant it is computed from, by one    *)
(* period at most: a boost never stays in the past.                        *)
LEMMA BoostIsAhead ==
  ASSUME base \in Nat, NEW now \in Nat, base <= now
  PROVE  /\ BoostAfter(now) \in Nat
         /\ now < BoostAfter(now) /\ BoostAfter(now) <= now + BoostTicks
<1> DEFINE d == now - base
           q == d \div BoostTicks
<1>1. d \in Nat /\ BoostTicks \in Nat /\ BoostTicks > 0
  BY SchedulerAssumption
<1>2. q \in Int /\ BoostTicks * q <= d /\ d < BoostTicks * q + BoostTicks
  BY <1>1
<1>3. (q + 1) * BoostTicks = BoostTicks * q + BoostTicks
  BY <1>1, <1>2
<1>4. BoostAfter(now) = base + (q + 1) * BoostTicks
  BY DEF BoostAfter
<1>5. BoostTicks * q \in Int
  BY <1>1, <1>2
<1>. QED
  BY <1>1, <1>2, <1>3, <1>4, <1>5

LEMMA LoopFacts ==
  ASSUME NEW mode \in 0..4
  PROVE  BranchOf(mode) \in CodeRange
BY DEF BranchOf, CodeRange, sched_putchar, sched_next, sched_yield, sched_syscall, sched_wait

LEMMA FrameTypes ==
  ASSUME bidx \in 1..Len(Plan)
  PROVE  /\ NoFrame \in Frames
         /\ \A i \in Ids : InitialFrame(i) \in Frames
<1>1. NoFrame \in Frames
  BY NAssumption DEF NoFrame, Frames, CodeRange, Ids
<1>2. ASSUME NEW i \in Ids PROVE InitialFrame(i) \in Frames
  <2>1. (IF SpecOf(i).fault THEN sched_fault ELSE sched_entry) \in CodeRange
    BY DEF CodeRange, sched_fault, sched_entry
  <2>. QED
    BY <1>1, <2>1 DEF InitialFrame, Frames
<1>. QED
  BY <1>1, <1>2

(* An instruction of a user program keeps the registers in their types.    *)
LEMMA InstructionTypes ==
  ASSUME bidx \in 1..Len(Plan), NEW r \in Frames
  PROVE  Instruction(r) \in Frames
<1>1. /\ r.s0 \in Ids /\ r.sepc \in 0..16 /\ r.a0 \in Int /\ r.a7 \in Nat
      /\ r.s2 \in Nat /\ r.s3 \in Nat
  BY DEF Frames, CodeRange
<1>2. BranchOf(SpecOf(r.s0).mode) \in CodeRange
  BY <1>1, BatchFacts, LoopFacts
<1>3. NextAddress(r) \in CodeRange
  BY <1>1, <1>2 DEF NextAddress, OrFail, CodeRange, sched_entry, sched_loop, sched_putchar,
         sched_yield, sched_syscall, sched_next, sched_exit, sched_wait, sched_waitexit,
         sched_fail
<1>4. NextS2(r) \in Nat /\ NextS3(r) \in Nat
  BY <1>1 DEF NextS2, NextS3
<1>. QED
  BY <1>3, <1>4 DEF Instruction, Frames

LEMMA AtEcallTypes ==
  ASSUME NEW r \in Frames
  PROVE  AtEcall(r) \in Frames /\ AtEcall(r).sepc = r.sepc
<1>1. /\ r.s0 \in Ids /\ r.s0 \in Int /\ r.sepc \in Int /\ r.a0 \in Int
  BY NAssumption DEF Frames, Ids, CodeRange
<1>2. Marker(r.s0) \in Int
  BY <1>1 DEF Marker
<1>3. ArgumentOf(r) \in Int
  BY <1>1, <1>2 DEF ArgumentOf
<1>4. NumberOf(r) \in Nat
  BY DEF NumberOf, PUTCHAR, EXIT
<1>. QED
  BY <1>3, <1>4 DEF AtEcall, Frames

LEMMA DispatchTypes ==
  ASSUME NEW number \in Nat, NEW arg \in Int
  PROVE  Dispatch(number, arg) \in
           [kind : {"Return", "Exit"}, value : Int, out : Seq(Int)]
<1>1. <<arg>> \in Seq(Int) /\ <<>> \in Seq(Int)
  OBVIOUS
<1>2. /\ ERR_INVALID_ARGUMENT \in Int /\ ERR_UNKNOWN_SYSCALL \in Int /\ 0 \in Int
      /\ PUTCHAR # EXIT
  BY DEF ERR_INVALID_ARGUMENT, ERR_UNKNOWN_SYSCALL, PUTCHAR, EXIT
<1>3. \/ Dispatch(number, arg) = Return(ERR_INVALID_ARGUMENT, <<>>)
      \/ Dispatch(number, arg) = Return(0, <<arg>>)
      \/ Dispatch(number, arg) = Exit(arg)
      \/ Dispatch(number, arg) = Return(ERR_UNKNOWN_SYSCALL, <<>>)
  BY <1>2, Zenon DEF Dispatch
<1> DEFINE R == [kind : {"Return", "Exit"}, value : Int, out : Seq(Int)]
<1>4. /\ Return(ERR_INVALID_ARGUMENT, <<>>) \in R /\ Return(0, <<arg>>) \in R
      /\ Exit(arg) \in R /\ Return(ERR_UNKNOWN_SYSCALL, <<>>) \in R
  BY <1>1, <1>2 DEF Return, Exit
<1>. HIDE DEF R
<1>5. Dispatch(number, arg) \in R
  BY <1>3, <1>4
<1>. QED
  BY <1>5 DEF R

(***************************************************************************)
(* The invariant.  Shape says where the loop may stand in which state:     *)
(* from the launch of a task to the accounting of its trap there is a      *)
(* current task, between batches there is none and nothing waits.          *)
(***************************************************************************)
TaskPCs == {"launch", "deadline", "enter", "user", "trap", "account"}

Shape ==
    /\ pc \in TaskPCs => current \in Tasks
    /\ pc \in {"begin", "finish", "halt"} => current = NoTask /\ ready.len = 0
    /\ pc # "panic" => \A i \in Ids : state[i] # "Done" => i \in Tasks
    /\ pc = "trap" => scause # "none"
    /\ pc = "trap" /\ scause = "ecall" => regs.sepc \in Ecalls
    /\ pc = "account" => event.reason # "None"
    /\ base <= clock
    /\ pc \in {"user", "trap"} => entered <= clock
    /\ pc = "account" => entered <= event.time

(* What handle() reports is an event, and not the empty one.               *)
LEMMA OutcomeTypes ==
  ASSUME TypeOK, Shape, pc = "trap"
  PROVE  Outcome \in Events /\ Outcome.reason # "None"
<1>1. /\ regs \in Frames /\ clock \in Nat /\ regs.a7 \in Nat /\ regs.a0 \in Int
      /\ scause \in {"ecall", "timer", "illegal"}
  BY DEF TypeOK, Shape, Frames
<1> DEFINE call == Dispatch(regs.a7, regs.a0)
<1>2. call.kind \in {"Return", "Exit"} /\ call.value \in Int
  BY <1>1, DispatchTypes DEF call
<1>3. CASE scause = "timer"
  BY <1>1, <1>3 DEF Outcome, Interrupted, Events
<1>4. CASE scause = "illegal"
  BY <1>1, <1>4 DEF Outcome, Events
<1>5. CASE scause = "ecall"
  <2>1. \A v \in Int : Served(regs, v) \in Frames
    <3>1. regs.sepc + 1 \in CodeRange
      BY <1>5 DEF Shape, Ecalls, CodeRange, sched_putchar, sched_yield, sched_syscall,
             sched_exit, sched_waitexit, sched_fail
    <3>. QED
      BY <1>1, <3>1 DEF Served, Frames
  <2>. HIDE DEF call
  <2>2. CASE regs.a7 = 3
    BY <1>1, <1>5, <2>1, <2>2 DEF Outcome, Events
  <2>3. CASE regs.a7 # 3 /\ call.kind = "Exit"
    BY <1>1, <1>2, <1>5, <2>3 DEF Outcome, Events, call
  <2>4. CASE regs.a7 # 3 /\ call.kind # "Exit"
    <3>1. Outcome = [frame |-> Served(regs, call.value), reason |-> "Syscall", code |-> 0,
                     time |-> clock]
      BY <1>5, <2>4 DEF Outcome, call
    <3>. QED
      BY <1>1, <1>2, <2>1, <3>1 DEF Events
  <2>. QED
    BY <2>2, <2>3, <2>4
<1>. QED
  BY <1>1, <1>3, <1>4, <1>5

IInv == TypeOK /\ QueueConsistent /\ Shape

LEMMA OutcomeTime ==
  ASSUME TypeOK, Shape, pc = "trap"
  PROVE  Outcome.time = clock
<1>1. scause \in {"ecall", "timer", "illegal"}
  BY DEF TypeOK, Shape
<1>. QED
  BY <1>1 DEF Outcome

USE DEF taskVars, batchVars, timerVars, userVars, timeVars, outVars, passVars, kernelVars

LEMMA InitInv == Init => IInv
<1>. SUFFICES ASSUME Init PROVE IInv
  OBVIOUS
<1>0. bidx \in 1..Len(Plan)
  BY SchedulerAssumption DEF Init
<1>1. EmptyQueue \in Queues /\ Positions(EmptyQueue) = {} /\ EmptyQueue.len = 0
  BY NAssumption DEF EmptyQueue, Queues, Positions, Ids
<1>2. NoFrame \in Frames /\ NoEvent \in Events
  BY <1>0, FrameTypes DEF NoEvent, Events
<1>3. T \in Nat /\ 2 * T \in Nat
  BY SchedulerAssumption
<1>4. TypeOK
  <2>1. /\ pc \in PCs /\ panicked \in Panics /\ bidx \in 1..Len(Plan)
        /\ ready \in Queues /\ current \in Ids \cup {NoTask}
        /\ base \in Nat /\ boost \in Nat /\ deadline \in Nat
        /\ available \in Nat /\ entered \in Nat /\ event \in Events
        /\ regs \in Frames /\ scause \in {"none", "ecall", "timer", "illegal"}
        /\ clock \in Nat /\ lag \in Nat /\ stie \in BOOLEAN /\ mtimecmp \in Nat
        /\ timerDone \in BOOLEAN
    BY <1>0, <1>1, <1>2 DEF Init, PCs, Panics
  <2>3. console \in Seq(Int)
    BY DEF Init
  <2>2. /\ state \in [Ids -> {"Ready", "Running", "Done"}]
        /\ level \in [Ids -> 0..2] /\ slice \in [Ids -> Nat] /\ allot \in [Ids -> Nat]
        /\ timers \in [Ids -> Nat] /\ yields \in [Ids -> Nat]
        /\ syscalls \in [Ids -> Nat] /\ demoted \subseteq Ids
        /\ frame \in [Ids -> Frames]
    BY <1>2, <1>3 DEF Init
  <2>. QED
    BY <2>1, <2>2, <2>3 DEF TypeOK
<1>5. QueueConsistent
  <2>1. /\ \A i \in Ids : state[i] = "Done" /\ i # current
        /\ Positions(ready) = {}
    BY <1>1, NAssumption DEF Init, NoTask, Ids
  <2>. QED
    BY <2>1 DEF QueueConsistent, Unique, Members
<1>6. Shape
  <2>1. /\ pc = "begin" /\ current = NoTask /\ ready.len = 0 /\ base <= clock
        /\ \A i \in Ids : state[i] = "Done"
    BY <1>1 DEF Init
  <2>. QED
    BY <2>1 DEF Shape, TaskPCs
<1>. QED
  BY <1>4, <1>5, <1>6 DEF IInv

(***************************************************************************)
(* The queue.                                                              *)
(***************************************************************************)
(* A step that leaves the queue, the tasks and the current one alone.      *)
LEMMA QueueUnchanged ==
  ASSUME QueueConsistent, UNCHANGED <<ready, state, current>>
  PROVE  QueueConsistent'
BY DEF QueueConsistent, Unique, Members, Positions

LEMMA BeginQueue == ASSUME IInv, Begin PROVE QueueConsistent' /\ pc' = "loop"
<1>0. Count \in 1..N /\ Tasks = 0..(Count - 1) /\ Tasks \subseteq Ids
  BY BatchFacts DEF IInv, TypeOK, Tasks
<1>1. Count \in 0..N
  BY <1>0
<1>2. Unique(ready') /\ Members(ready') = Tasks /\ current' = NoTask
  BY <1>0, <1>1, LoadedHolds DEF Begin
<1>3. \A i \in Ids : state'[i] = IF i \in Tasks THEN "Ready" ELSE "Done"
  BY DEF Begin
<1>4. QueueConsistent'
  BY <1>0, <1>2, <1>3, NAssumption DEF QueueConsistent, NoTask, Ids
<1>5. ASSUME NEW i \in Tasks PROVE PushResult(Loaded(i), i) = "ok"
  <2>1. i \in Ids /\ i \in 0..N /\ i \notin 0..(i - 1)
    BY <1>0, NAssumption DEF Ids
  <2>. QED
    BY <2>1, LoadedHolds, PushAdds
<1>. QED
  BY <1>4, <1>5, ProbeAlwaysPasses DEF Begin, Proceed

LEMMA LoopTopPasses ==
  ASSUME IInv, pc = "loop"
  PROVE  CheckPasses(ready, state, Count)
<1>1. Count \in Nat /\ Tasks = 0..(Count - 1) /\ Tasks \subseteq Ids
  BY BatchFacts DEF IInv, TypeOK, Tasks
<1>2. Members(ready) \subseteq Tasks /\ ready \in Queues /\ Unique(ready)
  BY DEF IInv, TypeOK, QueueConsistent, Shape
<1>3. ready.len <= Count
  BY <1>1, <1>2, FitsBelow
<1>4. \A p \in Positions(ready) : ready.ids[p] \in Members(ready)
  BY DEF Members
<1>. QED
  BY <1>1, <1>2, <1>3, <1>4 DEF CheckPasses, IInv, QueueConsistent

LEMMA SelectQueue == ASSUME IInv, Select PROVE QueueConsistent' /\ ready' \in Queues
<1>0. ready \in Queues /\ Unique(ready) /\ state \in [Ids -> {"Ready", "Running", "Done"}]
  BY DEF IInv, TypeOK, QueueConsistent
<1>1. CASE UNCHANGED <<ready, current, state, deadline>>
  BY <1>0, <1>1, QueueUnchanged DEF IInv
<1>2. CASE /\ current = NoTask
           /\ \E p \in Positions(ready) :
                 /\ current' = ready.ids[p]
                 /\ ready' = RemoveAt(ready, p)
                 /\ state' = [state EXCEPT ![ready.ids[p]] = "Running"]
  <2>1. PICK p \in Positions(ready) : /\ current' = ready.ids[p]
                                      /\ ready' = RemoveAt(ready, p)
                                      /\ state' = [state EXCEPT ![ready.ids[p]] = "Running"]
    BY <1>2
  <2>2. current' \in Ids /\ current' \in Members(ready)
    BY <1>0, <2>1, QueueShape DEF Members
  <2>3. /\ ready' \in Queues /\ Unique(ready')
        /\ Members(ready') = Members(ready) \ {current'}
    BY <1>0, <2>1, RemoveTakesOne
  <2>4. \A i \in Ids : state'[i] = IF i = current' THEN "Running" ELSE state[i]
    BY <1>0, <2>1, <2>2
  <2>5. \A i \in Ids : state[i] # "Running"
    BY <1>2, NAssumption DEF IInv, QueueConsistent, NoTask, Ids
  <2>. QED
    BY <2>2, <2>3, <2>4, <2>5 DEF IInv, QueueConsistent
<1>. QED
  BY <1>1, <1>2 DEF Select

(* The task that runs is not queued, so requeuing it cannot fail.          *)
LEMMA SettleQueue ==
  ASSUME IInv, pc = "account", NEW asked \in BOOLEAN, Settle(asked)
  PROVE  QueueConsistent' /\ ready' \in Queues /\ pc' = "loop"
<1>0. /\ ready \in Queues /\ Unique(ready) /\ current \in Ids
      /\ state \in [Ids -> {"Ready", "Running", "Done"}]
  BY BatchFacts DEF IInv, TypeOK, QueueConsistent, Shape, TaskPCs
<1>1. state[current] = "Running" /\ current \notin Members(ready)
  BY <1>0 DEF IInv, QueueConsistent
<1>2. /\ PushResult(ready, current) = "ok"
      /\ Push(ready, current) \in Queues /\ Unique(Push(ready, current))
      /\ Members(Push(ready, current)) = Members(ready) \cup {current}
  BY <1>0, <1>1, PushAdds
<1>3. Delta >= 0
  BY DEF Delta, IInv, TypeOK, Shape, Events
<1>4. pc' = "loop"
  BY <1>2, <1>3 DEF Settle, Proceed
<1>5. CASE UNCHANGED <<state, ready, current>>
  BY <1>0, <1>4, <1>5, QueueUnchanged DEF IInv
<1>6. CASE /\ state' = [state EXCEPT ![current] = "Ready"]
           /\ ready' = Push(ready, current)
           /\ current' = NoTask
  <2>1. \A i \in Ids : state'[i] = IF i = current THEN "Ready" ELSE state[i]
    BY <1>0, <1>6
  <2>2. \A i \in Ids : i # NoTask
    BY NAssumption DEF NoTask, Ids
  <2>. QED
    BY <1>0, <1>2, <1>4, <1>6, <2>1, <2>2 DEF IInv, QueueConsistent
<1>. QED
  BY <1>5, <1>6 DEF Settle

LEMMA RetireQueue == ASSUME IInv, Retire PROVE QueueConsistent'
<1>0. current \in Ids /\ state \in [Ids -> {"Ready", "Running", "Done"}]
  BY BatchFacts DEF IInv, TypeOK, Shape, TaskPCs, Retire
<1>1. \A i \in Ids : state'[i] = IF i = current THEN "Done" ELSE state[i]
  BY <1>0 DEF Retire
<1>2. \A i \in Ids : i # NoTask
  BY NAssumption DEF NoTask, Ids
<1>3. ready' = ready /\ current' = NoTask
  BY DEF Retire
<1>. QED
  BY <1>0, <1>1, <1>2, <1>3 DEF IInv, QueueConsistent

(***************************************************************************)
(* Types.                                                                  *)
(***************************************************************************)
(* The common facts about a state that has a current task.                 *)
LEMMA CurrentFacts ==
  ASSUME IInv, pc \in TaskPCs
  PROVE  /\ current \in Ids /\ current \in Tasks /\ level[current] \in 0..2
         /\ slice[current] \in Nat /\ allot[current] \in Nat
         /\ timers[current] \in Nat /\ frame[current] \in Frames
<1>1. current \in Ids /\ current \in Tasks
  BY BatchFacts DEF IInv, Shape, TypeOK
<1>. QED
  BY <1>1 DEF IInv, TypeOK

LEMMA BeginTypes == ASSUME IInv, Begin PROVE TypeOK'
<1>1. /\ Count \in 0..N /\ T \in Nat /\ 2 * T \in Nat /\ UMAX \in Nat
      /\ clock + BoostTicks \in Nat
  <2>1. bidx \in 1..Len(Plan) /\ clock \in Nat
    BY DEF IInv, TypeOK
  <2>2. Count \in 1..N
    BY <2>1, BatchFacts
  <2>3. N \in Nat /\ T \in Nat /\ UMAX \in Nat /\ BoostTicks \in Nat
    BY NAssumption, SchedulerAssumption
  <2>. QED
    BY <2>1, <2>2, <2>3
<1>2. Loaded(Count) \in Queues
  BY <1>1, LoadedHolds
<1>3. NoFrame \in Frames /\ \A i \in Ids : InitialFrame(i) \in Frames
  BY FrameTypes DEF IInv, TypeOK
<1>4. frame' \in [Ids -> Frames]
  BY <1>3 DEF Begin, Proceed
<1>5. /\ state' \in [Ids -> {"Ready", "Running", "Done"}] /\ level' \in [Ids -> 0..2]
      /\ slice' \in [Ids -> Nat] /\ allot' \in [Ids -> Nat] /\ timers' \in [Ids -> Nat]
      /\ yields' \in [Ids -> Nat] /\ syscalls' \in [Ids -> Nat] /\ demoted' \subseteq Ids
  <2>1. /\ state' = [i \in Ids |-> IF i \in Tasks THEN "Ready" ELSE "Done"]
        /\ level' = [i \in Ids |-> 0] /\ slice' = [i \in Ids |-> T]
        /\ allot' = [i \in Ids |-> 2 * T] /\ timers' = [i \in Ids |-> 0]
        /\ yields' = [i \in Ids |-> 0] /\ syscalls' = [i \in Ids |-> 0]
        /\ demoted' = {}
    BY Zenon DEF Begin
  <2>. QED
    BY <1>1, <2>1
<1>6. console' \in Seq(Int)
  <2>1. console' = <<>>
    BY Zenon DEF Begin
  <2>. QED
    BY <2>1
<1>7. /\ pc' \in PCs /\ panicked' \in Panics
  BY DEF Begin, Proceed, IInv, TypeOK, PCs, Panics
<1>. QED
  BY <1>1, <1>2, <1>4, <1>5, <1>6, <1>7 DEF Begin, Proceed, IInv, TypeOK

LEMMA LoopTopTypes == ASSUME IInv, LoopTop PROVE TypeOK'
<1>1. SliceOf(0) \in Nat /\ AllotOf(0) \in Nat
  BY BudgetFacts
<1>2. /\ level' \in [Ids -> 0..2] /\ slice' \in [Ids -> Nat] /\ allot' \in [Ids -> Nat]
  <2>1. CASE BoostDue
    <3>1. /\ level' = [i \in Ids |-> IF i \in {j \in Tasks : state[j] # "Done"}
                                     THEN 0 ELSE level[i]]
          /\ slice' = [i \in Ids |-> IF i \in {j \in Tasks : state[j] # "Done"}
                                     THEN SliceOf(0) ELSE slice[i]]
          /\ allot' = [i \in Ids |-> IF i \in {j \in Tasks : state[j] # "Done"}
                                     THEN AllotOf(0) ELSE allot[i]]
      BY <2>1, Zenon DEF LoopTop
    <3>. QED
      BY <1>1, <3>1 DEF IInv, TypeOK
  <2>2. CASE ~BoostDue
    BY <2>2 DEF LoopTop, Proceed, IInv, TypeOK
  <2>. QED
    BY <2>1, <2>2
<1>3. pc' \in PCs /\ panicked' \in Panics
  BY DEF LoopTop, Proceed, IInv, TypeOK, PCs, Panics
<1>. QED
  BY <1>2, <1>3 DEF LoopTop, Proceed, IInv, TypeOK

LEMMA NextBoostTypes == ASSUME IInv, NextBoost PROVE TypeOK'
<1>1. BoostAfter(clock) \in Nat
  BY BoostIsAhead DEF IInv, TypeOK, Shape
<1>. QED
  BY <1>1 DEF NextBoost, IInv, TypeOK, PCs

LEMMA SelectTypes == ASSUME IInv, Select PROVE TypeOK'
<1>1. ready' \in Queues
  BY SelectQueue
<1>2. /\ current' \in Ids \cup {NoTask} /\ deadline' \in Nat /\ pc' \in PCs
      /\ state' \in [Ids -> {"Ready", "Running", "Done"}]
  <2>1. \A p \in Positions(ready) : ready.ids[p] \in Ids
    BY QueueShape DEF IInv, TypeOK
  <2>2. clock + T \in Nat
    BY SchedulerAssumption DEF IInv, TypeOK
  <2>. QED
    BY <2>1, <2>2 DEF Select, IInv, TypeOK, PCs
<1>. QED
  BY <1>1, <1>2 DEF Select, IInv, TypeOK

LEMMA LaunchTypes == ASSUME IInv, Launch \/ SetDeadline PROVE TypeOK'
<1>1. CASE Launch
  <2>0. boost \in Int /\ clock \in Int
    BY DEF IInv, TypeOK
  <2>1. Monus(boost, clock) \in Nat
    BY <2>0, MonusFacts
  <2>2. slice[current] \in Nat /\ allot[current] \in Nat
    BY <1>1, CurrentFacts DEF Launch, TaskPCs
  <2>3. available' \in Nat /\ pc' \in PCs
    BY <1>1, <2>1, <2>2 DEF Launch, Least, IInv, TypeOK, PCs
  <2>. QED
    BY <1>1, <2>3 DEF Launch, IInv, TypeOK
<1>2. CASE SetDeadline
  BY <1>2 DEF SetDeadline, IInv, TypeOK, PCs
<1>. QED
  BY <1>1, <1>2

LEMMA EnterTypes == ASSUME IInv, Enter PROVE TypeOK'
<1>1. Restored \in Frames
  BY CurrentFacts DEF Enter, Restored, TaskPCs
<1>. QED
  BY <1>1 DEF Enter, IInv, TypeOK, PCs

LEMMA UserTypes == ASSUME IInv, UserRun \/ TimerInterrupt PROVE TypeOK'
<1>1. CASE UserStep
  <2>1. Instruction(regs) \in Frames
    BY InstructionTypes DEF IInv, TypeOK
  <2>. QED
    BY <1>1, <2>1 DEF UserStep, IInv, TypeOK
<1>2. CASE UserEcall
  <2>1. AtEcall(regs) \in Frames
    BY AtEcallTypes DEF IInv, TypeOK
  <2>. QED
    BY <1>2, <2>1 DEF UserEcall, IInv, TypeOK, PCs
<1>3. CASE UserIllegal \/ TimerInterrupt
  BY <1>3 DEF UserIllegal, TimerInterrupt, IInv, TypeOK, PCs
<1>. QED
  BY <1>1, <1>2, <1>3 DEF UserRun

LEMMA HandleTypes == ASSUME IInv, Handle PROVE TypeOK'
<1>1. event' \in Events
  BY OutcomeTypes DEF Handle, IInv
<1>2. console' \in Seq(Int)
  <2>1. Dispatch(regs.a7, regs.a0).out \in Seq(Int) /\ console \in Seq(Int)
    BY DispatchTypes DEF IInv, TypeOK, Frames
  <2>2. \/ console' = console
        \/ console' = console \o Dispatch(regs.a7, regs.a0).out
    BY DEF Handle, Proceed
  <2>3. console \o Dispatch(regs.a7, regs.a0).out \in Seq(Int)
    BY <2>1
  <2>. QED
    BY <2>1, <2>2, <2>3
<1>3. regs' \in Frames
  BY FrameTypes DEF Handle, IInv, TypeOK
<1>4. pc' \in PCs /\ panicked' \in Panics
  BY DEF Handle, Proceed, IInv, TypeOK, PCs, Panics
<1>. QED
  BY <1>1, <1>2, <1>3, <1>4 DEF Handle, IInv, TypeOK

(* What every end of a pass leaves in its variables.                       *)
LEMMA EndOfPassTypes ==
  ASSUME IInv, pc = "account", EndOfPass
  PROVE  /\ frame' \in [Ids -> Frames] /\ available' \in Nat /\ entered' \in Nat
         /\ event' \in Events
         /\ UNCHANGED <<boost, bidx, base, regs, scause, clock, lag, console>>
<1>1. event.frame \in Frames /\ frame \in [Ids -> Frames]
  BY DEF IInv, TypeOK, Events
<1>2. NoEvent \in Events
  BY FrameTypes DEF NoEvent, Events, IInv, TypeOK
<1>. QED
  BY <1>1, <1>2 DEF EndOfPass

LEMMA ChargeTypes ==
  ASSUME IInv, pc = "account"
  PROVE  ChargedSlice \in Nat /\ ChargedAllot \in Nat
<1>1. Delta \in Int
  BY DEF Delta, IInv, TypeOK, Events
<1>2. slice[current] \in Nat /\ allot[current] \in Nat
  BY CurrentFacts DEF TaskPCs
<1>3. /\ Monus(slice[current], Delta) \in Nat
      /\ Monus(allot[current], Delta) \in Nat
  BY <1>1, <1>2 DEF Monus
<1>. QED
  BY <1>2, <1>3 DEF ChargedSlice, ChargedAllot

LEMMA RetireTypes == ASSUME IInv, Retire PROVE TypeOK'
<1>0. pc = "account" /\ EndOfPass
  BY DEF Retire
<1>1. /\ frame' \in [Ids -> Frames] /\ available' \in Nat /\ entered' \in Nat
      /\ event' \in Events
      /\ UNCHANGED <<boost, bidx, base, regs, scause, clock, lag, console>>
  BY <1>0, EndOfPassTypes
<1>2. ChargedSlice \in Nat /\ ChargedAllot \in Nat
  BY <1>0, ChargeTypes
<1>3. /\ pc' \in PCs /\ panicked' \in Panics
  BY DEF Retire, Proceed, IInv, TypeOK, PCs, Panics
<1>4. /\ state' \in [Ids -> {"Ready", "Running", "Done"}]
      /\ slice' \in [Ids -> Nat] /\ allot' \in [Ids -> Nat]
  BY <1>2 DEF Retire, IInv, TypeOK
<1>. QED
  BY <1>1, <1>3, <1>4 DEF Retire, IInv, TypeOK

LEMMA SettleTypes ==
  ASSUME IInv, pc = "account", NEW asked \in BOOLEAN, Settle(asked)
  PROVE  /\ level' \in [Ids -> 0..2] /\ slice' \in [Ids -> Nat] /\ allot' \in [Ids -> Nat]
         /\ state' \in [Ids -> {"Ready", "Running", "Done"}] /\ demoted' \subseteq Ids
         /\ ready' \in Queues /\ current' \in Ids \cup {NoTask}
         /\ pc' = "loop" /\ panicked' = panicked
<1>0. current \in Ids /\ level[current] \in 0..2
  BY CurrentFacts DEF TaskPCs
<1>1. ready' \in Queues /\ pc' = "loop"
  BY SettleQueue
<1>2. panicked' = panicked
  BY <1>1 DEF Settle, Proceed
<1>3. ChargedSlice \in Nat /\ ChargedAllot \in Nat
  BY ChargeTypes
<1> DEFINE to == IF Demotes THEN level[current] + 1 ELSE level[current]
<1>4. to \in 0..2
  BY <1>0 DEF Demotes
<1>5. SliceOf(to) \in Nat /\ AllotOf(to) \in Nat
  BY <1>4, BudgetFacts
<1>6. /\ level' = [level EXCEPT ![current] = to]
      /\ slice' = [slice EXCEPT ![current] =
                      IF Demotes \/ Refills THEN SliceOf(to) ELSE ChargedSlice]
      /\ allot' = [allot EXCEPT ![current] =
                      IF Demotes THEN AllotOf(to) ELSE ChargedAllot]
      /\ demoted' = IF Demotes THEN demoted \cup {current} ELSE demoted
  BY DEF Settle
<1>7. /\ state' \in [Ids -> {"Ready", "Running", "Done"}]
      /\ current' \in Ids \cup {NoTask}
  <2>1. CASE UNCHANGED <<state, ready, current>>
    BY <2>1 DEF IInv, TypeOK
  <2>2. CASE state' = [state EXCEPT ![current] = "Ready"] /\ current' = NoTask
    BY <2>2 DEF IInv, TypeOK
  <2>. QED
    BY <2>1, <2>2 DEF Settle
<1>. HIDE DEF to
<1>8. /\ level' \in [Ids -> 0..2] /\ slice' \in [Ids -> Nat] /\ allot' \in [Ids -> Nat]
      /\ demoted' \subseteq Ids
  BY <1>0, <1>3, <1>4, <1>5, <1>6 DEF IInv, TypeOK
<1>. QED
  BY <1>1, <1>2, <1>7, <1>8

LEMMA CountOneMore ==
  ASSUME NEW f \in [Ids -> Nat], NEW i \in Ids
  PROVE  [f EXCEPT ![i] = @ + 1] \in [Ids -> Nat]
<1>1. f[i] + 1 \in Nat
  OBVIOUS
<1>. QED
  BY <1>1

LEMMA AccountTypes == ASSUME IInv, OnYield \/ OnSyscall \/ OnTimer PROVE TypeOK'
<1>0. pc = "account"
  BY DEF OnYield, OnSyscall, OnTimer
<1>1. PICK asked \in BOOLEAN : Settle(asked)
  BY DEF OnYield, OnSyscall, OnTimer
<1>2. /\ frame' \in [Ids -> Frames] /\ available' \in Nat /\ entered' \in Nat
      /\ event' \in Events
      /\ UNCHANGED <<boost, bidx, base, regs, scause, clock, lag, console>>
  BY <1>0, <1>1, EndOfPassTypes DEF Settle
<1>3. /\ level' \in [Ids -> 0..2] /\ slice' \in [Ids -> Nat] /\ allot' \in [Ids -> Nat]
      /\ state' \in [Ids -> {"Ready", "Running", "Done"}] /\ demoted' \subseteq Ids
      /\ ready' \in Queues /\ current' \in Ids \cup {NoTask}
      /\ pc' = "loop" /\ panicked' = panicked
  BY <1>0, <1>1, SettleTypes
<1>4. /\ yields' \in [Ids -> Nat] /\ syscalls' \in [Ids -> Nat] /\ timers' \in [Ids -> Nat]
      /\ deadline' \in Nat /\ stie' \in BOOLEAN /\ mtimecmp' \in Nat
      /\ timerDone' \in BOOLEAN
  <2>0. /\ yields \in [Ids -> Nat] /\ syscalls \in [Ids -> Nat] /\ timers \in [Ids -> Nat]
        /\ deadline \in Nat /\ stie \in BOOLEAN /\ mtimecmp \in Nat
        /\ timerDone \in BOOLEAN /\ clock + T \in Nat /\ UMAX \in Nat
    BY SchedulerAssumption DEF IInv, TypeOK
  <2>4. /\ [yields EXCEPT ![current] = @ + 1] \in [Ids -> Nat]
        /\ [syscalls EXCEPT ![current] = @ + 1] \in [Ids -> Nat]
        /\ [timers EXCEPT ![current] = @ + 1] \in [Ids -> Nat]
    BY <1>0, <2>0, CurrentFacts, CountOneMore DEF TaskPCs
  <2>1. CASE OnYield
    <3>1. /\ yields' = [yields EXCEPT ![current] = @ + 1]
          /\ UNCHANGED <<deadline, timers, syscalls, stie, mtimecmp, timerDone>>
      BY <2>1 DEF OnYield
    <3>. QED
      BY <2>0, <2>4, <3>1
  <2>2. CASE OnSyscall
    <3>1. /\ syscalls' = [syscalls EXCEPT ![current] = @ + 1]
          /\ UNCHANGED <<deadline, timers, yields, stie, mtimecmp, timerDone>>
      BY <2>2 DEF OnSyscall
    <3>. QED
      BY <2>0, <2>4, <3>1
  <2>3. CASE OnTimer
    <3>1. /\ \/ timers' = timers
             \/ timers' = [timers EXCEPT ![current] = @ + 1]
          /\ deadline' \in {deadline, clock + T}
          /\ stie' \in {stie, FALSE} /\ mtimecmp' \in {mtimecmp, UMAX}
          /\ timerDone' \in {timerDone, TRUE}
          /\ UNCHANGED <<yields, syscalls>>
      BY <2>3 DEF OnTimer
    <3>. QED
      BY <2>0, <2>4, <3>1
  <2>. QED
    BY <2>1, <2>2, <2>3
<1>. QED
  BY <1>2, <1>3, <1>4 DEF IInv, TypeOK, PCs

LEMMA FinishTypes == ASSUME IInv, Finish PROVE TypeOK'
<1>1. bidx' \in 1..Len(Plan)
  <2>1. Len(Plan) \in Nat /\ bidx \in 1..Len(Plan)
    BY SchedulerAssumption DEF IInv, TypeOK
  <2>. QED
    <3>1. bidx' = IF LastBatch THEN bidx ELSE bidx + 1
      BY Zenon DEF Finish
    <3>. QED
      BY <2>1, <3>1 DEF LastBatch
<1>2. stie' \in BOOLEAN /\ mtimecmp' \in Nat
  BY SchedulerAssumption DEF Finish, IInv, TypeOK
<1>3. pc' \in PCs /\ panicked' \in Panics
  BY DEF Finish, Proceed, IInv, TypeOK, PCs, Panics
<1>. QED
  BY <1>1, <1>2, <1>3 DEF Finish, IInv, TypeOK

LEMMA TickTypes == ASSUME IInv, Tick PROVE TypeOK'
BY DEF Tick, IInv, TypeOK

(***************************************************************************)
(* Shape.                                                                  *)
(***************************************************************************)
LEMMA SameBatch ==
  ASSUME bidx' = bidx
  PROVE  Tasks' = Tasks
BY DEF Tasks, Count

LEMMA BeginShape == ASSUME IInv, Begin PROVE Shape'
<1>1. pc' = "loop"
  BY BeginQueue
<1>2. state' = [i \in Ids |-> IF i \in Tasks THEN "Ready" ELSE "Done"]
  BY Zenon DEF Begin
<1>3. bidx' = bidx /\ base' = clock /\ clock' = clock
  BY DEF Begin, Proceed
<1>4. Tasks' = Tasks
  BY <1>3, SameBatch
<1>5. base' <= clock'
  BY <1>3 DEF IInv, TypeOK
<1>. QED
  BY <1>1, <1>2, <1>4, <1>5 DEF Shape, TaskPCs

LEMMA LoopTopShape == ASSUME IInv, LoopTop PROVE Shape'
<1>1. pc' \in {"boost", "select"}
  BY LoopTopPasses DEF LoopTop, Proceed
<1>2. UNCHANGED <<state, bidx, base, clock>>
  BY Zenon DEF LoopTop
<1>3. Tasks' = Tasks
  BY <1>2, SameBatch
<1>. QED
  BY <1>1, <1>2, <1>3 DEF Shape, TaskPCs, IInv, LoopTop

LEMMA SelectShape == ASSUME IInv, Select PROVE Shape'
<1>0. UNCHANGED <<bidx, base, clock>> /\ pc' \in {"launch", "finish"} /\ pc = "select"
  BY DEF Select
<1>1. Tasks' = Tasks
  BY <1>0, SameBatch
<1>2. current' \in Ids \cup {NoTask} /\ state' \in [Ids -> {"Ready", "Running", "Done"}]
  BY SelectTypes DEF TypeOK
<1>3. \A i \in Ids : state'[i] # "Done" => i \in Tasks
  <2>1. \A p \in Positions(ready) : ready.ids[p] \in Ids /\ state[ready.ids[p]] = "Ready"
    BY QueueShape DEF IInv, TypeOK, QueueConsistent, Members
  <2>2. \A i \in Ids : state[i] # "Done" => i \in Tasks
    BY <1>0 DEF IInv, Shape
  <2>. QED
    BY <2>1, <2>2 DEF Select, IInv, TypeOK
<1>4. pc' = "launch" => current' \in Tasks
  <2>1. \A i \in Ids : (state'[i] = "Running") <=> (i = current')
    BY SelectQueue DEF QueueConsistent
  <2>2. pc' = "launch" => current' # NoTask
    <3>1. \A p \in Positions(ready) : ready.ids[p] # NoTask
      <4>1. \A i \in Ids : i # NoTask
        BY NAssumption DEF NoTask, Ids
      <4>. QED
        BY <4>1, QueueShape DEF IInv, TypeOK
    <3>. QED
      BY <3>1 DEF Select
  <2>. QED
    BY <1>2, <1>3, <2>1, <2>2
<1>5. pc' = "finish" => current' = NoTask /\ ready'.len = 0
  BY DEF Select
<1>. QED
  BY <1>0, <1>1, <1>3, <1>4, <1>5 DEF Shape, TaskPCs, IInv

(* The steps from the launch of a task to its trap keep it in place.       *)
LEMMA RunShape ==
  ASSUME IInv, NextBoost \/ Launch \/ SetDeadline \/ Enter
  PROVE  Shape'
<1>0. UNCHANGED <<bidx, base, clock, state, current>>
  BY DEF NextBoost, Launch, SetDeadline, Enter
<1>1. Tasks' = Tasks
  BY <1>0, SameBatch
<1>2. pc' \in {"select", "deadline", "enter", "user"} /\ pc # "panic"
  BY DEF NextBoost, Launch, SetDeadline, Enter
<1>3. pc' # "select" => current \in Tasks
  BY DEF NextBoost, Launch, SetDeadline, Enter, IInv, Shape, TaskPCs
<1>4. pc' = "user" => entered' <= clock'
  BY DEF NextBoost, Launch, SetDeadline, Enter, IInv, TypeOK
<1>. QED
  BY <1>0, <1>1, <1>2, <1>3, <1>4 DEF Shape, TaskPCs, IInv

LEMMA UserShape == ASSUME IInv, UserRun \/ TimerInterrupt PROVE Shape'
<1>0. /\ UNCHANGED <<bidx, base, clock, state, current, entered>>
      /\ pc = "user" /\ pc' \in {"user", "trap"}
  BY DEF UserRun, UserStep, UserEcall, UserIllegal, TimerInterrupt
<1>1. Tasks' = Tasks
  BY <1>0, SameBatch
<1>2. pc' = "trap" => scause' \in {"ecall", "illegal", "timer"}
  BY <1>0 DEF UserRun, UserStep, UserEcall, UserIllegal, TimerInterrupt
<1>3. pc' = "trap" /\ scause' = "ecall" => regs'.sepc \in Ecalls
  BY <1>0, AtEcallTypes DEF UserRun, UserStep, UserEcall, UserIllegal, TimerInterrupt,
         IInv, TypeOK
<1>. QED
  BY <1>0, <1>1, <1>2, <1>3 DEF Shape, TaskPCs, IInv

LEMMA HandleShape == ASSUME IInv, Handle PROVE Shape'
<1>0. /\ UNCHANGED <<bidx, base, clock, state, current, entered>> /\ event' = Outcome
      /\ pc = "trap" /\ pc' \in {"account", "panic"}
  BY DEF Handle, Proceed
<1>1. Tasks' = Tasks
  BY <1>0, SameBatch
<1>2. event'.reason # "None" /\ event'.time = clock
  BY <1>0, OutcomeTypes, OutcomeTime DEF IInv
<1>. QED
  BY <1>0, <1>1, <1>2 DEF Shape, TaskPCs, IInv

LEMMA AccountShape == ASSUME IInv, Retire \/ OnYield \/ OnSyscall \/ OnTimer PROVE Shape'
<1>0. pc = "account" /\ pc' \in {"loop", "panic"} /\ UNCHANGED <<bidx, base, clock>>
  BY DEF Retire, OnYield, OnSyscall, OnTimer, Settle, Proceed, EndOfPass
<1>1. Tasks' = Tasks
  BY <1>0, SameBatch
<1>2. current \in Tasks /\ current \in Ids
  BY <1>0, CurrentFacts DEF TaskPCs
<1>3. \/ state' = state
      \/ state' = [state EXCEPT ![current] = "Done"]
      \/ state' = [state EXCEPT ![current] = "Ready"]
  BY DEF Retire, OnYield, OnSyscall, OnTimer, Settle
<1>4. \A i \in Ids : state'[i] # "Done" => i \in Tasks
  BY <1>0, <1>2, <1>3 DEF IInv, TypeOK, Shape
<1>. QED
  BY <1>0, <1>1, <1>4 DEF Shape, TaskPCs, IInv

LEMMA FinishShape == ASSUME IInv, Finish PROVE Shape'
<1>0. /\ UNCHANGED <<base, clock, state, current, ready>> /\ pc = "finish"
      /\ pc' \in {"begin", "halt", "panic"}
  BY DEF Finish, Proceed
<1>1. pc' # "panic" => FinishedWell
  BY DEF Finish, Proceed
<1>2. FinishedWell => \A i \in Ids : state[i] = "Done"
  BY <1>0 DEF FinishedWell, IInv, Shape
<1>. QED
  BY <1>0, <1>1, <1>2 DEF Shape, TaskPCs, IInv

LEMMA TickShape == ASSUME IInv, Tick PROVE Shape'
<1>0. /\ UNCHANGED <<pc, bidx, base, state, current, ready, entered, scause, regs, event>>
      /\ clock' = clock + 1
  BY DEF Tick
<1>1. Tasks' = Tasks
  BY <1>0, SameBatch
<1>2. base <= clock' /\ (entered <= clock => entered <= clock')
  BY <1>0 DEF IInv, TypeOK, Shape
<1>. QED
  BY <1>0, <1>1, <1>2 DEF Shape, IInv

(***************************************************************************)
(* The invariant holds initially and every step preserves it.              *)
(***************************************************************************)
LEMMA Stutter == ASSUME IInv, UNCHANGED vars PROVE IInv'
<1>1. TypeOK'
  BY DEF IInv, TypeOK, vars
<1>2. QueueConsistent'
  BY QueueUnchanged DEF IInv, vars
<1>3. Shape'
  BY SameBatch DEF IInv, Shape, vars
<1>. QED
  BY <1>1, <1>2, <1>3 DEF IInv

LEMMA NextInv == IInv /\ [Next]_vars => IInv'
<1>. SUFFICES ASSUME IInv, [Next]_vars PROVE IInv'
  OBVIOUS
<1>1. CASE Begin
  BY <1>1, BeginTypes, BeginQueue, BeginShape DEF IInv
<1>2. CASE LoopTop
  <2>1. UNCHANGED <<ready, state, current>>
    BY <1>2, Zenon DEF LoopTop
  <2>. QED
    BY <1>2, <2>1, LoopTopTypes, QueueUnchanged, LoopTopShape DEF IInv
<1>3. CASE NextBoost \/ Launch \/ SetDeadline \/ Enter
  <2>1. UNCHANGED <<ready, state, current>>
    BY <1>3 DEF NextBoost, Launch, SetDeadline, Enter
  <2>. QED
    BY <1>3, <2>1, NextBoostTypes, LaunchTypes, EnterTypes, QueueUnchanged, RunShape DEF IInv
<1>4. CASE Select
  BY <1>4, SelectTypes, SelectQueue, SelectShape DEF IInv
<1>5. CASE UserRun \/ TimerInterrupt
  <2>1. UNCHANGED <<ready, state, current>>
    BY <1>5 DEF UserRun, UserStep, UserEcall, UserIllegal, TimerInterrupt
  <2>. QED
    BY <1>5, <2>1, UserTypes, QueueUnchanged, UserShape DEF IInv
<1>6. CASE Handle
  <2>1. UNCHANGED <<ready, state, current>>
    BY <1>6, Zenon DEF Handle
  <2>. QED
    BY <1>6, <2>1, HandleTypes, QueueUnchanged, HandleShape DEF IInv
<1>7. CASE Retire
  BY <1>7, RetireTypes, RetireQueue, AccountShape DEF IInv
<1>8. CASE OnYield \/ OnSyscall \/ OnTimer
  <2>1. pc = "account" /\ \E asked \in BOOLEAN : Settle(asked)
    BY <1>8 DEF OnYield, OnSyscall, OnTimer
  <2>2. QueueConsistent'
    BY <2>1, SettleQueue
  <2>. QED
    BY <1>8, <2>2, AccountTypes, AccountShape DEF IInv
<1>9. CASE Finish
  <2>1. UNCHANGED <<ready, state, current>>
    BY <1>9, Zenon DEF Finish
  <2>. QED
    BY <1>9, <2>1, FinishTypes, QueueUnchanged, FinishShape DEF IInv
<1>10. CASE Tick
  <2>1. UNCHANGED <<ready, state, current>>
    BY <1>10 DEF Tick
  <2>. QED
    BY <1>10, <2>1, TickTypes, QueueUnchanged, TickShape DEF IInv
<1>11. CASE UNCHANGED vars
  BY <1>11, Stutter
<1>. QED
  BY <1>1, <1>2, <1>3, <1>4, <1>5, <1>6, <1>7, <1>8, <1>9, <1>10, <1>11
     DEF Next, KernelStep, Stopped

(* Types, the consistency of the queue and what the loop relies on at each *)
(* of its points (scheduler.rs batch) hold in every reachable state.       *)
THEOREM Invariance == Spec => []IInv
BY InitInv, NextInv, PTL DEF Spec

(* Every variable keeps the type its Rust declaration gives it: no level   *)
(* above 2, no negative budget, no queue longer than its array.            *)
THEOREM TypeCorrect == Spec => []TypeOK
<1>1. IInv => TypeOK
  BY DEF IInv
<1>. QED
  BY <1>1, Invariance, PTL

(* The queue holds exactly the Ready tasks, each once, and the Running     *)
(* task is the current one, whatever the policies, the programs and the    *)
(* interleaving with time (scheduler.rs:132-150).                          *)
THEOREM QueueStaysConsistent == Spec => []QueueConsistent
<1>1. IInv => QueueConsistent
  BY DEF IInv
<1>. QED
  BY <1>1, Invariance, PTL

(***************************************************************************)
(* The assertions about the queue never fail: its self-test, the check of  *)
(* every pass and every requeue succeed, and no trap finds the program     *)
(* counter outside the program (scheduler.rs:268-289, 132-150, 102-115 and *)
(* 440-448, 223).                                                          *)
(***************************************************************************)
QueuePanics == {"queue probe", "queue check", "requeue", "task PC escaped code"}

NoQueuePanic == panicked \notin QueuePanics

LEMMA NextNoQueuePanic == IInv /\ NoQueuePanic /\ [Next]_vars => NoQueuePanic'
<1>. SUFFICES ASSUME IInv, NoQueuePanic, [Next]_vars PROVE NoQueuePanic'
  OBVIOUS
<1>1. CASE Begin
  <2>1. panicked' = panicked
    BY <1>1, BeginQueue DEF Begin, Proceed
  <2>. QED
    BY <2>1 DEF NoQueuePanic
<1>2. CASE LoopTop
  <2>1. panicked' = panicked
    BY <1>2, LoopTopPasses DEF LoopTop, Proceed
  <2>. QED
    BY <2>1 DEF NoQueuePanic
<1>3. CASE Handle
  <2>1. regs.sepc \in CodeRange
    BY DEF IInv, TypeOK, Frames
  <2>2. panicked' = panicked
    BY <1>3, <2>1 DEF Handle, Proceed
  <2>. QED
    BY <2>2 DEF NoQueuePanic
<1>4. CASE OnYield \/ OnSyscall \/ OnTimer
  <2>1. pc = "account" /\ \E asked \in BOOLEAN : Settle(asked)
    BY <1>4 DEF OnYield, OnSyscall, OnTimer
  <2>2. panicked' = panicked
    BY <2>1, SettleTypes
  <2>. QED
    BY <2>2 DEF NoQueuePanic
<1>5. CASE Retire \/ Finish
  <2>1. panicked' \in {panicked, "unexpected exit or fault", "escaped accounting", "batch result"}
    BY <1>5 DEF Retire, Finish, Proceed
  <2>. QED
    BY <2>1 DEF NoQueuePanic, QueuePanics
<1>6. CASE NextBoost \/ Select \/ Launch \/ SetDeadline \/ Enter
  BY <1>6 DEF NextBoost, Select, Launch, SetDeadline, Enter, NoQueuePanic
<1>7. CASE UserRun \/ TimerInterrupt \/ Tick
  BY <1>7 DEF UserRun, UserStep, UserEcall, UserIllegal, TimerInterrupt, Tick, NoQueuePanic
<1>8. CASE UNCHANGED vars
  BY <1>8 DEF vars, NoQueuePanic
<1>. QED
  BY <1>1, <1>2, <1>3, <1>4, <1>5, <1>6, <1>7, <1>8 DEF Next, KernelStep, Stopped

(* The self-test, the check of every pass and every push().unwrap()        *)
(* succeed, and every trap is inside the program's code.                   *)
THEOREM QueueNeverPanics == Spec => []NoQueuePanic
<1>1. Init => NoQueuePanic
  BY DEF Init, NoQueuePanic, QueuePanics
<1>. QED
  BY <1>1, NextNoQueuePanic, Invariance, PTL DEF Spec

(***************************************************************************)
(* Priority.  The inductive form speaks of every state with a current      *)
(* task, not only of the states in user mode: a syscall that keeps the     *)
(* processor goes through the whole loop without another choice.           *)
(***************************************************************************)
CurrentIsTop ==
    Mlfq /\ current # NoTask =>
        \A i \in Ids : state[i] = "Ready" => level[current] <= level[i]

LEMMA TopUnchanged ==
  ASSUME CurrentIsTop, UNCHANGED <<state, current, level, bidx>>
  PROVE  CurrentIsTop'
<1>1. Mlfq' = Mlfq
  BY DEF Mlfq, Policy
<1>. QED
  BY <1>1 DEF CurrentIsTop

LEMMA LoopTopKeepsTop == ASSUME IInv, CurrentIsTop, LoopTop PROVE CurrentIsTop'
<1>0. UNCHANGED <<state, current, bidx>>
  BY Zenon DEF LoopTop
<1>1. Mlfq' = Mlfq
  BY <1>0 DEF Mlfq, Policy
<1>2. CASE UNCHANGED level
  BY <1>0, <1>2, TopUnchanged
<1>3. CASE level' = [i \in Ids |-> IF i \in {j \in Tasks : state[j] # "Done"}
                                  THEN 0 ELSE level[i]]
  <2>1. pc = "loop"
    BY Zenon DEF LoopTop
  <2>2. \A i \in Ids : state[i] # "Done" => level'[i] = 0
    BY <1>3, <2>1 DEF IInv, Shape
  <2>3. current # NoTask => current \in Ids /\ state[current] = "Running"
    BY DEF IInv, TypeOK, QueueConsistent
  <2>. QED
    BY <1>0, <2>2, <2>3 DEF CurrentIsTop
<1>. QED
  BY <1>2, <1>3, Zenon DEF LoopTop

LEMMA SelectPicksTop == ASSUME IInv, CurrentIsTop, Select PROVE CurrentIsTop'
<1>0. UNCHANGED <<level, bidx>> /\ Mlfq' = Mlfq
  BY DEF Select, Mlfq, Policy
<1>1. CASE UNCHANGED <<ready, current, state, deadline>>
  BY <1>0, <1>1, TopUnchanged
<1>2. ASSUME NEW p \in Positions(ready), IsPopPosition(ready, level, Mlfq, p),
             current' = ready.ids[p],
             state' = [state EXCEPT ![ready.ids[p]] = "Running"]
      PROVE  CurrentIsTop'
  <2>1. ready.ids[p] \in Ids /\ state \in [Ids -> {"Ready", "Running", "Done"}]
    BY QueueShape DEF IInv, TypeOK
  <2>2. ASSUME Mlfq, NEW i \in Ids, state'[i] = "Ready"
        PROVE  level[current'] <= level[i]
    <3>1. i \in Members(ready)
      BY <1>2, <2>1, <2>2 DEF IInv, QueueConsistent
    <3>2. PICK o \in Positions(ready) : i = ready.ids[o]
      BY <3>1 DEF Members
    <3>3. level[i] \in 0..2 /\ level[current'] \in 0..2
      BY <1>2, <2>1 DEF IInv, TypeOK
    <3>. QED
      BY <1>2, <2>2, <3>2, <3>3 DEF IsPopPosition
  <2>. QED
    BY <1>0, <2>2 DEF CurrentIsTop
<1>. QED
  BY <1>1, <1>2, Zenon DEF Select

(* Accounting frees the processor, or keeps the level.                     *)
LEMMA AccountKeepsTop ==
  ASSUME IInv, CurrentIsTop, pc = "account", Retire \/ \E asked \in BOOLEAN : Settle(asked)
  PROVE  CurrentIsTop'
<1>1. CASE current' = NoTask
  BY <1>1 DEF CurrentIsTop
<1>2. CASE current' # NoTask
  <2>1. PICK asked \in BOOLEAN : Settle(asked)
    BY <1>2 DEF Retire
  <2>2. UNCHANGED <<state, current>> /\ ~Demotes
    BY <1>2, <2>1 DEF Settle
  <2>3. UNCHANGED bidx
    BY <2>1 DEF Settle, EndOfPass
  <2>4. level' = [level EXCEPT ![current] = level[current]]
    BY <2>1, <2>2, Zenon DEF Settle
  <2>5. level' = level
    BY <2>4 DEF IInv, TypeOK
  <2>. QED
    BY <2>2, <2>3, <2>5, TopUnchanged
<1>. QED
  BY <1>1, <1>2

LEMMA NextKeepsTop == IInv /\ CurrentIsTop /\ [Next]_vars => CurrentIsTop'
<1>. SUFFICES ASSUME IInv, CurrentIsTop, [Next]_vars PROVE CurrentIsTop'
  OBVIOUS
<1>1. CASE Begin
  <2>1. current' = NoTask
    BY <1>1, Zenon DEF Begin
  <2>. QED
    BY <2>1 DEF CurrentIsTop
<1>2. CASE LoopTop
  BY <1>2, LoopTopKeepsTop
<1>3. CASE Select
  BY <1>3, SelectPicksTop
<1>4. CASE NextBoost \/ Launch \/ SetDeadline \/ Enter
  <2>1. UNCHANGED <<state, current, level, bidx>>
    BY <1>4 DEF NextBoost, Launch, SetDeadline, Enter
  <2>. QED
    BY <2>1, TopUnchanged
<1>5. CASE UserRun \/ TimerInterrupt \/ Tick
  <2>1. UNCHANGED <<state, current, level, bidx>>
    BY <1>5 DEF UserRun, UserStep, UserEcall, UserIllegal, TimerInterrupt, Tick
  <2>. QED
    BY <2>1, TopUnchanged
<1>6. CASE Handle
  <2>1. UNCHANGED <<state, current, level, bidx>>
    BY <1>6, Zenon DEF Handle
  <2>. QED
    BY <2>1, TopUnchanged
<1>7. CASE Retire \/ OnYield \/ OnSyscall \/ OnTimer
  <2>1. pc = "account" /\ (Retire \/ \E asked \in BOOLEAN : Settle(asked))
    BY <1>7 DEF Retire, OnYield, OnSyscall, OnTimer
  <2>. QED
    BY <2>1, AccountKeepsTop
<1>8. CASE Finish
  <2>1. current' = current /\ pc = "finish"
    BY <1>8, Zenon DEF Finish
  <2>. QED
    BY <2>1 DEF CurrentIsTop, IInv, Shape
<1>9. CASE UNCHANGED vars
  BY <1>9, TopUnchanged DEF vars
<1>. QED
  BY <1>1, <1>2, <1>3, <1>4, <1>5, <1>6, <1>7, <1>8, <1>9 DEF Next, KernelStep, Stopped

(* The scheduling rule of lesson 15: no program ever runs while a task of  *)
(* a better level waits (scheduler.rs:119-126, 324-350), however boosts,   *)
(* demotions and syscalls interleave.                                      *)
THEOREM TopPriority == Spec => []RunningHasTopPriority
<1>1. Init => CurrentIsTop
  BY DEF Init, CurrentIsTop
<1>2. IInv /\ CurrentIsTop => RunningHasTopPriority
  <2>. SUFFICES ASSUME IInv, CurrentIsTop, pc = "user" PROVE RunningHasTopPriority
    BY DEF RunningHasTopPriority
  <2>1. current \in Ids
    BY CurrentFacts DEF TaskPCs
  <2>2. current # NoTask
    BY <2>1, NAssumption DEF NoTask, Ids
  <2>. QED
    BY <2>2 DEF CurrentIsTop, RunningHasTopPriority
<1>. QED
  BY <1>1, <1>2, NextKeepsTop, Invariance, PTL DEF Spec
(***************************************************************************)
(* Budgets.  Between two accounts of its time every live task of an MLFQ   *)
(* batch has something left of its slice and of its allotment.             *)
(***************************************************************************)
Budgeted(i) ==
    /\ slice[i] \in 1..SliceOf(level[i])
    /\ allot[i] \in 1..AllotOf(level[i])

BatchPCs == PCs \ {"begin", "halt", "panic"}

Budgets == pc \in BatchPCs /\ Mlfq => \A i \in Ids : state[i] # "Done" => Budgeted(i)

LEMMA FullBudget ==
  ASSUME NEW l \in 0..2
  PROVE  SliceOf(l) \in 1..SliceOf(l) /\ AllotOf(l) \in 1..AllotOf(l)
BY BudgetFacts

LEMMA BudgetsUnchanged ==
  ASSUME Budgets, UNCHANGED <<slice, allot, level, bidx>>, pc' \in BatchPCs => pc \in BatchPCs,
         \A i \in Ids : state'[i] # "Done" => state[i] # "Done"
  PROVE  Budgets'
BY DEF Budgets, Budgeted, Mlfq, Policy, SliceOf, AllotOf

LEMMA BeginBudgets == ASSUME IInv, Begin PROVE Budgets'
<1>1. /\ level' = [i \in Ids |-> 0] /\ slice' = [i \in Ids |-> T]
      /\ allot' = [i \in Ids |-> 2 * T]
  BY Zenon DEF Begin
<1>2. SliceOf(0) = T /\ AllotOf(0) = 2 * T
  BY DEF SliceOf, AllotOf
<1>3. \A i \in Ids : /\ level'[i] = 0 /\ slice'[i] \in 1..SliceOf(0)
                     /\ allot'[i] \in 1..AllotOf(0)
  BY <1>1, <1>2, FullBudget
<1>4. \A i \in Ids : Budgeted(i)'
  BY <1>3 DEF Budgeted, SliceOf, AllotOf
<1>. QED
  BY <1>4 DEF Budgets

LEMMA LoopTopBudgets == ASSUME IInv, Budgets, LoopTop PROVE Budgets'
<1>0. /\ UNCHANGED <<state, bidx>> /\ pc = "loop" /\ Mlfq' = Mlfq
      /\ \A i \in Ids : state[i] # "Done" => i \in Tasks
  <2>1. UNCHANGED <<state, bidx>> /\ pc = "loop"
    BY Zenon DEF LoopTop
  <2>. QED
    BY <2>1 DEF IInv, Shape, Mlfq, Policy
<1>1. CASE BoostDue
  <2>1. /\ level' = [i \in Ids |-> IF i \in {j \in Tasks : state[j] # "Done"}
                                   THEN 0 ELSE level[i]]
        /\ slice' = [i \in Ids |-> IF i \in {j \in Tasks : state[j] # "Done"}
                                   THEN SliceOf(0) ELSE slice[i]]
        /\ allot' = [i \in Ids |-> IF i \in {j \in Tasks : state[j] # "Done"}
                                   THEN AllotOf(0) ELSE allot[i]]
    BY <1>1, Zenon DEF LoopTop
  <2>2. ASSUME NEW i \in Ids, state'[i] # "Done" PROVE Budgeted(i)'
    <3>1. level'[i] = 0 /\ slice'[i] = SliceOf(0) /\ allot'[i] = AllotOf(0)
      BY <1>0, <2>1, <2>2
    <3>. QED
      BY <3>1, FullBudget DEF Budgeted, SliceOf, AllotOf
  <2>. QED
    BY <2>2 DEF Budgets
<1>2. CASE ~BoostDue
  <2>1. UNCHANGED <<level, slice, allot>>
    BY <1>2, Zenon DEF LoopTop
  <2>. QED
    BY <1>0, <2>1, BudgetsUnchanged DEF BatchPCs, PCs
<1>. QED
  BY <1>1, <1>2

(* Charging takes at most what there is; what is used up is renewed by a   *)
(* demotion or a refill before the task waits or goes on.                  *)
LEMMA SettleBudgets ==
  ASSUME IInv, Budgets, pc = "account", NEW asked \in BOOLEAN, Settle(asked)
  PROVE  Budgets'
<1>. DEFINE i == current
            to == IF Demotes THEN level[current] + 1 ELSE level[current]
<1>0. /\ i \in Ids /\ level[i] \in 0..2 /\ slice[i] \in Nat /\ allot[i] \in Nat
      /\ level \in [Ids -> 0..2] /\ slice \in [Ids -> Nat] /\ allot \in [Ids -> Nat]
      /\ state \in [Ids -> {"Ready", "Running", "Done"}] /\ state[i] = "Running"
  BY CurrentFacts DEF TaskPCs, IInv, TypeOK, QueueConsistent
<1>1. /\ level' = [level EXCEPT ![i] = to]
      /\ slice' = [slice EXCEPT ![i] = IF Demotes \/ Refills THEN SliceOf(to) ELSE ChargedSlice]
      /\ allot' = [allot EXCEPT ![i] = IF Demotes THEN AllotOf(to) ELSE ChargedAllot]
      /\ state' = state \/ state' = [state EXCEPT ![i] = "Ready"]
      /\ bidx' = bidx
  BY DEF Settle, EndOfPass
<1>2. Delta \in Int /\ Delta >= 0
  BY DEF Delta, IInv, TypeOK, Shape, Events
<1>3. \A j \in Ids : j # i => UNCHANGED <<level[j], slice[j], allot[j], state[j]>>
  BY <1>0, <1>1
<1>4. to \in 0..2
  BY <1>0 DEF Demotes
<1>5. ASSUME Mlfq
      PROVE  slice'[i] \in 1..SliceOf(level'[i]) /\ allot'[i] \in 1..AllotOf(level'[i])
  <2>0. Budgeted(i)
    BY <1>0, <1>5 DEF Budgets, BatchPCs, PCs
  <2>1. /\ ChargedSlice \in Nat /\ ChargedSlice <= slice[i]
        /\ ChargedAllot \in Nat /\ ChargedAllot <= allot[i]
    BY <1>0, <1>2 DEF ChargedSlice, ChargedAllot, Monus
  <2>2. /\ level'[i] = to
        /\ slice'[i] = (IF Demotes \/ Refills THEN SliceOf(to) ELSE ChargedSlice)
        /\ allot'[i] = (IF Demotes THEN AllotOf(to) ELSE ChargedAllot)
    BY <1>0, <1>1
  <2>3. SliceOf(to) \in 1..SliceOf(to) /\ AllotOf(to) \in 1..AllotOf(to)
    BY <1>4, FullBudget
  <2>4. ASSUME ~Demotes
        PROVE  /\ ChargedAllot \in 1..AllotOf(level[i])
               /\ ~Refills => ChargedSlice \in 1..SliceOf(level[i])
    <3>1. ChargedAllot # 0
      <4>1. CASE level[i] < 2
        BY <1>5, <2>4, <4>1 DEF Demotes
      <4>2. CASE ~(level[i] < 2)
        BY <2>0, <4>2 DEF ChargedAllot, Budgeted
      <4>. QED
        BY <4>1, <4>2
    <3>2. ~Refills => ChargedSlice # 0
      BY <1>5, <2>4 DEF Refills
    <3>3. SliceOf(level[i]) \in Nat /\ AllotOf(level[i]) \in Nat
      BY <1>0, BudgetFacts
    <3>. QED
      BY <2>0, <2>1, <3>1, <3>2, <3>3 DEF Budgeted
  <2>5. CASE Demotes
    BY <2>2, <2>3, <2>5
  <2>6. CASE ~Demotes
    BY <2>2, <2>3, <2>4, <2>6
  <2>. QED
    BY <2>5, <2>6
<1>6. ASSUME Mlfq, NEW j \in Ids, j # i, state'[j] # "Done" PROVE Budgeted(j)'
  <2>1. level'[j] = level[j] /\ slice'[j] = slice[j] /\ allot'[j] = allot[j] /\ state[j] # "Done"
    BY <1>3, <1>6
  <2>2. Budgeted(j)
    BY <1>6, <2>1 DEF Budgets, BatchPCs, PCs
  <2>. QED
    BY <2>1, <2>2 DEF Budgeted
<1>7. Mlfq' = Mlfq
  BY <1>1 DEF Mlfq, Policy
<1>8. ASSUME Mlfq, NEW j \in Ids, state'[j] # "Done" PROVE Budgeted(j)'
  <2>1. CASE j = i
    BY <1>5, <1>8, <2>1 DEF Budgeted
  <2>2. CASE j # i
    BY <1>6, <1>8, <2>2
  <2>. QED
    BY <2>1, <2>2
<1>. QED
  BY <1>7, <1>8 DEF Budgets

LEMMA NextBudgets == IInv /\ Budgets /\ [Next]_vars => Budgets'
<1>. SUFFICES ASSUME IInv, Budgets, [Next]_vars PROVE Budgets'
  OBVIOUS
<1>. USE DEF BatchPCs, PCs
<1>1. CASE Begin
  BY <1>1, BeginBudgets
<1>2. CASE LoopTop
  BY <1>2, LoopTopBudgets
<1>3. CASE Select
  <2>1. UNCHANGED <<slice, allot, level, bidx>> /\ pc = "select"
    BY <1>3 DEF Select
  <2>2. \A p \in Positions(ready) : ready.ids[p] \in Ids /\ state[ready.ids[p]] = "Ready"
    BY QueueShape DEF IInv, TypeOK, QueueConsistent, Members
  <2>3. \A i \in Ids : state'[i] # "Done" => state[i] # "Done"
    BY <1>3, <2>2 DEF Select, IInv, TypeOK
  <2>. QED
    BY <2>1, <2>3, BudgetsUnchanged
<1>4. CASE NextBoost \/ Launch \/ SetDeadline \/ Enter \/ UserRun \/ TimerInterrupt \/ Tick
           \/ UNCHANGED vars
  <2>1. /\ UNCHANGED <<slice, allot, level, bidx, state>>
        /\ pc' \in BatchPCs => pc \in BatchPCs
    BY <1>4 DEF NextBoost, Launch, SetDeadline, Enter, UserRun, UserStep, UserEcall,
                UserIllegal, TimerInterrupt, Tick, vars
  <2>. QED
    BY <2>1, BudgetsUnchanged
<1>5. CASE Handle
  <2>1. UNCHANGED <<slice, allot, level, bidx, state>> /\ pc = "trap"
    BY <1>5, Zenon DEF Handle
  <2>. QED
    BY <2>1, BudgetsUnchanged
<1>6. CASE Retire
  <2>1. /\ state' = [state EXCEPT ![current] = "Done"] /\ level' = level /\ bidx' = bidx
        /\ slice' = [slice EXCEPT ![current] = ChargedSlice]
        /\ allot' = [allot EXCEPT ![current] = ChargedAllot] /\ pc = "account"
    BY <1>6 DEF Retire, EndOfPass
  <2>2. \A j \in Ids : state'[j] # "Done" =>
                          state[j] # "Done" /\ slice'[j] = slice[j] /\ allot'[j] = allot[j]
    BY <2>1 DEF IInv, TypeOK
  <2>. QED
    BY <2>1, <2>2 DEF Budgets, Budgeted, Mlfq, Policy, SliceOf, AllotOf
<1>7. CASE OnYield \/ OnSyscall \/ OnTimer
  <2>1. pc = "account" /\ \E asked \in BOOLEAN : Settle(asked)
    BY <1>7 DEF OnYield, OnSyscall, OnTimer
  <2>. QED
    BY <2>1, SettleBudgets
<1>8. CASE Finish
  <2>1. pc' \in {"begin", "halt", "panic"}
    BY <1>8 DEF Finish, Proceed
  <2>. QED
    BY <2>1 DEF Budgets
<1>. QED
  BY <1>1, <1>2, <1>3, <1>4, <1>5, <1>6, <1>7, <1>8 DEF Next, KernelStep, Stopped

LEMMA BudgetsHold == Spec => []Budgets
<1>1. Init => Budgets
  BY DEF Init, Budgets, BatchPCs
<1>. QED
  BY <1>1, NextBudgets, Invariance, PTL DEF Spec

(* A task enters its program with something left to spend and never with   *)
(* more than its level grants (scheduler.rs:86-90, 377-386, 424-433),      *)
(* whatever it was charged, and wherever a boost came in between.          *)
THEOREM BudgetsInRange == Spec => []BudgetInRange
<1>1. IInv /\ Budgets => BudgetInRange
  <2>. SUFFICES ASSUME IInv, Budgets, Mlfq, pc = "user" PROVE Budgeted(current)
    BY DEF BudgetInRange, Budgeted
  <2>1. current \in Ids /\ state[current] # "Done"
    BY CurrentFacts DEF TaskPCs, IInv, QueueConsistent
  <2>. QED
    BY <2>1 DEF Budgets, BatchPCs, PCs
<1>. QED
  BY <1>1, Invariance, BudgetsHold, PTL

(***************************************************************************)
(* The boost.  From the moment the loop has looked at the clock until the  *)
(* program runs, the kernel may be late, but by no more than the ticks lag *)
(* counts; the timer of the program was computed from that reading.        *)
(***************************************************************************)
LagBounded == lag \in 0..KLAG

OnTime ==
    /\ pc \in {"select", "launch", "deadline", "enter"} => clock < boost + lag
    /\ pc = "deadline" => clock + available <= boost + lag
    /\ pc = "enter" => deadline <= boost + lag
    /\ pc = "user" => /\ stie
                      /\ mtimecmp <= boost + KLAG
                      /\ clock <= boost + KLAG + lag

Prompt == LagBounded /\ (Mlfq => OnTime)

LEMMA TimeTypes ==
  ASSUME IInv
  PROVE  /\ clock \in Nat /\ boost \in Nat /\ deadline \in Nat /\ mtimecmp \in Nat
         /\ available \in Nat /\ lag \in Nat /\ entered \in Nat /\ KLAG \in Nat
BY SchedulerAssumption DEF IInv, TypeOK

LEMMA PromptUnchanged ==
  ASSUME Prompt, UNCHANGED <<bidx, lag>>,
         pc' \notin {"select", "launch", "deadline", "enter", "user"}
  PROVE  Prompt'
BY DEF Prompt, LagBounded, OnTime

LEMMA LaunchPrompt == ASSUME IInv, Prompt, Launch PROVE Prompt'
<1>1. UNCHANGED <<bidx, lag, clock, boost, deadline>> /\ pc = "launch"
  BY DEF Launch
<1>2. CASE Mlfq
  <2> DEFINE left == Monus(boost, clock)
             room == Least(slice[current], allot[current])
             budget == Least(room, left)
  <2>1. available' = (IF budget = 0 THEN 1 ELSE budget) /\ pc' = "deadline"
    BY <1>2 DEF Launch
  <2>2. /\ left \in Nat /\ left = IF boost > clock THEN boost - clock ELSE 0
        /\ room \in Nat
    <3>1. boost \in Nat /\ clock \in Nat /\ current \in Ids
      BY <1>1, TimeTypes, CurrentFacts DEF TaskPCs
    <3>2. slice[current] \in Nat /\ allot[current] \in Nat
      BY <3>1 DEF IInv, TypeOK
    <3>. QED
      BY <3>1, <3>2 DEF Monus, Least
  <2>3. budget \in Nat /\ budget <= left
    BY <2>2 DEF Least
  <2>4. clock < boost + lag
    BY <1>1, <1>2 DEF Prompt, OnTime
  <2>. HIDE DEF left, room, budget
  <2>5. clock + available' <= boost + lag
    BY <2>1, <2>2, <2>3, <2>4, TimeTypes
  <2>. QED
    BY <1>1, <2>1, <2>4, <2>5 DEF Prompt, LagBounded, OnTime
<1>3. CASE ~Mlfq
  BY <1>1, <1>3 DEF Prompt, LagBounded, Mlfq, Policy
<1>. QED
  BY <1>2, <1>3

LEMMA EnterPrompt == ASSUME IInv, Prompt, Enter PROVE Prompt'
<1>1. UNCHANGED <<bidx, clock, boost>> /\ pc = "enter" /\ pc' = "user" /\ lag' = 0
  BY DEF Enter
<1>2. CASE Mlfq
  <2>1. ArmsTimer
    BY <1>2 DEF ArmsTimer, Timed, Mlfq
  <2>2. stie' = TRUE /\ mtimecmp' = deadline
    BY <2>1 DEF Enter
  <2>3. clock < boost + lag /\ deadline <= boost + lag /\ lag \in 0..KLAG
    BY <1>1, <1>2 DEF Prompt, OnTime, LagBounded
  <2>. QED
    BY <1>1, <2>2, <2>3, TimeTypes DEF Prompt, LagBounded, OnTime
<1>3. CASE ~Mlfq
  BY <1>1, <1>3, TimeTypes DEF Prompt, LagBounded, Mlfq, Policy
<1>. QED
  BY <1>2, <1>3

LEMMA TickPrompt == ASSUME IInv, Prompt, Tick PROVE Prompt'
<1>1. /\ UNCHANGED <<bidx, pc, boost, deadline, available, stie, mtimecmp>>
      /\ clock' = clock + 1
      /\ Lagging => lag < KLAG
      /\ lag' = IF Lagging THEN lag + 1 ELSE lag
  BY DEF Tick
<1>2. LagBounded'
  BY <1>1, TimeTypes DEF Prompt, LagBounded
<1>3. ASSUME Mlfq PROVE OnTime'
  <2>1. CASE Lagging
    BY <1>1, <1>3, <2>1, TimeTypes DEF Prompt, OnTime
  <2>2. CASE ~Lagging
    BY <1>1, <1>3, <2>2, TimeTypes DEF Prompt, OnTime, Lagging, InterruptDue
  <2>. QED
    BY <2>1, <2>2
<1>. QED
  BY <1>1, <1>2, <1>3 DEF Prompt, Mlfq, Policy

LEMMA NextPrompt == IInv /\ Prompt /\ [Next]_vars => Prompt'
<1>. SUFFICES ASSUME IInv, Prompt, [Next]_vars PROVE Prompt'
  OBVIOUS
<1>1. CASE Begin
  <2>1. UNCHANGED <<bidx, lag>>
    BY <1>1, Zenon DEF Begin
  <2>. QED
    BY <1>1, <2>1, BeginQueue, PromptUnchanged
<1>2. CASE LoopTop
  <2>1. UNCHANGED <<bidx, lag, clock, boost>>
    BY <1>2, Zenon DEF LoopTop
  <2>2. pc' \in {"boost", "select", "panic"} /\ (pc' = "select" => ~BoostDue)
    BY <1>2 DEF LoopTop, Proceed
  <2>3. Mlfq /\ pc' = "select" => clock < boost + lag
    BY <2>2, TimeTypes DEF BoostDue
  <2>. QED
    BY <2>1, <2>2, <2>3 DEF Prompt, LagBounded, OnTime, Mlfq, Policy
<1>3. CASE NextBoost
  <2>1. /\ UNCHANGED <<bidx, lag, clock>> /\ pc' = "select"
        /\ boost' = BoostAfter(clock) /\ pc = "boost"
    BY <1>3 DEF NextBoost
  <2>2. clock < BoostAfter(clock) /\ BoostAfter(clock) \in Nat
    BY <2>1, BoostIsAhead DEF IInv, TypeOK, Shape
  <2>. QED
    BY <2>1, <2>2, TimeTypes DEF Prompt, LagBounded, OnTime
<1>4. CASE Select
  <2>1. /\ UNCHANGED <<bidx, lag, clock, boost>> /\ pc = "select"
        /\ pc' \in {"launch", "finish"}
    BY <1>4 DEF Select
  <2>. QED
    BY <2>1 DEF Prompt, LagBounded, OnTime, Mlfq, Policy
<1>5. CASE Launch
  BY <1>5, LaunchPrompt
<1>6. CASE SetDeadline
  <2>1. /\ UNCHANGED <<bidx, lag, clock, boost>> /\ pc = "deadline" /\ pc' = "enter"
        /\ deadline' = clock + available
    BY <1>6 DEF SetDeadline
  <2>. QED
    BY <2>1 DEF Prompt, LagBounded, OnTime, Mlfq, Policy
<1>7. CASE Enter
  BY <1>7, EnterPrompt
<1>8. CASE UserRun \/ TimerInterrupt
  <2>1. /\ UNCHANGED <<bidx, lag, clock, boost, stie, mtimecmp>> /\ pc = "user"
        /\ pc' \in {"user", "trap"}
    BY <1>8 DEF UserRun, UserStep, UserEcall, UserIllegal, TimerInterrupt, kernelVars,
                timerVars, timeVars, batchVars
  <2>. QED
    BY <2>1 DEF Prompt, LagBounded, OnTime, Mlfq, Policy
<1>9. CASE Handle
  <2>1. UNCHANGED <<bidx, lag>>
    BY <1>9, Zenon DEF Handle, batchVars, timeVars
  <2>2. pc' \in {"account", "panic"}
    BY <1>9, Zenon DEF Handle, Proceed
  <2>. QED
    BY <2>1, <2>2, PromptUnchanged
<1>10. CASE Retire \/ OnYield \/ OnSyscall \/ OnTimer
  <2>1. UNCHANGED <<bidx, lag>>
    BY <1>10 DEF Retire, OnYield, OnSyscall, OnTimer, Settle, EndOfPass, batchVars, timeVars
  <2>2. pc' \in {"loop", "panic"}
    BY <1>10 DEF Retire, OnYield, OnSyscall, OnTimer, Settle, Proceed
  <2>. QED
    BY <2>1, <2>2, PromptUnchanged
<1>11. CASE Finish
  <2>1. lag' = lag /\ pc' \in {"begin", "halt", "panic"}
    BY <1>11 DEF Finish, Proceed, timeVars
  <2>. QED
    BY <2>1 DEF Prompt, LagBounded, OnTime
<1>12. CASE Tick
  BY <1>12, TickPrompt
<1>13. CASE UNCHANGED vars
  BY <1>13 DEF vars, timeVars, passVars, timerVars, batchVars, Prompt, LagBounded, OnTime,
               Mlfq, Policy
<1>. QED
  BY <1>1, <1>2, <1>3, <1>4, <1>5, <1>6, <1>7, <1>8, <1>9, <1>10, <1>11, <1>12, <1>13
     DEF Next, KernelStep, Stopped

(* No program runs longer past a due boost than one late pass of the loop  *)
(* and one late interrupt: the slice is cut at the boost when the deadline *)
(* is computed (scheduler.rs:359-364), and the loop restarts the levels    *)
(* before it lets anybody run.                                             *)
THEOREM BoostIsPrompt == Spec => []BoostServedPromptly
<1>1. Init => Prompt
  BY SchedulerAssumption DEF Init, Prompt, LagBounded, OnTime
<1>2. IInv /\ Prompt => BoostServedPromptly
  BY TimeTypes DEF Prompt, LagBounded, OnTime, BoostServedPromptly
<1>. QED
  BY <1>1, <1>2, NextPrompt, Invariance, PTL DEF Spec

(***************************************************************************)
(* The stopwatch.  What the kernel has charged a task and the ticks it has *)
(* not charged yet cover the ticks the task really ran, whatever trapped   *)
(* in between; and the timer lets it run no longer than what it has left.  *)
(***************************************************************************)
(* Ticks of the current task that are still to be charged.                 *)
Uncharged == IF pc \in {"user", "trap"} THEN clock - entered
             ELSE IF pc = "account" THEN Delta ELSE 0

(* The instant the loop goes by.                                           *)
Now == IF pc = "account" THEN event.time ELSE clock

HTypes == spent \in [Ids -> Nat] /\ tenure \in Nat

Course == (pc = "account" => event.time <= clock) /\ (pc = "deadline" => Mlfq)

(* A program runs until its timer is due, and as long as the interrupt is  *)
(* late.                                                                   *)
Stint == pc = "user" => \/ clock <= entered + lag
                        \/ stie /\ clock <= mtimecmp + lag

(* The timer is set within what is left of the allotment.                  *)
Aim == Mlfq =>
    /\ pc \in {"deadline", "enter", "user"} => available \in 1..allot[current]
    /\ pc = "enter" => deadline <= clock + available
    /\ pc = "user" => stie /\ mtimecmp <= entered + available

AllotKeptBy(i) ==
    /\ spent[i] + allot[i] <= AllotOf(level[i]) + (IF i = current THEN Uncharged ELSE 0)
    /\ spent[i] <= AllotOf(level[i]) + KLAG

AllotKept == Mlfq => \A i \in Ids : state[i] # "Done" /\ level[i] < 2 => AllotKeptBy(i)

SliceKept ==
    Mlfq /\ current # NoTask =>
        tenure + slice[current] <= SliceOf(level[current]) + Uncharged

TurnKept ==
    Policy = "Rr" /\ current # NoTask =>
        /\ tenure + deadline <= Now + T
        /\ pc = "loop" => tenure < T

Timing == Course /\ Stint /\ Aim

LEMMA StopwatchTypes ==
  ASSUME IInv, HTypes
  PROVE  /\ Uncharged \in Nat /\ Now \in Nat /\ T \in Nat \ {0} /\ tenure \in Nat
         /\ \A i \in Ids : /\ spent[i] \in Nat /\ allot[i] \in Nat /\ slice[i] \in Nat
                           /\ level[i] \in 0..2
                           /\ SliceOf(level[i]) \in Nat /\ AllotOf(level[i]) \in Nat
         /\ current \in Ids \cup {NoTask} /\ NoTask \notin Ids
<1>1. Uncharged \in Nat
  <2>1. pc = "account" => Delta \in Nat
    BY DEF Delta, IInv, TypeOK, Shape, Events
  <2>2. pc \in {"user", "trap"} => clock - entered \in Nat
    BY DEF IInv, TypeOK, Shape
  <2>. QED
    BY <2>1, <2>2 DEF Uncharged
<1>2. Now \in Nat
  BY DEF Now, IInv, TypeOK, Events
<1>3. \A i \in Ids : /\ spent[i] \in Nat /\ allot[i] \in Nat /\ slice[i] \in Nat
                     /\ level[i] \in 0..2
  BY DEF HTypes, IInv, TypeOK
<1>4. \A i \in Ids : SliceOf(level[i]) \in Nat /\ AllotOf(level[i]) \in Nat
  BY <1>3, BudgetFacts
<1>5. current \in Ids \cup {NoTask} /\ NoTask \notin Ids
  BY NAssumption DEF IInv, TypeOK, NoTask, Ids
<1>. QED
  BY <1>1, <1>2, <1>3, <1>4, <1>5, SchedulerAssumption DEF HTypes

(* Steps that neither begin a level nor run a program leave the stopwatch  *)
(* as it is.                                                               *)
LEMMA HistoryQuiet ==
  ASSUME HTypes, HNext, pc # "user" \/ clock' = clock,
         \/ pc' = pc
         \/ pc \notin {"begin", "loop", "account"}
         \/ pc = "loop" /\ pc' # "boost"
  PROVE  spent' = spent /\ (current # NoTask => tenure' = tenure) /\ HTypes'
<1>1. ~UserTick /\ \A i \in Ids : ~LevelBegins(i)
  BY DEF UserTick, LevelBegins
<1>2. spent' = [i \in Ids |-> spent[i]] /\ tenure' = IF current # NoTask THEN tenure ELSE 0
  <2>1. ~(pc = "loop" /\ pc' = "boost")
    OBVIOUS
  <2>. QED
    BY <1>1, <2>1 DEF HNext
<1>. QED
  BY <1>2 DEF HTypes

LEMMA StopwatchCarried ==
  ASSUME IInv, HTypes, AllotKept, SliceKept, TurnKept,
         spent' = spent, current # NoTask => tenure' = tenure, HTypes',
         UNCHANGED <<bidx, level, slice, allot, current, state>>,
         deadline' = deadline \/ Mlfq,
         Uncharged' \in Int, Uncharged <= Uncharged', Now' \in Int, Now <= Now',
         pc' # "loop" \/ pc = "loop"
  PROVE  AllotKept' /\ SliceKept' /\ TurnKept'
<1>0. (Mlfq' <=> Mlfq) /\ Policy' = Policy
  BY DEF Mlfq, Policy
<1>1. AllotKept'
  <2>1. ASSUME NEW i \in Ids, AllotKeptBy(i) PROVE AllotKeptBy(i)'
    <3>1. /\ spent'[i] = spent[i] /\ allot'[i] = allot[i] /\ level'[i] = level[i]
          /\ current' = current
      OBVIOUS
    <3>. QED
      BY <2>1, <3>1, StopwatchTypes DEF AllotKeptBy
  <2>. QED
    BY <1>0, <2>1 DEF AllotKept
<1>2. SliceKept'
  <2>. SUFFICES ASSUME Mlfq, current # NoTask
                PROVE  tenure + slice[current] <= SliceOf(level[current]) + Uncharged'
    BY <1>0 DEF SliceKept
  <2>. QED
    BY StopwatchTypes DEF SliceKept
<1>3. TurnKept'
  <2>1. Policy = "Rr" => deadline' = deadline
    BY DEF Mlfq
  <2>. QED
    BY <1>0, <2>1, StopwatchTypes, TimeTypes DEF TurnKept
<1>. QED
  BY <1>1, <1>2, <1>3

LEMMA LaunchTiming == ASSUME IInv, Budgets, Timing, Launch PROVE Timing'
<1>1. UNCHANGED <<bidx, allot, current>> /\ pc = "launch"
  BY DEF Launch
<1>2. CASE Mlfq
  <2> DEFINE left == Monus(boost, clock)
             budget == Least(Least(slice[current], allot[current]), left)
  <2>1. available' = (IF budget = 0 THEN 1 ELSE budget) /\ pc' = "deadline"
    BY <1>2 DEF Launch
  <2>2. current \in Ids /\ state[current] # "Done"
    BY <1>1, CurrentFacts DEF TaskPCs, IInv, QueueConsistent
  <2>3. allot[current] \in Nat \ {0} /\ slice[current] \in Nat /\ left \in Nat
    <3>1. allot[current] # 0
      BY <1>1, <1>2, <2>2 DEF Budgets, BatchPCs, PCs, Budgeted
    <3>2. left \in Nat
      BY TimeTypes DEF Monus
    <3>. QED
      BY <1>1, <3>1, <3>2, CurrentFacts DEF TaskPCs
  <2>. HIDE DEF left
  <2>4. budget \in 0..allot[current]
    BY <2>3 DEF Least
  <2>. HIDE DEF budget
  <2>5. available' \in 1..allot[current]
    BY <2>1, <2>3, <2>4
  <2>. QED
    BY <1>1, <1>2, <2>1, <2>5 DEF Timing, Course, Stint, Aim, Mlfq, Policy
<1>3. CASE ~Mlfq
  <2>1. pc' = "enter"
    BY <1>3 DEF Launch
  <2>. QED
    BY <1>1, <1>3, <2>1 DEF Timing, Course, Stint, Aim, Mlfq, Policy
<1>. QED
  BY <1>2, <1>3

LEMMA EnterTiming == ASSUME IInv, Timing, Enter PROVE Timing'
<1>1. /\ UNCHANGED <<bidx, clock, available, allot, current>>
      /\ pc = "enter" /\ pc' = "user" /\ lag' = 0 /\ entered' = clock
      /\ ArmsTimer => stie' = TRUE /\ mtimecmp' = deadline
  BY DEF Enter
<1>2. Mlfq => ArmsTimer
  BY DEF ArmsTimer, Timed, Mlfq
<1>3. Mlfq' = Mlfq
  BY <1>1 DEF Mlfq, Policy
<1>. QED
  BY <1>1, <1>2, <1>3, TimeTypes DEF Timing, Course, Stint, Aim

LEMMA TickTiming == ASSUME IInv, Timing, Tick PROVE Timing'
<1>1. /\ UNCHANGED <<bidx, pc, deadline, available, entered, event, stie, mtimecmp, allot,
                     current>>
      /\ clock' = clock + 1
      /\ lag' = IF Lagging THEN lag + 1 ELSE lag
  BY DEF Tick
<1>2. Mlfq' = Mlfq
  BY <1>1 DEF Mlfq, Policy
<1>3. Course'
  BY <1>1, <1>2, TimeTypes DEF Timing, Course, IInv, TypeOK, Events
<1>4. Stint'
  <2>. SUFFICES ASSUME pc = "user" PROVE Stint'
    BY <1>1 DEF Stint
  <2>1. CASE Lagging
    BY <1>1, <2>1, TimeTypes DEF Timing, Stint
  <2>2. CASE ~Lagging
    BY <1>1, <2>2, TimeTypes DEF Stint, Lagging, InterruptDue
  <2>. QED
    BY <2>1, <2>2
<1>5. Aim'
  BY <1>1, <1>2, TimeTypes DEF Timing, Aim
<1>. QED
  BY <1>3, <1>4, <1>5 DEF Timing

LEMMA NextTiming == IInv /\ Budgets /\ Timing /\ [Next]_vars => Timing'
<1>. SUFFICES ASSUME IInv, Budgets, Timing, [Next]_vars PROVE Timing'
  OBVIOUS
<1>1. ASSUME pc' \notin {"deadline", "enter", "user", "account"} PROVE Timing'
  BY <1>1 DEF Timing, Course, Stint, Aim
<1>2. CASE Begin \/ LoopTop \/ NextBoost \/ Select \/ Finish
  <2>1. pc' \notin {"deadline", "enter", "user", "account"}
    BY <1>2 DEF Begin, LoopTop, NextBoost, Select, Finish, Proceed
  <2>. QED
    BY <1>1, <2>1
<1>3. CASE Launch
  BY <1>3, LaunchTiming
<1>4. CASE SetDeadline
  <2>1. /\ UNCHANGED <<bidx, clock, available, allot, current>> /\ pc = "deadline"
        /\ pc' = "enter" /\ deadline' = clock + available
    BY <1>4 DEF SetDeadline
  <2>2. Mlfq' = Mlfq
    BY <2>1 DEF Mlfq, Policy
  <2>. QED
    BY <2>1, <2>2, TimeTypes DEF Timing, Course, Stint, Aim
<1>5. CASE Enter
  BY <1>5, EnterTiming
<1>6. CASE UserRun \/ TimerInterrupt
  <2>1. /\ UNCHANGED <<bidx, lag, clock, entered, available, allot, current, stie, mtimecmp>>
        /\ pc = "user" /\ pc' \in {"user", "trap"}
    BY <1>6 DEF UserRun, UserStep, UserEcall, UserIllegal, TimerInterrupt
  <2>2. Mlfq' = Mlfq
    BY <2>1 DEF Mlfq, Policy
  <2>. QED
    BY <2>1, <2>2 DEF Timing, Course, Stint, Aim
<1>7. CASE Handle
  <2>1. clock' = clock /\ event' = Outcome /\ pc = "trap" /\ pc' \in {"account", "panic"}
    BY <1>7, Zenon DEF Handle, Proceed
  <2>2. event'.time = clock
    BY <2>1, OutcomeTime DEF IInv
  <2>. QED
    BY <2>1, <2>2, TimeTypes DEF Timing, Course, Stint, Aim
<1>8. CASE Retire \/ OnYield \/ OnSyscall \/ OnTimer
  <2>1. pc' \in {"loop", "panic"}
    BY <1>8 DEF Retire, OnYield, OnSyscall, OnTimer, Settle, Proceed
  <2>. QED
    BY <1>1, <2>1
<1>9. CASE Tick
  BY <1>9, TickTiming
<1>10. CASE UNCHANGED vars
  BY <1>10 DEF vars, Timing, Course, Stint, Aim, Mlfq, Policy
<1>. QED
  BY <1>2, <1>3, <1>4, <1>5, <1>6, <1>7, <1>8, <1>9, <1>10 DEF Next, KernelStep, Stopped

Kept == HTypes /\ AllotKept /\ SliceKept /\ TurnKept

LEMMA QuietKept ==
  ASSUME IInv, Kept, HNext, pc # "user" \/ clock' = clock,
         \/ pc' = pc
         \/ pc \notin {"begin", "loop", "account"}
         \/ pc = "loop" /\ pc' # "boost",
         UNCHANGED <<bidx, level, slice, allot, current, state>>,
         deadline' = deadline \/ Mlfq,
         Uncharged' \in Int, Uncharged <= Uncharged', Now' \in Int, Now <= Now',
         pc' # "loop" \/ pc = "loop"
  PROVE  Kept'
<1>1. spent' = spent /\ (current # NoTask => tenure' = tenure) /\ HTypes'
  BY HistoryQuiet DEF Kept
<1>. QED
  BY <1>1, StopwatchCarried DEF Kept

LEMMA BeginKept == ASSUME IInv, Kept, HNext, Begin PROVE Kept'
<1>1. /\ pc = "begin" /\ pc' = "loop" /\ current' = NoTask
      /\ level' = [i \in Ids |-> 0] /\ allot' = [i \in Ids |-> 2 * T]
  <2>1. pc' = "loop"
    BY BeginQueue
  <2>. QED
    BY <2>1, Zenon DEF Begin
<1>2. spent' = [i \in Ids |-> 0]
  BY <1>1 DEF HNext, LevelBegins
<1>3. tenure' \in Nat
  BY DEF HNext, Kept, HTypes
<1>4. HTypes'
  BY <1>2, <1>3 DEF HTypes
<1>5. AllotKept'
  <2>1. ASSUME NEW i \in Ids PROVE AllotKeptBy(i)'
    <3>1. spent'[i] = 0 /\ level'[i] = 0 /\ allot'[i] = 2 * T /\ AllotOf(0) = 2 * T
      BY <1>1, <1>2 DEF AllotOf
    <3>2. i # current' /\ T \in Nat /\ KLAG \in Nat
      BY <1>1, StopwatchTypes, TimeTypes DEF Kept
    <3>. HIDE DEF AllotOf
    <3>. QED
      BY <3>1, <3>2 DEF AllotKeptBy
  <2>. QED
    BY <2>1 DEF AllotKept
<1>. QED
  BY <1>1, <1>4, <1>5 DEF Kept, SliceKept, TurnKept

LEMMA LoopTopKept == ASSUME IInv, Kept, HNext, LoopTop PROVE Kept'
<1>1. /\ UNCHANGED <<bidx, current, state, deadline, clock>> /\ pc = "loop"
      /\ pc' = (IF BoostDue THEN "boost" ELSE "select")
  <2>1. UNCHANGED <<bidx, current, state, deadline, clock>> /\ pc = "loop"
    BY Zenon DEF LoopTop
  <2>2. pc' = (IF BoostDue THEN "boost" ELSE "select")
    BY LoopTopPasses DEF LoopTop, Proceed
  <2>. QED
    BY <2>1, <2>2
<1>2. Uncharged = 0 /\ Uncharged' = 0 /\ Now = clock /\ Now' = clock
  BY <1>1 DEF Uncharged, Now
<1>3. (Mlfq' <=> Mlfq) /\ Policy' = Policy
  BY <1>1 DEF Mlfq, Policy
<1>4. CASE BoostDue
  <2>1. /\ level' = [i \in Ids |-> IF i \in {j \in Tasks : state[j] # "Done"}
                                   THEN 0 ELSE level[i]]
        /\ slice' = [i \in Ids |-> IF i \in {j \in Tasks : state[j] # "Done"}
                                   THEN SliceOf(0) ELSE slice[i]]
        /\ allot' = [i \in Ids |-> IF i \in {j \in Tasks : state[j] # "Done"}
                                   THEN AllotOf(0) ELSE allot[i]]
    BY <1>4, Zenon DEF LoopTop
  <2>2. \A i \in Ids : state[i] # "Done" =>
            level'[i] = 0 /\ slice'[i] = SliceOf(0) /\ allot'[i] = AllotOf(0)
    BY <1>1, <2>1 DEF IInv, Shape
  <2>3. tenure' = 0
    BY <1>1, <1>4 DEF HNext, UserTick
  <2>4. spent' = [i \in Ids |-> IF state[i] # "Done" THEN 0 ELSE spent[i]]
    BY <1>1, <1>4 DEF HNext, UserTick, LevelBegins
  <2>5. HTypes'
    BY <2>3, <2>4 DEF HTypes, Kept
  <2>6. SliceOf(0) \in Nat /\ AllotOf(0) \in Nat
    BY BudgetFacts
  <2>7. AllotKept'
    <3>1. ASSUME NEW i \in Ids, state[i] # "Done" PROVE AllotKeptBy(i)'
      <4>1. spent'[i] = 0 /\ level'[i] = 0 /\ allot'[i] = AllotOf(0)
        BY <2>2, <2>4, <3>1
      <4>. QED
        BY <1>2, <2>6, <4>1, TimeTypes DEF AllotKeptBy
    <3>. QED
      BY <1>1, <3>1 DEF AllotKept
  <2>8. SliceKept'
    <3>. SUFFICES ASSUME current # NoTask
                  PROVE  tenure' + slice'[current] <= SliceOf(level'[current]) + Uncharged'
      BY <1>1 DEF SliceKept
    <3>1. current \in Ids /\ state[current] # "Done"
      BY DEF IInv, TypeOK, QueueConsistent
    <3>. QED
      BY <1>2, <2>2, <2>3, <2>6, <3>1
  <2>9. TurnKept'
    BY <1>1, <1>3, <1>4 DEF TurnKept, BoostDue, Mlfq
  <2>. QED
    BY <2>5, <2>7, <2>8, <2>9 DEF Kept
<1>5. CASE ~BoostDue
  <2>1. UNCHANGED <<level, slice, allot>>
    BY <1>5, Zenon DEF LoopTop
  <2>. QED
    BY <1>1, <1>2, <1>5, <2>1, QuietKept, TimeTypes
<1>. QED
  BY <1>4, <1>5

(* A task that is dispatched starts its tenure with a full slice at most   *)
(* and, under round robin, with a whole quantum before its deadline.       *)
LEMMA SelectKept == ASSUME IInv, Budgets, Kept, HNext, Select PROVE Kept'
<1>1. UNCHANGED <<bidx, level, slice, allot, clock, event, entered>> /\ pc = "select"
      /\ pc' \in {"launch", "finish"}
  BY DEF Select
<1>2. Uncharged = 0 /\ Uncharged' = 0 /\ Now = clock /\ Now' = clock
  BY <1>1 DEF Uncharged, Now
<1>3. CASE UNCHANGED <<current, state, deadline>>
  BY <1>1, <1>2, <1>3, QuietKept, TimeTypes
<1>4. CASE ~UNCHANGED <<current, state, deadline>>
  <2>1. /\ current = NoTask
        /\ \E p \in Positions(ready) :
              /\ current' = ready.ids[p]
              /\ state' = [state EXCEPT ![ready.ids[p]] = "Running"]
              /\ deadline' = clock + T
    BY <1>4 DEF Select
  <2>2. \A p \in Positions(ready) : ready.ids[p] \in Ids /\ state[ready.ids[p]] = "Ready"
    BY QueueShape DEF IInv, TypeOK, QueueConsistent, Members
  <2>3. /\ current' \in Ids /\ state[current'] = "Ready" /\ deadline' = clock + T
        /\ \A i \in Ids : state'[i] # "Done" => state[i] # "Done"
    BY <2>1, <2>2 DEF IInv, TypeOK
  <2>4. spent' = spent /\ HTypes'
    BY <1>1, HistoryQuiet DEF Kept
  <2>5. tenure' = 0
    BY <1>1, <2>1 DEF HNext, UserTick
  <2>6. AllotKept'
    <3>1. ASSUME NEW i \in Ids, AllotKeptBy(i) PROVE AllotKeptBy(i)'
      <4>1. /\ spent'[i] = spent[i] /\ allot'[i] = allot[i] /\ level'[i] = level[i]
            /\ i # current
        BY <1>1, <2>1, <2>4, StopwatchTypes DEF Kept
      <4>. QED
        BY <1>2, <3>1, <4>1, StopwatchTypes DEF AllotKeptBy, Kept
    <3>. QED
      BY <1>1, <2>3, <3>1 DEF AllotKept, Kept, Mlfq, Policy
  <2>7. SliceKept'
    <3>. SUFFICES ASSUME Mlfq
                  PROVE  slice[current'] <= SliceOf(level[current'])
      BY <1>1, <1>2, <2>3, <2>5, StopwatchTypes DEF SliceKept, Mlfq, Policy, Kept
    <3>1. slice[current'] \in 1..SliceOf(level[current'])
      BY <1>1, <2>3 DEF Budgets, Budgeted, BatchPCs, PCs
    <3>. QED
      BY <2>3, <3>1, StopwatchTypes DEF Kept
  <2>8. TurnKept'
    BY <1>1, <1>2, <2>3, <2>5, TimeTypes, SchedulerAssumption DEF TurnKept
  <2>. QED
    BY <2>4, <2>6, <2>7, <2>8 DEF Kept
<1>. QED
  BY <1>3, <1>4

LEMMA UserTickKept ==
  ASSUME IInv, Prompt, Timing, Kept, HNext, Tick, pc = "user"
  PROVE  Kept'
<1>1. /\ UNCHANGED <<bidx, pc, deadline, available, entered, level, slice, allot, current,
                     state>>
      /\ clock' = clock + 1
  BY DEF Tick
<1>2. UserTick /\ (\A i \in Ids : ~LevelBegins(i))
  BY <1>1, TimeTypes DEF UserTick, LevelBegins
<1>3. /\ spent' = [i \in Ids |-> IF i = current THEN spent[i] + 1 ELSE spent[i]]
      /\ tenure' = tenure + 1
  BY <1>2 DEF HNext
<1>4. HTypes'
  BY <1>3 DEF HTypes, Kept
<1>5. /\ Uncharged = clock - entered /\ Uncharged' = Uncharged + 1
      /\ Now = clock /\ Now' = Now + 1
  BY <1>1, TimeTypes DEF Uncharged, Now
<1>6. (Mlfq' <=> Mlfq) /\ Policy' = Policy
  BY <1>1 DEF Mlfq, Policy
<1>7. current \in Ids
  BY CurrentFacts DEF TaskPCs
<1>8. Mlfq => Uncharged' <= allot[current] + KLAG
  <2>1. Timing'
    BY TickTiming
  <2>2. lag' \in 0..KLAG
    BY TickPrompt DEF Prompt, LagBounded
  <2>3. clock' <= entered + lag' \/ clock' <= mtimecmp + lag'
    <3>1. mtimecmp' = mtimecmp
      BY DEF Tick
    <3>. QED
      BY <1>1, <2>1, <3>1 DEF Timing, Stint
  <2>4. Mlfq => available \in 1..allot[current] /\ mtimecmp <= entered + available
    BY DEF Timing, Aim
  <2>. QED
    BY <1>1, <1>5, <1>7, <2>2, <2>3, <2>4, TimeTypes, StopwatchTypes DEF Kept
<1>9. AllotKept'
  <2>1. ASSUME NEW i \in Ids, AllotKeptBy(i), Mlfq PROVE AllotKeptBy(i)'
    <3>1. CASE i = current
      <4>1. spent'[i] = spent[i] + 1
        BY <1>3, <3>1
      <4>. QED
        BY <1>1, <1>5, <1>8, <2>1, <3>1, <4>1, TimeTypes, StopwatchTypes DEF AllotKeptBy, Kept
    <3>2. CASE i # current
      <4>1. spent'[i] = spent[i]
        BY <1>3, <3>2
      <4>. QED
        BY <1>1, <2>1, <3>2, <4>1 DEF AllotKeptBy
    <3>. QED
      BY <3>1, <3>2
  <2>. QED
    BY <1>1, <1>6, <2>1 DEF AllotKept, Kept
<1>10. SliceKept'
  BY <1>1, <1>3, <1>5, <1>6, <1>7, StopwatchTypes DEF SliceKept, Kept
<1>11. TurnKept'
  BY <1>1, <1>3, <1>5, <1>6, StopwatchTypes, TimeTypes DEF TurnKept, Kept
<1>. QED
  BY <1>4, <1>9, <1>10, <1>11 DEF Kept

(* What the accounting of a trap leaves of the stopwatch.                  *)
LEMMA AccountHistory ==
  ASSUME IInv, Kept, HNext, pc = "account", pc' \in {"loop", "panic"}
  PROVE  /\ spent' = [i \in Ids |-> IF level'[i] # level[i] THEN 0 ELSE spent[i]]
         /\ current # NoTask /\ tenure' = tenure
         /\ HTypes' /\ Uncharged = Delta /\ Uncharged' = 0
         /\ Now = event.time /\ Now' = clock'
<1>1. ~UserTick /\ \A i \in Ids : LevelBegins(i) <=> level'[i] # level[i]
  BY DEF UserTick, LevelBegins
<1>2. spent' = [i \in Ids |-> IF level'[i] # level[i] THEN 0 ELSE spent[i]]
  BY <1>1 DEF HNext
<1>3. current # NoTask
  BY CurrentFacts, StopwatchTypes DEF TaskPCs, Kept
<1>4. tenure' = tenure
  BY <1>1, <1>3 DEF HNext
<1>5. HTypes'
  BY <1>2, <1>4 DEF HTypes, Kept
<1>. QED
  BY <1>2, <1>3, <1>4, <1>5 DEF Uncharged, Now

LEMMA RetireKept == ASSUME IInv, Kept, HNext, Retire PROVE Kept'
<1>1. /\ UNCHANGED <<bidx, level>> /\ pc = "account" /\ pc' \in {"loop", "panic"}
      /\ state' = [state EXCEPT ![current] = "Done"] /\ current' = NoTask
      /\ allot' = [allot EXCEPT ![current] = ChargedAllot]
  BY DEF Retire, EndOfPass, Proceed
<1>2. spent' = [i \in Ids |-> spent[i]] /\ HTypes' /\ Uncharged' = 0
  BY <1>1, AccountHistory
<1>3. AllotKept'
  <2>1. ASSUME NEW i \in Ids, state'[i] # "Done"
        PROVE  i # current /\ state[i] # "Done" /\ allot'[i] = allot[i] /\ spent'[i] = spent[i]
    BY <1>1, <1>2, <2>1 DEF IInv, TypeOK
  <2>2. ASSUME NEW i \in Ids, AllotKeptBy(i), state'[i] # "Done" PROVE AllotKeptBy(i)'
    BY <1>1, <1>2, <2>1, <2>2, StopwatchTypes DEF AllotKeptBy, Kept
  <2>. QED
    BY <1>1, <2>1, <2>2 DEF AllotKept, Kept, Mlfq, Policy
<1>. QED
  BY <1>1, <1>2, <1>3 DEF Kept, SliceKept, TurnKept

LEMMA SettleKept ==
  ASSUME IInv, Timing, Kept, HNext, pc = "account", NEW asked \in BOOLEAN, Settle(asked),
         Policy = "Rr" => deadline' = deadline
  PROVE  Kept'
<1> DEFINE i == current
           to == IF Demotes THEN level[current] + 1 ELSE level[current]
<1>0. /\ i \in Ids /\ level[i] \in 0..2 /\ slice[i] \in Nat /\ allot[i] \in Nat
      /\ level \in [Ids -> 0..2] /\ slice \in [Ids -> Nat] /\ allot \in [Ids -> Nat]
      /\ state \in [Ids -> {"Ready", "Running", "Done"}] /\ state[i] = "Running"
  BY CurrentFacts DEF TaskPCs, IInv, TypeOK, QueueConsistent
<1>1. /\ level' = [level EXCEPT ![i] = to]
      /\ slice' = [slice EXCEPT ![i] = IF Demotes \/ Refills THEN SliceOf(to) ELSE ChargedSlice]
      /\ allot' = [allot EXCEPT ![i] = IF Demotes THEN AllotOf(to) ELSE ChargedAllot]
      /\ UNCHANGED <<bidx, clock>> /\ pc' \in {"loop", "panic"}
      /\ \/ current' = NoTask
         \/ /\ current' = current /\ state' = state
            /\ ~Demotes /\ ~Refills /\ ~Expires
      /\ \A j \in Ids : state'[j] # "Done" => state[j] # "Done"
  <2>1. /\ level' = [level EXCEPT ![i] = to]
        /\ slice' = [slice EXCEPT ![i] = IF Demotes \/ Refills THEN SliceOf(to)
                                         ELSE ChargedSlice]
        /\ allot' = [allot EXCEPT ![i] = IF Demotes THEN AllotOf(to) ELSE ChargedAllot]
    BY DEF Settle
  <2>2. UNCHANGED <<bidx, clock>> /\ pc' \in {"loop", "panic"}
    BY DEF Settle, EndOfPass, Proceed
  <2>3. \/ current' = NoTask /\ state' = [state EXCEPT ![current] = "Ready"]
        \/ /\ current' = current /\ state' = state
           /\ ~Demotes /\ ~Refills /\ ~Expires
    BY DEF Settle
  <2>4. \A j \in Ids : state'[j] # "Done" => state[j] # "Done"
    BY <1>0, <2>3
  <2>. QED
    BY <2>1, <2>2, <2>3, <2>4
<1>2. Delta \in Nat
  BY DEF Delta, IInv, TypeOK, Shape, Events
<1>3. /\ spent' = [j \in Ids |-> IF level'[j] # level[j] THEN 0 ELSE spent[j]]
      /\ tenure' = tenure /\ HTypes' /\ Uncharged = Delta /\ Uncharged' = 0
      /\ Now = event.time /\ Now' = clock
  BY <1>1, AccountHistory
<1>4. \A j \in Ids : j # i => /\ UNCHANGED <<level[j], slice[j], allot[j]>>
                              /\ spent'[j] = spent[j]
  BY <1>0, <1>1, <1>3
<1>5. /\ level'[i] = to
      /\ slice'[i] = (IF Demotes \/ Refills THEN SliceOf(to) ELSE ChargedSlice)
      /\ allot'[i] = (IF Demotes THEN AllotOf(to) ELSE ChargedAllot)
      /\ spent'[i] = (IF Demotes THEN 0 ELSE spent[i])
  BY <1>0, <1>1, <1>3
<1>6. to \in 0..2 /\ AllotOf(to) \in Nat /\ SliceOf(to) \in Nat
  <2>1. to \in 0..2
    BY <1>0 DEF Demotes
  <2>. QED
    BY <2>1, BudgetFacts
<1>7. (Mlfq' <=> Mlfq) /\ Policy' = Policy
  BY <1>1 DEF Mlfq, Policy
<1>. HIDE DEF to
<1>8. ASSUME Mlfq, level'[i] < 2, level[i] < 2 => AllotKeptBy(i)
      PROVE  spent'[i] + allot'[i] <= AllotOf(level'[i]) /\ spent'[i] <= AllotOf(level'[i]) + KLAG
  <2>1. CASE Demotes
    BY <1>5, <1>6, <2>1, TimeTypes
  <2>2. CASE ~Demotes
    <3>1. to = level[i] /\ level[i] < 2
      BY <1>5, <1>8, <2>2 DEF to
    <3>2. ChargedAllot # 0 /\ ChargedAllot = Monus(allot[i], Delta)
      BY <1>8, <2>2, <3>1 DEF Demotes, ChargedAllot
    <3>3. ChargedAllot = allot[i] - Delta
      BY <1>0, <1>2, <3>2 DEF Monus
    <3>4. /\ spent[i] + allot[i] <= AllotOf(level[i]) + Delta
          /\ spent[i] <= AllotOf(level[i]) + KLAG
      BY <1>3, <1>8, <3>1 DEF AllotKeptBy
    <3>5. spent[i] \in Nat
      BY <1>0, StopwatchTypes DEF Kept
    <3>. QED
      BY <1>0, <1>2, <1>5, <1>6, <2>2, <3>1, <3>3, <3>4, <3>5
  <2>. QED
    BY <2>1, <2>2
<1>9. AllotKept'
  <2>1. ASSUME NEW j \in Ids, Mlfq, level'[j] < 2, level[j] < 2 => AllotKeptBy(j)
        PROVE  AllotKeptBy(j)'
    <3>1. CASE j = i
      BY <1>3, <1>5, <1>6, <1>8, <2>1, <3>1 DEF AllotKeptBy
    <3>2. CASE j # i
      <4>1. /\ spent'[j] = spent[j] /\ allot'[j] = allot[j] /\ level'[j] = level[j]
            /\ AllotKeptBy(j)
        BY <1>4, <2>1, <3>2
      <4>. QED
        BY <1>3, <3>2, <4>1, StopwatchTypes DEF AllotKeptBy, Kept
    <3>. QED
      BY <3>1, <3>2
  <2>. QED
    BY <1>1, <1>7, <2>1 DEF AllotKept, Kept
<1>10. SliceKept'
  <2>. SUFFICES ASSUME Mlfq, current' # NoTask
                PROVE  tenure' + slice'[current'] <= SliceOf(level'[current']) + Uncharged'
    BY <1>7 DEF SliceKept
  <2>1. current' = i /\ ~Demotes /\ ~Refills
    BY <1>1
  <2>2. ChargedSlice = Monus(slice[i], Delta) /\ ChargedSlice # 0 /\ to = level[i]
    BY <2>1 DEF ChargedSlice, Refills, to
  <2>3. ChargedSlice = slice[i] - Delta
    BY <1>0, <1>2, <2>2 DEF Monus
  <2>4. tenure + slice[i] <= SliceOf(level[i]) + Delta
    BY <1>3, <2>1, AccountHistory, <1>1 DEF SliceKept, Kept
  <2>5. tenure \in Nat
    BY DEF Kept, HTypes
  <2>6. slice'[i] = slice[i] - Delta /\ level'[i] = level[i] /\ tenure' = tenure
    BY <1>3, <1>5, <2>1, <2>2, <2>3
  <2>. QED
    BY <1>0, <1>2, <1>3, <1>6, <2>1, <2>2, <2>4, <2>5, <2>6
<1>11. TurnKept'
  <2>. SUFFICES ASSUME Policy = "Rr", current' # NoTask PROVE TurnKept'
    BY <1>7 DEF TurnKept
  <2>1. ~Expires /\ current' = current
    BY <1>1
  <2>2. event.time < deadline
    BY <2>1, TimeTypes DEF Expires, IInv, TypeOK, Events
  <2>3. tenure + deadline <= event.time + T
    BY <1>3, <2>1, AccountHistory, <1>1 DEF TurnKept, Kept
  <2>4. event.time <= clock
    BY DEF Timing, Course
  <2>5. tenure \in Nat /\ T \in Nat /\ event.time \in Nat
    BY SchedulerAssumption DEF Kept, HTypes, IInv, TypeOK, Events
  <2>. QED
    BY <1>3, <2>2, <2>3, <2>4, <2>5, TimeTypes DEF TurnKept
<1>. QED
  BY <1>3, <1>9, <1>10, <1>11 DEF Kept

LEMMA NextKept ==
  ASSUME IInv, Prompt, Budgets, Timing, Kept, [HNext]_hvars
  PROVE  Kept'
<1>0. CASE UNCHANGED hvars
  BY <1>0 DEF hvars, vars, Kept, HTypes, AllotKept, AllotKeptBy, SliceKept, TurnKept,
              Uncharged, Delta, Now, Mlfq, Policy
<1>. SUFFICES ASSUME HNext PROVE Kept'
  BY <1>0
<1>1. CASE Begin
  BY <1>1, BeginKept
<1>2. CASE LoopTop
  BY <1>2, LoopTopKept
<1>3. CASE NextBoost \/ Launch \/ SetDeadline \/ Enter
  <2>1. /\ UNCHANGED <<bidx, level, slice, allot, current, state, clock>>
        /\ pc \in {"boost", "launch", "deadline", "enter"}
        /\ pc' \in {"select", "deadline", "enter", "user"}
        /\ pc' = "user" => entered' = clock
        /\ deadline' = deadline \/ pc = "deadline"
    BY <1>3 DEF NextBoost, Launch, SetDeadline, Enter
  <2>2. deadline' = deadline \/ Mlfq
    BY <2>1 DEF Timing, Course
  <2>3. Uncharged = 0 /\ Uncharged' = 0 /\ Now = clock /\ Now' = clock
    BY <2>1, TimeTypes DEF Uncharged, Now
  <2>. QED
    BY <2>1, <2>2, <2>3, QuietKept, TimeTypes
<1>4. CASE Select
  BY <1>4, SelectKept
<1>5. CASE UserRun \/ TimerInterrupt
  <2>1. /\ UNCHANGED <<bidx, level, slice, allot, current, state, clock, deadline, entered>>
        /\ pc = "user" /\ pc' \in {"user", "trap"}
    BY <1>5 DEF UserRun, UserStep, UserEcall, UserIllegal, TimerInterrupt
  <2>2. Uncharged' = Uncharged /\ Now = clock /\ Now' = clock
    BY <2>1 DEF Uncharged, Now
  <2>3. Uncharged \in Nat
    BY StopwatchTypes DEF Kept
  <2>. QED
    BY <2>1, <2>2, <2>3, QuietKept, TimeTypes
<1>6. CASE Handle
  <2>1. /\ UNCHANGED <<bidx, level, slice, allot, current, state, clock, deadline, entered>>
        /\ pc = "trap" /\ event' = Outcome
    BY <1>6, Zenon DEF Handle
  <2>2. pc' = "account"
    <3>1. regs.sepc \in CodeRange
      BY DEF IInv, TypeOK, Frames
    <3>. QED
      BY <1>6, <3>1, Zenon DEF Handle, Proceed
  <2>3. event'.time = clock
    BY <2>1, OutcomeTime DEF IInv
  <2>4. /\ Uncharged = clock - entered /\ Uncharged' = clock - entered
        /\ Now = clock /\ Now' = clock
    BY <2>1, <2>2, <2>3 DEF Uncharged, Delta, Now
  <2>. QED
    BY <2>1, <2>2, <2>4, QuietKept, TimeTypes
<1>7. CASE Retire
  BY <1>7, RetireKept
<1>8. CASE OnYield \/ OnSyscall \/ OnTimer
  <2>1. pc = "account" /\ (\E asked \in BOOLEAN : Settle(asked))
    BY <1>8 DEF OnYield, OnSyscall, OnTimer
  <2>2. Policy = "Rr" => deadline' = deadline
    BY <1>8 DEF OnYield, OnSyscall, OnTimer
  <2>. QED
    BY <2>1, <2>2, SettleKept
<1>9. CASE Finish
  <2>1. /\ UNCHANGED <<level, slice, allot, current, state, clock>> /\ pc = "finish"
    BY <1>9, Zenon DEF Finish
  <2>2. current' = NoTask /\ \A i \in Ids : state'[i] = "Done"
    <3>1. current = NoTask /\ ready.len = 0
      BY <2>1 DEF IInv, Shape
    <3>2. Members(ready) = {}
      BY <3>1 DEF Members, Positions
    <3>. QED
      BY <2>1, <3>1, <3>2, StopwatchTypes DEF IInv, QueueConsistent, TypeOK, Kept
  <2>3. HTypes'
    BY <2>1, HistoryQuiet DEF Kept
  <2>. QED
    BY <2>2, <2>3 DEF Kept, AllotKept, SliceKept, TurnKept
<1>10. CASE Tick /\ pc = "user"
  BY <1>10, UserTickKept
<1>11. CASE Tick /\ pc # "user"
  <2>1. /\ UNCHANGED <<bidx, level, slice, allot, current, state, deadline, entered, event, pc>>
        /\ clock' = clock + 1
    BY <1>11 DEF Tick
  <2>2. Uncharged \in Nat /\ Now \in Nat
    BY StopwatchTypes DEF Kept
  <2>3. Uncharged' \in Int /\ Uncharged <= Uncharged' /\ Now' \in Int /\ Now <= Now'
    BY <2>1, <2>2, TimeTypes DEF Uncharged, Delta, Now
  <2>. QED
    BY <1>11, <2>1, <2>3, QuietKept, Zenon
<1>12. CASE Stopped
  <2>1. UNCHANGED <<bidx, level, slice, allot, current, state, deadline, entered, event, pc,
                    clock>>
    BY <1>12 DEF Stopped, vars
  <2>2. Uncharged \in Nat /\ Now \in Nat
    BY StopwatchTypes DEF Kept
  <2>3. Uncharged' = Uncharged /\ Now' = Now
    BY <2>1 DEF Uncharged, Delta, Now
  <2>. QED
    BY <2>1, <2>2, <2>3, QuietKept
<1>. QED
  BY <1>1, <1>2, <1>3, <1>4, <1>5, <1>6, <1>7, <1>8, <1>9, <1>10, <1>11, <1>12
     DEF HNext, Next, KernelStep

(* The stopwatch changes nothing: its behaviours are the scheduler's.      *)
LEMMA HistoryIsFaithful == HSpec => Spec
<1>1. HInit => Init
  BY DEF HInit
<1>2. [HNext]_hvars => [Next]_vars
  BY DEF HNext, hvars
<1>. QED
  BY <1>1, <1>2, PTL DEF HSpec, Spec

LEMMA StopwatchHolds == HSpec => [](IInv /\ Budgets /\ Kept)
<1>1. HInit => Init /\ Kept /\ Timing /\ Prompt /\ Budgets
  <2>. SUFFICES ASSUME HInit PROVE Init /\ Kept /\ Timing /\ Prompt /\ Budgets
    OBVIOUS
  <2>1. Init
    BY DEF HInit
  <2>2. current = NoTask /\ pc = "begin" /\ lag = 0 /\ \A i \in Ids : state[i] = "Done"
    BY <2>1 DEF Init
  <2>. QED
    BY <2>1, <2>2, SchedulerAssumption
       DEF HInit, Kept, HTypes, AllotKept, SliceKept, TurnKept, Timing, Course, Stint, Aim,
           Prompt, LagBounded, OnTime, Budgets, BatchPCs
<1>2. [HNext]_hvars => [Next]_vars
  BY DEF HNext, hvars
<1>3. IInv /\ Budgets /\ Timing /\ Prompt /\ Kept /\ [HNext]_hvars
        => Budgets' /\ Timing' /\ Prompt' /\ Kept'
  BY <1>2, NextBudgets, NextTiming, NextPrompt, NextKept
<1>4. HSpec => []IInv
  BY HistoryIsFaithful, Invariance, PTL
<1>. QED
  BY <1>1, <1>3, <1>4, PTL DEF HSpec

(* The rule of lesson 15 that nobody games: on level 0 or 1 no task runs   *)
(* longer in user mode than its allotment and one late interrupt, however  *)
(* it traps (scheduler.rs:359-364, 377-386, 424-433), and the pass that    *)
(* finds the allotment used up demotes it.                                 *)
THEOREM AllotmentsBoundUserTime == HSpec => []AllotmentBoundsUserTime
<1>1. IInv /\ Budgets /\ Kept => AllotmentBoundsUserTime
  <2>. SUFFICES ASSUME IInv, Budgets, Kept, NEW i \in Ids, Mlfq, state[i] # "Done",
                       level[i] < 2
                PROVE  /\ spent[i] <= AllotOf(level[i]) + KLAG
                       /\ pc = "loop" => spent[i] < AllotOf(level[i])
    BY DEF AllotmentBoundsUserTime
  <2>1. AllotKeptBy(i)
    BY DEF Kept, AllotKept
  <2>2. ASSUME pc = "loop" PROVE spent[i] < AllotOf(level[i])
    <3>1. allot[i] \in 1..AllotOf(level[i])
      BY <2>2 DEF Budgets, Budgeted, BatchPCs, PCs
    <3>2. Uncharged = 0
      BY <2>2 DEF Uncharged
    <3>. QED
      BY <2>1, <3>1, <3>2, StopwatchTypes DEF AllotKeptBy, Kept
  <2>. QED
    BY <2>1, <2>2 DEF AllotKeptBy
<1>. QED
  BY <1>1, StopwatchHolds, PTL

(* A call does not renew the quantum (scheduler.rs:366): the task that     *)
(* keeps the processor after one is still inside the quantum, or inside    *)
(* the slice, it was dispatched with.                                      *)
THEOREM CallsKeepTheQuantum == HSpec => []CallsDoNotRenewQuantum
<1>1. IInv /\ Budgets /\ Kept => CallsDoNotRenewQuantum
  <2>. SUFFICES ASSUME IInv, Budgets, Kept, pc = "loop", current # NoTask
                PROVE  /\ Policy = "Rr" => tenure < T
                       /\ Mlfq => tenure < SliceOf(level[current])
    BY DEF CallsDoNotRenewQuantum
  <2>1. Policy = "Rr" => tenure < T
    BY DEF Kept, TurnKept
  <2>2. ASSUME Mlfq PROVE tenure < SliceOf(level[current])
    <3>1. current \in Ids /\ state[current] # "Done"
      BY DEF IInv, TypeOK, QueueConsistent
    <3>2. slice[current] \in 1..SliceOf(level[current])
      BY <2>2, <3>1 DEF Budgets, Budgeted, BatchPCs, PCs
    <3>3. Uncharged = 0
      BY DEF Uncharged
    <3>4. tenure + slice[current] <= SliceOf(level[current]) + Uncharged
      BY <2>2 DEF Kept, SliceKept
    <3>. QED
      BY <3>1, <3>2, <3>3, <3>4, StopwatchTypes DEF Kept
  <2>. QED
    BY <2>1, <2>2
<1>. QED
  BY <1>1, StopwatchHolds, PTL
-----------------------------------------------------------------------------
(***************************************************************************)
(* The refinement: the array, read in its order, is one queue per level.   *)
(***************************************************************************)
(* The order in the array is a line; removing a task, or adding one at the *)
(* end, leaves the others as they stood.                                   *)
LEMMA StandInLine ==
  ASSUME NEW q \in Queues, Unique(q)
  PROVE  /\ \A i, k : Stands(q, i, k) => i \in Members(q) /\ k \in Members(q)
         /\ \A i : ~Stands(q, i, i)
         /\ \A i, k \in Members(q) : i = k \/ Stands(q, i, k) \/ Stands(q, k, i)
         /\ \A i, k, m : Stands(q, i, k) /\ Stands(q, k, m) => Stands(q, i, m)
<1>1. \A p \in Positions(q) : p \in Int
  BY DEF Positions
<1>2. \A i, k : Stands(q, i, k) => i \in Members(q) /\ k \in Members(q)
  BY DEF Stands, Members
<1>3. \A i : ~Stands(q, i, i)
  BY <1>1 DEF Stands, Unique
<1>4. \A i, k \in Members(q) : i = k \/ Stands(q, i, k) \/ Stands(q, k, i)
  <2>. SUFFICES ASSUME NEW p \in Positions(q), NEW o \in Positions(q)
                PROVE  \/ q.ids[p] = q.ids[o]
                       \/ Stands(q, q.ids[p], q.ids[o]) \/ Stands(q, q.ids[o], q.ids[p])
    BY DEF Members
  <2>1. p = o \/ p < o \/ o < p
    BY <1>1
  <2>. QED
    BY <2>1 DEF Stands
<1>5. ASSUME NEW i, NEW k, NEW m, Stands(q, i, k), Stands(q, k, m)
      PROVE  Stands(q, i, m)
  <2>1. PICK p, o \in Positions(q) : p < o /\ q.ids[p] = i /\ q.ids[o] = k
    BY <1>5 DEF Stands
  <2>2. PICK a, b \in Positions(q) : a < b /\ q.ids[a] = k /\ q.ids[b] = m
    BY <1>5 DEF Stands
  <2>3. o = a
    BY <2>1, <2>2 DEF Unique
  <2>4. p < b
    BY <1>1, <2>1, <2>2, <2>3
  <2>. QED
    BY <2>1, <2>2, <2>4 DEF Stands
<1>. QED
  BY <1>2, <1>3, <1>4, <1>5

LEMMA StandAfterRemoval ==
  ASSUME NEW q \in Queues, Unique(q), NEW p \in Positions(q), NEW i, NEW k
  PROVE  Stands(RemoveAt(q, p), i, k) <=> Stands(q, i, k) /\ q.ids[p] \notin {i, k}
<1> DEFINE r == RemoveAt(q, p)
<1>1. /\ q.len \in Nat /\ q.len <= N /\ p \in Int /\ 0 <= p /\ p < q.len
      /\ \A a \in Positions(q) : a \in Int /\ 0 <= a /\ a < q.len
  BY QueueShape DEF Positions
<1>2. \A a \in Positions(r) : /\ a \in Int /\ a \in Positions(q) /\ a + 1 \in Positions(q)
                              /\ r.ids[a] = IF p <= a THEN q.ids[a + 1] ELSE q.ids[a]
  BY <1>1, NAssumption DEF RemoveAt, Positions, Ids
<1>3. ASSUME Stands(r, i, k) PROVE Stands(q, i, k)
  <2>1. PICK a, b \in Positions(r) : a < b /\ r.ids[a] = i /\ r.ids[b] = k
    BY <1>3 DEF Stands
  <2> DEFINE up(x) == IF p <= x THEN x + 1 ELSE x
  <2>2. up(a) \in Positions(q) /\ up(b) \in Positions(q) /\ up(a) < up(b)
    BY <1>1, <1>2, <2>1
  <2>3. q.ids[up(a)] = i /\ q.ids[up(b)] = k
    BY <1>2, <2>1
  <2>. QED
    BY <2>2, <2>3 DEF Stands
<1>4. ASSUME Stands(r, i, k) PROVE q.ids[p] \notin {i, k}
  <2>1. i \in Members(r) /\ k \in Members(r)
    BY <1>4 DEF Stands, Members
  <2>. QED
    BY <2>1, RemoveTakesOne
<1>5. ASSUME Stands(q, i, k), q.ids[p] \notin {i, k} PROVE Stands(r, i, k)
  <2>1. PICK a, b \in Positions(q) : a < b /\ q.ids[a] = i /\ q.ids[b] = k
    BY <1>5 DEF Stands
  <2>2. a # p /\ b # p
    BY <1>5, <2>1
  <2> DEFINE down(x) == IF p < x THEN x - 1 ELSE x
  <2>3. \A x \in Positions(q) : x # p => down(x) \in Positions(r)
    BY <1>1 DEF RemoveAt, Positions
  <2>4. \A x \in Positions(q) : x # p => r.ids[down(x)] = q.ids[x]
    <3>. SUFFICES ASSUME NEW x \in Positions(q), x # p PROVE r.ids[down(x)] = q.ids[x]
      OBVIOUS
    <3>1. r.ids[down(x)] = IF p <= down(x) THEN q.ids[down(x) + 1] ELSE q.ids[down(x)]
      BY <1>2, <2>3
    <3>2. IF p <= down(x) THEN down(x) + 1 = x ELSE down(x) = x
      BY <1>1
    <3>. QED
      BY <3>1, <3>2
  <2>5. down(a) < down(b)
    <3>1. a \in Int /\ b \in Int /\ p \in Int /\ a < b /\ a # p /\ b # p
      BY <1>1, <2>1, <2>2
    <3>. QED
      BY <3>1
  <2>6. /\ down(a) \in Positions(r) /\ down(b) \in Positions(r)
        /\ r.ids[down(a)] = i /\ r.ids[down(b)] = k
    BY <2>1, <2>2, <2>3, <2>4
  <2>. QED
    BY <2>5, <2>6 DEF Stands
<1>. QED
  BY <1>3, <1>4, <1>5

LEMMA StandAfterPush ==
  ASSUME NEW q \in Queues, Unique(q), NEW x \in Ids, x \notin Members(q), NEW i, NEW k
  PROVE  Stands(Push(q, x), i, k) <=> Stands(q, i, k) \/ (i \in Members(q) /\ k = x)
<1> DEFINE r == [ids |-> [q.ids EXCEPT ![q.len] = x], len |-> q.len + 1]
<1>0. Push(q, x) = r
  BY PushAdds DEF Push
<1>1. q.len < N
  BY RoomLeft
<1>2. /\ q.len \in Ids /\ q.ids \in [Ids -> Ids] /\ q.len \in Nat
      /\ Positions(q) \subseteq Ids
  BY <1>1, QueueShape, NAssumption DEF Ids
<1>3. /\ Positions(r) = Positions(q) \cup {q.len}
      /\ \A p \in Positions(q) : p \in Int /\ p < q.len
  BY <1>2 DEF Positions
<1>4. r.ids[q.len] = x /\ \A p \in Positions(q) : r.ids[p] = q.ids[p]
  BY <1>2, <1>3
<1>. HIDE DEF r
<1>5. ASSUME Stands(r, i, k) PROVE Stands(q, i, k) \/ (i \in Members(q) /\ k = x)
  <2>1. PICK a, b \in Positions(r) : a < b /\ r.ids[a] = i /\ r.ids[b] = k
    BY <1>5 DEF Stands
  <2>2. a \in Positions(q)
    BY <1>2, <1>3, <2>1
  <2>. QED
    BY <1>3, <1>4, <2>1, <2>2 DEF Stands, Members
<1>6. ASSUME Stands(q, i, k) PROVE Stands(r, i, k)
  BY <1>3, <1>4, <1>6 DEF Stands
<1>7. ASSUME i \in Members(q), k = x PROVE Stands(r, i, k)
  BY <1>3, <1>4, <1>7 DEF Stands, Members
<1>. QED
  BY <1>0, <1>5, <1>6, <1>7

(* Where every task has the same level the array is one queue.             *)
LEMMA OneQueue ==
  ASSUME NEW q \in Queues, Unique(q), NEW lev, NEW top, \A i \in Members(q) : lev[i] = top
  PROVE  /\ \A e : e \in AheadIn(q, lev) <=> /\ e \in Members(q) \X Members(q)
                                             /\ Stands(q, e[1], e[2])
         /\ LQ!InLine(Members(q), AheadIn(q, lev))
         /\ top = 0 => AtLevels(q, lev) = LQ!OnTop(Members(q))
<1>1. \A e \in Members(q) \X Members(q) : e[1] \in Members(q) /\ e[2] \in Members(q)
  OBVIOUS
<1>2. \A e : e \in AheadIn(q, lev) <=> e \in Members(q) \X Members(q) /\ Stands(q, e[1], e[2])
  BY <1>1 DEF AheadIn
<1>3. \A i, k \in Members(q) : <<i, k>> \in AheadIn(q, lev) <=> Stands(q, i, k)
  BY <1>2
<1>4. AheadIn(q, lev) \subseteq Members(q) \X Members(q)
  BY <1>2
<1>5. LQ!InLine(Members(q), AheadIn(q, lev))
  <2>1. \A i \in Members(q) : <<i, i>> \notin AheadIn(q, lev)
    BY <1>3, StandInLine
  <2>2. \A i, k \in Members(q) : \/ i = k
                                 \/ <<i, k>> \in AheadIn(q, lev) \/ <<k, i>> \in AheadIn(q, lev)
    BY <1>3, StandInLine
  <2>3. \A i, k, m \in Members(q) :
           <<i, k>> \in AheadIn(q, lev) /\ <<k, m>> \in AheadIn(q, lev) =>
              <<i, m>> \in AheadIn(q, lev)
    BY <1>3, StandInLine
  <2>. QED
    BY <1>4, <2>1, <2>2, <2>3 DEF LQ!InLine
<1>6. top = 0 => AtLevels(q, lev) = LQ!OnTop(Members(q))
  BY DEF AtLevels, LQ!OnTop, LQ!Levels
<1>. QED
  BY <1>2, <1>5, <1>6

(* Single tasks leave the level queues as they leave the array, and enter. *)
LEMMA LevelsAfterRemoval ==
  ASSUME NEW q \in Queues, Unique(q), NEW p \in Positions(q), NEW lev \in [Ids -> 0..2]
  PROVE  LET i == q.ids[p]  l == lev[q.ids[p]]
         IN /\ AtLevels(RemoveAt(q, p), lev) = [AtLevels(q, lev) EXCEPT ![l] = @ \ {i}]
            /\ AheadIn(RemoveAt(q, p), lev) = {e \in AheadIn(q, lev) : i \notin {e[1], e[2]}}
<1> DEFINE r == RemoveAt(q, p)  i == q.ids[p]  l == lev[i]
<1>1. Members(r) = Members(q) \ {i} /\ i \in Ids /\ l \in 0..2
  BY RemoveTakesOne, QueueShape
<1>2. \A a, b : Stands(r, a, b) <=> Stands(q, a, b) /\ i \notin {a, b}
  BY StandAfterRemoval
<1>. HIDE DEF r, i
<1>3. AtLevels(r, lev) = [AtLevels(q, lev) EXCEPT ![l] = @ \ {i}]
  BY <1>1 DEF AtLevels
<1>4. AheadIn(r, lev) = {e \in AheadIn(q, lev) : i \notin {e[1], e[2]}}
  BY <1>1, <1>2 DEF AheadIn
<1>. QED
  BY <1>3, <1>4 DEF r, i

LEMMA LevelsAfterPush ==
  ASSUME NEW q \in Queues, Unique(q), NEW i \in Ids, i \notin Members(q),
         NEW lev \in [Ids -> 0..2], NEW after \in [Ids -> 0..2],
         \A k \in Ids : k # i => after[k] = lev[k]
  PROVE  /\ AtLevels(Push(q, i), after) = [AtLevels(q, lev) EXCEPT ![after[i]] = @ \cup {i}]
         /\ AheadIn(Push(q, i), after) =
               AheadIn(q, lev) \cup (AtLevels(q, lev)[after[i]] \X {i})
<1> DEFINE r == Push(q, i)  to == after[i]
<1>1. Members(r) = Members(q) \cup {i} /\ Members(q) \subseteq Ids
  BY PushAdds, QueueShape DEF Members
<1>2. \A a, b : Stands(r, a, b) <=> Stands(q, a, b) \/ (a \in Members(q) /\ b = i)
  BY StandAfterPush
<1>3. \A a, b : Stands(q, a, b) => a \in Members(q) /\ b \in Members(q)
  BY StandInLine
<1>4. to \in 0..2 /\ after[i] = to /\ \A a \in Members(q) : after[a] = lev[a]
  BY <1>1
<1>. HIDE DEF r, to
<1>5. AtLevels(r, after) = [AtLevels(q, lev) EXCEPT ![to] = @ \cup {i}]
  BY <1>1, <1>4 DEF AtLevels
<1>6. AtLevels(q, lev)[to] = {a \in Members(q) : lev[a] = to}
  BY <1>4 DEF AtLevels
<1>7. ASSUME NEW e
      PROVE  e \in AheadIn(r, after) <=>
                e \in AheadIn(q, lev) \/ e \in {a \in Members(q) : lev[a] = to} \X {i}
  <2>1. e \in AheadIn(r, after) <=>
           /\ e \in (Members(q) \cup {i}) \X (Members(q) \cup {i})
           /\ after[e[1]] = after[e[2]]
           /\ Stands(q, e[1], e[2]) \/ (e[1] \in Members(q) /\ e[2] = i)
    BY <1>1, <1>2 DEF AheadIn
  <2>2. e \in AheadIn(q, lev) <=>
           /\ e \in Members(q) \X Members(q)
           /\ lev[e[1]] = lev[e[2]] /\ Stands(q, e[1], e[2])
    BY DEF AheadIn
  <2>. QED
    BY <1>3, <1>4, <2>1, <2>2
<1>8. AheadIn(r, after) = AheadIn(q, lev) \cup (AtLevels(q, lev)[to] \X {i})
  BY <1>6, <1>7
<1>. QED
  BY <1>5, <1>8 DEF r, to

LEMMA LoadedStands ==
  ASSUME NEW n \in 0..N, NEW lev, \A i \in 0..(n - 1) : lev[i] = 0
  PROVE  /\ AtLevels(Loaded(n), lev) = LQ!OnTop(0..(n - 1))
         /\ AheadIn(Loaded(n), lev) = {e \in (0..(n - 1)) \X (0..(n - 1)) : e[1] < e[2]}
<1> DEFINE q == Loaded(n)
<1>1. q \in Queues /\ Unique(q) /\ Members(q) = 0..(n - 1)
  BY LoadedHolds
<1>2. Positions(q) = 0..(n - 1)
  BY DEF Loaded, Positions
<1>3. \A p \in 0..(n - 1) : q.ids[p] = p
  BY NAssumption DEF Loaded, Ids
<1>. HIDE DEF q
<1>4. \A a, b \in 0..(n - 1) : Stands(q, a, b) <=> a < b
  BY <1>2, <1>3 DEF Stands
<1>5. \A e : e \in AheadIn(q, lev) <=> e \in (0..(n - 1)) \X (0..(n - 1)) /\ Stands(q, e[1], e[2])
  BY <1>1, OneQueue
<1>6. \A e \in (0..(n - 1)) \X (0..(n - 1)) : e[1] \in 0..(n - 1) /\ e[2] \in 0..(n - 1)
  OBVIOUS
<1>7. AheadIn(q, lev) = {e \in (0..(n - 1)) \X (0..(n - 1)) : e[1] < e[2]}
  BY <1>4, <1>5, <1>6
<1>. QED
  BY <1>1, <1>7, OneQueue DEF q

(* Without MLFQ every live task stays on level 0.                          *)
Flat == ~Mlfq => \A i \in Ids : state[i] # "Done" => level[i] = 0

LEMMA FlatStays ==
  ASSUME Flat, UNCHANGED <<level, bidx>>,
         \A i \in Ids : state'[i] # "Done" => state[i] # "Done"
  PROVE  Flat'
<1>1. Mlfq' = Mlfq
  BY DEF Mlfq, Policy
<1>. QED
  BY <1>1 DEF Flat

LEMMA NextFlat == IInv /\ Flat /\ [Next]_vars => Flat'
<1>. SUFFICES ASSUME IInv, Flat, [Next]_vars PROVE Flat'
  OBVIOUS
<1>0. state \in [Ids -> {"Ready", "Running", "Done"}]
  BY DEF IInv, TypeOK
<1>1. CASE Begin
  <2>1. level' = [i \in Ids |-> 0]
    BY <1>1, Zenon DEF Begin
  <2>. QED
    BY <2>1 DEF Flat
<1>2. CASE LoopTop
  <2>1. UNCHANGED <<state, bidx>>
    BY <1>2, Zenon DEF LoopTop
  <2>2. BoostDue \/ UNCHANGED level
    BY <1>2, Zenon DEF LoopTop
  <2>3. BoostDue => Mlfq' /\ Mlfq
    BY <2>1 DEF BoostDue, Mlfq, Policy
  <2>. QED
    BY <2>1, <2>2, <2>3, FlatStays DEF Flat
<1>3. CASE Select
  <2>1. UNCHANGED <<level, bidx>>
    BY <1>3, Zenon DEF Select
  <2>2. \A i \in Ids : state'[i] # "Done" => state[i] # "Done"
    <3>1. CASE UNCHANGED state
      BY <3>1
    <3>2. ASSUME NEW p \in Positions(ready),
                 state' = [state EXCEPT ![ready.ids[p]] = "Running"]
          PROVE  \A i \in Ids : state'[i] # "Done" => state[i] # "Done"
      <4>1. state[ready.ids[p]] = "Ready" /\ ready.ids[p] \in Ids
        BY QueueShape DEF IInv, TypeOK, QueueConsistent, Members
      <4>. QED
        BY <1>0, <3>2, <4>1
    <3>. QED
      BY <1>3, <3>1, <3>2, Zenon DEF Select
  <2>. QED
    BY <2>1, <2>2, FlatStays
<1>4. CASE NextBoost \/ Launch \/ SetDeadline \/ Enter
  <2>1. UNCHANGED <<state, level, bidx>>
    BY <1>4 DEF NextBoost, Launch, SetDeadline, Enter
  <2>. QED
    BY <2>1, FlatStays
<1>5. CASE UserRun \/ TimerInterrupt \/ Tick
  <2>1. UNCHANGED <<state, level, bidx>>
    BY <1>5 DEF UserRun, UserStep, UserEcall, UserIllegal, TimerInterrupt, Tick
  <2>. QED
    BY <2>1, FlatStays
<1>6. CASE Handle
  <2>1. UNCHANGED <<state, level, bidx>>
    BY <1>6, Zenon DEF Handle
  <2>. QED
    BY <2>1, FlatStays
<1>7. CASE Retire
  <2>1. UNCHANGED <<level, bidx>> /\ state' = [state EXCEPT ![current] = "Done"]
    BY <1>7, Zenon DEF Retire, EndOfPass
  <2>. QED
    BY <1>0, <2>1, FlatStays
<1>8. CASE OnYield \/ OnSyscall \/ OnTimer
  <2>1. PICK asked \in BOOLEAN : Settle(asked)
    BY <1>8 DEF OnYield, OnSyscall, OnTimer
  <2>2. bidx' = bidx /\ Mlfq' = Mlfq
    BY <2>1 DEF Settle, EndOfPass, Mlfq, Policy
  <2>3. CASE Mlfq
    BY <2>2, <2>3 DEF Flat
  <2>4. CASE ~Mlfq
    <3>1. pc = "account"
      BY <1>8 DEF OnYield, OnSyscall, OnTimer
    <3>2. current \in Ids /\ state[current] = "Running"
      BY <3>1, CurrentFacts DEF IInv, QueueConsistent, TaskPCs
    <3>3. level' = [level EXCEPT ![current] = level[current]]
      <4>1. ~Demotes
        BY <2>4 DEF Demotes
      <4>. QED
        BY <2>1, <4>1, Zenon DEF Settle
    <3>4. level' = level
      BY <3>3 DEF IInv, TypeOK
    <3>5. state' = state \/ state' = [state EXCEPT ![current] = "Ready"]
      BY <2>1 DEF Settle
    <3>. QED
      BY <1>0, <2>2, <3>2, <3>4, <3>5, FlatStays
  <2>. QED
    BY <2>3, <2>4
<1>9. CASE Finish
  <2>1. UNCHANGED <<state, level, current, ready>> /\ pc = "finish"
    BY <1>9, Zenon DEF Finish
  <2>2. \A i \in Ids : state[i] = "Done"
    <3>1. Members(ready) = {} /\ current = NoTask
      BY <2>1 DEF Members, Positions, IInv, Shape
    <3>. QED
      BY <1>0, <3>1, NAssumption DEF IInv, QueueConsistent, NoTask, Ids
  <2>. QED
    BY <2>1, <2>2 DEF Flat
<1>10. CASE UNCHANGED vars
  BY <1>10, FlatStays DEF vars
<1>. QED
  BY <1>1, <1>2, <1>3, <1>4, <1>5, <1>6, <1>7, <1>8, <1>9, <1>10 DEF Next, KernelStep, Stopped

(***************************************************************************)
(* The steps.  Each action of the scheduler is one of the level queues, or *)
(* none of them can tell it happened.                                      *)
(***************************************************************************)
QueueFacts ==
    /\ ready \in Queues /\ Unique(ready) /\ level \in [Ids -> 0..2]
    /\ state \in [Ids -> {"Ready", "Running", "Done"}]
    /\ Members(ready) = {i \in Ids : state[i] = "Ready"}
    /\ current # NoTask => current \in Ids /\ state[current] = "Running"
    /\ NoTask \notin Ids

LEMMA QueueFactsHold == IInv => QueueFacts
<1>. SUFFICES ASSUME IInv PROVE QueueFacts
  OBVIOUS
<1>1. /\ ready \in Queues /\ level \in [Ids -> 0..2]
      /\ state \in [Ids -> {"Ready", "Running", "Done"}]
      /\ current \in Ids \cup {NoTask}
  BY Zenon DEF IInv, TypeOK
<1>2. NoTask \notin Ids
  BY NAssumption DEF NoTask, Ids
<1>3. Unique(ready) /\ Members(ready) = {i \in Ids : state[i] = "Ready"}
  BY Zenon DEF IInv, QueueConsistent
<1>4. current # NoTask => current \in Ids /\ state[current] = "Running"
  BY <1>1 DEF IInv, QueueConsistent
<1>. QED
  BY <1>1, <1>2, <1>3, <1>4, Zenon DEF QueueFacts

LEMMA BeginStarts == ASSUME IInv, Begin PROVE LQ!Start
<1>1. /\ ready' = Loaded(Count) /\ level' = [i \in Ids |-> 0] /\ current' = NoTask
      /\ state' = [i \in Ids |-> IF i \in Tasks THEN "Ready" ELSE "Done"] /\ pc = "begin"
  BY Zenon DEF Begin
<1>2. current = NoTask /\ ready.len = 0
  BY <1>1 DEF IInv, Shape
<1>3. AtLevels(ready, level) = LQ!Nothing
  BY <1>2 DEF AtLevels, Members, Positions, LQ!Nothing, LQ!Levels
<1>4. Count \in 1..N /\ Tasks = 0..(Count - 1) /\ Tasks \subseteq Ids /\ N \in Nat
  BY BatchFacts, NAssumption DEF IInv, TypeOK, Tasks
<1>5. \A i \in 0..(Count - 1) : level'[i] = 0
  BY <1>1, <1>4
<1>6. /\ AtLevels(ready', level') = LQ!OnTop(0..(Count - 1))
      /\ AheadIn(ready', level') = {e \in (0..(Count - 1)) \X (0..(Count - 1)) : e[1] < e[2]}
  BY <1>1, <1>4, <1>5, LoadedStands
<1>7. {i \in Ids : state'[i] = "Done"} = Count..(N - 1)
  <2>1. \A i \in Ids : state'[i] = "Done" <=> i \notin 0..(Count - 1)
    BY <1>1, <1>4
  <2>2. \A i : i \in Ids /\ i \notin 0..(Count - 1) <=> i \in Count..(N - 1)
    BY <1>4 DEF Ids
  <2>. QED
    BY <2>1, <2>2
<1>. QED
  BY <1>1, <1>2, <1>3, <1>4, <1>6, <1>7 DEF LQ!Start

LEMMA LoopTopBoosts ==
  ASSUME IInv, LoopTop
  PROVE  LQ!Boost \/ UNCHANGED LQ!absVars
<1>0. UNCHANGED <<state, current, ready>> /\ pc = "loop"
  BY Zenon DEF LoopTop
<1>1. CASE UNCHANGED level
  BY <1>0, <1>1 DEF LQ!absVars
<1>2. CASE level' = [i \in Ids |-> IF i \in {j \in Tasks : state[j] # "Done"}
                                  THEN 0 ELSE level[i]]
  <2>0. QueueFacts
    BY QueueFactsHold
  <2>1. \A i \in Ids : state[i] # "Done" => level'[i] = 0
    BY <1>0, <1>2 DEF IInv, Shape
  <2>2. \A i \in Members(ready) : level'[i] = 0 /\ i \in Ids /\ level[i] \in 0..2
    BY <2>0, <2>1 DEF QueueFacts
  <2>3. /\ \A e : e \in AheadIn(ready, level') <=> /\ e \in Members(ready) \X Members(ready)
                                                   /\ Stands(ready, e[1], e[2])
        /\ LQ!InLine(Members(ready), AheadIn(ready, level'))
        /\ AtLevels(ready, level') = LQ!OnTop(Members(ready))
    BY <2>0, <2>2, OneQueue DEF QueueFacts
  <2>4. AheadIn(ready, level) \subseteq AheadIn(ready, level')
    BY <2>3 DEF AheadIn
  <2>5. LQ!Waiting = Members(ready)
    BY <2>2 DEF LQ!Waiting, LQ!Levels, AtLevels
  <2>6. current # NoTask => level'[current] = 0
    BY <2>0, <2>1 DEF QueueFacts
  <2>. QED
    BY <1>0, <2>3, <2>4, <2>5, <2>6 DEF LQ!Boost
<1>. QED
  BY <1>1, <1>2, Zenon DEF LoopTop

LEMMA SelectDispatches ==
  ASSUME IInv, Flat, Select
  PROVE  LQ!Dispatch \/ UNCHANGED LQ!absVars
<1>0. QueueFacts /\ level' = level
  BY QueueFactsHold DEF Select
<1>1. CASE UNCHANGED <<ready, current, state, deadline>>
  BY <1>0, <1>1 DEF LQ!absVars
<1>2. ASSUME current = NoTask, NEW p \in Positions(ready),
             IsPopPosition(ready, level, Mlfq, p),
             current' = ready.ids[p], ready' = RemoveAt(ready, p),
             state' = [state EXCEPT ![ready.ids[p]] = "Running"]
      PROVE  LQ!Dispatch
  <2> DEFINE i == ready.ids[p]  l == level[i]
  <2>1. i \in Members(ready) /\ i \in Ids /\ l \in 0..2 /\ state[i] = "Ready" /\ i # NoTask
    BY <1>0 DEF QueueFacts, Members
  <2>2. \A k \in Members(ready) : k \in Ids /\ level[k] \in 0..2
    BY <1>0 DEF QueueFacts
  <2>3. \A k \in Members(ready) : l <= level[k]
    <3>1. CASE Mlfq
      <4>. SUFFICES ASSUME NEW o \in Positions(ready) PROVE l <= level[ready.ids[o]]
        BY DEF Members
      <4>1. ready.ids[o] \in Members(ready)
        BY DEF Members
      <4>. QED
        BY <1>2, <2>1, <2>2, <3>1, <4>1 DEF IsPopPosition
    <3>2. CASE ~Mlfq
      <4>1. \A k \in Members(ready) : level[k] = 0
        BY <1>0, <3>2 DEF Flat, QueueFacts
      <4>. QED
        BY <2>1, <4>1
    <3>. QED
      BY <3>1, <3>2
  <2>4. \A o \in Positions(ready) : level[ready.ids[o]] = l => p <= o
    <3>1. \A o \in Positions(ready) : o \in Int /\ 0 <= o
      BY DEF Positions
    <3>. QED
      BY <1>2, <2>1, <3>1 DEF IsPopPosition
  <2>5. AtLevels(ready, level) = [m \in 0..2 |-> {k \in Members(ready) : level[k] = m}]
    BY DEF AtLevels
  <2>6. i \in AtLevels(ready, level)[l]
    BY <2>1, <2>5
  <2>7. \A h \in 0..2 : h < l => AtLevels(ready, level)[h] = {}
    BY <2>1, <2>2, <2>3, <2>5
  <2>8. \A k \in AtLevels(ready, level)[l] : <<k, i>> \notin AheadIn(ready, level)
    <3>. SUFFICES ASSUME NEW k \in Members(ready), level[k] = l, Stands(ready, k, i)
                  PROVE  FALSE
      BY <2>1, <2>5 DEF AheadIn
    <3>1. PICK a, b \in Positions(ready) : a < b /\ ready.ids[a] = k /\ ready.ids[b] = i
      BY DEF Stands
    <3>2. b = p
      BY <1>0, <3>1 DEF QueueFacts, Unique
    <3>3. p <= a /\ a \in Int /\ p \in Int
      BY <2>4, <3>1 DEF Positions
    <3>. QED
      BY <3>1, <3>2, <3>3
  <2>9. /\ AtLevels(ready', level') = [AtLevels(ready, level) EXCEPT ![l] = @ \ {i}]
        /\ AheadIn(ready', level') = {e \in AheadIn(ready, level) : i \notin {e[1], e[2]}}
    BY <1>0, <1>2, LevelsAfterRemoval DEF QueueFacts
  <2>10. {k \in Ids : state'[k] = "Done"} = {k \in Ids : state[k] = "Done"}
    BY <1>0, <1>2, <2>1 DEF QueueFacts
  <2>11. current' = i /\ current' # NoTask /\ level'[current'] = l
    BY <1>0, <1>2, <2>1
  <2>. HIDE DEF i, l
  <2>. QED
    BY <1>2, <2>1, <2>6, <2>7, <2>8, <2>9, <2>10, <2>11 DEF LQ!Dispatch, LQ!Levels
<1>. QED
  BY <1>1, <1>2, Zenon DEF Select

LEMMA RetireEnds == ASSUME IInv, Retire PROVE LQ!End
<1>0. QueueFacts /\ pc = "account"
  BY QueueFactsHold DEF Retire
<1>1. current \in Ids /\ current # NoTask
  BY <1>0, CurrentFacts DEF TaskPCs, QueueFacts
<1>2. /\ state' = [state EXCEPT ![current] = "Done"] /\ current' = NoTask
      /\ UNCHANGED <<ready, level>>
  BY Zenon DEF Retire
<1>3. {k \in Ids : state'[k] = "Done"} = {k \in Ids : state[k] = "Done"} \cup {current}
  BY <1>0, <1>1, <1>2 DEF QueueFacts
<1>. QED
  BY <1>1, <1>2, <1>3 DEF LQ!End

LEMMA SettlePreempts ==
  ASSUME IInv, pc = "account", NEW asked \in BOOLEAN, Settle(asked)
  PROVE  LQ!Preempt \/ UNCHANGED LQ!absVars
<1>0. QueueFacts
  BY QueueFactsHold
<1>1. current \in Ids /\ current # NoTask /\ current \notin Members(ready) /\ level[current] \in 0..2
  BY <1>0, CurrentFacts DEF TaskPCs, QueueFacts
<1>2. \E to \in 0..2 : /\ to \in {level[current], level[current] + 1}
                       /\ ~Demotes => to = level[current]
                       /\ level' = [level EXCEPT ![current] = to]
  <2>1. level' = [level EXCEPT ![current] =
                     IF Demotes THEN level[current] + 1 ELSE level[current]]
    BY Zenon DEF Settle
  <2>2. Demotes => level[current] + 1 \in 0..2
    BY <1>1 DEF Demotes
  <2>. QED
    BY <1>1, <2>1, <2>2
<1>3. PICK to \in 0..2 : /\ to \in {level[current], level[current] + 1}
                         /\ ~Demotes => to = level[current]
                         /\ level' = [level EXCEPT ![current] = to]
  BY <1>2
<1>4. CASE UNCHANGED <<state, ready, current>> /\ ~Demotes
  <2>1. level' = [level EXCEPT ![current] = level[current]]
    BY <1>3, <1>4
  <2>2. level \in [Ids -> 0..2]
    BY <1>0 DEF QueueFacts
  <2>3. level' = level
    BY <1>1, <2>1, <2>2
  <2>. QED
    BY <1>4, <2>3 DEF LQ!absVars
<1>5. CASE /\ state' = [state EXCEPT ![current] = "Ready"]
           /\ ready' = Push(ready, current)
           /\ current' = NoTask
  <2>1. /\ AtLevels(ready', level') = [AtLevels(ready, level) EXCEPT ![to] = @ \cup {current}]
        /\ AheadIn(ready', level') =
              AheadIn(ready, level) \cup (AtLevels(ready, level)[to] \X {current})
    <3>1. /\ ready \in Queues /\ Unique(ready) /\ current \in Ids /\ current \notin Members(ready)
          /\ level \in [Ids -> 0..2]
      BY <1>0, <1>1 DEF QueueFacts
    <3>2. /\ AtLevels(Push(ready, current), level') =
                [AtLevels(ready, level) EXCEPT ![to] = @ \cup {current}]
          /\ AheadIn(Push(ready, current), level') =
                AheadIn(ready, level) \cup (AtLevels(ready, level)[to] \X {current})
      <4>1. level' \in [Ids -> 0..2] /\ \A k \in Ids : k # current => level'[k] = level[k]
        BY <1>3, <3>1
      <4>2. level'[current] = to
        BY <1>3, <3>1
      <4>3. /\ AtLevels(Push(ready, current), level') =
                  [AtLevels(ready, level) EXCEPT ![level'[current]] = @ \cup {current}]
            /\ AheadIn(Push(ready, current), level') =
                  AheadIn(ready, level) \cup (AtLevels(ready, level)[level'[current]] \X {current})
        BY <3>1, <4>1, LevelsAfterPush
      <4>. QED
        BY <4>2, <4>3
    <3>. QED
      BY <1>5, <3>2
  <2>2. {k \in Ids : state'[k] = "Done"} = {k \in Ids : state[k] = "Done"}
    BY <1>0, <1>1, <1>5 DEF QueueFacts
  <2>. QED
    BY <1>1, <1>3, <1>5, <2>1, <2>2 DEF LQ!Preempt, LQ!Join, LQ!Levels
<1>. QED
  BY <1>4, <1>5, Zenon DEF Settle

(* The rest moves nobody.                                                  *)
LEMMA QuietQueues ==
  ASSUME UNCHANGED <<ready, level, current, state>>
  PROVE  UNCHANGED LQ!absVars
BY DEF LQ!absVars

LEMMA StepRefines == IInv /\ Flat /\ [Next]_vars => [LQ!ANext]_(LQ!absVars)
<1>. SUFFICES ASSUME IInv, Flat, [Next]_vars PROVE LQ!ANext \/ UNCHANGED LQ!absVars
  OBVIOUS
<1>1. CASE Begin
  BY <1>1, BeginStarts DEF LQ!ANext
<1>2. CASE LoopTop
  BY <1>2, LoopTopBoosts DEF LQ!ANext
<1>3. CASE Select
  BY <1>3, SelectDispatches DEF LQ!ANext
<1>4. CASE Retire
  BY <1>4, RetireEnds DEF LQ!ANext
<1>5. CASE OnYield \/ OnSyscall \/ OnTimer
  <2>1. pc = "account" /\ \E asked \in BOOLEAN : Settle(asked)
    BY <1>5 DEF OnYield, OnSyscall, OnTimer
  <2>. QED
    BY <2>1, SettlePreempts DEF LQ!ANext
<1>6. CASE NextBoost \/ Launch \/ SetDeadline \/ Enter
  <2>1. UNCHANGED <<ready, level, current, state>>
    BY <1>6 DEF NextBoost, Launch, SetDeadline, Enter
  <2>. QED
    BY <2>1, QuietQueues
<1>7. CASE UserRun \/ TimerInterrupt \/ Tick
  <2>1. UNCHANGED <<ready, level, current, state>>
    BY <1>7 DEF UserRun, UserStep, UserEcall, UserIllegal, TimerInterrupt, Tick
  <2>. QED
    BY <2>1, QuietQueues
<1>8. CASE Handle \/ Finish
  <2>1. UNCHANGED <<ready, level, current, state>>
    BY <1>8, Zenon DEF Handle, Finish
  <2>. QED
    BY <2>1, QuietQueues
<1>9. CASE UNCHANGED vars
  BY <1>9, QuietQueues DEF vars
<1>. QED
  BY <1>1, <1>2, <1>3, <1>4, <1>5, <1>6, <1>7, <1>8, <1>9 DEF Next, KernelStep, Stopped

(* The run queue of scheduler.rs keeps the promises of a multi-level       *)
(* feedback queue, for any number of tasks, any quantum and any plan: what *)
(* the flat array with its first-minimum pop (scheduler.rs:120-126), the   *)
(* boost over every live task (scheduler.rs:325-331) and the requeues do   *)
(* is what one FIFO queue per level would do.                              *)
THEOREM SchedulerImplementsLevels == Spec => ImplementsLevelQueues
<1>1. Init => Flat /\ LQ!AInit
  <2>. SUFFICES ASSUME Init PROVE Flat /\ LQ!AInit
    OBVIOUS
  <2>1. /\ ready = EmptyQueue /\ current = NoTask /\ state = [i \in Ids |-> "Done"]
        /\ level = [i \in Ids |-> 0]
    BY DEF Init
  <2>2. Members(ready) = {}
    BY <2>1 DEF EmptyQueue, Members, Positions
  <2>3. AtLevels(ready, level) = LQ!Nothing /\ AheadIn(ready, level) = {}
    BY <2>2 DEF AtLevels, AheadIn, LQ!Nothing, LQ!Levels
  <2>. QED
    BY <2>1, <2>3 DEF Flat, LQ!AInit, Ids
<1>. QED
  BY <1>1, Invariance, NextFlat, StepRefines, PTL DEF Spec, ImplementsLevelQueues, LQ!ASpec
================================================================================
