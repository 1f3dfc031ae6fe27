------------------------------ MODULE MlfqSimProofs ------------------------------
(***************************************************************************)
(* The rules of lesson 15 in experiments/mlfq.py, for any number of jobs,  *)
(* any workload and any boost period.                                      *)
(***************************************************************************)
EXTENDS MlfqSimRefinement, FiniteSetTheorems, FunctionTheorems, SequenceTheorems,
        WellFoundedInduction,
        TLAPS

(***************************************************************************)
(* The invariant.                                                          *)
(***************************************************************************)
PCs == {"top", "boost", "select", "tick", "arrive", "requeue"}

States == {"new", "ready", "running", "blocked", "done"}

JobStates ==
    [left : Int, level : 0..2, slice : Int, allot : Int, used : Nat, wake : Nat,
     state : States, first : Int, done : Int, readyAt : Nat, maxWait : Nat, ticks : Nat]

Typed ==
    /\ jobs \in Workloads /\ policy \in Policies /\ period \in Periods
    /\ now \in Nat /\ nextBoost \in Nat
    /\ current \in Jobs \cup {None}
    /\ ready \in Seq(Jobs)
    /\ s \in [Jobs -> JobStates]
    /\ pc \in PCs /\ at \in 0..NJobs
    /\ off \in BOOLEAN

(* Where a job is on the processor, and what is known of the loops.        *)
Round ==
    /\ pc \notin {"top", "arrive"} => at = 0
    /\ pc \in {"tick", "arrive", "requeue"} => current # None
    /\ pc \notin {"arrive", "requeue"} => ~off

(* The asserts at the end of the loop: no job is in the list twice, and    *)
(* those in it are ready.                                                  *)
Distinct(q) == \A m, n \in 1..Len(q) : q[m] = q[n] => m = n

Listed == Distinct(ready) /\ \A m \in 1..Len(ready) : s[ready[m]].state = "ready"

IsDue(i) == s[i].state \in {"new", "blocked"} /\ s[i].wake <= now

(* The current job is running, or its last tick has ended it or its burst. *)
OnProcessor ==
    /\ \A i \in Jobs : s[i].state = "done" <=> s[i].done # None
    /\ current # None =>
          \/ s[current].state = "running"
          \/ off /\ s[current].state = "done"
          \/ off /\ s[current].state = "blocked" /\ ~IsDue(current)

(* Who is due has been brought in, as far as the loop over the jobs is;    *)
(* before the next round that was done behind the tick.                    *)
NobodyDue ==
    \A i \in Jobs :
       \/ pc \in {"boost", "select", "requeue"}
       \/ pc \in {"top", "arrive"} /\ i < at
       \/ pc = "top" /\ current # None
       => ~IsDue(i)

(* Nothing of an allotment is given back or lost.                          *)
Accounted(job) ==
    job.level < 2 => /\ job.ticks + job.allot = Allot(job.level) /\ job.allot >= 0
                     /\ job.state # "done" => job.allot >= 1

Best ==
    Mlfq /\ current # None /\ pc \notin {"arrive", "requeue"} =>
       \A m \in 1..Len(ready) : s[current].level <= s[ready[m]].level

Sliced == \A i \in Jobs : s[i].slice \in 1..Slice(s[i].level) /\ (~Mlfq => s[i].level = 0)

MInv ==
    /\ Typed /\ Round /\ Listed /\ OnProcessor /\ NobodyDue
    /\ Mlfq => \A i \in Jobs : Accounted(s[i])
    /\ Best /\ Sliced

(* Time to the next boost.                                                 *)
Boosts ==
    Mlfq => /\ now >= nextBoost - period
            /\ pc \in {"select", "tick"} => now < nextBoost
            /\ pc \in {"top", "boost"} /\ current # None => now < nextBoost
            /\ pc \in {"arrive", "requeue"} => now <= nextBoost

(* How long the current job may still keep the processor.                  *)
Rest == IF current = None \/ off THEN 0 ELSE s[current].slice

Waited(m) == now - s[ready[m]].readyAt

Ahead(m) == 2 * (m - 1) + Rest

(* It came after the last boost.                                           *)
Young(m) ==
    /\ s[ready[m]].readyAt >= nextBoost - period
    /\ now <= nextBoost \/ Waited(m) = 0

(* It was there at a boost, and everybody ahead of it.                     *)
Old(m) ==
    /\ \A k \in 1..m : s[ready[k]].level = 0
    /\ Waited(m) + Ahead(m) <= period + 2 * (NJobs - 1)

Waits(m) ==
    IF Mlfq THEN Young(m) \/ Old(m) ELSE Waited(m) + Ahead(m) <= 2 * (NJobs - 1)

WInv == Boosts /\ (\A m \in 1..Len(ready) : Waits(m)) /\ WaitIsBounded

-----------------------------------------------------------------------------
(***************************************************************************)
(* Sequences, levels and workloads.                                        *)
(***************************************************************************)
LEMMA Removal ==
    ASSUME NEW q \in Seq(Jobs), NEW k \in 1..Len(q)
    PROVE  /\ RemoveAt(q, k) \in Seq(Jobs) /\ Len(RemoveAt(q, k)) = Len(q) - 1
           /\ \A m \in 1..(Len(q) - 1) :
                 RemoveAt(q, k)[m] = IF m < k THEN q[m] ELSE q[m + 1]
<1> DEFINE before == SubSeq(q, 1, k - 1)
           behind == SubSeq(q, k + 1, Len(q))
<1>1. Len(q) \in Nat /\ k \in Int /\ k - 1 \in Int /\ k + 1 \in Int /\ \A m \in 1..Len(q) : q[m] \in Jobs
  OBVIOUS
<1>2. /\ before \in Seq(Jobs) /\ Len(before) = k - 1
      /\ \A m \in 1..(k - 1) : before[m] = q[m]
  <2>1. \A m \in 1..(k - 1) : q[m] \in Jobs
    BY <1>1
  <2>2. /\ before \in Seq(Jobs) /\ Len(before) = IF 1 <= k - 1 THEN k - 1 - 1 + 1 ELSE 0
        /\ \A m \in 1..(k - 1 - 1 + 1) : before[m] = q[1 + m - 1]
    BY <1>1, <2>1, SubSeqProperties
  <2> HIDE DEF before
  <2> QED BY <1>1, <2>2
<1>3. /\ behind \in Seq(Jobs) /\ Len(behind) = Len(q) - k
      /\ \A m \in 1..(Len(q) - k) : behind[m] = q[k + m]
  <2>1. \A m \in (k + 1)..Len(q) : q[m] \in Jobs
    BY <1>1
  <2>2. /\ behind \in Seq(Jobs)
        /\ Len(behind) = IF k + 1 <= Len(q) THEN Len(q) - (k + 1) + 1 ELSE 0
        /\ \A m \in 1..(Len(q) - (k + 1) + 1) : behind[m] = q[k + 1 + m - 1]
    BY <1>1, <2>1, SubSeqProperties
  <2> HIDE DEF behind
  <2> QED BY <1>1, <2>2
<1> DEFINE both == RemoveAt(q, k)
<1>4. both = before \o behind
  BY DEF RemoveAt
<1> HIDE DEF before, behind, both
<1>5. /\ both \in Seq(Jobs) /\ Len(both) = Len(before) + Len(behind)
      /\ \A m \in 1..(Len(before) + Len(behind)) :
            both[m] = IF m <= Len(before) THEN before[m] ELSE behind[m - Len(before)]
  BY <1>2, <1>3, <1>4, ConcatProperties, Zenon
<1>6. Len(both) = Len(q) - 1
  BY <1>1, <1>2, <1>3, <1>5
<1>7. ASSUME NEW m \in 1..(Len(q) - 1)
      PROVE  both[m] = IF m < k THEN q[m] ELSE q[m + 1]
  <2>0. m \in 1..(Len(before) + Len(behind)) /\ Len(before) = k - 1
    BY <1>1, <1>2, <1>3
  <2>1. CASE m < k
    <3>1. m <= Len(before) /\ m \in 1..(k - 1)
      BY <1>1, <2>0, <2>1
    <3> QED BY <1>2, <1>5, <2>0, <2>1, <3>1, Zenon
  <2>2. CASE ~(m < k)
    <3>1. /\ ~(m <= Len(before)) /\ m - Len(before) \in 1..(Len(q) - k)
          /\ k + (m - Len(before)) = m + 1
      BY <1>1, <2>0, <2>2
    <3>2. both[m] = behind[m - Len(before)]
      BY <1>5, <2>0, <3>1, Zenon
    <3>3. behind[m - Len(before)] = q[k + (m - Len(before))]
      BY <1>3, <3>1, Zenon
    <3> QED BY <2>2, <3>1, <3>2, <3>3, Zenon
  <2> QED BY <2>1, <2>2
<1> QED BY <1>5, <1>6, <1>7 DEF both

LEMMA Addition ==
    ASSUME NEW q \in Seq(Jobs), NEW i \in Jobs
    PROVE  /\ Append(q, i) \in Seq(Jobs) /\ Len(Append(q, i)) = Len(q) + 1
           /\ \A m \in 1..Len(q) : Append(q, i)[m] = q[m]
           /\ Append(q, i)[Len(q) + 1] = i
  OBVIOUS

(* A list without repetition has room for whoever is not in it.            *)
LEMMA Room ==
    ASSUME NEW q \in Seq(Jobs), Distinct(q), NEW P \in SUBSET Jobs,
           \A m \in 1..Len(q) : q[m] \notin P
    PROVE  IsFiniteSet(P) /\ Len(q) + Cardinality(P) <= NJobs
<1>1. /\ IsFiniteSet(Jobs) /\ Cardinality(Jobs) = NJobs
  <2>1. Cardinality(0..(NJobs - 1)) = IF 0 > NJobs - 1 THEN 0 ELSE (NJobs - 1) - 0 + 1
    BY SimAssumption, FS_Interval
  <2> QED BY <2>1, SimAssumption, FS_Interval DEF Jobs
<1>2. IsFiniteSet(P) /\ Cardinality(P) \in Nat
  BY <1>1, FS_Subset, FS_CardinalityType
<1>3. IsFiniteSet(Jobs \ P) /\ Cardinality(Jobs \ P) = NJobs - Cardinality(P)
  <2>1. Jobs \cap P = P
    OBVIOUS
  <2>2. /\ IsFiniteSet(Jobs \ P)
        /\ Cardinality(Jobs \ P) = Cardinality(Jobs) - Cardinality(Jobs \cap P)
    BY <1>1, <1>2, FS_Difference
  <2> QED BY <1>1, <2>1, <2>2
<1>4. Len(q) \in Nat /\ IsFiniteSet(1..Len(q)) /\ Cardinality(1..Len(q)) = Len(q)
  <2>1. Len(q) \in Nat
    OBVIOUS
  <2>2. Cardinality(1..Len(q)) = IF 1 > Len(q) THEN 0 ELSE Len(q) - 1 + 1
    BY <2>1, FS_Interval
  <2> QED BY <2>1, <2>2, FS_Interval
<1> DEFINE f == [m \in 1..Len(q) |-> q[m]]
<1>5. f \in Injection(1..Len(q), Jobs \ P)
  BY DEF Injection, IsInjective, Distinct
<1> HIDE DEF f
<1>6. Cardinality(1..Len(q)) <= Cardinality(Jobs \ P)
  BY <1>3, <1>5, FS_Injection
<1> QED BY <1>2, <1>3, <1>4, <1>6, SimAssumption

LEMMA RoomFor ==
    ASSUME NEW q \in Seq(Jobs), Distinct(q)
    PROVE  /\ Len(q) <= NJobs
           /\ \A i \in Jobs : (\A m \in 1..Len(q) : q[m] # i) => Len(q) <= NJobs - 1
           /\ \A i, j \in Jobs : i # j /\ (\A m \in 1..Len(q) : q[m] # i /\ q[m] # j) =>
                 Len(q) <= NJobs - 2
<1>0. Len(q) \in Nat /\ NJobs \in Nat
  BY SimAssumption
<1>1. Len(q) + Cardinality({}) <= NJobs
  BY Room
<1>2. ASSUME NEW i \in Jobs, \A m \in 1..Len(q) : q[m] # i
      PROVE  Len(q) <= NJobs - 1
  <2>1. Len(q) + Cardinality({i}) <= NJobs
    BY <1>2, Room
  <2>2. Cardinality({i}) = 1
    BY FS_Singleton, Zenon
  <2> QED BY <1>0, <2>1, <2>2
<1>3. ASSUME NEW i \in Jobs, NEW j \in Jobs, i # j, \A m \in 1..Len(q) : q[m] # i /\ q[m] # j
      PROVE  Len(q) <= NJobs - 2
  <2>1. Len(q) + Cardinality({i, j}) <= NJobs
    BY <1>3, Room
  <2>2. IsFiniteSet({i}) /\ Cardinality({i}) = 1
    BY FS_Singleton, Zenon
  <2>3. Cardinality({i} \cup {j}) = 2
    <3>1. j \notin {i}
      BY <1>3
    <3>2. Cardinality({i} \cup {j}) = IF j \in {i} THEN Cardinality({i}) ELSE Cardinality({i}) + 1
      BY <2>2, FS_AddElement, Zenon
    <3>3. Cardinality({i} \cup {j}) = Cardinality({i}) + 1
      BY <3>1, <3>2, Zenon
    <3> QED BY <2>2, <3>3
  <2>4. {i} \cup {j} = {i, j}
    OBVIOUS
  <2>5. Cardinality({i, j}) = 2
    BY <2>3, <2>4, Zenon
  <2> QED BY <1>0, <2>1, <2>5
<1> QED BY <1>0, <1>1, <1>2, <1>3, FS_EmptySet

LEMMA Quanta ==
    /\ Slice(0) = 2 /\ Slice(1) = 4 /\ Slice(2) = 8
    /\ Allot(0) = 4 /\ Allot(1) = 8 /\ Allot(2) = 0
  BY DEF Slice, Allot

LEMMA Given ==
    ASSUME Typed
    PROVE  /\ jobs \in [Jobs -> JobSpecs] /\ policy \in {"rr", "mlfq"}
           /\ period \in Nat \ {0} /\ NJobs \in Nat /\ None \notin Jobs /\ None = -1
           /\ Jobs \subseteq Int
  BY SimAssumption DEF Typed, None, Jobs

-----------------------------------------------------------------------------
(***************************************************************************)
(* The invariant is inductive.                                             *)
(***************************************************************************)
(* What the assignments to a job's record leave of its other fields.       *)
Ended(j, t) == [j EXCEPT !.first = t, !.done = t, !.state = "done"]

LEMMA JobEnds ==
    ASSUME NEW j \in JobStates, NEW t \in Nat
    PROVE  LET r == Ended(j, t)
           IN /\ r \in JobStates /\ r.state = "done" /\ r.done # None /\ r.level = j.level
              /\ r.slice = j.slice /\ r.allot = j.allot /\ r.ticks = j.ticks
              /\ r.maxWait = j.maxWait
<1>1. t \in Int /\ t # None
  BY DEF None
<1> QED BY <1>1 DEF Ended, JobStates, States

Returned(j, t) == [j EXCEPT !.state = "ready", !.readyAt = t]

LEMMA JobReturns ==
    ASSUME NEW j \in JobStates, NEW t \in Nat
    PROVE  LET r == Returned(j, t)
           IN /\ r \in JobStates /\ r.state = "ready" /\ r.done = j.done /\ r.level = j.level
              /\ r.slice = j.slice /\ r.allot = j.allot /\ r.ticks = j.ticks
              /\ r.maxWait = j.maxWait /\ r.readyAt = t
  BY DEF Returned, JobStates, States

LEMMA Fields ==
    ASSUME NEW j \in JobStates
    PROVE  /\ \A l \in 0..2 : [j EXCEPT !.level = l] \in JobStates
           /\ \A x \in Int : /\ [j EXCEPT !.left = x] \in JobStates
                             /\ [j EXCEPT !.slice = x] \in JobStates
                             /\ [j EXCEPT !.allot = x] \in JobStates
                             /\ [j EXCEPT !.done = x] \in JobStates
           /\ \A n \in Nat : /\ [j EXCEPT !.used = n] \in JobStates
                             /\ [j EXCEPT !.wake = n] \in JobStates
                             /\ [j EXCEPT !.ticks = n] \in JobStates
           /\ \A x \in States : [j EXCEPT !.state = x] \in JobStates
<1>1. ASSUME NEW l \in 0..2 PROVE [j EXCEPT !.level = l] \in JobStates
  BY DEF JobStates
<1>2. ASSUME NEW x \in Int PROVE [j EXCEPT !.left = x] \in JobStates
  BY DEF JobStates
<1>3. ASSUME NEW x \in Int PROVE [j EXCEPT !.slice = x] \in JobStates
  BY DEF JobStates
<1>4. ASSUME NEW x \in Int PROVE [j EXCEPT !.allot = x] \in JobStates
  BY DEF JobStates
<1>5. ASSUME NEW x \in Int PROVE [j EXCEPT !.done = x] \in JobStates
  BY DEF JobStates
<1>6. ASSUME NEW n \in Nat PROVE [j EXCEPT !.used = n] \in JobStates
  BY DEF JobStates
<1>7. ASSUME NEW n \in Nat PROVE [j EXCEPT !.wake = n] \in JobStates
  BY DEF JobStates
<1>8. ASSUME NEW n \in Nat PROVE [j EXCEPT !.ticks = n] \in JobStates
  BY DEF JobStates
<1>9. ASSUME NEW x \in States PROVE [j EXCEPT !.state = x] \in JobStates
  BY DEF JobStates
<1> QED BY <1>1, <1>2, <1>3, <1>4, <1>5, <1>6, <1>7, <1>8, <1>9

LEMMA JobLifted ==
    ASSUME NEW j \in JobStates
    PROVE  LET r == [j EXCEPT !.level = 0, !.slice = 2, !.allot = 4, !.ticks = 0]
           IN /\ r \in JobStates /\ r.state = j.state /\ r.done = j.done /\ r.wake = j.wake
              /\ r.level = 0 /\ r.slice = 2 /\ r.allot = 4 /\ r.ticks = 0
              /\ r.maxWait = j.maxWait /\ r.readyAt = j.readyAt
<1> DEFINE a == [j EXCEPT !.level = 0]
           b == [a EXCEPT !.slice = 2]
           c == [b EXCEPT !.allot = 4]
           r == [j EXCEPT !.level = 0, !.slice = 2, !.allot = 4, !.ticks = 0]
<1>0. r = [c EXCEPT !.ticks = 0]
  OBVIOUS
<1>1. 0 \in 0..2 /\ 2 \in Int /\ 4 \in Int /\ 0 \in Nat
  OBVIOUS
<1>2. /\ r.state = j.state /\ r.done = j.done /\ r.wake = j.wake
      /\ r.level = 0 /\ r.slice = 2 /\ r.allot = 4 /\ r.ticks = 0
      /\ r.maxWait = j.maxWait /\ r.readyAt = j.readyAt
  BY DEF JobStates
<1> HIDE DEF r
<1>3. a \in JobStates
  BY Fields, <1>1, Zenon
<1> HIDE DEF a
<1>4. b \in JobStates
  BY Fields, <1>1, <1>3, Zenon
<1> HIDE DEF b
<1>5. c \in JobStates
  BY Fields, <1>1, <1>4, Zenon
<1> HIDE DEF c
<1>6. r \in JobStates
  BY Fields, <1>0, <1>1, <1>5, Zenon
<1> QED BY <1>2, <1>6 DEF r

(* The tick that is charged.                                               *)
LEMMA JobCharged ==
    ASSUME NEW j \in JobStates
    PROVE  LET r == [j EXCEPT !.left = @ - 1, !.used = @ + 1, !.slice = @ - 1,
                              !.allot = IF j.level = 2 THEN @ ELSE @ - 1, !.ticks = @ + 1]
           IN /\ r \in JobStates /\ r.state = j.state /\ r.done = j.done /\ r.wake = j.wake
              /\ r.level = j.level /\ r.slice = j.slice - 1 /\ r.ticks = j.ticks + 1
              /\ r.allot = (IF j.level = 2 THEN j.allot ELSE j.allot - 1)
              /\ r.left = j.left - 1
              /\ r.maxWait = j.maxWait /\ r.readyAt = j.readyAt
<1> DEFINE x == IF j.level = 2 THEN j.allot ELSE j.allot - 1
           a == [j EXCEPT !.left = j.left - 1]
           b == [a EXCEPT !.used = j.used + 1]
           c == [b EXCEPT !.slice = j.slice - 1]
           d == [c EXCEPT !.allot = x]
           r == [j EXCEPT !.left = @ - 1, !.used = @ + 1, !.slice = @ - 1,
                          !.allot = IF j.level = 2 THEN @ ELSE @ - 1, !.ticks = @ + 1]
<1>0. r = [d EXCEPT !.ticks = j.ticks + 1]
  BY DEF JobStates
<1>1. /\ j.left - 1 \in Int /\ j.used + 1 \in Nat /\ j.slice - 1 \in Int /\ x \in Int
      /\ j.ticks + 1 \in Nat
  BY DEF JobStates
<1>2. /\ r.state = j.state /\ r.done = j.done /\ r.wake = j.wake
      /\ r.level = j.level /\ r.slice = j.slice - 1 /\ r.ticks = j.ticks + 1
      /\ r.allot = x /\ r.left = j.left - 1
      /\ r.maxWait = j.maxWait /\ r.readyAt = j.readyAt
  BY DEF JobStates
<1> HIDE DEF r
<1>3. a \in JobStates
  BY Fields, <1>1, Zenon
<1> HIDE DEF a
<1>4. b \in JobStates
  BY Fields, <1>1, <1>3, Zenon
<1> HIDE DEF b
<1>5. c \in JobStates
  BY Fields, <1>1, <1>4, Zenon
<1> HIDE DEF c
<1>6. d \in JobStates
  BY Fields, <1>1, <1>5, Zenon
<1> HIDE DEF d
<1>7. r \in JobStates
  BY Fields, <1>0, <1>1, <1>6, Zenon
<1> QED BY <1>2, <1>7 DEF r

SunkTo(j, l, x, y) == [j EXCEPT !.level = l, !.slice = x, !.allot = y, !.ticks = 0]

LEMMA JobSinks ==
    ASSUME NEW j \in JobStates, NEW l \in 0..2, NEW x \in Int, NEW y \in Int, NEW r,
           r = SunkTo(j, l, x, y)
    PROVE  /\ r \in JobStates /\ r.state = j.state /\ r.done = j.done
           /\ r.level = l /\ r.slice = x /\ r.allot = y /\ r.ticks = 0
           /\ r.maxWait = j.maxWait /\ r.readyAt = j.readyAt
<1> DEFINE a == [j EXCEPT !.level = l]
           b == [a EXCEPT !.slice = x]
           c == [b EXCEPT !.allot = y]
<1>0. r = [c EXCEPT !.ticks = 0] /\ 0 \in Nat
  BY DEF SunkTo
<1>2. /\ r.state = j.state /\ r.done = j.done
      /\ r.level = l /\ r.slice = x /\ r.allot = y /\ r.ticks = 0
      /\ r.maxWait = j.maxWait /\ r.readyAt = j.readyAt
  BY DEF JobStates, SunkTo
<1>3. a \in JobStates
  BY Fields, Zenon
<1> HIDE DEF a
<1>4. b \in JobStates
  BY Fields, <1>3, Zenon
<1> HIDE DEF b
<1>5. c \in JobStates
  BY Fields, <1>4, Zenon
<1> HIDE DEF c
<1>6. r \in JobStates
  BY Fields, <1>0, <1>5, Zenon
<1> QED BY <1>2, <1>6

LEMMA JobBlocks ==
    ASSUME NEW j \in JobStates, NEW w \in Nat
    PROVE  LET r == [j EXCEPT !.state = "blocked", !.wake = w]
           IN /\ r \in JobStates /\ r.state = "blocked" /\ r.done = j.done /\ r.wake = w
              /\ r.level = j.level /\ r.slice = j.slice /\ r.allot = j.allot
              /\ r.ticks = j.ticks /\ r.maxWait = j.maxWait /\ r.readyAt = j.readyAt
  BY DEF JobStates, States

LEMMA JobLeaves ==
    ASSUME NEW j \in JobStates, NEW t \in Nat
    PROVE  LET r == [j EXCEPT !.state = "done", !.done = t]
           IN /\ r \in JobStates /\ r.state = "done" /\ r.done # None
              /\ r.level = j.level /\ r.slice = j.slice /\ r.allot = j.allot
              /\ r.ticks = j.ticks /\ r.maxWait = j.maxWait /\ r.readyAt = j.readyAt
<1>1. t \in Int /\ t # None
  BY DEF None
<1> QED BY <1>1 DEF JobStates, States

LEMMA JobSliced ==
    ASSUME NEW j \in JobStates, NEW x \in Int
    PROVE  LET r == [j EXCEPT !.slice = x]
           IN /\ r \in JobStates /\ r.state = j.state /\ r.done = j.done /\ r.wake = j.wake
              /\ r.level = j.level /\ r.slice = x /\ r.allot = j.allot
              /\ r.ticks = j.ticks /\ r.maxWait = j.maxWait /\ r.readyAt = j.readyAt
<1>1. [j EXCEPT !.slice = x] \in JobStates
  BY Fields, Zenon
<1> QED BY <1>1 DEF JobStates

LEMMA JobFields ==
    ASSUME NEW j \in JobStates
    PROVE  /\ j.level \in Int /\ j.level \in 0..2 /\ j.slice \in Int /\ j.allot \in Int
           /\ j.ticks \in Nat /\ j.left \in Int /\ j.wake \in Nat
           /\ j.readyAt \in Nat /\ j.maxWait \in Nat
  BY DEF JobStates

LEMMA JobTypes ==
    ASSUME Typed
    PROVE  \A i \in Jobs :
              /\ s[i] \in JobStates /\ s[i].level \in Int /\ s[i].level \in 0..2
              /\ s[i].slice \in Int /\ s[i].allot \in Int /\ s[i].ticks \in Nat
              /\ s[i].left \in Int /\ s[i].wake \in Nat
              /\ s[i].readyAt \in Nat /\ s[i].maxWait \in Nat
<1>1. \A i \in Jobs : s[i] \in JobStates
  BY DEF Typed
<1> QED BY <1>1, JobFields, Zenon

LEMMA MInit == Init => MInv
<1> SUFFICES ASSUME Init PROVE MInv
  OBVIOUS
<1>0. \A i \in Jobs : jobs[i] \in JobSpecs
  BY SimAssumption DEF Init
<1>1. s = [i \in Jobs |-> NewJob(jobs[i])]
  BY DEF Init
<1>2. \A i \in Jobs : /\ s[i] \in JobStates /\ s[i].state = "new" /\ s[i].done = None
                      /\ s[i].level = 0 /\ s[i].slice = 2 /\ s[i].allot = 4 /\ s[i].ticks = 0
  BY <1>0, <1>1 DEF NewJob, JobSpecs, JobStates, States, None
<1>3. Typed
  <2>1. /\ jobs \in Workloads /\ policy \in Policies /\ period \in Periods /\ Periods \subseteq Nat
        /\ NJobs \in Nat
    BY SimAssumption DEF Init
  <2>2. s \in [Jobs -> JobStates]
    BY <1>1, <1>2
  <2>3. /\ now \in Nat /\ nextBoost \in Nat /\ current \in Jobs \cup {None} /\ at \in 0..NJobs
    BY <2>1 DEF Init
  <2>4. ready \in Seq(Jobs) /\ pc \in PCs /\ off \in BOOLEAN
    <3>1. ready = <<>> /\ pc = "top" /\ off = FALSE
      BY Zenon DEF Init
    <3>2. ready \in Seq(Jobs)
      BY <3>1
    <3>3. pc \in PCs
      BY <3>1 DEF PCs
    <3> QED BY <3>1, <3>2, <3>3
  <2> QED BY <2>1, <2>2, <2>3, <2>4 DEF Typed
<1> QED
  BY <1>2, <1>3, Quanta
  DEF Init, MInv, Round, Listed, Distinct, OnProcessor, NobodyDue, Accounted, Best, Sliced,
      None, Jobs

(* The loop goes on once the job it is at is not due.                      *)
LEMMA BroughtIn ==
    ASSUME NobodyDue, NJobs \in Nat, at \in Jobs, at' = at + 1, pc \in {"top", "arrive"},
           now' = now, current' = current, pc' = pc,
           \A i \in Jobs \ {at} : s'[i] = s[i],
           s'[at].state \notin {"new", "blocked"} \/ ~(s'[at].wake <= now)
    PROVE  NobodyDue'
<1>1. ASSUME NEW i \in Jobs,
             \/ i < at + 1
             \/ pc = "top" /\ current # None
      PROVE  s'[i].state \notin {"new", "blocked"} \/ ~(s'[i].wake <= now)
  <2>1. CASE i # at
    <3>1. i < at \/ (pc = "top" /\ current # None)
      BY <1>1, <2>1 DEF Jobs
    <3>2. ~IsDue(i)
      BY <3>1 DEF NobodyDue
    <3> QED BY <2>1, <3>2 DEF IsDue
  <2> QED BY <2>1
<1> QED BY <1>1 DEF NobodyDue, IsDue

(* A job that is brought back is the only one that changes.                *)
LEMMA ArriveInv == ASSUME MInv, Arrive, pc \in {"top", "arrive"} PROVE MInv'
<1>0. /\ at \in Jobs /\ at' = at + 1 /\ at' \in 0..NJobs /\ NJobs \in Nat
      /\ UNCHANGED <<input, now, nextBoost, current, pc, off, sunk>>
      /\ s[at] \in JobStates /\ now \in Nat
  BY SimAssumption DEF MInv, Typed, Arrive, Jobs
<1> USE DEF MInv, Typed, input, Mlfq
<1>1. CASE ~IsDue(at)
  <2>0. /\ s[at].state \notin {"new", "blocked"} \/ s[at].wake > now
        /\ s[at].state \notin {"new", "blocked"} \/ ~(s[at].wake <= now)
    <3>1. s[at].wake \in Nat /\ now \in Nat
      BY <1>0, JobFields, Zenon
    <3>2. s[at].state \notin {"new", "blocked"} \/ ~(s[at].wake <= now)
      BY <1>1, Zenon DEF IsDue
    <3>3. ~(s[at].wake <= now) => s[at].wake > now
      <4> HIDE DEF MInv, Typed
      <4> QED BY <3>1
    <3> QED BY <3>2, <3>3, Zenon
  <2>1. s' = s /\ ready' = ready
    BY <2>0, Zenon DEF Arrive
  <2>2. NobodyDue'
    BY <1>0, <2>0, <2>1, BroughtIn
  <2> QED
    BY <1>0, <2>1, <2>2 DEF Round, Listed, OnProcessor, IsDue, Best, Sliced
<1>2. CASE IsDue(at)
  <2>0. s[at].state \in {"new", "blocked"} /\ ~(s[at].wake > now)
    BY <1>0, <1>2 DEF IsDue, JobStates
  <2>1. at # current /\ s[at].state \in {"new", "blocked"} /\ s[at].done = None
    <3>1. s[at].done = None /\ s[at].state # "running" /\ s[at].state # "done"
      BY <1>0, <2>0 DEF OnProcessor
    <3>2. ASSUME at = current PROVE FALSE
      BY <1>0, <1>2, <3>1, <3>2, Given, Zenon DEF OnProcessor
    <3> QED BY <2>0, <3>1, <3>2
  <2>2. \A m \in 1..Len(ready) : ready[m] \in Jobs /\ ready[m] # at
    BY <2>1 DEF Listed
  <2>3. current # None => pc = "arrive"
    BY <1>0, <1>2 DEF NobodyDue
  <2>4. CASE s[at].left = 0
    <3> DEFINE r == Ended(s[at], now)
    <3>1. s' = [s EXCEPT ![at] = r] /\ ready' = ready
      BY <2>0, <2>4, Zenon DEF Arrive, Ended
    <3>2. /\ r \in JobStates /\ r.state = "done" /\ r.done # None
          /\ r.level = s[at].level /\ r.slice = s[at].slice
          /\ r.allot = s[at].allot /\ r.ticks = s[at].ticks
      BY <1>0, JobEnds, Zenon
    <3> HIDE DEF r
    <3>3. s' \in [Jobs -> JobStates] /\ s'[at] = r /\ \A i \in Jobs \ {at} : s'[i] = s[i]
      BY <1>0, <3>1, <3>2
    <3>4. NobodyDue'
      BY <1>0, <3>2, <3>3, BroughtIn
    <3>5. Listed' /\ OnProcessor'
      BY <1>0, <2>1, <2>2, <3>1, <3>2, <3>3 DEF Listed, OnProcessor, IsDue
    <3>6. (Mlfq => \A i \in Jobs : Accounted(s[i]))' /\ Sliced'
      BY <1>0, <3>2, <3>3 DEF Accounted, Sliced
    <3>7. Best'
      BY <1>0, <2>1, <2>2, <2>3, <3>1, <3>3 DEF Best
    <3> QED
      BY <1>0, <3>1, <3>3, <3>4, <3>5, <3>6, <3>7 DEF Round
  <2>5. CASE s[at].left # 0
    <3> DEFINE r == Returned(s[at], now)
    <3>1. s' = [s EXCEPT ![at] = r] /\ ready' = Append(ready, at)
      BY <2>0, <2>5, Zenon DEF Arrive, Returning, Returned
    <3>2. /\ r \in JobStates /\ r.state = "ready" /\ r.done = s[at].done
          /\ r.level = s[at].level /\ r.slice = s[at].slice
          /\ r.allot = s[at].allot /\ r.ticks = s[at].ticks
      BY <1>0, JobReturns, Zenon
    <3> HIDE DEF r
    <3>3. s' \in [Jobs -> JobStates] /\ s'[at] = r /\ \A i \in Jobs \ {at} : s'[i] = s[i]
      BY <1>0, <3>1, <3>2
    <3>4. NobodyDue'
      BY <1>0, <3>2, <3>3, BroughtIn
    <3>5. /\ ready' \in Seq(Jobs) /\ Len(ready') = Len(ready) + 1 /\ Len(ready) \in Nat
          /\ \A m \in 1..Len(ready) : ready'[m] = ready[m]
          /\ ready'[Len(ready) + 1] = at
      BY <1>0, <3>1
    <3>6. Listed'
      <4>1. Distinct(ready)'
        BY <2>2, <3>5 DEF Listed, Distinct
      <4>2. \A m \in 1..Len(ready') : s'[ready'[m]].state = "ready"
        BY <2>2, <3>2, <3>3, <3>5 DEF Listed
      <4> QED BY <4>1, <4>2 DEF Listed
    <3>7. OnProcessor'
      BY <1>0, <2>1, <3>2, <3>3 DEF OnProcessor, IsDue
    <3>8. (Mlfq => \A i \in Jobs : Accounted(s[i]))' /\ Sliced'
      BY <1>0, <2>1, <3>2, <3>3 DEF Accounted, Sliced
    <3>9. Best'
      BY <1>0, <2>3 DEF Best
    <3> QED
      BY <1>0, <3>3, <3>4, <3>5, <3>6, <3>7, <3>8, <3>9 DEF Round
  <2> QED BY <2>4, <2>5
<1> QED BY <1>1, <1>2

(* The loops end with nobody left to bring in.                             *)
LEMMA ArrivedInv ==
    ASSUME MInv, Arrived("top", "boost") \/ Arrived("arrive", "requeue")
    PROVE  MInv'
<1>1. /\ at = NJobs /\ at' = 0 /\ NJobs \in Nat
      /\ \/ pc = "top" /\ pc' = "boost"
         \/ pc = "arrive" /\ pc' = "requeue"
      /\ UNCHANGED <<input, now, nextBoost, current, ready, s, off, sunk>>
  BY SimAssumption DEF Arrived
<1>2. NobodyDue'
  BY <1>1 DEF MInv, Typed, NobodyDue, IsDue, Jobs
<1> QED
  BY <1>1, <1>2
  DEF MInv, Typed, PCs, Round, Listed, OnProcessor, IsDue, Best, Sliced, Accounted, input, Mlfq

(* Whoever is idle waits for somebody: now moves to a time of the workload.*)
LEMMA Earliest ==
    ASSUME MInv, pc = "select", Future # {}
    PROVE  Min(Future) \in Nat /\ Min(Future) \in Future
<1>1. Future \in SUBSET Nat
  BY DEF MInv, Typed, JobStates, Future
<1>2. \E x \in Future : \A y \in Future : x <= y
  <2>1. IsWellFoundedOn(OpToRel(<, Nat), Nat)
    BY NatLessThanWellFounded
  <2>2. PICK x \in Future : \A y \in Future : ~(<<y, x>> \in OpToRel(<, Nat))
    BY <1>1, <2>1, WFMin
  <2>3. \A y \in Future : ~(y < x)
    BY <1>1, <2>2 DEF OpToRel
  <2> QED BY <1>1, <2>3
<1>3. Min(Future) \in Future
  BY <1>2 DEF Min
<1> QED BY <1>1, <1>3

(* A boost lifts whoever has not ended; nobody's state changes.            *)
LEMMA BoostInv == ASSUME MInv, Boost PROVE MInv'
<1>0. /\ pc = "boost" /\ pc' = "select" /\ at = 0 /\ ~off
      /\ UNCHANGED <<input, now, current, ready, at, off, sunk>>
  BY Zenon DEF Boost, MInv, Round
<1>1. period \in Nat \ {0} /\ NJobs \in Nat /\ 0 \in 0..NJobs
  BY Given, SimAssumption DEF MInv
<1> USE DEF MInv, Typed, input, Mlfq
<1>2. CASE BoostDue
  <2> DEFINE r(i) == IF s[i].done # None THEN s[i]
                     ELSE [s[i] EXCEPT !.level = 0, !.slice = 2, !.allot = 4, !.ticks = 0]
  <2>1. s' = [i \in Jobs |-> r(i)] /\ nextBoost' = (now \div period + 1) * period
    BY <1>2, Zenon DEF Boost
  <2>2. \A i \in Jobs : /\ r(i) \in JobStates /\ r(i).state = s[i].state
                        /\ r(i).done = s[i].done /\ r(i).wake = s[i].wake
                        /\ s[i].done # None => r(i) = s[i]
                        /\ s[i].done = None => /\ r(i).level = 0 /\ r(i).slice = 2
                                               /\ r(i).allot = 4 /\ r(i).ticks = 0
    <3>1. ASSUME NEW i \in Jobs PROVE s[i] \in JobStates
      OBVIOUS
    <3> QED BY <3>1, JobLifted, Zenon
  <2> HIDE DEF r
  <2>3. s' \in [Jobs -> JobStates] /\ \A i \in Jobs : s'[i] = r(i)
    BY <2>1, <2>2
  <2>4. nextBoost' \in Nat
    <3>1. now \div period \in Nat
      BY <1>1
    <3> QED BY <1>1, <2>1, <3>1
  <2>5. Typed' /\ Round'
    BY <1>0, <2>3, <2>4 DEF PCs, Round
  <2>6. Listed' /\ OnProcessor' /\ NobodyDue'
    BY <1>0, <2>2, <2>3 DEF Listed, OnProcessor, NobodyDue, IsDue
  <2>7. (Mlfq => \A i \in Jobs : Accounted(s[i]))' /\ Sliced'
    BY <1>0, <1>2, <2>2, <2>3, Quanta DEF Accounted, Sliced, BoostDue
  <2>8. Best'
    <3>1. ASSUME current # None, NEW m \in 1..Len(ready)
          PROVE  s'[current].level <= s'[ready[m]].level
      <4>1. current \in Jobs /\ ready[m] \in Jobs
        BY <3>1
      <4>2. s[current].done = None
        BY <1>0, <3>1, <4>1 DEF OnProcessor
      <4>3. s[ready[m]].done = None
        BY <4>1 DEF OnProcessor, Listed
      <4> QED BY <2>2, <2>3, <4>1, <4>2, <4>3
    <3> QED BY <1>0, <3>1 DEF Best
  <2> QED BY <2>5, <2>6, <2>7, <2>8
<1>3. CASE ~BoostDue
  <2>1. s' = s /\ nextBoost' = nextBoost
    BY <1>3, Zenon DEF Boost
  <2> QED
    BY <1>0, <2>1
    DEF PCs, Round, Listed, OnProcessor, NobodyDue, IsDue, Accounted, Best, Sliced
<1> QED BY <1>2, <1>3

(* What Select takes from the list and changes of the job.                 *)
LEMMA Selected ==
    ASSUME MInv, Select
    PROVE  \E k \in 1..Len(ready) :
             LET i == ready[k]
                 waited == now - s[i].readyAt
             IN /\ IsChoice(k) /\ current' = i /\ ready' = RemoveAt(ready, k) /\ i \in Jobs
                /\ s' \in [Jobs -> JobStates]
                /\ \A j \in Jobs \ {i} : s'[j] = s[j]
                /\ s'[i].state = "running" /\ s'[i].done = s[i].done
                /\ s'[i].level = s[i].level /\ s'[i].slice = s[i].slice
                /\ s'[i].allot = s[i].allot /\ s'[i].ticks = s[i].ticks
                /\ s'[i].readyAt = s[i].readyAt
                /\ s'[i].maxWait = IF waited > s[i].maxWait THEN waited ELSE s[i].maxWait
<1>1. PICK k \in 1..Len(ready) :
         IsChoice(k) /\ current' = ready[k] /\ ready' = RemoveAt(ready, k)
  <2>1. DOMAIN ready = 1..Len(ready)
    BY DEF MInv, Typed
  <2> QED BY <2>1, Zenon DEF Select
<1> DEFINE i == ready[k]
           waited == now - s[i].readyAt
           w == IF waited > s[i].maxWait THEN waited ELSE s[i].maxWait
           f == IF s[i].first = None THEN now ELSE s[i].first
           r == [s[i] EXCEPT !.state = "running", !.maxWait = w, !.first = f]
<1>2. i \in Jobs /\ s[i] \in JobStates /\ now \in Nat /\ s \in [Jobs -> JobStates]
  BY DEF MInv, Typed
<1>3. w \in Nat /\ f \in Int
  BY <1>2 DEF JobStates
<1>4. s' = [s EXCEPT ![i] = r]
  <2>1. s' = [s EXCEPT ![i].state = "running",
                       ![i].maxWait = IF waited > @ THEN waited ELSE @,
                       ![i].first = IF @ = None THEN now ELSE @]
    BY <1>1, Zenon DEF Select
  <2> QED BY <1>2, <2>1 DEF JobStates
<1> HIDE DEF w, f
<1>5. /\ r \in JobStates /\ r.state = "running" /\ r.done = s[i].done
      /\ r.level = s[i].level /\ r.slice = s[i].slice /\ r.allot = s[i].allot
      /\ r.ticks = s[i].ticks /\ r.readyAt = s[i].readyAt /\ r.maxWait = w
  BY <1>2, <1>3 DEF JobStates, States
<1> HIDE DEF r
<1>6. s' \in [Jobs -> JobStates] /\ s'[i] = r /\ \A j \in Jobs \ {i} : s'[j] = s[j]
  BY <1>2, <1>4, <1>5
<1> QED BY <1>1, <1>2, <1>5, <1>6 DEF w

(* The chosen job leaves the list, and nobody in it is on a better level.  *)
LEMMA SelectInv == ASSUME MInv, Select PROVE MInv'
<1>0. /\ pc = "select" /\ current = None /\ pc' = "tick" /\ at = 0 /\ ~off
      /\ UNCHANGED <<input, now, nextBoost, at, off, sunk>>
  BY Zenon DEF Select, MInv, Round
<1>1. PICK k \in 1..Len(ready) :
         LET i == ready[k]
         IN /\ IsChoice(k) /\ current' = i /\ ready' = RemoveAt(ready, k) /\ i \in Jobs
            /\ s' \in [Jobs -> JobStates]
            /\ \A j \in Jobs \ {i} : s'[j] = s[j]
            /\ s'[i].state = "running" /\ s'[i].done = s[i].done
            /\ s'[i].level = s[i].level /\ s'[i].slice = s[i].slice
            /\ s'[i].allot = s[i].allot /\ s'[i].ticks = s[i].ticks
  BY Selected
<1> DEFINE i == ready[k]
<1> USE DEF MInv, Typed, input, Mlfq
<1>2. /\ ready' \in Seq(Jobs) /\ Len(ready') = Len(ready) - 1 /\ Len(ready) \in Nat
      /\ \A m \in 1..(Len(ready) - 1) : ready'[m] = IF m < k THEN ready[m] ELSE ready[m + 1]
  <2>1. ready \in Seq(Jobs)
    OBVIOUS
  <2>2. Len(ready) \in Nat
    BY <2>1
  <2> QED BY <1>1, <2>1, <2>2, Removal, Zenon
<1>3. \A m \in 1..Len(ready') :
         \E n \in 1..Len(ready) : n # k /\ ready'[m] = ready[n] /\ ready[n] # i /\ ready[n] \in Jobs
  <2>1. ASSUME NEW m \in 1..Len(ready')
        PROVE  \E n \in 1..Len(ready) : n # k /\ ready'[m] = ready[n]
    <3>1. CASE m < k
      BY <1>2, <2>1, <3>1
    <3>2. CASE ~(m < k)
      <4>1. m + 1 \in 1..Len(ready) /\ m + 1 # k
        BY <1>2, <2>1, <3>2
      <4> QED BY <1>2, <2>1, <3>2, <4>1
    <3> QED BY <3>1, <3>2
  <2>2. \A m, n \in 1..Len(ready) : ready[m] = ready[n] => m = n
    BY DEF Listed, Distinct
  <2>3. \A n \in 1..Len(ready) : ready[n] \in Jobs
    OBVIOUS
  <2> QED BY <2>1, <2>2, <2>3
<1>4. Distinct(ready)'
  BY <1>2 DEF Listed, Distinct
<1>5. Listed'
  BY <1>1, <1>3, <1>4 DEF Listed
<1>6. Typed' /\ Round'
  <2>1. current' \in Jobs /\ s' \in [Jobs -> JobStates] /\ ready' \in Seq(Jobs)
    BY <1>1, <1>2, Zenon
  <2> QED BY <1>0, <2>1, Given DEF PCs, Round
<1>7. OnProcessor' /\ NobodyDue'
  BY <1>0, <1>1 DEF OnProcessor, NobodyDue, Listed
<1>8. (Mlfq => \A j \in Jobs : Accounted(s[j]))' /\ Sliced'
  <2>1. s[i].state # "done"
    BY DEF Listed
  <2>2. \A j \in Jobs : /\ s'[j].level = s[j].level /\ s'[j].slice = s[j].slice
                        /\ s'[j].allot = s[j].allot /\ s'[j].ticks = s[j].ticks
                        /\ s'[j].state # "done" => s[j].state # "done"
    BY <1>1, <2>1
  <2> QED BY <1>0, <2>2 DEF Accounted, Sliced
<1>9. Best'
  <2>1. ASSUME Mlfq, NEW m \in 1..Len(ready') PROVE s'[i].level <= s'[ready'[m]].level
    <3>1. PICK n \in 1..Len(ready) :
             n # k /\ ready'[m] = ready[n] /\ ready[n] # i /\ ready[n] \in Jobs
      BY <1>3, <2>1
    <3>2. s[i].level <= s[ready[n]].level
      <4>1. s[i].level \in Int /\ s[ready[n]].level \in Int
        <5>1. \A j \in Jobs : s[j].level \in Int
          BY JobTypes, Zenon
        <5> QED BY <1>1, <3>1, <5>1
      <4>2. \/ s[i].level < s[ready[n]].level
            \/ s[i].level = s[ready[n]].level
        <5>1. DOMAIN ready = 1..Len(ready)
          OBVIOUS
        <5> QED BY <2>1, <1>1, <3>1, <5>1 DEF IsChoice
      <4> QED BY <4>1, <4>2
    <3> QED BY <1>1, <3>1, <3>2
  <2> QED BY <1>0, <1>1, <2>1 DEF Best
<1> QED BY <1>5, <1>6, <1>7, <1>8, <1>9

LEMMA RestInv == ASSUME MInv, KeepRunning \/ Idle \/ UNCHANGED vars PROVE MInv'
<1>1. CASE KeepRunning
  BY <1>1
  DEF MInv, Typed, PCs, Round, Listed, OnProcessor, NobodyDue, IsDue, Accounted, Best, Sliced,
      input, Mlfq, KeepRunning
<1>2. CASE Idle
  <2>1. now' \in Nat
    <3>1. CASE Future = {}
      BY <1>2, <3>1 DEF Idle, MInv, Typed
    <3>2. CASE Future # {}
      BY <1>2, <3>2, Earliest DEF Idle, MInv
    <3> QED BY <3>1, <3>2
  <2>2. /\ pc = "select" /\ pc' = "top" /\ current = None /\ ready = <<>>
        /\ UNCHANGED <<input, nextBoost, current, ready, s, at, off, sunk>>
    BY <1>2, Zenon DEF Idle
  <2> QED
    BY <2>1, <2>2
    DEF MInv, Typed, PCs, Round, Listed, OnProcessor, NobodyDue, Accounted, Best, Sliced,
        input, Mlfq
<1>3. CASE UNCHANGED vars
  BY <1>3
  DEF MInv, Typed, PCs, Round, Listed, OnProcessor, NobodyDue, IsDue, Accounted, Best, Sliced,
      Mlfq, vars
<1> QED BY <1>1, <1>2, <1>3

(* A charged tick moves from the allotment to the ticks; a sunk job has the *)
(* allotment of its new level before it.                                   *)
LEMMA AccountKept ==
    ASSUME NEW o \in JobStates, NEW n \in JobStates, Accounted(o), o.state # "done", Mlfq,
           NEW spent, spent = IF o.level = 2 THEN o.allot ELSE o.allot - 1,
           \/ /\ n.level = o.level + 1 /\ n.allot = Allot(o.level + 1) /\ n.ticks = 0
           \/ /\ n.level = o.level /\ n.allot = spent /\ n.ticks = o.ticks + 1
              /\ n.state = "done" \/ ~(Mlfq /\ o.level < 2 /\ spent = 0)
    PROVE  Accounted(n)
<1>1. /\ o.level \in 0..2 /\ n.level \in 0..2 /\ o.allot \in Int /\ n.allot \in Int
      /\ o.ticks \in Nat /\ n.ticks \in Nat
  BY JobFields
<1>2. CASE n.level = o.level + 1 /\ n.allot = Allot(o.level + 1) /\ n.ticks = 0
  <2>1. ASSUME n.level < 2 PROVE n.level = 1 /\ n.allot = 8 /\ n.ticks = 0
    <3>1. o.level + 1 = 1
      BY <1>1, <1>2, <2>1
    <3> QED BY <1>2, <3>1, Quanta
  <2> QED BY <2>1, Quanta DEF Accounted
<1>3. CASE /\ n.level = o.level /\ n.allot = spent /\ n.ticks = o.ticks + 1
           /\ n.state = "done" \/ ~(Mlfq /\ o.level < 2 /\ spent = 0)
  <2>1. ASSUME n.level < 2
        PROVE  /\ n.ticks + n.allot = Allot(n.level) /\ n.allot >= 0
               /\ n.state # "done" => n.allot >= 1
    <3>1. n.allot = o.allot - 1 /\ o.level < 2 /\ n.level = o.level
      BY <1>1, <1>3, <2>1
    <3>2. o.ticks + o.allot = Allot(o.level) /\ o.allot >= 1
      BY <3>1 DEF Accounted
    <3>3. n.ticks + n.allot = o.ticks + o.allot
      BY <1>1, <1>3, <3>1
    <3>4. n.state # "done" => n.allot # 0
      BY <1>3, <3>1
    <3> QED BY <1>1, <3>1, <3>2, <3>3, <3>4
  <2> QED BY <2>1 DEF Accounted
<1> QED BY <1>2, <1>3

(* What a tick does to the job that has it.                                *)
LEMMA Ticked ==
    ASSUME MInv, Tick
    PROVE  LET o == s[current]
               n == s'[current]
               spent == IF o.level = 2 THEN o.allot ELSE o.allot - 1
           IN /\ current \in Jobs /\ o \in JobStates /\ n \in JobStates
              /\ o.state = "running" /\ ~off
              /\ s' \in [Jobs -> JobStates] /\ \A i \in Jobs \ {current} : s'[i] = s[i]
              /\ n.maxWait = o.maxWait /\ n.readyAt = o.readyAt
              /\ \/ /\ Mlfq /\ o.level < 2 /\ off' /\ sunk'
                    /\ n.level = o.level + 1 /\ n.slice = Slice(o.level + 1)
                    /\ n.allot = Allot(o.level + 1) /\ n.ticks = 0
                 \/ /\ ~sunk'
                    /\ n.level = o.level /\ n.allot = spent /\ n.ticks = o.ticks + 1
                    /\ n.slice = IF o.slice - 1 # 0 THEN o.slice - 1 ELSE Slice(o.level)
                    /\ o.slice - 1 # 0 \/ off'
                    /\ n.state = "done" \/ ~(Mlfq /\ o.level < 2 /\ spent = 0)
              /\ \/ n.state = "done" /\ n.done # None /\ off'
                 \/ n.state = "blocked" /\ n.done = o.done /\ n.wake > now + 1 /\ off'
                 \/ n.state = "running" /\ n.done = o.done
<1> DEFINE o == s[current]
           j == jobs[current]
           spent == IF o.level = 2 THEN o.allot ELSE o.allot - 1
           job == [o EXCEPT !.left = @ - 1, !.used = @ + 1, !.slice = @ - 1,
                            !.allot = IF o.level = 2 THEN @ ELSE @ - 1, !.ticks = @ + 1]
           voluntary == j.burst # 0 /\ job.used % j.burst = 0
           settled == IF Sinks(job)
                      THEN [job EXCEPT !.level = @ + 1, !.slice = Slice(o.level + 1),
                                       !.allot = Allot(o.level + 1), !.ticks = 0]
                      ELSE [job EXCEPT !.slice = IF @ # 0 THEN @ ELSE Slice(o.level)]
           n == IF job.left = 0 THEN [settled EXCEPT !.state = "done", !.done = now + 1]
                ELSE IF voluntary /\ j.wait # 0
                THEN [settled EXCEPT !.state = "blocked", !.wake = now + 1 + j.wait]
                ELSE settled
<1>1. /\ s' = [s EXCEPT ![current] = n]
      /\ off' = (job.left = 0 \/ voluntary \/ job.slice = 0 \/ Sinks(job))
      /\ sunk' = Sinks(job)
  BY Zenon DEF Tick
<1>2. pc = "tick" /\ current \in Jobs /\ o \in JobStates /\ o.state = "running" /\ ~off
  <2>1. pc = "tick"
    BY Zenon DEF Tick
  <2> QED BY <2>1 DEF MInv, Typed, Round, OnProcessor
<1>3. j \in JobSpecs /\ now \in Nat /\ s \in [Jobs -> JobStates]
  BY <1>2, Given DEF MInv, Typed
<1>4. /\ job \in JobStates /\ job.state = "running" /\ job.done = o.done /\ job.wake = o.wake
      /\ job.level = o.level /\ job.slice = o.slice - 1 /\ job.ticks = o.ticks + 1
      /\ job.allot = spent /\ job.maxWait = o.maxWait /\ job.readyAt = o.readyAt
  BY <1>2, JobCharged
<1>5. /\ o.level \in 0..2 /\ o.slice \in Int /\ o.slice - 1 \in Int
  BY <1>2, JobFields
<1>6. \A l \in 0..2 : Slice(l) \in Int /\ Allot(l) \in Int
  BY Quanta
<1> HIDE DEF o, j, job, voluntary, spent
<1>7. CASE Sinks(job)
  <2>1. Mlfq /\ o.level < 2 /\ job.left # 0 /\ off' /\ sunk'
    BY <1>1, <1>4, <1>7 DEF Sinks
  <2>2. o.level + 1 \in 0..2 /\ job.level + 1 = o.level + 1
    BY <1>4, <1>5, <2>1
  <2>3. settled = [job EXCEPT !.level = o.level + 1, !.slice = Slice(o.level + 1),
                              !.allot = Allot(o.level + 1), !.ticks = 0]
    <3>1. settled = [job EXCEPT !.level = @ + 1, !.slice = Slice(o.level + 1),
                                !.allot = Allot(o.level + 1), !.ticks = 0]
      BY <1>7
    <3> HIDE DEF settled
    <3> QED BY <3>1, <1>4, <2>2 DEF JobStates
  <2> HIDE DEF settled
  <2>4. /\ settled \in JobStates /\ settled.state = job.state /\ settled.done = job.done
        /\ settled.level = o.level + 1 /\ settled.slice = Slice(o.level + 1)
        /\ settled.allot = Allot(o.level + 1) /\ settled.ticks = 0
        /\ settled.maxWait = job.maxWait /\ settled.readyAt = job.readyAt
    <3>1. Slice(o.level + 1) \in Int /\ Allot(o.level + 1) \in Int
      BY <1>6, <2>2, Zenon
    <3> DEFINE l == o.level + 1
               x == Slice(l)
               y == Allot(l)
    <3>2. l \in 0..2 /\ x \in Int /\ y \in Int /\ job \in JobStates
      BY <1>4, <2>2, <3>1, Zenon
    <3>3. settled = SunkTo(job, l, x, y)
      BY <2>3 DEF SunkTo
    <3> HIDE DEF l, x, y
    <3>4. /\ settled \in JobStates /\ settled.state = job.state /\ settled.done = job.done
          /\ settled.level = l /\ settled.slice = x
          /\ settled.allot = y /\ settled.ticks = 0
          /\ settled.maxWait = job.maxWait /\ settled.readyAt = job.readyAt
      BY <3>2, <3>3, JobSinks
    <3> QED BY <3>4 DEF l, x, y
  <2>5. CASE voluntary /\ j.wait # 0
    <3>1. n = [settled EXCEPT !.state = "blocked", !.wake = now + 1 + j.wait]
      BY <2>1, <2>5
    <3>2. now + 1 + j.wait \in Nat /\ now + 1 + j.wait > now + 1
      BY <1>3, <2>5 DEF JobSpecs
    <3> HIDE DEF n
    <3>3. /\ n \in JobStates /\ n.state = "blocked" /\ n.done = settled.done
          /\ n.wake = now + 1 + j.wait
          /\ n.level = settled.level /\ n.slice = settled.slice /\ n.allot = settled.allot
          /\ n.ticks = settled.ticks /\ n.maxWait = settled.maxWait
          /\ n.readyAt = settled.readyAt
      BY <2>4, <3>1, <3>2, JobBlocks, Zenon
    <3>4. s' \in [Jobs -> JobStates] /\ s'[current] = n
          /\ \A i \in Jobs \ {current} : s'[i] = s[i]
      BY <1>1, <1>2, <1>3, <3>3
    <3> QED BY <1>2, <1>4, <2>1, <2>4, <3>2, <3>3, <3>4 DEF o
  <2>6. CASE ~(voluntary /\ j.wait # 0)
    <3>1. n = settled
      BY <2>1, <2>6
    <3> HIDE DEF n
    <3>4. s' \in [Jobs -> JobStates] /\ s'[current] = n
          /\ \A i \in Jobs \ {current} : s'[i] = s[i]
      BY <1>1, <1>2, <1>3, <2>4, <3>1
    <3> QED BY <1>2, <1>4, <2>1, <2>4, <3>1, <3>4 DEF o
  <2> QED BY <2>5, <2>6
<1>8. CASE ~Sinks(job)
  <2> DEFINE x == IF o.slice - 1 # 0 THEN o.slice - 1 ELSE Slice(o.level)
  <2>1. x \in Int
    BY <1>5, <1>6
  <2>2. settled = [job EXCEPT !.slice = x]
    <3>1. settled = [job EXCEPT !.slice = IF @ # 0 THEN @ ELSE Slice(o.level)]
      BY <1>8
    <3> HIDE DEF settled
    <3> QED BY <3>1, <1>4 DEF JobStates
  <2> HIDE DEF settled, x
  <2>3. /\ settled \in JobStates /\ settled.state = job.state /\ settled.done = job.done
        /\ settled.level = job.level /\ settled.slice = x
        /\ settled.allot = job.allot /\ settled.ticks = job.ticks
        /\ settled.maxWait = job.maxWait /\ settled.readyAt = job.readyAt
    BY <1>4, <2>1, <2>2, JobSliced, Zenon
  <2>4. (o.slice - 1 # 0 \/ off') /\ ~sunk'
    BY <1>1, <1>4, <1>8
  <2>5. job.left = 0 \/ ~(Mlfq /\ o.level < 2 /\ spent = 0)
    BY <1>4, <1>8 DEF Sinks
  <2>6. CASE job.left = 0
    <3>1. n = [settled EXCEPT !.state = "done", !.done = now + 1] /\ off'
      BY <1>1, <2>6
    <3>2. now + 1 \in Nat
      BY <1>3
    <3> HIDE DEF n
    <3>3. /\ n \in JobStates /\ n.state = "done" /\ n.done # None
          /\ n.level = settled.level /\ n.slice = settled.slice /\ n.allot = settled.allot
          /\ n.ticks = settled.ticks /\ n.maxWait = settled.maxWait
          /\ n.readyAt = settled.readyAt
      BY <2>3, <3>1, <3>2, JobLeaves, Zenon
    <3>4. s' \in [Jobs -> JobStates] /\ s'[current] = n
          /\ \A i \in Jobs \ {current} : s'[i] = s[i]
      BY <1>1, <1>2, <1>3, <3>3
    <3> QED BY <1>2, <1>4, <2>3, <2>4, <3>1, <3>3, <3>4 DEF o, x, spent
  <2>7. CASE job.left # 0 /\ voluntary /\ j.wait # 0
    <3>1. n = [settled EXCEPT !.state = "blocked", !.wake = now + 1 + j.wait] /\ off'
      BY <1>1, <2>7
    <3>2. now + 1 + j.wait \in Nat /\ now + 1 + j.wait > now + 1
      BY <1>3, <2>7 DEF JobSpecs
    <3> HIDE DEF n
    <3>3. /\ n \in JobStates /\ n.state = "blocked" /\ n.done = settled.done
          /\ n.wake = now + 1 + j.wait
          /\ n.level = settled.level /\ n.slice = settled.slice /\ n.allot = settled.allot
          /\ n.ticks = settled.ticks /\ n.maxWait = settled.maxWait
          /\ n.readyAt = settled.readyAt
      BY <2>3, <3>1, <3>2, JobBlocks, Zenon
    <3>4. s' \in [Jobs -> JobStates] /\ s'[current] = n
          /\ \A i \in Jobs \ {current} : s'[i] = s[i]
      BY <1>1, <1>2, <1>3, <3>3
    <3> QED BY <1>2, <1>4, <2>3, <2>4, <2>5, <2>7, <3>1, <3>2, <3>3, <3>4 DEF o, x, spent
  <2>8. CASE job.left # 0 /\ ~(voluntary /\ j.wait # 0)
    <3>1. n = settled
      BY <2>8
    <3> HIDE DEF n
    <3>4. s' \in [Jobs -> JobStates] /\ s'[current] = n
          /\ \A i \in Jobs \ {current} : s'[i] = s[i]
      BY <1>1, <1>2, <1>3, <2>3, <3>1
    <3> QED BY <1>2, <1>4, <2>3, <2>4, <2>5, <2>8, <3>1, <3>4 DEF o, x, spent
  <2> QED BY <2>6, <2>7, <2>8
<1> QED BY <1>7, <1>8

(* The tick leaves the list alone and the current job's account in order.  *)
LEMMA TickInv == ASSUME MInv, Tick PROVE MInv'
<1>0. /\ pc = "tick" /\ pc' = "arrive" /\ at = 0 /\ now' = now + 1 /\ ~off
      /\ UNCHANGED <<input, nextBoost, current, ready, at>>
      /\ off' \in BOOLEAN
  <2>1. /\ pc = "tick" /\ pc' = "arrive" /\ now' = now + 1
        /\ UNCHANGED <<input, nextBoost, current, ready, at>>
    BY Zenon DEF Tick
  <2>2. off' \in BOOLEAN
    BY DEF Tick
  <2> QED BY <2>1, <2>2 DEF MInv, Round
<1> USE DEF MInv, Typed, input, Mlfq
<1> DEFINE o == s[current]
           n == s'[current]
           spent == IF o.level = 2 THEN o.allot ELSE o.allot - 1
           Sunk == /\ Mlfq /\ o.level < 2 /\ off'
                   /\ n.level = o.level + 1 /\ n.slice = Slice(o.level + 1)
                   /\ n.allot = Allot(o.level + 1) /\ n.ticks = 0
           Stays == /\ n.level = o.level /\ n.allot = spent /\ n.ticks = o.ticks + 1
                    /\ n.slice = IF o.slice - 1 # 0 THEN o.slice - 1 ELSE Slice(o.level)
                    /\ n.state = "done" \/ ~(Mlfq /\ o.level < 2 /\ spent = 0)
<1>1. /\ current \in Jobs /\ o \in JobStates /\ n \in JobStates
      /\ o.state = "running"
      /\ s' \in [Jobs -> JobStates] /\ \A i \in Jobs \ {current} : s'[i] = s[i]
      /\ Sunk \/ Stays
      /\ \/ n.state = "done" /\ n.done # None /\ off'
         \/ n.state = "blocked" /\ n.done = o.done /\ n.wake > now + 1 /\ off'
         \/ n.state = "running" /\ n.done = o.done
  BY Ticked, Zenon
<1>2. Typed' /\ Round'
  BY <1>0, <1>1, Given DEF PCs, Round
<1>3. Listed'
  <2>1. \A m \in 1..Len(ready) : ready[m] \in Jobs /\ ready[m] # current
    BY <1>1 DEF Listed
  <2> QED BY <1>0, <1>1, <2>1 DEF Listed
<1>4. OnProcessor'
  <2>1. \A i \in Jobs : s'[i].state = "done" <=> s'[i].done # None
    BY <1>1 DEF OnProcessor
  <2>2. n.state = "blocked" => ~(n.wake <= now + 1)
    <3>1. n.wake \in Nat /\ now + 1 \in Nat
      BY <1>1, JobFields
    <3>2. n.state = "blocked" => n.wake > now + 1
      BY <1>1
    <3> QED BY <3>1, <3>2
  <2> QED BY <1>0, <1>1, <2>1, <2>2 DEF OnProcessor, IsDue
<1>5. NobodyDue' /\ Best'
  BY <1>0 DEF NobodyDue, Best, Jobs
<1>6. /\ o.level \in 0..2 /\ n.level \in 0..2 /\ o.slice \in Int /\ n.slice \in Int
      /\ o.allot \in Int /\ n.allot \in Int /\ o.ticks \in Nat /\ n.ticks \in Nat
  BY <1>1, JobFields, Zenon
<1>7. (Mlfq => \A i \in Jobs : Accounted(s[i]))'
  <2>1. ASSUME Mlfq PROVE Accounted(n)
    <3>1. Accounted(o) /\ o.state # "done"
      BY <1>1, <2>1
    <3> HIDE DEF MInv, Typed, Mlfq
    <3> QED BY <1>1, <2>1, <3>1, AccountKept, Zenon
  <2> QED BY <1>0, <1>1, <2>1 DEF Accounted
<1>8. Sliced'
  <2>1. n.slice \in 1..Slice(n.level) /\ (~Mlfq => n.level = 0)
    <3>0. o.slice \in 1..Slice(o.level) /\ (~Mlfq => o.level = 0) /\ Slice(o.level) \in Int
      BY <1>1, <1>6, Quanta DEF Sliced
    <3>1. CASE Sunk
      BY <1>6, <3>0, <3>1, Quanta
    <3>2. CASE Stays
      BY <1>6, <3>0, <3>2, Quanta
    <3> QED BY <1>1, <3>1, <3>2
  <2> QED BY <1>0, <1>1, <2>1 DEF Sliced
<1> QED BY <1>2, <1>3, <1>4, <1>5, <1>7, <1>8

(* Off the processor, or not.                                              *)
LEMMA Requeued ==
    ASSUME MInv, Requeue
    PROVE  /\ pc = "requeue" /\ pc' = "top" /\ at = 0 /\ ~off'
           /\ current \in Jobs /\ s[current] \in JobStates
           /\ UNCHANGED <<input, now, nextBoost, at>>
           /\ \/ /\ ~off /\ ~BoostDue /\ s[current].state = "running"
                 /\ UNCHANGED <<s, ready, current>>
                 /\ Mlfq => \A m \in 1..Len(ready) : s[current].level <= s[ready[m]].level
              \/ /\ current' = None /\ s[current].state = "running"
                 /\ s' \in [Jobs -> JobStates] /\ \A i \in Jobs \ {current} : s'[i] = s[i]
                 /\ s'[current].state = "ready" /\ s'[current].done = s[current].done
                 /\ s'[current].level = s[current].level
                 /\ s'[current].slice = s[current].slice
                 /\ s'[current].allot = s[current].allot
                 /\ s'[current].ticks = s[current].ticks
                 /\ s'[current].maxWait = s[current].maxWait
                 /\ s'[current].readyAt = now
                 /\ ready' = Append(ready, current)
              \/ /\ current' = None /\ s[current].state # "running"
                 /\ UNCHANGED <<s, ready>>
<1>1. /\ pc = "requeue" /\ pc' = "top" /\ ~off' /\ at = 0
      /\ UNCHANGED <<input, now, nextBoost, at>>
  BY Zenon DEF Requeue, MInv, Round
<1>2. current \in Jobs /\ s[current] \in JobStates
  BY <1>1 DEF MInv, Typed, Round
<1>3. CASE ~(off \/ Higher \/ BoostDue)
  <2>1. UNCHANGED <<s, ready, current>>
    BY <1>3, Zenon DEF Requeue
  <2>2. s[current].state = "running"
    BY <1>2, <1>3, Given DEF MInv, OnProcessor
  <2>3. ASSUME Mlfq, NEW m \in 1..Len(ready) PROVE s[current].level <= s[ready[m]].level
    <3>1. ready[m] \in Jobs /\ ready[m] \in ToSet(ready)
      <4>1. ready \in Seq(Jobs)
        BY DEF MInv, Typed
      <4> QED BY <4>1 DEF ToSet
    <3>2. s[current].level \in Int /\ s[ready[m]].level \in Int
      <4>1. \A i \in Jobs : s[i].level \in Int
        BY JobTypes, Zenon DEF MInv
      <4> QED BY <1>2, <3>1, <4>1
    <3>3. ~(s[ready[m]].level < s[current].level)
      BY <1>3, <2>3, <3>1, Zenon DEF Higher
    <3> QED BY <3>2, <3>3
  <2> QED BY <1>1, <1>2, <1>3, <2>1, <2>2, <2>3
<1>4. CASE (off \/ Higher \/ BoostDue) /\ s[current].state = "running"
  <2> DEFINE r == Returned(s[current], now)
  <2>1. current' = None /\ s' = [s EXCEPT ![current] = r] /\ ready' = Append(ready, current)
    <3>1. /\ current' = None /\ ready' = Append(ready, current)
          /\ s' = [s EXCEPT ![current].state = "ready", ![current].readyAt = now]
      BY <1>4, Zenon DEF Requeue
    <3> QED BY <1>2, <3>1 DEF MInv, Typed, Returned
  <2>2. /\ r \in JobStates /\ r.state = "ready" /\ r.done = s[current].done
        /\ r.level = s[current].level /\ r.slice = s[current].slice
        /\ r.allot = s[current].allot /\ r.ticks = s[current].ticks
        /\ r.maxWait = s[current].maxWait /\ r.readyAt = now
    <3>1. now \in Nat
      BY DEF MInv, Typed
    <3> QED BY <1>2, <3>1, JobReturns, Zenon
  <2> HIDE DEF r
  <2>3. /\ s' \in [Jobs -> JobStates] /\ s'[current] = r
        /\ \A i \in Jobs \ {current} : s'[i] = s[i]
    BY <1>2, <2>1, <2>2 DEF MInv, Typed
  <2> QED BY <1>1, <1>2, <1>4, <2>1, <2>2, <2>3
<1>5. CASE (off \/ Higher \/ BoostDue) /\ s[current].state # "running"
  <2>1. current' = None /\ UNCHANGED <<s, ready>>
    BY <1>5, Zenon DEF Requeue
  <2> QED BY <1>1, <1>2, <1>5, <2>1
<1> QED BY <1>3, <1>4, <1>5

(* Only a job that is still running goes back to the list.                 *)
LEMMA RequeueInv == ASSUME MInv, Requeue PROVE MInv'
<1> DEFINE Keeps == /\ ~off /\ ~BoostDue /\ s[current].state = "running"
                    /\ UNCHANGED <<s, ready, current>>
                    /\ Mlfq => \A m \in 1..Len(ready) : s[current].level <= s[ready[m]].level
           Back == /\ current' = None /\ s[current].state = "running"
                   /\ s' \in [Jobs -> JobStates] /\ \A i \in Jobs \ {current} : s'[i] = s[i]
                   /\ s'[current].state = "ready" /\ s'[current].done = s[current].done
                   /\ s'[current].level = s[current].level
                   /\ s'[current].slice = s[current].slice
                   /\ s'[current].allot = s[current].allot
                   /\ s'[current].ticks = s[current].ticks
                   /\ ready' = Append(ready, current)
           Gone == current' = None /\ UNCHANGED <<s, ready>>
<1>1. /\ pc = "requeue" /\ pc' = "top" /\ at = 0 /\ ~off'
      /\ current \in Jobs /\ s[current] \in JobStates
      /\ UNCHANGED <<input, now, nextBoost, at>>
      /\ Keeps \/ Back \/ Gone
  BY Requeued, Zenon
<1>2. off' \in BOOLEAN
  BY DEF Requeue
<1> USE DEF MInv, Typed, input, Mlfq
<1>3. None \notin Jobs /\ pc' \in PCs
  BY <1>1, Given DEF PCs
<1>4. CASE Keeps
  <2>1. NobodyDue'
    BY <1>1, <1>4 DEF NobodyDue, IsDue
  <2> QED
    BY <1>1, <1>2, <1>3, <1>4, <2>1
    DEF Round, Listed, OnProcessor, IsDue, Best, Sliced
<1>5. CASE Back
  <2>1. \A m \in 1..Len(ready) : ready[m] \in Jobs /\ ready[m] # current
    BY <1>1, <1>5 DEF Listed
  <2>2. /\ ready' \in Seq(Jobs) /\ Len(ready') = Len(ready) + 1 /\ Len(ready) \in Nat
        /\ \A m \in 1..Len(ready) : ready'[m] = ready[m]
        /\ ready'[Len(ready) + 1] = current
    BY <1>1, <1>5
  <2>3. Typed' /\ Round'
    BY <1>1, <1>2, <1>3, <1>5, <2>2 DEF Round
  <2>4. Listed'
    <3>1. Distinct(ready)'
      BY <2>1, <2>2 DEF Listed, Distinct
    <3>2. \A m \in 1..Len(ready') : s'[ready'[m]].state = "ready"
      BY <1>1, <1>5, <2>1, <2>2 DEF Listed
    <3> QED BY <3>1, <3>2 DEF Listed
  <2>5. OnProcessor' /\ Best'
    BY <1>1, <1>5 DEF OnProcessor, Best
  <2>6. NobodyDue'
    BY <1>1, <1>5 DEF NobodyDue, Jobs
  <2>7. (Mlfq => \A i \in Jobs : Accounted(s[i]))' /\ Sliced'
    BY <1>1, <1>5 DEF Accounted, Sliced
  <2> QED BY <2>3, <2>4, <2>5, <2>6, <2>7
<1>6. CASE Gone
  <2>1. NobodyDue' /\ OnProcessor' /\ Best'
    BY <1>1, <1>6 DEF NobodyDue, OnProcessor, Best, Jobs
  <2> QED BY <1>1, <1>2, <1>3, <1>6, <2>1 DEF Round, Listed, Sliced
<1> QED BY <1>1, <1>4, <1>5, <1>6

LEMMA MNext == ASSUME MInv, [Next]_vars PROVE MInv'
<1>1. CASE TopArrivals
  <2>1. CASE Arrive
    BY <1>1, <2>1, ArriveInv DEF TopArrivals
  <2>2. CASE Arrived("top", "boost")
    BY <2>2, ArrivedInv
  <2> QED BY <1>1, <2>1, <2>2 DEF TopArrivals
<1>2. CASE TickArrivals
  <2>1. CASE Arrive
    BY <1>2, <2>1, ArriveInv DEF TickArrivals
  <2>2. CASE Arrived("arrive", "requeue")
    BY <2>2, ArrivedInv
  <2> QED BY <1>2, <2>1, <2>2 DEF TickArrivals
<1>3. CASE End \/ UNCHANGED vars
  BY <1>3, RestInv DEF End
<1> QED
  BY <1>1, <1>2, <1>3, BoostInv, SelectInv, RestInv, TickInv, RequeueInv DEF Next, Step

(* What simulate() keeps of jobs, list and clock fits together at every     *)
(* point of a round.                                                       *)
THEOREM SimInvariance == Spec => []MInv
<1>1. MInv /\ [Next]_vars => MInv'
  BY MNext
<1> QED BY MInit, <1>1, PTL DEF Spec

(* pick() and the checks behind a tick: no tick goes to a job while a job   *)
(* of a better level is ready.                                             *)
THEOREM BestRuns == Spec => []BestLevelRuns
<1>1. MInv => BestLevelRuns
  <2> SUFFICES ASSUME MInv, pc = "tick", Mlfq, NEW k \in ToSet(ready)
               PROVE  s[current].level <= s[k].level
    BY DEF BestLevelRuns
  <2>1. PICK m \in 1..Len(ready) : k = ready[m]
    BY DEF MInv, Typed, ToSet
  <2>2. current # None
    BY DEF MInv, Round
  <2> QED BY <2>1, <2>2 DEF MInv, Best
<1> QED BY <1>1, SimInvariance, PTL

(* The ticks of a job on a level stay within the level's allotment,        *)
(* whatever it yields and however often it waits.                          *)
THEOREM Accounting == Spec => []AccountingSurvives
<1>1. MInv => AccountingSurvives
  <2> SUFFICES ASSUME MInv, Mlfq, NEW i \in Jobs, s[i].level < 2
               PROVE  s[i].ticks <= Allot(s[i].level)
    BY DEF AccountingSurvives
  <2>1. /\ s[i].ticks \in Nat /\ s[i].allot \in Int /\ s[i].allot >= 0
        /\ s[i].ticks + s[i].allot = Allot(s[i].level)
    BY JobTypes DEF MInv, Accounted
  <2> QED BY <2>1
<1> QED BY <1>1, SimInvariance, PTL

-----------------------------------------------------------------------------
(***************************************************************************)
(* How long a ready job waits.                                             *)
(***************************************************************************)
(* The next boost is the first multiple of the period after now.           *)
LEMMA NextPeriod ==
    ASSUME NEW n \in Nat, NEW p \in Nat \ {0}
    PROVE  /\ (n \div p + 1) * p \in Nat
           /\ n < (n \div p + 1) * p /\ (n \div p + 1) * p - p <= n
<1>1. /\ n \div p \in Nat /\ n % p \in 0..(p - 1)
      /\ n = p * (n \div p) + (n % p)
  OBVIOUS
<1> DEFINE q == n \div p
           r == n % p
<1> HIDE DEF q, r
<1>2. q \in Nat /\ r \in 0..(p - 1) /\ n = p * q + r
  BY <1>1 DEF q, r
<1>3. (q + 1) * p = p * q + p /\ p * q \in Nat
  BY <1>2
<1> QED BY <1>2, <1>3 DEF q

LEMMA Listing ==
    ASSUME MInv
    PROVE  /\ ready \in Seq(Jobs) /\ Len(ready) \in Nat /\ NJobs \in Nat
           /\ now \in Nat /\ nextBoost \in Nat /\ period \in Nat \ {0}
           /\ \A m \in 1..Len(ready) :
                 /\ ready[m] \in Jobs /\ s[ready[m]].state = "ready"
                 /\ s[ready[m]].readyAt \in Nat /\ s[ready[m]].level \in 0..2
           /\ Rest \in Nat /\ (~Mlfq => Rest <= 2)
           /\ \A m \in 1..Len(ready) : Waited(m) \in Int /\ Ahead(m) \in Nat
<1>1. /\ ready \in Seq(Jobs) /\ now \in Nat /\ nextBoost \in Nat
      /\ period \in Nat \ {0} /\ NJobs \in Nat
  BY Given DEF MInv, Typed
<1>2. Len(ready) \in Nat /\ \A m \in 1..Len(ready) : ready[m] \in Jobs
  BY <1>1
<1>3. \A i \in Jobs : s[i].readyAt \in Nat /\ s[i].level \in 0..2 /\ s[i].slice \in Int
  BY JobTypes, Zenon DEF MInv
<1>4. \A m \in 1..Len(ready) : /\ ready[m] \in Jobs /\ s[ready[m]].state = "ready"
                               /\ s[ready[m]].readyAt \in Nat /\ s[ready[m]].level \in 0..2
  BY <1>2, <1>3 DEF MInv, Listed
<1>5. Rest \in Nat /\ (~Mlfq => Rest <= 2)
  <2>1. CASE current = None \/ off
    BY <2>1 DEF Rest
  <2>2. CASE ~(current = None \/ off)
    <3>1. current \in Jobs
      BY <2>2 DEF MInv, Typed
    <3>2. s[current].slice \in 1..Slice(s[current].level) /\ (~Mlfq => s[current].level = 0)
      BY <3>1 DEF MInv, Sliced
    <3>3. s[current].slice \in Int /\ s[current].slice >= 1
      BY <1>3, <3>1, <3>2, Quanta
    <3>4. ~Mlfq => s[current].slice <= 2
      BY <3>2, Quanta
    <3> QED BY <2>2, <3>3, <3>4 DEF Rest
  <2> QED BY <2>1, <2>2
<1> DEFINE R == Rest
<1>6. R \in Nat
  BY <1>5
<1>7. \A m \in 1..Len(ready) : Waited(m) \in Int /\ Ahead(m) = 2 * (m - 1) + R
  BY <1>1, <1>4 DEF Waited, Ahead
<1> HIDE DEF R
<1>8. \A m \in 1..Len(ready) : 2 * (m - 1) + R \in Nat
  BY <1>2, <1>6
<1> QED BY <1>1, <1>2, <1>4, <1>5, <1>7, <1>8

Entries ==
    /\ now \in Nat /\ nextBoost \in Nat /\ period \in Nat \ {0} /\ Rest \in Nat
    /\ \A m \in 1..Len(ready) : Waited(m) \in Int /\ Ahead(m) \in Nat

(* The same of the state after a step.                                     *)
LEMMA ListingNext == MInv' => Entries'
<1>1. MInv => Entries
  BY Listing DEF Entries
<1> QED BY <1>1, PTL

(* Each way of waiting keeps to the bound; who came after the last boost    *)
(* has waited a period at most.                                            *)
LEMMA Waiting ==
    ASSUME MInv, Boosts, NEW m \in 1..Len(ready), Waits(m)
    PROVE  /\ Waited(m) <= (IF Mlfq THEN period ELSE 0) + 2 * (NJobs - 1)
           /\ Mlfq /\ Young(m) => Waited(m) <= period
<1>1. /\ NJobs \in Nat /\ now \in Nat /\ nextBoost \in Nat /\ period \in Nat
      /\ s[ready[m]].readyAt \in Nat /\ ready[m] \in Jobs
      /\ Waited(m) \in Int /\ Ahead(m) \in Nat
  BY Listing
<1>2. NJobs >= 1
  BY <1>1 DEF Jobs
<1>3. Young(m) => Waited(m) <= period
  BY <1>1 DEF Young, Waited
<1>4. CASE Mlfq
  BY <1>1, <1>2, <1>3, <1>4 DEF Waits, Old
<1>5. CASE ~Mlfq
  BY <1>1, <1>5 DEF Waits
<1> QED BY <1>3, <1>4, <1>5

LEMMA WInit == Init => WInv
<1> SUFFICES ASSUME Init PROVE WInv
  OBVIOUS
<1>1. period \in Nat \ {0} /\ now = 0 /\ nextBoost = period /\ pc = "top" /\ current = None
      /\ ready = <<>> /\ NJobs \in Nat
  BY SimAssumption DEF Init
<1>2. Boosts
  BY <1>1 DEF Boosts
<1>3. WaitIsBounded
  <2>1. s = [i \in Jobs |-> NewJob(jobs[i])]
    BY DEF Init
  <2>2. ASSUME NEW i \in Jobs
        PROVE  s[i].maxWait = 0 /\ NJobs >= 1
    BY <1>1, <2>1 DEF NewJob, Jobs
  <2>3. ASSUME NEW i \in Jobs
        PROVE  s[i].maxWait <= (IF Mlfq THEN period ELSE 0) + 2 * (NJobs - 1)
    BY <1>1, <2>2
  <2> QED BY <2>3 DEF WaitIsBounded
<1> QED BY <1>1, <1>2, <1>3 DEF WInv

LEMMA NoMore ==
    ASSUME NEW w \in Int, NEW a \in Nat, NEW v \in Int, NEW b \in Nat, NEW most \in Int,
           v + b <= w + a, w + a <= most
    PROVE  v + b <= most
  OBVIOUS

(* A job that stays in the list keeps to the bound when what it has waited *)
(* and what is ahead of it together do not grow.                           *)
LEMMA StillWaits ==
    ASSUME MInv, MInv', UNCHANGED <<input, nextBoost>>, now' = now \/ now' <= nextBoost,
           NEW m \in 1..Len(ready), NEW n \in 1..Len(ready'), Waits(m),
           ready'[n] = ready[m], s'[ready[m]].readyAt = s[ready[m]].readyAt,
           Waited(n)' + Ahead(n)' <= Waited(m) + Ahead(m),
           Mlfq /\ Old(m) => \A k \in 1..n : s'[ready'[k]].level = 0
    PROVE  Waits(n)'
<1>1. /\ NJobs \in Nat /\ now \in Nat /\ nextBoost \in Nat /\ period \in Nat \ {0}
      /\ Waited(m) \in Int /\ Ahead(m) \in Nat
  BY Listing
<1>2. now' \in Nat /\ Waited(n)' \in Int /\ Ahead(n)' \in Nat
  <2>1. /\ now' \in Nat
        /\ \A k \in 1..Len(ready') : Waited(k)' \in Int /\ Ahead(k)' \in Nat
    BY ListingNext DEF Entries
  <2> QED BY <2>1
<1>3. /\ policy' = policy /\ period' = period /\ nextBoost' = nextBoost
      /\ Mlfq' <=> Mlfq
  BY DEF input, Mlfq
<1>4. CASE ~Mlfq
  <2>1. Waited(m) + Ahead(m) <= 2 * (NJobs - 1)
    BY <1>4 DEF Waits
  <2>2. Waited(n)' + Ahead(n)' <= 2 * (NJobs - 1)
    <3>1. 2 * (NJobs - 1) \in Int
      BY <1>1
    <3> QED BY <1>1, <1>2, <2>1, <3>1, NoMore, Zenon
  <2> QED BY <1>3, <1>4, <2>2 DEF Waits
<1>5. CASE Mlfq /\ Old(m)
  <2>1. Waited(n)' + Ahead(n)' <= period + 2 * (NJobs - 1)
    <3>1. Waited(m) + Ahead(m) <= period + 2 * (NJobs - 1)
      BY <1>5 DEF Old
    <3>2. period + 2 * (NJobs - 1) \in Int
      BY <1>1
    <3> QED BY <1>1, <1>2, <3>1, <3>2, NoMore, Zenon
  <2> QED BY <1>3, <1>5, <2>1 DEF Waits, Old
<1>6. CASE Mlfq /\ Young(m)
  <2>1. s'[ready'[n]].readyAt >= nextBoost - period
    BY <1>6 DEF Young
  <2>2. now' <= nextBoost \/ Waited(n)' = 0
    BY <1>6 DEF Young, Waited
  <2> QED BY <1>3, <1>6, <2>1, <2>2 DEF Waits, Young
<1> QED BY <1>4, <1>5, <1>6 DEF Waits

(* It starts to wait when it comes to the list.                            *)
LEMMA StartsToWait ==
    ASSUME MInv, MInv', Boosts', NEW n \in 1..Len(ready'), s'[ready'[n]].readyAt = now',
           ~Mlfq => (n - 1) * 2 + Rest' <= 2 * (NJobs - 1), UNCHANGED input
    PROVE  Waits(n)'
<1>1. /\ NJobs \in Nat /\ now' \in Nat /\ nextBoost' \in Nat /\ period' \in Nat \ {0}
      /\ Rest' \in Nat
  BY ListingNext, SimAssumption DEF Entries
<1>2. Waited(n)' = 0 /\ n - 1 \in Nat
  <2>1. Len(ready') \in Nat
    BY DEF MInv, Typed
  <2>2. n - 1 \in Nat
    BY <2>1
  <2>3. Waited(n)' = now' - s'[ready'[n]].readyAt
    BY DEF Waited
  <2>4. Waited(n)' = now' - now'
    BY <2>3, Zenon
  <2>5. now' - now' = 0
    <3>1. \A x \in Nat : x - x = 0
      OBVIOUS
    <3> QED BY <1>1, <3>1, Zenon
  <2> QED BY <2>2, <2>4, <2>5, Zenon
<1>3. CASE ~Mlfq
  <2>1. Ahead(n)' <= 2 * (NJobs - 1)
    <3>1. Ahead(n)' = 2 * (n - 1) + Rest'
      BY DEF Ahead
    <3>2. 2 * (n - 1) = (n - 1) * 2
      BY <1>2
    <3> QED BY <1>3, <3>1, <3>2
  <2>2. Ahead(n)' \in Nat
    <3>1. \A k \in 1..Len(ready') : Ahead(k)' \in Nat
      BY ListingNext DEF Entries
    <3> QED BY <3>1
  <2>3. Waited(n)' + Ahead(n)' <= 2 * (NJobs - 1)
    BY <1>1, <1>2, <2>1, <2>2
  <2> QED BY <1>3, <2>3 DEF Waits, input, Mlfq
<1>4. CASE Mlfq
  <2>1. now' >= nextBoost' - period'
    BY <1>4 DEF Boosts, input, Mlfq
  <2> QED BY <1>2, <1>4, <2>1 DEF Waits, Young, input, Mlfq
<1> QED BY <1>3, <1>4

(* A job that is brought in finds at most everybody else ahead of it.      *)
LEMMA ArriveWaits ==
    ASSUME MInv, MInv', WInv, Arrive, pc \in {"top", "arrive"}
    PROVE  WInv'
<1>0. /\ at \in Jobs /\ UNCHANGED <<input, now, nextBoost, current, pc, off, sunk>>
      /\ s[at] \in JobStates /\ s \in [Jobs -> JobStates] /\ now \in Nat
  BY SimAssumption DEF MInv, Typed, Arrive, Jobs
<1>1. Boosts'
  BY <1>0 DEF WInv, Boosts, input, Mlfq
<1>2. CASE ~IsDue(at)
  <2>0. s[at].state \notin {"new", "blocked"} \/ s[at].wake > now
    BY <1>0, <1>2 DEF IsDue, JobStates
  <2>1. s' = s /\ ready' = ready
    BY <2>0, Zenon DEF Arrive
  <2> QED
    BY <1>0, <1>1, <2>1
    DEF WInv, Waits, Young, Old, Waited, Ahead, Rest, WaitIsBounded, input, Mlfq
<1>3. CASE IsDue(at)
  <2>0. s[at].state \in {"new", "blocked"} /\ ~(s[at].wake > now)
    BY <1>0, <1>3 DEF IsDue, JobStates
  <2>1. \A m \in 1..Len(ready) : ready[m] \in Jobs /\ ready[m] # at
    BY <2>0, Listing
  <2>2. current # None /\ ~off => current \in Jobs /\ current # at /\ s[current].state = "running"
    BY <2>0 DEF MInv, Typed, OnProcessor
  <2>3. /\ s' \in [Jobs -> JobStates] /\ \A i \in Jobs \ {at} : s'[i] = s[i]
        /\ s'[at].maxWait = s[at].maxWait
        /\ \/ ready' = ready
           \/ ready' = Append(ready, at) /\ s'[at].readyAt = now
    <3>1. CASE s[at].left = 0
      <4> DEFINE r == Ended(s[at], now)
      <4>1. s' = [s EXCEPT ![at] = r] /\ ready' = ready
        BY <2>0, <3>1, Zenon DEF Arrive, Ended
      <4>2. r \in JobStates /\ r.maxWait = s[at].maxWait
        BY <1>0, JobEnds
      <4> HIDE DEF r
      <4> QED BY <1>0, <4>1, <4>2
    <3>2. CASE s[at].left # 0
      <4> DEFINE r == Returned(s[at], now)
      <4>1. s' = [s EXCEPT ![at] = r] /\ ready' = Append(ready, at)
        BY <2>0, <3>2, Zenon DEF Arrive, Returning, Returned
      <4>2. r \in JobStates /\ r.maxWait = s[at].maxWait /\ r.readyAt = now
        BY <1>0, JobReturns
      <4> HIDE DEF r
      <4> QED BY <1>0, <4>1, <4>2
    <3> QED BY <3>1, <3>2
  <2>4. Rest' = Rest
    BY <1>0, <2>2, <2>3 DEF Rest
  <2>5. WaitIsBounded'
    BY <1>0, <2>3 DEF WInv, WaitIsBounded, input, Mlfq
  <2>6. /\ Len(ready) \in Nat /\ Len(ready') \in Nat
        /\ \A m \in 1..Len(ready) : m \in 1..Len(ready') /\ ready'[m] = ready[m]
        /\ \A m \in 1..Len(ready') : m \notin 1..Len(ready) =>
              m = Len(ready) + 1 /\ ready'[m] = at /\ s'[at].readyAt = now
    <3>1. ready \in Seq(Jobs)
      BY DEF MInv, Typed
    <3>2. CASE ready' = ready
      BY <3>1, <3>2
    <3>3. CASE ready' = Append(ready, at) /\ s'[at].readyAt = now
      BY <1>0, <3>1, <3>3, Addition
    <3> QED BY <2>3, <3>2, <3>3
  <2>7. ASSUME NEW m \in 1..Len(ready) PROVE Waits(m)'
    <3>1. /\ m \in 1..Len(ready') /\ Waits(m) /\ ready'[m] = ready[m] /\ ready[m] \in Jobs
          /\ s'[ready[m]] = s[ready[m]]
      BY <2>1, <2>3, <2>6 DEF WInv
    <3>2. Waited(m)' = Waited(m) /\ Ahead(m)' = Ahead(m)
      BY <1>0, <2>4, <3>1 DEF Waited, Ahead
    <3>3. \A k \in 1..m : k \in 1..Len(ready)
      BY <2>6
    <3>4. Old(m) => \A k \in 1..m : s'[ready'[k]].level = 0
      BY <2>1, <2>3, <2>6, <3>3 DEF Old
    <3>5. Waited(m)' + Ahead(m)' <= Waited(m) + Ahead(m)
      <4>1. Waited(m) \in Int /\ Ahead(m) \in Nat
        BY Listing
      <4> QED BY <3>2, <4>1
    <3> QED BY <1>0, <3>1, <3>4, <3>5, StillWaits
  <2>8. ASSUME NEW m \in 1..Len(ready'), m \notin 1..Len(ready) PROVE Waits(m)'
    <3>1. m - 1 = Len(ready) /\ s'[ready'[m]].readyAt = now'
      BY <1>0, <2>6, <2>8
    <3>2. /\ ready \in Seq(Jobs) /\ Distinct(ready) /\ NJobs \in Nat /\ Rest \in Nat
          /\ ~Mlfq => Rest <= 2
      BY Listing DEF MInv, Listed
    <3>3. ~Mlfq => Len(ready) * 2 + Rest <= 2 * (NJobs - 1)
      <4>1. CASE current = None \/ off
        <5>1. Rest = 0 /\ Len(ready) <= NJobs - 1
          BY <1>0, <2>1, <3>2, <4>1, RoomFor DEF Rest
        <5> QED BY <2>6, <3>2, <5>1
      <4>2. CASE ~(current = None \/ off)
        <5>1. \A k \in 1..Len(ready) : ready[k] # at /\ ready[k] # current
          BY <2>1, <2>2, <4>2, Listing
        <5>2. Len(ready) <= NJobs - 2
          BY <1>0, <2>2, <3>2, <4>2, <5>1, RoomFor
        <5> QED BY <2>6, <3>2, <5>2
      <4> QED BY <4>1, <4>2
    <3>4. ~Mlfq => (m - 1) * 2 + Rest' <= 2 * (NJobs - 1)
      BY <2>4, <3>1, <3>3
    <3> QED BY <1>0, <1>1, <3>1, <3>4, StartsToWait
  <2> QED BY <1>1, <2>5, <2>7, <2>8 DEF WInv
<1> QED BY <1>2, <1>3

(* At a boost everybody in the list goes on top, with at most a period     *)
(* behind them and the slices of the others ahead.                         *)
LEMMA BoostWaits == ASSUME MInv, MInv', WInv, Boost PROVE WInv'
<1>0. /\ pc = "boost" /\ pc' = "select" /\ ~off
      /\ UNCHANGED <<input, now, current, ready, at, off, sunk>>
  BY Zenon DEF Boost, MInv, Round
<1>1. /\ now \in Nat /\ nextBoost \in Nat /\ period \in Nat \ {0} /\ NJobs \in Nat
      /\ policy' = policy /\ period' = period
  BY <1>0, Listing DEF input
<1>2. CASE ~BoostDue
  <2>1. s' = s /\ nextBoost' = nextBoost
    BY <1>2, Zenon DEF Boost
  <2>2. Boosts'
    BY <1>0, <1>1, <1>2, <2>1 DEF WInv, Boosts, BoostDue, Mlfq
  <2> QED
    BY <1>0, <1>1, <2>1, <2>2
    DEF WInv, Waits, Young, Old, Waited, Ahead, Rest, WaitIsBounded, Mlfq
<1>3. CASE BoostDue
  <2> DEFINE r(i) == IF s[i].done # None THEN s[i]
                     ELSE [s[i] EXCEPT !.level = 0, !.slice = 2, !.allot = 4, !.ticks = 0]
  <2>1. /\ s' = [i \in Jobs |-> r(i)] /\ nextBoost' = (now \div period + 1) * period
        /\ Mlfq /\ now >= nextBoost
    BY <1>3, Zenon DEF Boost, BoostDue
  <2>2. \A i \in Jobs : /\ r(i).maxWait = s[i].maxWait /\ r(i).readyAt = s[i].readyAt
                        /\ s[i].done = None => r(i).level = 0
    <3>1. \A i \in Jobs : s[i] \in JobStates
      BY JobTypes, Zenon DEF MInv
    <3> QED BY <3>1, JobLifted, Zenon
  <2> HIDE DEF r
  <2>3. \A i \in Jobs : /\ s'[i].maxWait = s[i].maxWait /\ s'[i].readyAt = s[i].readyAt
                        /\ s[i].done = None => s'[i].level = 0
    BY <2>1, <2>2
  <2>4. current = None
    BY <1>0, <1>1, <2>1 DEF WInv, Boosts
  <2>5. Boosts'
    <3>1. now < nextBoost' /\ nextBoost' - period <= now /\ nextBoost' \in Nat
      BY <1>1, <2>1, NextPeriod, Zenon
    <3> QED BY <1>0, <1>1, <3>1 DEF Boosts, Mlfq
  <2>6. WaitIsBounded'
    BY <1>1, <2>3 DEF WInv, WaitIsBounded, Mlfq
  <2>7. ASSUME NEW m \in 1..Len(ready) PROVE Old(m)'
    <3>0. Len(ready) \in Nat /\ m \in Int /\ ready[m] \in Jobs /\ s[ready[m]].readyAt \in Nat
      BY Listing
    <3>1. /\ Rest = 0 /\ Rest' = 0 /\ Waited(m)' = Waited(m)
      BY <1>0, <2>3, <2>4, <3>0 DEF Rest, Waited
    <3>2. Ahead(m) = 2 * (m - 1) /\ Ahead(m)' = 2 * (m - 1)
      BY <3>0, <3>1 DEF Ahead
    <3>3. Waited(m) \in Int
      BY Listing
    <3>4. Waited(m) + 2 * (m - 1) <= period + 2 * (NJobs - 1)
      <4>1. Young(m) \/ Old(m)
        BY <2>1 DEF WInv, Waits
      <4>2. CASE Old(m)
        BY <3>2, <4>2 DEF Old
      <4>3. CASE Young(m)
        <5>1. Waited(m) <= period
          BY <2>1, <4>3, Waiting DEF WInv
        <5>2. Len(ready) <= NJobs
          BY RoomFor, Listing DEF MInv, Listed
        <5> QED BY <1>1, <3>0, <3>3, <5>1, <5>2
      <4> QED BY <4>1, <4>2, <4>3
    <3>5. \A k \in 1..m : s'[ready'[k]].level = 0
      <4>1. ASSUME NEW k \in 1..Len(ready) PROVE s'[ready[k]].level = 0
        <5>1. ready[k] \in Jobs /\ s[ready[k]].state = "ready"
          BY Listing
        <5>2. s[ready[k]].done = None
          BY <5>1 DEF MInv, OnProcessor
        <5> QED BY <2>3, <5>1, <5>2
      <4> QED BY <1>0, <3>0, <4>1
    <3>6. Waited(m)' + Ahead(m)' <= period' + 2 * (NJobs - 1)
      BY <1>1, <3>1, <3>2, <3>4
    <3> QED BY <3>5, <3>6 DEF Old
  <2>8. \A m \in 1..Len(ready') : Waits(m)'
    BY <1>0, <1>1, <2>1, <2>7 DEF Waits, Mlfq
  <2> QED BY <2>5, <2>6, <2>8 DEF WInv
<1> QED BY <1>2, <1>3

(* The slice that is given is the first of those that were ahead.          *)
LEMMA SelectWaits == ASSUME MInv, MInv', WInv, Select PROVE WInv'
<1>0. /\ pc = "select" /\ current = None /\ pc' = "tick" /\ ~off /\ ~off'
      /\ UNCHANGED <<input, now, nextBoost, at, off, sunk>>
  BY Zenon DEF Select, MInv, Round
<1>1. PICK k \in 1..Len(ready) :
         LET i == ready[k]
             waited == now - s[i].readyAt
         IN /\ IsChoice(k) /\ current' = i /\ ready' = RemoveAt(ready, k) /\ i \in Jobs
            /\ \A j \in Jobs \ {i} : s'[j] = s[j]
            /\ s'[i].level = s[i].level /\ s'[i].slice = s[i].slice
            /\ s'[i].readyAt = s[i].readyAt
            /\ s'[i].maxWait = IF waited > s[i].maxWait THEN waited ELSE s[i].maxWait
  BY Selected
<1> DEFINE i == ready[k]
<1>2. /\ ready \in Seq(Jobs) /\ Len(ready) \in Nat /\ NJobs \in Nat
      /\ Len(ready') = Len(ready) - 1
      /\ \A m \in 1..(Len(ready) - 1) : ready'[m] = IF m < k THEN ready[m] ELSE ready[m + 1]
  <2>1. ready \in Seq(Jobs) /\ Len(ready) \in Nat /\ NJobs \in Nat
    BY Listing
  <2> QED BY <1>1, <2>1, Removal, Zenon
<1>3. policy' = policy /\ period' = period /\ nextBoost' = nextBoost /\ now' = now
  BY <1>0 DEF input
<1>4. Boosts'
  BY <1>0, <1>3 DEF WInv, Boosts, Mlfq
<1>5. WaitIsBounded'
  <2> DEFINE most == (IF Mlfq THEN period ELSE 0) + 2 * (NJobs - 1)
  <2>1. \A j \in Jobs : s[j].maxWait <= most
    BY DEF WInv, WaitIsBounded
  <2>2. now - s[i].readyAt <= most
    BY <1>1, Waiting DEF WInv, Waited
  <2> HIDE DEF most
  <2>3. \A j \in Jobs : s'[j].maxWait <= most
    BY <1>1, <2>1, <2>2
  <2> QED BY <1>3, <2>3 DEF WaitIsBounded, most, Mlfq
<1>6. ASSUME NEW n \in 1..Len(ready') PROVE Waits(n)'
  <2> DEFINE m == IF n < k THEN n ELSE n + 1
  <2>1. m \in 1..Len(ready) /\ ready'[n] = ready[m] /\ m # k /\ n \in Int /\ m \in Int
    BY <1>2, <1>6
  <2>2. Waits(m) /\ ready[m] \in Jobs
    BY <2>1, Listing DEF WInv
  <2>3. ready[m] # i
    BY <1>1, <2>1 DEF MInv, Listed, Distinct
  <2>4. s'[ready[m]] = s[ready[m]]
    BY <1>1, <2>2, <2>3
  <2>5. Waited(n)' = Waited(m) /\ Waited(m) \in Int
    <3>1. Waited(m) \in Int
      BY <2>1, Listing
    <3>2. Waited(n)' = now' - s'[ready'[n]].readyAt
      BY DEF Waited
    <3> QED BY <1>3, <2>1, <2>4, <3>1, <3>2 DEF Waited
  <2>6. Rest = 0 /\ Rest' = s[i].slice
    <3>1. current' # None
      BY <1>1, Given DEF MInv
    <3> QED BY <1>0, <1>1, <3>1 DEF Rest
  <2>7. Ahead(m) = 2 * (m - 1) /\ Ahead(n)' = 2 * (n - 1) + Rest'
    <3>1. Ahead(m) = 2 * (m - 1) + Rest /\ Ahead(n)' = 2 * (n - 1) + Rest'
      BY DEF Ahead
    <3> QED BY <2>1, <2>6, <3>1
  <2>8. ASSUME k = 1, s[i].level = 0
        PROVE  Waited(n)' + Ahead(n)' <= Waited(m) + Ahead(m)
    <3>1. m = n + 1
      BY <1>2, <1>6, <2>8
    <3>2. s[i].slice \in Int /\ s[i].slice <= 2
      BY <1>1, <2>8, Quanta DEF MInv, Sliced
    <3> QED BY <2>1, <2>5, <2>6, <2>7, <3>1, <3>2
  <2>9. CASE ~Mlfq
    <3>1. k = 1 /\ s[i].level = 0
      BY <1>1, <2>9 DEF IsChoice, MInv, Sliced
    <3> QED BY <1>3, <2>1, <2>2, <2>4, <2>8, <2>9, <3>1, <1>0, StillWaits
  <2>10. CASE Mlfq /\ Old(m)
    <3>1. s[ready[1]].level = 0 /\ 1 \in 1..Len(ready)
      BY <1>2, <2>1, <2>10 DEF Old
    <3>2. k = 1 /\ s[i].level = 0
      <4>1. s[i].level \in 0..2
        BY <1>1, Listing
      <4>2. \/ s[i].level < s[ready[1]].level
            \/ s[i].level = s[ready[1]].level /\ k <= 1
        <5>1. DOMAIN ready = 1..Len(ready)
          BY <1>2
        <5> QED BY <1>1, <2>10, <3>1, <5>1 DEF IsChoice
      <4> QED BY <1>1, <1>2, <3>1, <4>1, <4>2
    <3>3. \A p \in 1..n : s'[ready'[p]].level = 0
      <4>1. ASSUME NEW p \in 1..n PROVE s'[ready'[p]].level = 0
        <5>1. p \in 1..(Len(ready) - 1) /\ p + 1 \in 1..m /\ p + 1 \in 1..Len(ready) /\ ~(p < k)
          BY <1>2, <1>6, <2>1, <3>2
        <5>2. ready'[p] = ready[p + 1] /\ s[ready[p + 1]].level = 0
          BY <1>2, <2>10, <5>1 DEF Old
        <5>3. ready[p + 1] \in Jobs
          BY <5>1, Listing
        <5> QED BY <1>1, <5>2, <5>3
      <4> QED BY <4>1
    <3> QED BY <1>0, <2>1, <2>2, <2>4, <2>8, <3>2, <3>3, StillWaits
  <2>11. CASE Mlfq /\ Young(m)
    <3>1. s'[ready'[n]].readyAt >= nextBoost' - period'
      BY <1>3, <2>1, <2>4, <2>11 DEF Young
    <3>2. now' <= nextBoost' \/ Waited(n)' = 0
      BY <1>3, <2>5, <2>11 DEF Young
    <3> QED BY <1>3, <2>11, <3>1, <3>2 DEF Waits, Young, Mlfq
  <2> QED BY <2>2, <2>9, <2>10, <2>11 DEF Waits
<1> QED BY <1>4, <1>5, <1>6 DEF WInv

(* Steps that move neither the list nor who is on the processor.           *)
LEMMA RestWaits ==
    ASSUME MInv, WInv,
           \/ KeepRunning \/ Idle \/ UNCHANGED vars
           \/ Arrived("top", "boost") \/ Arrived("arrive", "requeue")
    PROVE  WInv'
<1>1. CASE KeepRunning
  BY <1>1
  DEF KeepRunning, WInv, Boosts, Waits, Young, Old, Waited, Ahead, Rest, WaitIsBounded,
      input, Mlfq
<1>2. CASE UNCHANGED vars
  BY <1>2
  DEF vars, WInv, Boosts, Waits, Young, Old, Waited, Ahead, Rest, WaitIsBounded, input, Mlfq
<1>3. CASE Arrived("top", "boost") \/ Arrived("arrive", "requeue")
  BY <1>3
  DEF Arrived, WInv, Boosts, Waits, Young, Old, Waited, Ahead, Rest, WaitIsBounded, input, Mlfq
<1>4. CASE Idle
  <2>1. /\ pc = "select" /\ pc' = "top" /\ current = None /\ ready = <<>>
        /\ UNCHANGED <<input, nextBoost, current, ready, s, at, off, sunk>>
        /\ now' = IF Future = {} THEN now ELSE Min(Future)
    BY <1>4, Zenon DEF Idle
  <2>2. now \in Nat /\ nextBoost \in Nat /\ period \in Nat \ {0}
    BY Listing
  <2>3. now' \in Nat /\ now' >= now
    <3>1. CASE Future = {}
      BY <2>1, <2>2, <3>1
    <3>2. CASE Future # {}
      <4>1. Min(Future) \in Nat /\ Min(Future) \in Future
        BY <2>1, <3>2, Earliest
      <4>2. PICK i \in Jobs : s[i].state \in {"new", "blocked"} /\ Min(Future) = s[i].wake
        BY <4>1 DEF Future
      <4>3. ~(s[i].wake <= now)
        BY <2>1, <4>2 DEF MInv, NobodyDue, IsDue
      <4> QED BY <2>1, <2>2, <3>2, <4>1, <4>2, <4>3
    <3> QED BY <3>1, <3>2
  <2>4. Boosts'
    BY <2>1, <2>2, <2>3 DEF WInv, Boosts, input, Mlfq
  <2>5. WaitIsBounded'
    BY <2>1 DEF WInv, WaitIsBounded, input, Mlfq
  <2> QED BY <2>1, <2>4, <2>5 DEF WInv
<1> QED BY <1>1, <1>2, <1>3, <1>4

(* A tick more to have waited is a tick less of the slice ahead.           *)
LEMMA TickWaits == ASSUME MInv, MInv', WInv, Tick PROVE WInv'
<1>0. /\ pc = "tick" /\ pc' = "arrive" /\ now' = now + 1 /\ ~off
      /\ UNCHANGED <<input, nextBoost, current, ready, at>>
  BY Zenon DEF Tick, MInv, Round
<1> DEFINE o == s[current]
           n == s'[current]
<1>1. /\ current \in Jobs /\ o.state = "running"
      /\ \A i \in Jobs \ {current} : s'[i] = s[i]
      /\ n.maxWait = o.maxWait
      /\ off' \/ n.slice = o.slice - 1
  <2>1. /\ current \in Jobs /\ o.state = "running"
        /\ \A i \in Jobs \ {current} : s'[i] = s[i]
        /\ n.maxWait = o.maxWait
        /\ \/ off'
           \/ /\ n.slice = IF o.slice - 1 # 0 THEN o.slice - 1 ELSE Slice(o.level)
              /\ o.slice - 1 # 0 \/ off'
    BY Ticked, Zenon
  <2> QED BY <2>1
<1>2. /\ now \in Nat /\ nextBoost \in Nat /\ period \in Nat \ {0} /\ Len(ready) \in Nat
      /\ policy' = policy /\ period' = period
  BY <1>0, Listing DEF input
<1>3. Mlfq => now + 1 <= nextBoost
  BY <1>0, <1>2 DEF WInv, Boosts
<1>4. Boosts'
  BY <1>0, <1>2, <1>3 DEF WInv, Boosts, Mlfq
<1>5. WaitIsBounded'
  BY <1>0, <1>1, <1>2 DEF WInv, WaitIsBounded, Mlfq
<1>6. Rest' <= Rest - 1 /\ Rest \in Nat /\ Rest' \in Nat
  <2>1. Rest = o.slice /\ Rest \in Nat
    <3>1. current # None
      BY <1>1, Given DEF MInv
    <3> QED BY <1>0, <3>1, Listing DEF Rest
  <2>2. o.slice >= 1
    <3>1. o.slice \in 1..Slice(o.level) /\ o.level \in 0..2
      BY <1>1, JobTypes DEF MInv, Sliced
    <3> QED BY <3>1, Quanta
  <2>3. Rest' = 0 \/ Rest' = o.slice - 1
    BY <1>0, <1>1 DEF Rest
  <2>4. Rest' \in Nat
    BY ListingNext DEF Entries
  <2> QED BY <2>1, <2>2, <2>3, <2>4
<1>7. ASSUME NEW m \in 1..Len(ready) PROVE Waits(m)'
  <2>1. \A k \in 1..Len(ready) : ready[k] \in Jobs /\ s'[ready[k]] = s[ready[k]]
    <3>1. \A k \in 1..Len(ready) : ready[k] \in Jobs /\ s[ready[k]].state = "ready"
      BY Listing
    <3> QED BY <1>1, <3>1
  <2>2. Waits(m) /\ m \in 1..Len(ready') /\ ready'[m] = ready[m]
    BY <1>0 DEF WInv
  <2>3. Waited(m)' + Ahead(m)' <= Waited(m) + Ahead(m)
    <3>1. s[ready[m]].readyAt \in Nat /\ m \in Int
      BY <1>2, Listing
    <3>2. Waited(m) = now - s[ready[m]].readyAt /\ Ahead(m) = 2 * (m - 1) + Rest
      BY DEF Waited, Ahead
    <3>3. Waited(m)' = now + 1 - s[ready[m]].readyAt /\ Ahead(m)' = 2 * (m - 1) + Rest'
      <4>1. /\ Waited(m)' = now' - s'[ready'[m]].readyAt
            /\ Ahead(m)' = 2 * (m - 1) + Rest'
        BY DEF Waited, Ahead
      <4>2. s'[ready'[m]].readyAt = s[ready[m]].readyAt
        BY <2>1, <2>2
      <4>3. now' = now + 1
        BY <1>0
      <4>4. now' - s'[ready'[m]].readyAt = now + 1 - s[ready[m]].readyAt
        BY <1>2, <3>1, <4>2, <4>3, SMTT(30)
      <4> QED BY <4>1, <4>4, SMTT(30)
    <3> QED BY <1>2, <1>6, <3>1, <3>2, <3>3
  <2>4. Old(m) => \A k \in 1..m : s'[ready'[k]].level = 0
    <3>1. \A k \in 1..m : k \in 1..Len(ready)
      BY <1>2
    <3> QED BY <1>0, <2>1, <3>1 DEF Old
  <2>5. CASE ~Mlfq \/ now' <= nextBoost
    <3>1. CASE now' <= nextBoost
      BY <1>0, <2>1, <2>2, <2>3, <2>4, <3>1, StillWaits
    <3>2. CASE ~Mlfq
      <4>1. Waited(m)' + Ahead(m)' <= 2 * (NJobs - 1)
        <5>1. Waited(m) + Ahead(m) <= 2 * (NJobs - 1)
          BY <2>2, <3>2 DEF Waits
        <5>2. /\ Waited(m) \in Int /\ Ahead(m) \in Nat /\ Waited(m)' \in Int
              /\ Ahead(m)' \in Nat /\ NJobs \in Nat
          BY <2>2, Listing, ListingNext DEF Entries
        <5> QED BY <2>3, <5>1, <5>2
      <4> QED BY <1>2, <3>2, <4>1 DEF Waits, Mlfq
    <3> QED BY <2>5, <3>1, <3>2
  <2> QED BY <1>0, <1>3, <2>5
<1> QED BY <1>0, <1>4, <1>5, <1>7 DEF WInv

(* So does the current job when it goes behind the list.                   *)
LEMMA RequeueWaits == ASSUME MInv, MInv', WInv, Requeue PROVE WInv'
<1> DEFINE Keeps == /\ ~off /\ ~BoostDue
                    /\ UNCHANGED <<s, ready, current>>
           Back == /\ current' = None /\ s[current].state = "running"
                   /\ \A i \in Jobs \ {current} : s'[i] = s[i]
                   /\ s'[current].maxWait = s[current].maxWait
                   /\ s'[current].readyAt = now
                   /\ ready' = Append(ready, current)
           Gone == current' = None /\ UNCHANGED <<s, ready>>
<1>1. /\ pc = "requeue" /\ pc' = "top" /\ ~off'
      /\ current \in Jobs
      /\ UNCHANGED <<input, now, nextBoost, at>>
      /\ Keeps \/ Back \/ Gone
  BY Requeued, Zenon
<1>2. /\ now \in Nat /\ nextBoost \in Nat /\ period \in Nat \ {0} /\ Len(ready) \in Nat
      /\ NJobs \in Nat /\ policy' = policy /\ period' = period
  BY <1>1, Listing DEF input
<1>3. CASE Keeps
  <2>1. Boosts'
    BY <1>1, <1>2, <1>3 DEF WInv, Boosts, BoostDue, Mlfq
  <2> QED
    BY <1>1, <1>2, <1>3, <2>1
    DEF WInv, Waits, Young, Old, Waited, Ahead, Rest, WaitIsBounded, Mlfq
<1>4. CASE Back \/ Gone
  <2>1. current' = None
    BY <1>4
  <2>2. Boosts'
    BY <1>1, <1>2, <2>1 DEF WInv, Boosts, Mlfq
  <2>3. WaitIsBounded'
    <3>1. \A i \in Jobs : s'[i].maxWait = s[i].maxWait
      BY <1>1, <1>4
    <3> QED BY <1>2, <3>1 DEF WInv, WaitIsBounded, Mlfq
  <2>4. \A m \in 1..Len(ready) : ready[m] \in Jobs /\ s'[ready[m]] = s[ready[m]]
    <3>1. \A m \in 1..Len(ready) : ready[m] \in Jobs /\ s[ready[m]].state = "ready"
      BY Listing
    <3> QED BY <1>4, <3>1
  <2>5. Rest' = 0 /\ Rest \in Nat
    BY <2>1, Listing DEF Rest
  <2>6. /\ Len(ready') \in Nat
        /\ \A m \in 1..Len(ready) : m \in 1..Len(ready') /\ ready'[m] = ready[m]
        /\ \A m \in 1..Len(ready') : m \notin 1..Len(ready) =>
              m = Len(ready) + 1 /\ ready'[m] = current /\ Back
    <3>1. ready \in Seq(Jobs)
      BY Listing
    <3>2. CASE Gone
      BY <3>1, <3>2
    <3>3. CASE Back
      BY <1>1, <3>1, <3>3, Addition
    <3> QED BY <1>4, <3>2, <3>3
  <2>7. ASSUME NEW m \in 1..Len(ready) PROVE Waits(m)'
    <3>1. /\ m \in 1..Len(ready') /\ Waits(m) /\ ready'[m] = ready[m] /\ ready[m] \in Jobs
          /\ s'[ready[m]] = s[ready[m]]
      BY <2>4, <2>6 DEF WInv
    <3>2. Waited(m)' + Ahead(m)' <= Waited(m) + Ahead(m)
      <4>1. Waited(m) \in Int /\ m \in Int
        BY Listing
      <4>2. Waited(m)' = Waited(m) /\ Ahead(m) = 2 * (m - 1) + Rest
            /\ Ahead(m)' = 2 * (m - 1) + 0
        BY <1>1, <2>5, <3>1 DEF Waited, Ahead
      <4> QED BY <2>5, <4>1, <4>2
    <3>3. \A k \in 1..m : k \in 1..Len(ready)
      BY <1>2
    <3>4. Old(m) => \A k \in 1..m : s'[ready'[k]].level = 0
      BY <2>4, <2>6, <3>3 DEF Old
    <3> QED BY <1>1, <3>1, <3>2, <3>4, StillWaits
  <2>8. ASSUME NEW m \in 1..Len(ready'), m \notin 1..Len(ready) PROVE Waits(m)'
    <3>1. m - 1 = Len(ready) /\ s'[ready'[m]].readyAt = now' /\ Back
      BY <1>1, <1>2, <2>6, <2>8
    <3>2. \A k \in 1..Len(ready) : ready[k] # current
      BY <3>1, Listing
    <3>3. Len(ready) <= NJobs - 1
      <4>1. ready \in Seq(Jobs) /\ Distinct(ready)
        BY Listing DEF MInv, Listed
      <4> QED BY <1>1, <3>2, <4>1, RoomFor
    <3>4. (m - 1) * 2 + Rest' <= 2 * (NJobs - 1)
      BY <1>2, <2>5, <3>1, <3>3
    <3> QED BY <1>1, <2>2, <3>1, <3>4, StartsToWait
  <2> QED BY <2>2, <2>3, <2>7, <2>8 DEF WInv
<1> QED BY <1>1, <1>3, <1>4

LEMMA WNext == ASSUME MInv, MInv', WInv, [Next]_vars PROVE WInv'
<1>1. CASE TopArrivals
  <2>1. CASE Arrive
    BY <1>1, <2>1, ArriveWaits DEF TopArrivals
  <2>2. CASE Arrived("top", "boost")
    BY <2>2, RestWaits
  <2> QED BY <1>1, <2>1, <2>2 DEF TopArrivals
<1>2. CASE TickArrivals
  <2>1. CASE Arrive
    BY <1>2, <2>1, ArriveWaits DEF TickArrivals
  <2>2. CASE Arrived("arrive", "requeue")
    BY <2>2, RestWaits
  <2> QED BY <1>2, <2>1, <2>2 DEF TickArrivals
<1>3. CASE End \/ UNCHANGED vars
  BY <1>3, RestWaits DEF End
<1> QED
  BY <1>1, <1>2, <1>3, BoostWaits, SelectWaits, RestWaits, TickWaits, RequeueWaits
  DEF Next, Step

(* A ready job gets the processor within a boost period and one slice of   *)
(* every other job, under round robin within those slices.                 *)
THEOREM WaitBound == Spec => []WaitIsBounded
<1>1. Init => MInv /\ WInv
  BY MInit, WInit
<1>2. MInv /\ WInv /\ [Next]_vars => MInv' /\ WInv'
  BY MNext, WNext
<1>3. WInv => WaitIsBounded
  BY DEF WInv
<1> QED BY <1>1, <1>2, <1>3, PTL DEF Spec

-----------------------------------------------------------------------------
(***************************************************************************)
(* The refinement: the list, read in its order, is one queue per level.    *)
(***************************************************************************)
LEMMA InList ==
    ASSUME NEW q \in Seq(Jobs)
    PROVE  /\ ToSet(q) \subseteq Jobs
           /\ \A i : i \in ToSet(q) <=> \E m \in 1..Len(q) : q[m] = i
<1>1. DOMAIN q = 1..Len(q)
  OBVIOUS
<1>2. ToSet(q) = {q[m] : m \in 1..Len(q)}
  BY <1>1 DEF ToSet
<1> QED BY <1>2

(* The order in the list is a line; taking a job out, or adding one at the *)
(* end, leaves the others as they stood.                                   *)
LEMMA EarlierInLine ==
    ASSUME NEW q \in Seq(Jobs), Distinct(q)
    PROVE  /\ \A i, k : Earlier(q, i, k) => i \in ToSet(q) /\ k \in ToSet(q)
           /\ \A i : ~Earlier(q, i, i)
           /\ \A i, k \in ToSet(q) : i = k \/ Earlier(q, i, k) \/ Earlier(q, k, i)
           /\ \A i, k, m : Earlier(q, i, k) /\ Earlier(q, k, m) => Earlier(q, i, m)
<1>1. \A m \in 1..Len(q) : m \in Int
  OBVIOUS
<1>2. \A i : i \in ToSet(q) <=> \E m \in 1..Len(q) : q[m] = i
  BY InList
<1>3. \A i, k : Earlier(q, i, k) => i \in ToSet(q) /\ k \in ToSet(q)
  BY <1>2 DEF Earlier
<1>4. \A i : ~Earlier(q, i, i)
  BY <1>1 DEF Earlier, Distinct
<1>5. \A i, k \in ToSet(q) : i = k \/ Earlier(q, i, k) \/ Earlier(q, k, i)
  <2> SUFFICES ASSUME NEW m \in 1..Len(q), NEW n \in 1..Len(q)
               PROVE  q[m] = q[n] \/ Earlier(q, q[m], q[n]) \/ Earlier(q, q[n], q[m])
    BY <1>2
  <2>1. m = n \/ m < n \/ n < m
    BY <1>1
  <2> QED BY <2>1 DEF Earlier
<1>6. ASSUME NEW i, NEW k, NEW j, Earlier(q, i, k), Earlier(q, k, j)
      PROVE  Earlier(q, i, j)
  <2>1. PICK m, n \in 1..Len(q) : m < n /\ q[m] = i /\ q[n] = k
    BY <1>6 DEF Earlier
  <2>2. PICK a, b \in 1..Len(q) : a < b /\ q[a] = k /\ q[b] = j
    BY <1>6 DEF Earlier
  <2>3. n = a
    BY <2>1, <2>2 DEF Distinct
  <2>4. m < b
    BY <1>1, <2>1, <2>2, <2>3
  <2> QED BY <2>1, <2>2, <2>4 DEF Earlier
<1> QED BY <1>3, <1>4, <1>5, <1>6

LEMMA EarlierAfterRemoval ==
    ASSUME NEW q \in Seq(Jobs), Distinct(q), NEW p \in 1..Len(q)
    PROVE  /\ ToSet(RemoveAt(q, p)) = ToSet(q) \ {q[p]}
           /\ \A i, k : Earlier(RemoveAt(q, p), i, k) <=> Earlier(q, i, k) /\ q[p] \notin {i, k}
<1> DEFINE r == RemoveAt(q, p)
           up(m) == IF m < p THEN m ELSE m + 1
           down(m) == IF m < p THEN m ELSE m - 1
<1>0. /\ r \in Seq(Jobs) /\ Len(r) = Len(q) - 1
      /\ \A m \in 1..(Len(q) - 1) : r[m] = IF m < p THEN q[m] ELSE q[m + 1]
  BY Removal, Zenon
<1> HIDE DEF r
<1>1. /\ r \in Seq(Jobs) /\ Len(r) = Len(q) - 1 /\ Len(q) \in Nat /\ p \in Int
      /\ \A m \in 1..(Len(q) - 1) : r[m] = IF m < p THEN q[m] ELSE q[m + 1]
  BY <1>0
<1>2. \A m \in 1..Len(r) : up(m) \in 1..Len(q) /\ up(m) # p /\ r[m] = q[up(m)]
  BY <1>1
<1>3. \A m \in 1..Len(q) : m # p => down(m) \in 1..Len(r) /\ r[down(m)] = q[m]
  <2> SUFFICES ASSUME NEW m \in 1..Len(q), m # p
               PROVE  down(m) \in 1..Len(r) /\ r[down(m)] = q[m]
    OBVIOUS
  <2>1. /\ down(m) \in 1..(Len(q) - 1)
        /\ (IF down(m) < p THEN down(m) ELSE down(m) + 1) = m
    BY <1>1
  <2> QED BY <1>1, <2>1
<1>4. \A m \in 1..Len(q) : q[m] = q[p] <=> m = p
  BY DEF Distinct
<1>5. /\ \A i : i \in ToSet(q) <=> \E m \in 1..Len(q) : q[m] = i
      /\ \A i : i \in ToSet(r) <=> \E m \in 1..Len(r) : r[m] = i
  BY <1>1, InList
<1>6. ToSet(r) = ToSet(q) \ {q[p]}
  <2>1. ASSUME NEW i, i \in ToSet(r) PROVE i \in ToSet(q) \ {q[p]}
    BY <1>2, <1>4, <1>5, <2>1
  <2>2. ASSUME NEW i, i \in ToSet(q) \ {q[p]} PROVE i \in ToSet(r)
    BY <1>3, <1>5, <2>2
  <2> QED BY <2>1, <2>2
<1>7. ASSUME NEW i, NEW k, Earlier(r, i, k) PROVE Earlier(q, i, k) /\ q[p] \notin {i, k}
  <2>1. PICK m, n \in 1..Len(r) : m < n /\ r[m] = i /\ r[n] = k
    BY <1>7 DEF Earlier
  <2>2. up(m) < up(n)
    BY <1>1, <2>1
  <2>3. up(m) \in 1..Len(q) /\ up(n) \in 1..Len(q) /\ q[up(m)] = i /\ q[up(n)] = k
    BY <1>2, <2>1
  <2>4. q[p] # i /\ q[p] # k
    BY <1>2, <1>4, <2>1, <2>3
  <2> HIDE DEF up
  <2> QED BY <2>2, <2>3, <2>4 DEF Earlier
<1>8. ASSUME NEW i, NEW k, Earlier(q, i, k), q[p] \notin {i, k} PROVE Earlier(r, i, k)
  <2>1. PICK m, n \in 1..Len(q) : m < n /\ q[m] = i /\ q[n] = k
    BY <1>8 DEF Earlier
  <2>2. m # p /\ n # p
    BY <1>8, <2>1
  <2>3. down(m) < down(n)
    <3>1. m \in Int /\ n \in Int /\ p \in Int
      BY <1>1
    <3> QED BY <2>1, <2>2, <3>1
  <2>4. /\ down(m) \in 1..Len(r) /\ down(n) \in 1..Len(r)
        /\ r[down(m)] = i /\ r[down(n)] = k
    BY <1>3, <2>1, <2>2
  <2> HIDE DEF down
  <2> QED BY <2>3, <2>4 DEF Earlier
<1> QED BY <1>6, <1>7, <1>8 DEF r

LEMMA EarlierAfterAppend ==
    ASSUME NEW q \in Seq(Jobs), NEW x \in Jobs
    PROVE  /\ ToSet(Append(q, x)) = ToSet(q) \cup {x}
           /\ \A i, k : Earlier(Append(q, x), i, k) <=>
                           Earlier(q, i, k) \/ (i \in ToSet(q) /\ k = x)
<1> DEFINE r == Append(q, x)
<1>1. /\ r \in Seq(Jobs) /\ Len(r) = Len(q) + 1 /\ Len(q) \in Nat
      /\ \A m \in 1..Len(q) : r[m] = q[m]
      /\ r[Len(q) + 1] = x
  BY Addition
<1> HIDE DEF r
<1>2. /\ \A m \in 1..Len(r) : m \in Int /\ (m \in 1..Len(q) \/ m = Len(q) + 1)
      /\ \A m \in 1..Len(q) : m \in 1..Len(r) /\ m < Len(q) + 1
      /\ Len(q) + 1 \in 1..Len(r)
  BY <1>1
<1>3. /\ \A i : i \in ToSet(q) <=> \E m \in 1..Len(q) : q[m] = i
      /\ \A i : i \in ToSet(r) <=> \E m \in 1..Len(r) : r[m] = i
  BY <1>1, InList
<1>4. ToSet(r) = ToSet(q) \cup {x}
  <2>1. \A i : i \in ToSet(r) <=> i \in ToSet(q) \/ i = x
    BY <1>1, <1>2, <1>3
  <2> QED BY <2>1
<1>5. ASSUME NEW i, NEW k, Earlier(r, i, k)
      PROVE  Earlier(q, i, k) \/ (i \in ToSet(q) /\ k = x)
  <2>1. PICK m, n \in 1..Len(r) : m < n /\ r[m] = i /\ r[n] = k
    BY <1>5 DEF Earlier
  <2>2. m \in 1..Len(q) /\ q[m] = i
    BY <1>1, <1>2, <2>1
  <2>3. CASE n \in 1..Len(q)
    BY <1>1, <2>1, <2>2, <2>3 DEF Earlier
  <2>4. CASE n = Len(q) + 1
    BY <1>1, <1>3, <2>1, <2>2, <2>4
  <2> QED BY <1>2, <2>3, <2>4
<1>6. ASSUME NEW i, NEW k, Earlier(q, i, k) PROVE Earlier(r, i, k)
  BY <1>1, <1>2, <1>6 DEF Earlier
<1>7. ASSUME NEW i \in ToSet(q) PROVE Earlier(r, i, x)
  <2>1. PICK m \in 1..Len(q) : q[m] = i
    BY <1>3
  <2> QED BY <1>1, <1>2, <2>1 DEF Earlier
<1> QED BY <1>4, <1>5, <1>6, <1>7 DEF r

(* Where every job has the same level the list is one queue.               *)
LEMMA OneLevel ==
    ASSUME NEW q \in Seq(Jobs), Distinct(q), NEW job, \A i \in ToSet(q) : job[i].level = 0
    PROVE  /\ \A e : e \in EarlierOnLevel(q, job) <=>
                        e \in ToSet(q) \X ToSet(q) /\ Earlier(q, e[1], e[2])
           /\ LQ!InLine(ToSet(q), EarlierOnLevel(q, job))
           /\ OnLevel(q, job) = LQ!OnTop(ToSet(q))
<1>1. \A e \in ToSet(q) \X ToSet(q) : e[1] \in ToSet(q) /\ e[2] \in ToSet(q)
  OBVIOUS
<1>2. \A e : e \in EarlierOnLevel(q, job) <=>
                e \in ToSet(q) \X ToSet(q) /\ Earlier(q, e[1], e[2])
  BY <1>1 DEF EarlierOnLevel
<1>3. \A i, k \in ToSet(q) : <<i, k>> \in EarlierOnLevel(q, job) <=> Earlier(q, i, k)
  BY <1>2
<1>4. EarlierOnLevel(q, job) \subseteq ToSet(q) \X ToSet(q)
  BY <1>2
<1>5. LQ!InLine(ToSet(q), EarlierOnLevel(q, job))
  <2>1. \A i \in ToSet(q) : <<i, i>> \notin EarlierOnLevel(q, job)
    BY <1>3, EarlierInLine
  <2>2. \A i, k \in ToSet(q) : \/ i = k
                               \/ <<i, k>> \in EarlierOnLevel(q, job)
                               \/ <<k, i>> \in EarlierOnLevel(q, job)
    BY <1>3, EarlierInLine
  <2>3. \A i, k, m \in ToSet(q) :
           <<i, k>> \in EarlierOnLevel(q, job) /\ <<k, m>> \in EarlierOnLevel(q, job) =>
              <<i, m>> \in EarlierOnLevel(q, job)
    BY <1>3, EarlierInLine
  <2> QED BY <1>4, <2>1, <2>2, <2>3 DEF LQ!InLine
<1>6. OnLevel(q, job) = LQ!OnTop(ToSet(q))
  BY DEF OnLevel, LQ!OnTop, LQ!Levels
<1> QED BY <1>2, <1>5, <1>6

(* Who joins the list comes last on a level.                               *)
LEMMA LevelsAfterJoining ==
    ASSUME NEW q \in Seq(Jobs), Distinct(q), NEW i \in Jobs, i \notin ToSet(q),
           NEW job, NEW after, after[i].level \in 0..2,
           \A k \in ToSet(q) : after[k].level = job[k].level
    PROVE  /\ OnLevel(Append(q, i), after) =
                 [OnLevel(q, job) EXCEPT ![after[i].level] = @ \cup {i}]
           /\ EarlierOnLevel(Append(q, i), after) =
                 EarlierOnLevel(q, job) \cup (OnLevel(q, job)[after[i].level] \X {i})
<1> DEFINE r == Append(q, i)
           l == after[i].level
<1>1. ToSet(r) = ToSet(q) \cup {i} /\ l \in 0..2
  BY EarlierAfterAppend
<1>2. \A a, b : Earlier(r, a, b) <=> Earlier(q, a, b) \/ (a \in ToSet(q) /\ b = i)
  BY EarlierAfterAppend
<1>3. \A a, b : Earlier(q, a, b) => a \in ToSet(q) /\ b \in ToSet(q)
  BY EarlierInLine
<1> HIDE DEF r
<1>4. OnLevel(r, after) = [OnLevel(q, job) EXCEPT ![l] = @ \cup {i}]
  BY <1>1 DEF OnLevel
<1>5. OnLevel(q, job)[l] = {a \in ToSet(q) : job[a].level = l}
  BY <1>1 DEF OnLevel
<1>6. ASSUME NEW e
      PROVE  e \in EarlierOnLevel(r, after) <=>
                e \in EarlierOnLevel(q, job) \/ e \in {a \in ToSet(q) : job[a].level = l} \X {i}
  <2>1. e \in EarlierOnLevel(r, after) <=>
           /\ e \in (ToSet(q) \cup {i}) \X (ToSet(q) \cup {i})
           /\ after[e[1]].level = after[e[2]].level
           /\ Earlier(q, e[1], e[2]) \/ (e[1] \in ToSet(q) /\ e[2] = i)
    BY <1>1, <1>2 DEF EarlierOnLevel
  <2>2. e \in EarlierOnLevel(q, job) <=>
           /\ e \in ToSet(q) \X ToSet(q)
           /\ job[e[1]].level = job[e[2]].level /\ Earlier(q, e[1], e[2])
    BY DEF EarlierOnLevel
  <2> HIDE DEF l
  <2>3. after[i].level = l
    BY DEF l
  <2> QED BY <1>3, <2>1, <2>2, <2>3
<1>7. EarlierOnLevel(r, after) = EarlierOnLevel(q, job) \cup (OnLevel(q, job)[l] \X {i})
  BY <1>5, <1>6
<1> QED BY <1>4, <1>7 DEF r

LEMMA LevelsKept ==
    ASSUME NEW q, NEW job, NEW after, \A k \in ToSet(q) : after[k].level = job[k].level
    PROVE  /\ OnLevel(q, after) = OnLevel(q, job)
           /\ EarlierOnLevel(q, after) = EarlierOnLevel(q, job)
<1>1. \A l : {i \in ToSet(q) : after[i].level = l} = {i \in ToSet(q) : job[i].level = l}
  OBVIOUS
<1>2. OnLevel(q, after) = OnLevel(q, job)
  BY <1>1 DEF OnLevel
<1>3. \A e \in ToSet(q) \X ToSet(q) : e[1] \in ToSet(q) /\ e[2] \in ToSet(q)
  OBVIOUS
<1>4. EarlierOnLevel(q, after) = EarlierOnLevel(q, job)
  BY <1>3 DEF EarlierOnLevel
<1> QED BY <1>2, <1>4

(* Sinking leaves a trace in the round of the tick only.                   *)
Sinking ==
    sunk => /\ pc \in {"arrive", "requeue"} /\ current # None /\ off
            /\ s[current].level \in 1..2

LEMMA ListFacts ==
    ASSUME MInv
    PROVE  /\ ready \in Seq(Jobs) /\ Distinct(ready) /\ s \in [Jobs -> JobStates]
           /\ \A i \in Jobs : s[i].level \in 0..2 /\ s[i] \in JobStates
           /\ \A i \in ToSet(ready) : i \in Jobs /\ s[i].state = "ready"
           /\ current # None => current \in Jobs /\ current \notin ToSet(ready)
           /\ None \notin Jobs
<1>1. ready \in Seq(Jobs) /\ s \in [Jobs -> JobStates] /\ Typed
  BY DEF MInv, Typed
<1>2. \A i \in Jobs : s[i].level \in 0..2 /\ s[i] \in JobStates
  BY <1>1, JobTypes
<1>3. \A i \in ToSet(ready) : i \in Jobs /\ s[i].state = "ready"
  BY <1>1, InList DEF MInv, Listed
<1>4. None \notin Jobs
  BY <1>1, Given
<1>5. current # None => current \in Jobs /\ s[current].state # "ready"
  BY DEF MInv, Typed, OnProcessor
<1> QED BY <1>1, <1>2, <1>3, <1>4, <1>5 DEF MInv, Listed

(* What an arrival changes.                                                *)
LEMMA Arrival ==
    ASSUME MInv, Arrive, pc \in {"top", "arrive"}
    PROVE  /\ UNCHANGED <<input, now, nextBoost, current, pc, off, sunk>>
           /\ \/ s' = s /\ ready' = ready
              \/ /\ at \in Jobs /\ at # current /\ s[at].state \in {"new", "blocked"}
                 /\ \A i \in Jobs \ {at} : s'[i] = s[i]
                 /\ s'[at].level = s[at].level
                 /\ \/ s'[at].state = "done" /\ ready' = ready
                    \/ s'[at].state = "ready" /\ ready' = Append(ready, at)
<1>0. /\ at \in Jobs /\ UNCHANGED <<input, now, nextBoost, current, pc, off, sunk>>
      /\ s[at] \in JobStates /\ s \in [Jobs -> JobStates] /\ now \in Nat
  BY SimAssumption DEF MInv, Typed, Arrive, Jobs
<1>1. CASE ~IsDue(at)
  <2>1. s[at].state \notin {"new", "blocked"} \/ s[at].wake > now
    BY <1>0, <1>1 DEF IsDue, JobStates
  <2>2. s' = s /\ ready' = ready
    BY <2>1, Zenon DEF Arrive
  <2> QED BY <1>0, <2>2
<1>2. CASE IsDue(at)
  <2>1. s[at].state \in {"new", "blocked"} /\ ~(s[at].wake > now)
    BY <1>0, <1>2 DEF IsDue, JobStates
  <2>2. at # current
    BY <1>0, <1>2, <2>1, Given DEF MInv, OnProcessor
  <2>3. CASE s[at].left = 0
    <3> DEFINE r == Ended(s[at], now)
    <3>1. s' = [s EXCEPT ![at] = r] /\ ready' = ready
      BY <2>1, <2>3, Zenon DEF Arrive, Ended
    <3>2. r.state = "done" /\ r.level = s[at].level
      BY <1>0, JobEnds, Zenon
    <3> HIDE DEF r
    <3>3. s'[at] = r /\ \A i \in Jobs \ {at} : s'[i] = s[i]
      BY <1>0, <3>1
    <3> QED BY <1>0, <2>1, <2>2, <3>1, <3>2, <3>3
  <2>4. CASE s[at].left # 0
    <3> DEFINE r == Returned(s[at], now)
    <3>1. s' = [s EXCEPT ![at] = r] /\ ready' = Append(ready, at)
      BY <2>1, <2>4, Zenon DEF Arrive, Returning, Returned
    <3>2. r.state = "ready" /\ r.level = s[at].level
      BY <1>0, JobReturns, Zenon
    <3> HIDE DEF r
    <3>3. s'[at] = r /\ \A i \in Jobs \ {at} : s'[i] = s[i]
      BY <1>0, <3>1
    <3> QED BY <1>0, <2>1, <2>2, <3>1, <3>2, <3>3
  <2> QED BY <2>3, <2>4
<1> QED BY <1>1, <1>2

LEMMA SinkingNext == ASSUME MInv, Sinking, [Next]_vars PROVE Sinking'
<1>1. CASE TopArrivals \/ TickArrivals
  <2>1. CASE Arrive
    <3>1. pc \in {"top", "arrive"}
      BY <1>1 DEF TopArrivals, TickArrivals
    <3>2. /\ UNCHANGED <<current, pc, off, sunk>>
          /\ current \in Jobs => s'[current] = s[current]
      BY <2>1, <3>1, Arrival
    <3>3. current # None => current \in Jobs
      BY ListFacts
    <3> QED BY <3>2, <3>3 DEF Sinking
  <2>2. CASE Arrived("top", "boost") \/ Arrived("arrive", "requeue")
    BY <2>2 DEF Arrived, Sinking
  <2> QED BY <1>1, <2>1, <2>2 DEF TopArrivals, TickArrivals
<1>2. CASE Boost \/ Select \/ KeepRunning \/ Idle
  <2>1. pc \notin {"arrive", "requeue"} /\ sunk' = sunk
    BY <1>2 DEF Boost, Select, KeepRunning, Idle
  <2> QED BY <2>1 DEF Sinking
<1>3. CASE Tick
  <2>1. pc' = "arrive" /\ current' = current
    BY <1>3 DEF Tick
  <2> DEFINE o == s[current]
             n == s'[current]
             spent == IF o.level = 2 THEN o.allot ELSE o.allot - 1
  <2>2. /\ current \in Jobs
        /\ \/ o.level < 2 /\ off' /\ n.level = o.level + 1
           \/ ~sunk'
    BY <1>3, Ticked
  <2>3. o.level \in 0..2 /\ current # None
    BY <2>2, ListFacts
  <2>4. sunk' => off' /\ n.level \in 1..2
    BY <2>2, <2>3
  <2> QED BY <2>1, <2>3, <2>4 DEF Sinking
<1>4. CASE Requeue
  <2>1. ~sunk'
    BY <1>4, Zenon DEF Requeue
  <2> QED BY <2>1 DEF Sinking
<1>5. CASE End \/ UNCHANGED vars
  BY <1>5 DEF End, vars, Sinking
<1> QED BY <1>1, <1>2, <1>3, <1>4, <1>5 DEF Next, Step

(***************************************************************************)
(* The steps.                                                              *)
(***************************************************************************)
LEMMA ArriveAdmits ==
    ASSUME MInv, Sinking, Arrive, pc \in {"top", "arrive"}
    PROVE  LQ!Admit \/ UNCHANGED LQ!absVars
<1>0. /\ ready \in Seq(Jobs) /\ Distinct(ready) /\ s \in [Jobs -> JobStates]
      /\ \A i \in Jobs : s[i].level \in 0..2
      /\ \A i \in ToSet(ready) : i \in Jobs /\ s[i].state = "ready"
      /\ current # None => current \in Jobs
  BY ListFacts
<1>1. UNCHANGED <<current, sunk>>
  BY Arrival
<1>2. CASE s' = s /\ ready' = ready
  BY <1>1, <1>2 DEF LQ!absVars
<1>3. CASE /\ at \in Jobs /\ at # current /\ s[at].state \in {"new", "blocked"}
           /\ \A i \in Jobs \ {at} : s'[i] = s[i]
           /\ s'[at].level = s[at].level
           /\ \/ s'[at].state = "done" /\ ready' = ready
              \/ s'[at].state = "ready" /\ ready' = Append(ready, at)
  <2> DEFINE depth == IF current = None THEN 0
                      ELSE IF sunk THEN s[current].level - 1 ELSE s[current].level
             out == {i \in Jobs : i # current /\ s[i].state \in {"new", "blocked", "done"}}
  <2>1. depth' = depth
    BY <1>0, <1>1, <1>3
  <2>2. at \notin ToSet(ready) /\ at \in out
    BY <1>0, <1>3
  <2>3. \A k \in ToSet(ready) : s'[k].level = s[k].level
    BY <1>0, <1>3, <2>2
  <2>4. CASE s'[at].state = "done" /\ ready' = ready
    <3>1. OnLevel(ready', s') = OnLevel(ready, s) /\ EarlierOnLevel(ready', s') = EarlierOnLevel(ready, s)
      BY <2>3, <2>4, LevelsKept
    <3>2. out' = out
      BY <1>1, <1>3, <2>4
    <3> QED BY <1>1, <2>1, <3>1, <3>2 DEF LQ!absVars
  <2>5. CASE s'[at].state = "ready" /\ ready' = Append(ready, at)
    <3> DEFINE l == s[at].level
    <3>1. l \in 0..2 /\ s'[at].level = l
      BY <1>0, <1>3
    <3>2. /\ OnLevel(ready', s') = [OnLevel(ready, s) EXCEPT ![s'[at].level] = @ \cup {at}]
          /\ EarlierOnLevel(ready', s') =
                EarlierOnLevel(ready, s) \cup (OnLevel(ready, s)[s'[at].level] \X {at})
      <4>1. /\ ready \in Seq(Jobs) /\ Distinct(ready) /\ at \in Jobs /\ at \notin ToSet(ready)
            /\ s'[at].level \in 0..2 /\ \A k \in ToSet(ready) : s'[k].level = s[k].level
        BY <1>0, <1>3, <2>2, <2>3, <3>1
      <4>2. /\ OnLevel(Append(ready, at), s') =
                  [OnLevel(ready, s) EXCEPT ![s'[at].level] = @ \cup {at}]
            /\ EarlierOnLevel(Append(ready, at), s') =
                  EarlierOnLevel(ready, s) \cup (OnLevel(ready, s)[s'[at].level] \X {at})
        BY <4>1, LevelsAfterJoining
      <4> QED BY <2>5, <4>2
    <3>3. out' = out \ {at}
      BY <1>1, <1>3, <2>5
    <3> HIDE DEF l
    <3> QED BY <1>1, <2>1, <2>2, <3>1, <3>2, <3>3 DEF LQ!Admit, LQ!Join, LQ!Levels
  <2> QED BY <1>3, <2>4, <2>5
<1> QED BY <1>2, <1>3, Arrival

LEMMA BoostLifts ==
    ASSUME MInv, Sinking, Boost
    PROVE  LQ!Boost \/ UNCHANGED LQ!absVars
<1>0. /\ ready \in Seq(Jobs) /\ Distinct(ready) /\ s \in [Jobs -> JobStates]
      /\ \A i \in Jobs : s[i].level \in 0..2 /\ s[i] \in JobStates
      /\ \A i \in ToSet(ready) : i \in Jobs /\ s[i].state = "ready"
      /\ current # None => current \in Jobs
  BY ListFacts
<1>1. pc = "boost" /\ UNCHANGED <<current, ready, sunk>>
  BY Zenon DEF Boost
<1>2. ~sunk /\ ~off
  BY <1>1 DEF Sinking, MInv, Round
<1>3. CASE ~BoostDue
  <2>1. s' = s
    BY <1>3, Zenon DEF Boost
  <2> QED BY <1>1, <2>1 DEF LQ!absVars
<1>4. CASE BoostDue
  <2>1. s' = [i \in Jobs |-> IF s[i].done # None THEN s[i]
                             ELSE [s[i] EXCEPT !.level = 0, !.slice = 2, !.allot = 4,
                                               !.ticks = 0]]
    BY <1>4, Zenon DEF Boost
  <2>2. \A i \in Jobs : /\ s'[i].state = s[i].state
                        /\ s[i].done = None => s'[i].level = 0
    <3> SUFFICES ASSUME NEW i \in Jobs
                 PROVE  s'[i].state = s[i].state /\ (s[i].done = None => s'[i].level = 0)
      OBVIOUS
    <3>1. CASE s[i].done # None
      BY <2>1, <3>1
    <3>2. CASE s[i].done = None
      <4>1. s'[i] = [s[i] EXCEPT !.level = 0, !.slice = 2, !.allot = 4, !.ticks = 0]
        BY <2>1, <3>2
      <4>2. s[i] \in JobStates
        BY <1>0
      <4> QED BY <4>1, <4>2, JobLifted
    <3> QED BY <3>1, <3>2
  <2>3. \A i \in Jobs : s[i].state # "done" => s[i].done = None
    BY DEF MInv, OnProcessor
  <2>4. \A i \in ToSet(ready) : i \in Jobs /\ s'[i].level = 0
    BY <1>0, <2>2, <2>3
  <2>5. /\ \A e : e \in EarlierOnLevel(ready, s') <=>
                     e \in ToSet(ready) \X ToSet(ready) /\ Earlier(ready, e[1], e[2])
        /\ LQ!InLine(ToSet(ready), EarlierOnLevel(ready, s'))
        /\ OnLevel(ready, s') = LQ!OnTop(ToSet(ready))
    BY <1>0, <2>4, OneLevel
  <2>6. EarlierOnLevel(ready, s) \subseteq EarlierOnLevel(ready, s')
    BY <2>5 DEF EarlierOnLevel
  <2>7. LQ!Waiting = ToSet(ready)
    BY <1>0 DEF LQ!Waiting, LQ!Levels, OnLevel
  <2>8. current # None => s'[current].level = 0
    BY <1>0, <1>2, <2>2, <2>3 DEF MInv, OnProcessor
  <2> DEFINE out == {i \in Jobs : i # current /\ s[i].state \in {"new", "blocked", "done"}}
  <2>9. out' = out
    BY <1>1, <2>2
  <2> QED BY <1>1, <1>2, <2>5, <2>6, <2>7, <2>8, <2>9 DEF LQ!Boost
<1> QED BY <1>3, <1>4

(* min() over the list finds the oldest job of the best level; under round *)
(* robin every job is on level 0.                                          *)
LEMMA SelectTakesOldest ==
    ASSUME MInv, Sinking, Select
    PROVE  LQ!Dispatch
<1>0. /\ ready \in Seq(Jobs) /\ Distinct(ready)
      /\ \A i \in Jobs : s[i].level \in 0..2
      /\ \A i \in ToSet(ready) : i \in Jobs /\ s[i].state = "ready"
      /\ None \notin Jobs
      /\ \A i : i \in ToSet(ready) <=> \E m \in 1..Len(ready) : ready[m] = i
  BY ListFacts, InList
<1>1. pc = "select" /\ current = None /\ UNCHANGED <<input, sunk>>
  BY Zenon DEF Select
<1>2. ~sunk /\ ~sunk'
  BY <1>1 DEF Sinking
<1>3. PICK p \in 1..Len(ready) :
         LET i == ready[p]
         IN /\ IsChoice(p) /\ current' = i /\ ready' = RemoveAt(ready, p) /\ i \in Jobs
            /\ \A j \in Jobs \ {i} : s'[j] = s[j]
            /\ s'[i].state = "running" /\ s'[i].level = s[i].level
  BY Selected
<1> DEFINE i == ready[p]
           l == s[i].level
<1>4. i \in ToSet(ready) /\ i \in Jobs /\ l \in 0..2 /\ i # None /\ s[i].state = "ready"
  BY <1>0
<1>5. DOMAIN ready = 1..Len(ready) /\ \A m \in 1..Len(ready) : m \in Int
  BY <1>0
<1>6. \A m \in 1..Len(ready) : /\ l <= s[ready[m]].level
                               /\ s[ready[m]].level = l => p <= m
  <2>1. CASE Mlfq
    <3>1. \A m \in 1..Len(ready) : \/ l < s[ready[m]].level
                                   \/ l = s[ready[m]].level /\ p <= m
      BY <1>3, <1>5, <2>1 DEF IsChoice
    <3>2. \A m \in 1..Len(ready) : s[ready[m]].level \in 0..2
      BY <1>0
    <3> HIDE DEF l
    <3> QED BY <1>4, <3>1, <3>2
  <2>2. CASE ~Mlfq
    <3>1. p = 1 /\ \A j \in Jobs : s[j].level = 0
      BY <1>3, <2>2 DEF IsChoice, MInv, Sliced
    <3>2. \A m \in 1..Len(ready) : ready[m] \in Jobs /\ m >= 1
      BY <1>0
    <3> QED BY <1>4, <3>1, <3>2
  <2> QED BY <2>1, <2>2
<1> HIDE DEF l
<1>7. \A k \in ToSet(ready) : k \in Jobs /\ s[k].level \in 0..2 /\ l <= s[k].level
  BY <1>0, <1>6
<1>8. OnLevel(ready, s) = [h \in 0..2 |-> {k \in ToSet(ready) : s[k].level = h}]
  BY DEF OnLevel
<1>9. i \in OnLevel(ready, s)[l]
  BY <1>4, <1>8 DEF l
<1>10. \A h \in 0..2 : h < l => OnLevel(ready, s)[h] = {}
  BY <1>4, <1>7, <1>8
<1>11. \A k \in OnLevel(ready, s)[l] : <<k, i>> \notin EarlierOnLevel(ready, s)
  <2> SUFFICES ASSUME NEW k \in ToSet(ready), s[k].level = l, Earlier(ready, k, i)
               PROVE  FALSE
    BY <1>4, <1>8 DEF EarlierOnLevel
  <2>1. PICK m, n \in 1..Len(ready) : m < n /\ ready[m] = k /\ ready[n] = i
    BY DEF Earlier
  <2>2. n = p
    BY <1>0, <2>1 DEF Distinct
  <2>3. p <= m
    BY <1>6, <2>1
  <2> QED BY <1>5, <2>1, <2>2, <2>3
<1>12. \A k \in Jobs : s'[k].level = s[k].level
  BY <1>3
<1>13. /\ OnLevel(ready', s') = [OnLevel(ready, s) EXCEPT ![l] = @ \ {i}]
       /\ EarlierOnLevel(ready', s') = {e \in EarlierOnLevel(ready, s) : i \notin {e[1], e[2]}}
  <2>1. ToSet(ready') = ToSet(ready) \ {i}
    BY <1>0, <1>3, EarlierAfterRemoval
  <2>2. \A a, b : Earlier(ready', a, b) <=> Earlier(ready, a, b) /\ i \notin {a, b}
    BY <1>0, <1>3, EarlierAfterRemoval
  <2>3. \A k \in ToSet(ready) : s'[k].level = s[k].level
    BY <1>7, <1>12
  <2>4. i \in ToSet(ready) /\ l \in 0..2 /\ s[i].level = l
    BY <1>4 DEF l
  <2> HIDE DEF i
  <2>5. OnLevel(ready', s') = [OnLevel(ready, s) EXCEPT ![l] = @ \ {i}]
    BY <2>1, <2>3, <2>4 DEF OnLevel
  <2>6. EarlierOnLevel(ready', s') = {e \in EarlierOnLevel(ready, s) : i \notin {e[1], e[2]}}
    BY <2>1, <2>2, <2>3 DEF EarlierOnLevel
  <2> QED BY <2>5, <2>6
<1> DEFINE out == {k \in Jobs : k # current /\ s[k].state \in {"new", "blocked", "done"}}
<1>14. out' = out
  <2>1. out' = {k \in Jobs : k # i /\ s'[k].state \in {"new", "blocked", "done"}}
    BY <1>3
  <2>2. out = {k \in Jobs : s[k].state \in {"new", "blocked", "done"}}
    BY <1>0, <1>1
  <2>3. \A k \in Jobs : k # i => s'[k] = s[k]
    BY <1>3
  <2> HIDE DEF i
  <2> QED BY <1>4, <2>1, <2>2, <2>3
<1>15. current' = i /\ current' # None /\ s'[current'].level = l
  BY <1>3, <1>4 DEF l
<1> HIDE DEF i
<1> QED
  BY <1>1, <1>2, <1>4, <1>9, <1>10, <1>11, <1>13, <1>14, <1>15 DEF LQ!Dispatch, LQ!Levels

(* The tick sinks or ends its job; the queues see it when it is requeued.  *)
LEMMA TickHidden ==
    ASSUME MInv, Sinking, Tick
    PROVE  UNCHANGED LQ!absVars
<1>0. /\ ready \in Seq(Jobs)
      /\ current # None => current \notin ToSet(ready)
      /\ \A i \in ToSet(ready) : i \in Jobs
      /\ \A i \in Jobs : s[i].level \in 0..2
      /\ None \notin Jobs
  BY ListFacts
<1>1. pc = "tick" /\ UNCHANGED <<current, ready>>
  BY Zenon DEF Tick
<1>2. ~sunk
  BY <1>1 DEF Sinking
<1> DEFINE o == s[current]
           n == s'[current]
           spent == IF o.level = 2 THEN o.allot ELSE o.allot - 1
<1>3. /\ current \in Jobs /\ \A i \in Jobs \ {current} : s'[i] = s[i]
      /\ \/ n.level = o.level + 1 /\ sunk'
         \/ n.level = o.level /\ ~sunk'
  BY Ticked
<1>4. current # None
  BY <1>0, <1>3
<1>5. \A k \in ToSet(ready) : s'[k].level = s[k].level
  <2>1. \A k \in ToSet(ready) : k \in Jobs \ {current}
    BY <1>0, <1>4
  <2>2. \A k \in Jobs \ {current} : s'[k] = s[k]
    BY <1>3
  <2> QED BY <2>1, <2>2, Zenon
<1>6. OnLevel(ready', s') = OnLevel(ready, s) /\ EarlierOnLevel(ready', s') = EarlierOnLevel(ready, s)
  BY <1>1, <1>5, LevelsKept
<1> DEFINE depth == IF current = None THEN 0
                    ELSE IF sunk THEN s[current].level - 1 ELSE s[current].level
           out == {i \in Jobs : i # current /\ s[i].state \in {"new", "blocked", "done"}}
<1>7. depth' = depth
  <2>1. o.level \in 0..2
    BY <1>0, <1>3
  <2>2. IF sunk' THEN n.level - 1 = o.level ELSE n.level = o.level
    BY <1>3, <2>1
  <2> QED BY <1>1, <1>2, <1>4, <2>2
<1>8. out' = out
  BY <1>1, <1>3
<1> QED BY <1>1, <1>6, <1>7, <1>8 DEF LQ!absVars

(* Its job goes behind the list, on the level it was on or the next one,   *)
(* or has ended or blocked.                                                *)
LEMMA RequeueMoves ==
    ASSUME MInv, Sinking, Requeue
    PROVE  LQ!Preempt \/ LQ!End \/ UNCHANGED LQ!absVars
<1>0. /\ ready \in Seq(Jobs) /\ Distinct(ready)
      /\ current # None => current \notin ToSet(ready)
      /\ \A i \in ToSet(ready) : i \in Jobs
      /\ \A i \in Jobs : s[i].level \in 0..2
      /\ None \notin Jobs
  BY ListFacts
<1> DEFINE Keeps == ~off /\ UNCHANGED <<s, ready, current>>
           Back == /\ current' = None /\ s[current].state = "running"
                   /\ \A i \in Jobs \ {current} : s'[i] = s[i]
                   /\ s'[current].state = "ready"
                   /\ s'[current].level = s[current].level
                   /\ ready' = Append(ready, current)
           Gone == /\ current' = None /\ s[current].state # "running"
                   /\ UNCHANGED <<s, ready>>
<1>1. current \in Jobs /\ (Keeps \/ Back \/ Gone)
  BY Requeued, Zenon
<1>2. ~sunk'
  BY Zenon DEF Requeue
<1>3. current # None /\ current \notin ToSet(ready)
  BY <1>0, <1>1
<1> DEFINE depth == IF current = None THEN 0
                    ELSE IF sunk THEN s[current].level - 1 ELSE s[current].level
           out == {i \in Jobs : i # current /\ s[i].state \in {"new", "blocked", "done"}}
<1>4. CASE Keeps
  <2>1. ~sunk
    BY <1>4 DEF Sinking
  <2> QED BY <1>2, <1>4, <2>1 DEF LQ!absVars
<1>5. CASE Back
  <2> DEFINE l == s'[current].level
  <2>1. l \in 0..2 /\ l = s[current].level
    BY <1>0, <1>1, <1>5
  <2>2. depth \in Int /\ l \in {depth, depth + 1} /\ depth' = 0
    BY <1>3, <1>5, <2>1
  <2>3. /\ OnLevel(ready', s') = [OnLevel(ready, s) EXCEPT ![l] = @ \cup {current}]
        /\ EarlierOnLevel(ready', s') =
              EarlierOnLevel(ready, s) \cup (OnLevel(ready, s)[l] \X {current})
    <3>1. \A k \in ToSet(ready) : s'[k].level = s[k].level
      BY <1>0, <1>3, <1>5
    <3>2. /\ OnLevel(Append(ready, current), s') =
                [OnLevel(ready, s) EXCEPT ![s'[current].level] = @ \cup {current}]
          /\ EarlierOnLevel(Append(ready, current), s') =
                EarlierOnLevel(ready, s) \cup (OnLevel(ready, s)[s'[current].level] \X {current})
      <4>1. /\ ready \in Seq(Jobs) /\ Distinct(ready)
            /\ current \in Jobs /\ current \notin ToSet(ready) /\ s'[current].level \in 0..2
        BY <1>0, <1>1, <1>3, <2>1
      <4> QED BY <3>1, <4>1, LevelsAfterJoining
    <3> QED BY <1>5, <3>2
  <2>4. out' = out
    <3>1. out' = {i \in Jobs : s'[i].state \in {"new", "blocked", "done"}}
      BY <1>0, <1>5
    <3> QED BY <1>1, <1>5, <3>1
  <2> HIDE DEF l
  <2> QED BY <1>3, <1>5, <2>1, <2>2, <2>3, <2>4 DEF LQ!Preempt, LQ!Join, LQ!Levels
<1>6. CASE Gone
  <2>1. s[current].state \in {"blocked", "done"}
    BY <1>3, <1>6 DEF MInv, OnProcessor
  <2>2. out' = out \cup {current}
    <3>1. out' = {i \in Jobs : s[i].state \in {"new", "blocked", "done"}}
      BY <1>0, <1>6
    <3> QED BY <1>1, <2>1, <3>1
  <2> QED BY <1>3, <1>6, <2>2 DEF LQ!End
<1> QED BY <1>1, <1>4, <1>5, <1>6

LEMMA SimStepRefines ==
    ASSUME MInv, Sinking, [Next]_vars
    PROVE  LQ!AOpenNext \/ UNCHANGED LQ!absVars
<1>1. CASE TopArrivals \/ TickArrivals
  <2>1. CASE Arrive
    <3>1. pc \in {"top", "arrive"}
      BY <1>1 DEF TopArrivals, TickArrivals
    <3> QED BY <2>1, <3>1, ArriveAdmits DEF LQ!AOpenNext
  <2>2. CASE Arrived("top", "boost") \/ Arrived("arrive", "requeue")
    BY <2>2 DEF Arrived, LQ!absVars
  <2> QED BY <1>1, <2>1, <2>2 DEF TopArrivals, TickArrivals
<1>2. CASE Boost
  BY <1>2, BoostLifts DEF LQ!AOpenNext
<1>3. CASE Select
  BY <1>3, SelectTakesOldest DEF LQ!AOpenNext
<1>4. CASE KeepRunning \/ Idle \/ End \/ UNCHANGED vars
  <2>1. UNCHANGED <<ready, current, s, sunk>>
    BY <1>4, Zenon DEF KeepRunning, Idle, End, vars
  <2> QED BY <2>1 DEF LQ!absVars
<1>5. CASE Tick
  BY <1>5, TickHidden
<1>6. CASE Requeue
  BY <1>6, RequeueMoves DEF LQ!AOpenNext
<1> QED BY <1>1, <1>2, <1>3, <1>4, <1>5, <1>6 DEF Next, Step

(* simulate() and the kernel schedule by the same rules, for any number of *)
(* jobs, any workload, policy and boost period: what min() over one list   *)
(* (mlfq.py:43), the demotions behind a tick and the requeues behind the   *)
(* arrivals do is what one FIFO queue per level would do, with jobs that   *)
(* come, wait and come back.                                               *)
THEOREM SimulatorImplementsLevels == Spec => ImplementsOpenQueues
<1>1. Init => Sinking /\ LQ!AInit
  <2> SUFFICES ASSUME Init PROVE Sinking /\ LQ!AInit
    OBVIOUS
  <2>1. /\ ready = <<>> /\ current = None /\ ~sunk
        /\ \A i \in Jobs : s[i].state = "new"
    BY DEF Init, NewJob
  <2>2. ToSet(ready) = {}
    BY <2>1 DEF ToSet
  <2>3. OnLevel(ready, s) = LQ!Nothing /\ EarlierOnLevel(ready, s) = {}
    BY <2>2 DEF OnLevel, EarlierOnLevel, LQ!Nothing, LQ!Levels
  <2>4. {i \in Jobs : i # current /\ s[i].state \in {"new", "blocked", "done"}} = Jobs
    <3>1. \A i \in Jobs : i # current
      BY <2>1, SimAssumption DEF None, Jobs
    <3> QED BY <2>1, <3>1
  <2> QED BY <2>1, <2>3, <2>4 DEF Sinking, LQ!AInit, Jobs
<1>2. MInv /\ Sinking /\ [Next]_vars => Sinking' /\ [LQ!AOpenNext]_(LQ!absVars)
  BY SinkingNext, SimStepRefines
<1> QED
  BY <1>1, <1>2, SimInvariance, PTL DEF Spec, ImplementsOpenQueues, LQ!AOpenSpec
================================================================================
