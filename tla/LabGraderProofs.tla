---------------------------- MODULE LabGraderProofs ----------------------------
(***************************************************************************)
(* What holds of LabGrader for any number of graders, files and parts, and *)
(* without the bounds of a model.                                          *)
(***************************************************************************)
EXTENDS LabGrader, TLAPS

(***************************************************************************)
(* The locals of one grade.                                                *)
(***************************************************************************)
Locals ==
    [pc : {"idle", "fingerprint", "copy", "parts", "command", "recheck", "report", "write"},
     part : Parts \cup {Whole}, since : 0..cleans, opened : 0..cleans,
     read : Reading, digest : Reading, work : Reading,
     todo : SUBSET Parts, passed : SUBSET Parts]

(* What has been read at each point of grade_locked().                     *)
Phased(l) ==
    /\ l.pc = "fingerprint" => l.work = Blank
    /\ l.pc \in {"copy", "command", "parts"} => l.read = Blank
    /\ l.pc \in {"copy", "command", "parts", "recheck", "report", "write"} => AllRead(l.digest)
    /\ l.pc \in {"command", "parts", "recheck", "report", "write"} => AllRead(l.work)

Well(l) == l \in Locals /\ Phased(l)

Bounded ==
    /\ limit \in Limits /\ limit.edits \in Nat /\ edits \in Nat /\ edits <= limit.edits
    /\ cleans \in Nat

TypedInv ==
    /\ Bounded
    /\ file \in [Files -> Contents]
    /\ report \in Reports \cup {NoReport, Truncated}
    /\ grader \in [Graders -> Locals]
    /\ \A g \in Graders : Phased(grader[g])
    /\ submitter \in [pc : {"idle", "payload"}, count : 0..limit.submits, read : Reading]

(***************************************************************************)
(* Reading and grading, for one set of locals.                             *)
(***************************************************************************)
LEMMA BlankReads == Bounded => Blank \in Reading /\ Unread \notin Contents /\ Missing \in Contents
BY DEF Bounded, Blank, Reading, Unread, Contents, Missing

LEMMA ReadNextTypes ==
  ASSUME Bounded, file \in [Files -> Contents], NEW read \in Reading
  PROVE  ReadNext(read) \in Reading
BY DEF ReadNext, Reading

LEMMA AllReadTypes ==
  ASSUME NEW read \in Reading, AllRead(read)
  PROVE  read \in [Files -> Contents]
BY DEF AllRead, Reading

(* A grader that moves on leaves everything else as it was.                *)
LEMMA BecomesWell ==
  ASSUME TypedInv, NEW g \in Graders, NEW l, Becomes(g, l), Well(l)
  PROVE  TypedInv'
<1>1. /\ grader' = [grader EXCEPT ![g] = l]
      /\ UNCHANGED <<limit, file, edits, cleans, crashes, outputs, report, submitter, package>>
  BY DEF Becomes, studentVars
<1>2. Locals' = Locals /\ Reports' = Reports /\ Contents' = Contents /\ Reading' = Reading
  BY <1>1 DEF Locals, Reports, Contents, Reading
<1>3. grader' \in [Graders -> Locals] /\ \A h \in Graders : Phased(grader'[h])
  BY <1>1 DEF TypedInv, Well
<1>. QED
  BY <1>1, <1>2, <1>3 DEF TypedInv, Bounded
(* Reading the next file adds what it now holds and changes nothing else.  *)
LEMMA ReadNextReads ==
  ASSUME Bounded, file \in [Files -> Contents], NEW read \in Reading, Readable(read)
  PROVE  /\ ReadNext(read) \in Reading
         /\ \A f \in Files : \/ ReadNext(read)[f] = read[f]
                             \/ ReadNext(read)[f] = file[f] /\ file[f] # Missing
<1>1. ReadNext(read) \in Reading
  BY ReadNextTypes
<1>2. ASSUME NEW f \in Files, ReadNext(read)[f] # read[f]
      PROVE  ReadNext(read)[f] = file[f] /\ file[f] # Missing
  <2>1. f = NextFile(read)
    BY <1>2 DEF ReadNext, Reading
  <2>. QED
    BY <2>1 DEF ReadNext, Readable, Reading
<1>. QED
  BY <1>1, <1>2

(***************************************************************************)
(* Without Reverts a file only ever gets contents with higher numbers, so  *)
(* three readings that give the same contents first and last give the same *)
(* in between: this is what the two fingerprints rely on.                  *)
(***************************************************************************)
FilesDated == \A f \in Files : file[f] <= edits + 1

AsOld(read) ==
    \A f \in Files :
       read[f] # Unread => /\ read[f] <= edits + 1
                           /\ file[f] = Missing \/ read[f] <= file[f]

InOrder(l) ==
    /\ l.pc \in {"copy", "command", "parts", "recheck"} =>
          \A f \in Files : l.work[f] # Unread => l.digest[f] <= l.work[f]
    /\ l.pc = "recheck" => \A f \in Files : l.read[f] # Unread => l.work[f] <= l.read[f]
    /\ l.pc \in {"report", "write"} => l.work = l.digest

Sound(l) == AsOld(l.read) /\ AsOld(l.digest) /\ AsOld(l.work) /\ InOrder(l)

(* What the next locals of a grade have of the present ones.               *)
Follows(g, l) ==
    /\ Well(l)
    /\ FilesDated /\ Sound(grader[g]) => Sound(l)
    /\ l.pc = "idle" \/ (grader[g].pc # "idle" /\ l.since = grader[g].since)

LEMMA IdleFollows ==
  ASSUME TypedInv, NEW g \in Graders
  PROVE  Follows(g, Idle)
<1>1. Blank \in Reading /\ 0 \in 0..cleans
  BY BlankReads DEF TypedInv, Bounded
<1>2. Well(Idle)
  BY <1>1 DEF Well, Locals, Phased, Idle
<1>3. AsOld(Blank)
  BY DEF AsOld, Blank
<1>. QED
  BY <1>2, <1>3 DEF Follows, Sound, InOrder, Idle

LEMMA ReadingIsDated ==
  ASSUME TypedInv, FilesDated, NEW read \in Reading, AsOld(read), Readable(read)
  PROVE  AsOld(ReadNext(read))
<1>. DEFINE r == ReadNext(read)
<1>1. \A f \in Files : r[f] = read[f] \/ (r[f] = file[f] /\ file[f] # Missing)
  BY ReadNextReads DEF TypedInv
<1>. HIDE DEF r
<1>2. \A f \in Files : file[f] \in Int
  BY DEF TypedInv, Bounded, Contents
<1>3. AsOld(r)
  BY <1>1, <1>2 DEF AsOld, FilesDated
<1>. QED
  BY <1>3 DEF r

LEMMA FingerprintFollows ==
  ASSUME TypedInv, NEW g \in Graders, Fingerprint(g)
  PROVE  \E l : Becomes(g, l) /\ Follows(g, l)
<1>. DEFINE me == grader[g]
            r == ReadNext(me.read)
            l == [me EXCEPT !.read = r]
<1>1. me \in Locals /\ Phased(me)
  BY DEF TypedInv
<1>2. CASE ~Readable(me.read)
  BY <1>2, IdleFollows DEF Fingerprint, Leave
<1>3. CASE Readable(me.read)
  <2>1. Becomes(g, l) /\ me.pc \in {"fingerprint", "recheck"}
    BY <1>3 DEF Fingerprint
  <2>2. /\ r \in Reading
        /\ \A f \in Files : r[f] = me.read[f] \/ (r[f] = file[f] /\ file[f] # Missing)
    BY <1>1, <1>3, ReadNextReads DEF TypedInv, Locals
  <2>3. ASSUME FilesDated, Sound(me)
        PROVE  Sound(l)
    <3>1. AsOld(r)
      BY <1>1, <1>3, <2>3, ReadingIsDated DEF Locals, Sound
    <3>. HIDE DEF r
    <3>2. ASSUME me.pc = "recheck", NEW f \in Files, r[f] # Unread
          PROVE  me.work[f] <= r[f]
      <4>1. CASE r[f] = me.read[f]
        BY <2>3, <3>2, <4>1 DEF Sound, InOrder
      <4>2. CASE r[f] = file[f] /\ file[f] # Missing
        <5>1. me.work[f] # Unread
          BY <1>1, <3>2 DEF Phased, AllRead
        <5>. QED
          BY <2>3, <4>2, <5>1 DEF Sound, AsOld
      <4>. QED
        BY <2>2, <4>1, <4>2
    <3>3. InOrder(l)
      BY <1>1, <2>1, <2>3, <3>2 DEF Sound, InOrder, Locals
    <3>. QED
      BY <1>1, <2>3, <3>1, <3>3 DEF Sound, Locals
  <2>. HIDE DEF r
  <2>4. Well(l)
    BY <1>1, <2>1, <2>2 DEF Well, Locals, Phased
  <2>5. Follows(g, l)
    BY <1>1, <2>1, <2>3, <2>4 DEF Follows, Locals
  <2>. QED
    BY <2>1, <2>5
<1>. QED
  BY <1>2, <1>3

LEMMA DigestFollows ==
  ASSUME TypedInv, NEW g \in Graders, Digest(g)
  PROVE  \E l : Becomes(g, l) /\ Follows(g, l)
<1>. DEFINE me == grader[g]
            l == [me EXCEPT !.pc = "copy", !.digest = me.read, !.read = Blank]
<1>1. me \in Locals /\ Phased(me) /\ Blank \in Reading
  BY BlankReads DEF TypedInv
<1>2. Becomes(g, l) /\ me.pc = "fingerprint" /\ AllRead(me.read)
  BY DEF Digest
<1>3. Well(l)
  BY <1>1, <1>2 DEF Well, Locals, Phased
<1>4. ASSUME Sound(me) PROVE Sound(l)
  <2>1. AsOld(Blank) /\ \A f \in Files : Blank[f] = Unread
    BY DEF AsOld, Blank
  <2>2. me.work = Blank
    BY <1>1, <1>2 DEF Phased
  <2>. QED
    BY <1>1, <1>4, <2>1, <2>2 DEF Sound, InOrder, Locals
<1>5. Follows(g, l)
  BY <1>1, <1>2, <1>3, <1>4 DEF Follows, Locals
<1>. QED
  BY <1>2, <1>5

LEMMA CopyFollows ==
  ASSUME TypedInv, NEW g \in Graders, Copy(g)
  PROVE  \E l : Becomes(g, l) /\ Follows(g, l)
<1>. DEFINE me == grader[g]
            r == ReadNext(me.work)
            l == [me EXCEPT !.work = r]
<1>1. me \in Locals /\ Phased(me)
  BY DEF TypedInv
<1>2. CASE ~Readable(me.work)
  BY <1>2, IdleFollows DEF Copy, Leave
<1>3. CASE Readable(me.work)
  <2>1. Becomes(g, l) /\ me.pc = "copy"
    BY <1>3 DEF Copy
  <2>2. /\ r \in Reading
        /\ \A f \in Files : r[f] = me.work[f] \/ (r[f] = file[f] /\ file[f] # Missing)
    BY <1>1, <1>3, ReadNextReads DEF TypedInv, Locals
  <2>3. ASSUME FilesDated, Sound(me)
        PROVE  Sound(l)
    <3>1. AsOld(r)
      BY <1>1, <1>3, <2>3, ReadingIsDated DEF Locals, Sound
    <3>. HIDE DEF r
    <3>2. ASSUME NEW f \in Files, r[f] # Unread
          PROVE  me.digest[f] <= r[f]
      <4>1. CASE r[f] = me.work[f]
        BY <2>1, <2>3, <3>2, <4>1 DEF Sound, InOrder
      <4>2. CASE r[f] = file[f] /\ file[f] # Missing
        <5>1. me.digest[f] # Unread
          BY <1>1, <2>1, <3>2 DEF Phased, AllRead
        <5>. QED
          BY <2>3, <4>2, <5>1 DEF Sound, AsOld
      <4>. QED
        BY <2>2, <4>1, <4>2
    <3>3. InOrder(l)
      BY <1>1, <2>1, <3>2 DEF InOrder, Locals
    <3>. QED
      BY <1>1, <2>3, <3>1, <3>3 DEF Sound, Locals
  <2>. HIDE DEF r
  <2>4. Well(l)
    BY <1>1, <2>1, <2>2 DEF Well, Locals, Phased
  <2>5. Follows(g, l)
    BY <1>1, <2>1, <2>3, <2>4 DEF Follows, Locals
  <2>. QED
    BY <2>1, <2>5
<1>. QED
  BY <1>2, <1>3
LEMMA StartPartFollows ==
  ASSUME TypedInv, NEW g \in Graders, StartPart(g)
  PROVE  \E l : Becomes(g, l) /\ Follows(g, l)
<1>. DEFINE me == grader[g]
            l == [me EXCEPT !.pc = "command"]
<1>1. CASE ~outputs
  BY <1>1, IdleFollows DEF StartPart, Leave
<1>2. CASE outputs
  <2>1. /\ Becomes(g, l) /\ me.pc \in {"copy", "parts"}
        /\ me.pc = "copy" => AllRead(me.work)
    BY <1>2 DEF StartPart
  <2>2. me \in Locals /\ Phased(me)
    BY DEF TypedInv
  <2>3. Well(l)
    BY <2>1, <2>2 DEF Well, Locals, Phased
  <2>4. Sound(me) => Sound(l)
    BY <2>1, <2>2 DEF Sound, InOrder, Locals
  <2>5. Follows(g, l)
    BY <2>1, <2>2, <2>3, <2>4 DEF Follows, Locals
  <2>. QED
    BY <2>1, <2>5
<1>. QED
  BY <1>1, <1>2

LEMMA FinishPartFollows ==
  ASSUME TypedInv, NEW g \in Graders, grader[g].pc = "command",
         NEW passes \in BOOLEAN, FinishPart(g, passes)
  PROVE  \E l : Becomes(g, l) /\ Follows(g, l)
<1>. DEFINE me == grader[g]
            Done(p) == [me EXCEPT !.pc = "parts", !.todo = @ \ {p},
                                  !.passed = IF passes THEN @ \cup {p} ELSE @]
<1>1. PICK p \in me.todo : Becomes(g, Done(p))
  BY DEF FinishPart
<1>2. me \in Locals /\ Phased(me)
  BY DEF TypedInv
<1>3. Well(Done(p))
  BY <1>2 DEF Well, Locals, Phased
<1>4. Sound(me) => Sound(Done(p))
  BY <1>2 DEF Sound, InOrder, Locals
<1>5. Follows(g, Done(p))
  BY <1>2, <1>3, <1>4 DEF Follows, Locals
<1>. QED
  BY <1>1, <1>5

LEMMA PartsDoneFollows ==
  ASSUME TypedInv, NEW g \in Graders, PartsDone(g)
  PROVE  \E l : Becomes(g, l) /\ Follows(g, l)
<1>. DEFINE me == grader[g]
            l == [me EXCEPT !.pc = "recheck"]
<1>1. Becomes(g, l) /\ me.pc = "parts"
  BY DEF PartsDone
<1>2. me \in Locals /\ Phased(me)
  BY DEF TypedInv
<1>3. Well(l)
  BY <1>1, <1>2 DEF Well, Locals, Phased
<1>4. Sound(me) => Sound(l)
  <2>1. me.read = Blank /\ \A f \in Files : Blank[f] = Unread
    BY <1>1, <1>2 DEF Phased, Blank
  <2>. QED
    BY <1>1, <1>2, <2>1 DEF Sound, InOrder, Locals
<1>5. Follows(g, l)
  BY <1>1, <1>2, <1>3, <1>4 DEF Follows, Locals
<1>. QED
  BY <1>1, <1>5

(* The copy is between two equal readings: it is what they were.           *)
LEMMA CompareFollows ==
  ASSUME TypedInv, NEW g \in Graders, Compare(g)
  PROVE  \E l : Becomes(g, l) /\ Follows(g, l)
<1>. DEFINE me == grader[g]
            l == [me EXCEPT !.pc = "report"]
<1>1. CASE ~(Unmodified(g) /\ me.part = Whole)
  BY <1>1, IdleFollows DEF Compare, Leave
<1>2. CASE Unmodified(g) /\ me.part = Whole
  <2>1. Becomes(g, l) /\ me.pc = "recheck" /\ AllRead(me.read) /\ me.read = me.digest
    BY <1>2 DEF Compare, Unmodified
  <2>2. me \in Locals /\ Phased(me)
    BY DEF TypedInv
  <2>3. Well(l)
    BY <2>1, <2>2 DEF Well, Locals, Phased
  <2>4. ASSUME Sound(me) PROVE Sound(l)
    <3>1. /\ me.work \in [Files -> Contents] /\ me.digest \in [Files -> Contents]
          /\ AllRead(me.work)
      BY <2>1, <2>2, AllReadTypes DEF Phased, Locals
    <3>2. Contents \subseteq Int
      BY DEF Contents, TypedInv, Bounded
    <3>3. ASSUME NEW f \in Files PROVE me.work[f] = me.digest[f]
      <4>1. me.digest[f] <= me.work[f] /\ me.work[f] <= me.read[f]
        BY <2>1, <2>4, <3>1 DEF Sound, InOrder, AllRead
      <4>. QED
        BY <2>1, <3>1, <3>2, <4>1
    <3>4. me.work = me.digest
      BY <3>1, <3>3
    <3>. QED
      BY <2>2, <2>4, <3>4 DEF Sound, InOrder, Locals
  <2>5. Follows(g, l)
    BY <2>1, <2>2, <2>3, <2>4 DEF Follows, Locals
  <2>. QED
    BY <2>1, <2>5
<1>. QED
  BY <1>1, <1>2

(* All the steps of a grade that change nothing but its locals.            *)
Moves(g) ==
    \/ Fingerprint(g) \/ Digest(g) \/ Copy(g) \/ StartPart(g) \/ CommandTimesOut(g)
    \/ PartsDone(g) \/ Compare(g) \/ NoPlaceForReport(g) \/ CommandEnds(g)

LEMMA MovesFollow ==
  ASSUME TypedInv, NEW g \in Graders, Moves(g)
  PROVE  \E l : Becomes(g, l) /\ Follows(g, l)
<1>1. CASE CommandTimesOut(g) \/ CommandEnds(g)
  <2>1. grader[g].pc = "command" /\ \E passes \in BOOLEAN : FinishPart(g, passes)
    BY <1>1 DEF CommandTimesOut, CommandEnds, Expires
  <2>. QED
    BY <2>1, FinishPartFollows
<1>2. CASE NoPlaceForReport(g)
  BY <1>2, IdleFollows DEF NoPlaceForReport, Leave
<1>. QED
  BY <1>1, <1>2, FingerprintFollows, DigestFollows, CopyFollows, StartPartFollows,
     PartsDoneFollows, CompareFollows DEF Moves

(***************************************************************************)
(* The steps of a grade that change more.                                  *)
(***************************************************************************)
BeginLocals(part) ==
    [Idle EXCEPT !.pc = "fingerprint", !.part = part, !.since = cleans,
                 !.todo = Selected(part)]

LEMMA BeginWell ==
  ASSUME TypedInv, NEW part \in Parts \cup {Whole}
  PROVE  Well(BeginLocals(part)) /\ Sound(BeginLocals(part))
<1>1. Blank \in Reading /\ cleans \in 0..cleans /\ 0 \in 0..cleans
  BY BlankReads DEF TypedInv, Bounded
<1>2. Well(BeginLocals(part))
  BY <1>1 DEF Well, Locals, Phased, BeginLocals, Idle, Selected
<1>3. \A f \in Files : Blank[f] = Unread
  BY DEF Blank
<1>4. Sound(BeginLocals(part))
  BY <1>3 DEF Sound, AsOld, InOrder, BeginLocals, Idle
<1>. QED
  BY <1>2, <1>4

(* A report in the form of a report: from locals that have read all.       *)
LEMMA ResultIsAReport ==
  ASSUME TypedInv, NEW g \in Graders, grader[g].pc = "write"
  PROVE  Result(g) \in Reports
<1>. DEFINE me == grader[g]
<1>1. me \in Locals /\ AllRead(me.digest) /\ AllRead(me.work)
  BY DEF TypedInv, Phased
<1>2. me.digest \in [Files -> Contents] /\ me.work \in [Files -> Contents]
  BY <1>1, AllReadTypes DEF Locals
<1>3. me.passed \in SUBSET Parts /\ (me.passed = Parts) \in BOOLEAN
  BY <1>1 DEF Locals
<1>. QED
  BY <1>2, <1>3 DEF Result, Reports
(***************************************************************************)
(* Everything is what it may be, whatever the student does.                *)
(***************************************************************************)
LEMMA GraderAndReport ==
  ASSUME TypedInv, NEW g \in Graders, NEW l, Well(l),
         grader' = [grader EXCEPT ![g] = l],
         UNCHANGED <<limit, file, edits, cleans, submitter>>,
         report' \in Reports \cup {NoReport, Truncated}
  PROVE  TypedInv'
<1>1. Locals' = Locals /\ Reports' = Reports /\ Contents' = Contents /\ Reading' = Reading
  BY DEF Locals, Reports, Contents, Reading
<1>2. grader' \in [Graders -> Locals] /\ \A h \in Graders : Phased(grader'[h])
  BY DEF TypedInv, Well
<1>. QED
  BY <1>1, <1>2 DEF TypedInv, Bounded

LEMMA TypedInit == Init => TypedInv
<1>. SUFFICES ASSUME Init PROVE TypedInv
  OBVIOUS
<1>1. Bounded
  BY LabAssumption DEF Init, Bounded
<1>2. /\ Blank \in Reading /\ 1 \in Contents /\ 0 \in 0..cleans /\ limit.submits \in Nat
      /\ 0 \in 0..limit.submits
  BY <1>1, LabAssumption, BlankReads DEF Bounded, Contents, Init
<1>3. Well(Idle)
  BY <1>2 DEF Well, Locals, Phased, Idle
<1>4. grader \in [Graders -> Locals] /\ \A g \in Graders : Phased(grader[g])
  BY <1>3 DEF Init, Well
<1>5. submitter \in [pc : {"idle", "payload"}, count : 0..limit.submits, read : Reading]
  BY <1>2 DEF Init, Resting
<1>. QED
  BY <1>1, <1>2, <1>4, <1>5 DEF Init, TypedInv

LEMMA GraderTyped ==
  ASSUME TypedInv, NEW g \in Graders, BeginGrade(g) \/ GraderStep(g) \/ CommandEnds(g) \/ Crash(g)
  PROVE  TypedInv'
<1>1. CASE BeginGrade(g)
  <2>1. PICK part \in Parts \cup {Whole} : grader' = [grader EXCEPT ![g] = BeginLocals(part)]
    BY <1>1 DEF BeginGrade, BeginLocals
  <2>2. UNCHANGED <<limit, file, edits, cleans, submitter, report>>
    BY <1>1 DEF BeginGrade, studentVars
  <2>. QED
    BY <2>1, <2>2, BeginWell, GraderAndReport DEF TypedInv
<1>2. CASE Moves(g)
  <2>1. PICK l : Becomes(g, l) /\ Follows(g, l)
    BY <1>2, MovesFollow
  <2>. QED
    BY <2>1, BecomesWell DEF Follows
<1>3. CASE OpenReport(g)
  <2>. DEFINE l == [grader[g] EXCEPT !.pc = "write", !.opened = cleans]
  <2>1. /\ grader' = [grader EXCEPT ![g] = l] /\ report' = Truncated /\ grader[g].pc = "report"
        /\ UNCHANGED <<limit, file, edits, cleans, submitter>>
    BY <1>3 DEF OpenReport, studentVars, TypedInv, Locals
  <2>2. grader[g] \in Locals /\ Phased(grader[g]) /\ cleans \in 0..cleans
    BY DEF TypedInv, Bounded
  <2>3. Well(l)
    BY <2>1, <2>2 DEF Well, Locals, Phased
  <2>. QED
    BY <2>1, <2>3, GraderAndReport
<1>4. CASE FillReport(g)
  <2>1. Result(g) \in Reports
    BY <1>4, ResultIsAReport DEF FillReport
  <2>2. /\ grader' = [grader EXCEPT ![g] = Idle]
        /\ UNCHANGED <<limit, file, edits, cleans, submitter>>
        /\ report' = report \/ report' \in {Result(g), Truncated}
    BY <1>4 DEF FillReport, studentVars
  <2>3. report' \in Reports \cup {NoReport, Truncated}
    BY <2>1, <2>2 DEF TypedInv
  <2>. QED
    BY <2>2, <2>3, IdleFollows, GraderAndReport DEF Follows
<1>5. CASE Crash(g)
  BY <1>5, IdleFollows, GraderAndReport DEF Crash, Follows, TypedInv
<1>. QED
  BY <1>1, <1>2, <1>3, <1>4, <1>5 DEF GraderStep, Moves

LEMMA SubmitTyped ==
  ASSUME TypedInv, BeginSubmit \/ ReadPayload \/ MakePackage
  PROVE  TypedInv'
<1>. DEFINE Submitters ==
       [pc : {"idle", "payload"}, count : 0..limit.submits, read : Reading]
<1>1. /\ UNCHANGED <<limit, file, edits, cleans, report, grader>>
  BY DEF BeginSubmit, ReadPayload, MakePackage, Submits, studentVars
<1>2. /\ Locals' = Locals /\ Reports' = Reports /\ Contents' = Contents /\ Reading' = Reading
  BY <1>1 DEF Locals, Reports, Contents, Reading
<1>3. limit.submits \in Nat
  BY LabAssumption DEF TypedInv, Bounded
<1>4. submitter \in Submitters /\ Blank \in Reading
  BY BlankReads DEF TypedInv
<1>5. Resting(submitter.count) \in Submitters
  BY <1>4 DEF Resting
<1>6. submitter' \in Submitters
  <2>1. CASE BeginSubmit
    <3>1. /\ submitter' = [submitter EXCEPT !.pc = "payload", !.count = @ + 1]
          /\ submitter.count < limit.submits
      BY <2>1 DEF BeginSubmit, Submits
    <3>2. submitter.count + 1 \in 0..limit.submits
      BY <1>3, <1>4, <3>1
    <3>. QED
      BY <1>4, <3>1, <3>2
  <2>2. CASE ReadPayload
    <3>1. Readable(submitter.read) => ReadNext(submitter.read) \in Reading
      BY <1>4, ReadNextReads DEF TypedInv
    <3>. QED
      BY <1>4, <1>5, <2>2, <3>1 DEF ReadPayload, Submits
  <2>3. CASE MakePackage
    BY <1>5, <2>3 DEF MakePackage, Submits
  <2>. QED
    BY <2>1, <2>2, <2>3
<1>. QED
  BY <1>1, <1>2, <1>6 DEF TypedInv, Bounded

LEMMA StudentTyped ==
  ASSUME TypedInv, (\E f \in Files : Edit(f)) \/ Clean
  PROVE  TypedInv'
<1>1. /\ UNCHANGED <<limit, grader, submitter>>
      /\ Locals \subseteq Locals' /\ Reports' = Reports /\ Contents' = Contents
      /\ Reading' = Reading /\ Bounded'
  <2>1. UNCHANGED <<limit, grader, submitter>> /\ Bounded' /\ cleans' \in Nat /\ cleans <= cleans'
    BY DEF Edit, Clean, TypedInv, Bounded
  <2>2. Reports' = Reports /\ Contents' = Contents /\ Reading' = Reading
    BY <2>1 DEF Reports, Contents, Reading
  <2>3. 0..cleans \subseteq 0..cleans'
    BY <2>1 DEF TypedInv, Bounded
  <2>4. Locals \subseteq Locals'
    BY <2>1, <2>2, <2>3 DEF Locals
  <2>. QED
    BY <2>1, <2>2, <2>4
<1>2. grader' \in [Graders -> Locals'] /\ \A g \in Graders : Phased(grader'[g])
  BY <1>1 DEF TypedInv
<1>3. file' \in [Files -> Contents]
  <2>1. CASE \E f \in Files : Edit(f)
    <3>1. PICK f \in Files, c \in {edits + 2, Missing} \cup (IF Reverts THEN 1..(edits + 1) ELSE {}) :
             edits < limit.edits /\ file' = [file EXCEPT ![f] = c]
      BY <2>1 DEF Edit
    <3>2. c \in Contents
      BY <3>1 DEF TypedInv, Bounded, Contents, Missing
    <3>. QED
      BY <3>1, <3>2 DEF TypedInv
  <2>2. CASE Clean
    BY <2>2 DEF Clean, TypedInv
  <2>. QED
    BY <2>1, <2>2
<1>4. report' \in Reports \cup {NoReport, Truncated}
  BY DEF Edit, Clean, TypedInv
<1>. QED
  BY <1>1, <1>2, <1>3, <1>4 DEF TypedInv

LEMMA NextTyped == TypedInv /\ [Next]_vars => TypedInv'
<1>. SUFFICES ASSUME TypedInv, [Next]_vars PROVE TypedInv'
  OBVIOUS
<1>1. CASE UNCHANGED vars
  <2>1. UNCHANGED <<limit, file, edits, cleans, report, grader, submitter>>
    BY <1>1 DEF vars
  <2>2. Locals' = Locals /\ Reports' = Reports /\ Contents' = Contents /\ Reading' = Reading
    BY <2>1 DEF Locals, Reports, Contents, Reading
  <2>. QED
    BY <2>1, <2>2 DEF TypedInv, Bounded
<1>. QED
  BY <1>1, GraderTyped, SubmitTyped, StudentTyped DEF Next

(* Files, reports and the locals of grade and submit keep their types, and *)
(* a grade has read at each point what grade_locked() has read there.      *)
THEOREM Typed == Spec => []TypedInv
<1>. QED
  BY TypedInit, NextTyped, PTL DEF Spec

(* The same as the type invariant of the specification: a grade never      *)
(* writes a report from a file it has not read or could not read.          *)
THEOREM TypeCorrect == Spec => []TypeOK
<1>1. TypedInv => TypeOK
  BY DEF TypedInv, TypeOK, Locals
<1>. QED
  BY <1>1, Typed, PTL
(***************************************************************************)
(* The lock.                                                               *)
(***************************************************************************)
LEMMA ApartNext == TypedInv /\ GradesApart /\ [Next]_vars => GradesApart'
<1>. SUFFICES ASSUME TypedInv, GradesApart, [Next]_vars PROVE GradesApart'
  OBVIOUS
<1>. USE DEF TypedInv
<1>1. ASSUME NEW g \in Graders, NEW l, grader' = [grader EXCEPT ![g] = l],
             l.pc = "idle" \/ (grader[g].pc # "idle" /\ l.since = grader[g].since)
      PROVE  GradesApart'
  BY <1>1 DEF GradesApart
<1>2. ASSUME NEW g \in Graders, BeginGrade(g) PROVE GradesApart'
  <2>1. PICK part \in Parts \cup {Whole} : grader' = [grader EXCEPT ![g] = BeginLocals(part)]
    BY <1>2 DEF BeginGrade, BeginLocals
  <2>2. BeginLocals(part).since = cleans
    BY DEF BeginLocals, Idle
  <2>3. LockFree
    BY <1>2 DEF BeginGrade
  <2>. QED
    BY <2>1, <2>2, <2>3 DEF GradesApart, LockFree
<1>3. ASSUME NEW g \in Graders, GraderStep(g) \/ CommandEnds(g) \/ Crash(g)
      PROVE  GradesApart'
  <2>1. CASE Moves(g)
    <3>1. PICK l : Becomes(g, l) /\ Follows(g, l)
      BY <2>1, MovesFollow
    <3>. QED
      BY <1>1, <3>1 DEF Becomes, Follows
  <2>2. CASE OpenReport(g)
    <3>. DEFINE l == [grader[g] EXCEPT !.pc = "write", !.opened = cleans]
    <3>1. grader' = [grader EXCEPT ![g] = l] /\ grader[g].pc = "report" /\ grader[g] \in Locals
      BY <2>2 DEF OpenReport
    <3>2. l.since = grader[g].since
      BY <3>1 DEF Locals
    <3>. QED
      BY <1>1, <3>1, <3>2
  <2>3. CASE FillReport(g) \/ Crash(g)
    <3>1. grader' = [grader EXCEPT ![g] = Idle] /\ Idle.pc = "idle"
      BY <2>3 DEF FillReport, Crash, Idle
    <3>. QED
      BY <1>1, <3>1
  <2>. QED
    BY <1>3, <2>1, <2>2, <2>3 DEF GraderStep, Moves
<1>4. CASE UNCHANGED grader
  BY <1>4 DEF GradesApart
<1>5. BeginSubmit \/ ReadPayload \/ MakePackage \/ (\E f \in Files : Edit(f)) \/ Clean
         \/ UNCHANGED vars => UNCHANGED grader
  BY DEF BeginSubmit, ReadPayload, MakePackage, Submits, Edit, Clean, vars
<1>. QED
  BY <1>2, <1>3, <1>4, <1>5 DEF Next

(* flock() on the lock file keeps two grades from running on one output    *)
(* directory, for any number of graders, killed ones among them: two run   *)
(* only when the directory was removed between their starts.               *)
THEOREM LockKeepsGradesApart == Spec => []GradesApart
<1>1. Init => GradesApart
  BY DEF Init, GradesApart, Idle
<1>. QED
  BY <1>1, TypedInit, NextTyped, ApartNext, PTL DEF Spec

(***************************************************************************)
(* The report and the package, as long as no earlier content comes back.   *)
(***************************************************************************)
DatedInv ==
    /\ TypedInv
    /\ FilesDated
    /\ \A g \in Graders : Sound(grader[g])
    /\ ReportIsAboutItsDigest

LEMMA DatedInit == Init => DatedInv
<1>. SUFFICES ASSUME Init PROVE DatedInv
  OBVIOUS
<1>1. TypedInv
  BY TypedInit
<1>2. FilesDated
  BY DEF Init, FilesDated
<1>3. AsOld(Blank)
  BY DEF AsOld, Blank
<1>4. Sound(Idle)
  BY <1>3 DEF Sound, InOrder, Idle
<1>5. Reports \subseteq [digest : [Files -> Int], tests : [Files -> Int], passed : SUBSET Parts,
                         complete : BOOLEAN]
  BY <1>1 DEF TypedInv, Bounded, Reports, Contents
<1>6. ReportIsAboutItsDigest
  BY <1>5, ReportAssumption DEF Init, ReportIsAboutItsDigest
<1>. QED
  BY <1>1, <1>2, <1>4, <1>6 DEF DatedInv, Init

(* NoReport and Truncated are not records of a grade.                      *)
LEMMA NotReports == TypedInv => NoReport \notin Reports /\ Truncated \notin Reports
<1>1. TypedInv => Contents \subseteq Int
  BY DEF TypedInv, Bounded, Contents
<1>2. TypedInv => Reports \subseteq [digest : [Files -> Int], tests : [Files -> Int],
                                     passed : SUBSET Parts, complete : BOOLEAN]
  BY <1>1 DEF Reports
<1>. QED
  BY <1>2, ReportAssumption

(* A step of a grade: the files stay, one grade has new locals.            *)
LEMMA GraderDated ==
  ASSUME DatedInv, TypedInv', NEW g \in Graders, NEW l, Sound(l),
         grader' = [grader EXCEPT ![g] = l],
         UNCHANGED <<limit, file, edits>>,
         \/ report' = report
         \/ report' \in {NoReport, Truncated}
         \/ report'.tests = report'.digest
  PROVE  DatedInv'
<1>1. FilesDated'
  BY DEF DatedInv, FilesDated
<1>2. \A h \in Graders : (Sound(grader[h]))'
  <2>1. \A h \in Graders : Sound(grader'[h])
    BY DEF DatedInv, TypedInv
  <2>. QED
    BY <2>1 DEF Sound, AsOld
<1>3. ReportIsAboutItsDigest'
  <2>1. Reports' = Reports
    BY DEF Reports, Contents
  <2>. QED
    BY <2>1, NotReports DEF DatedInv, ReportIsAboutItsDigest
<1>. QED
  BY <1>1, <1>2, <1>3 DEF DatedInv
LEMMA GraderKeepsDated ==
  ASSUME DatedInv, TypedInv', NEW g \in Graders,
         BeginGrade(g) \/ GraderStep(g) \/ CommandEnds(g) \/ Crash(g)
  PROVE  DatedInv'
<1>. USE DEF studentVars
<1>1. CASE BeginGrade(g)
  <2>1. PICK part \in Parts \cup {Whole} : grader' = [grader EXCEPT ![g] = BeginLocals(part)]
    BY <1>1 DEF BeginGrade, BeginLocals
  <2>2. UNCHANGED <<limit, file, edits, report>>
    BY <1>1 DEF BeginGrade
  <2>. QED
    BY <2>1, <2>2, BeginWell, GraderDated DEF DatedInv
<1>2. CASE Moves(g)
  <2>1. PICK l : Becomes(g, l) /\ Follows(g, l)
    BY <1>2, MovesFollow DEF DatedInv
  <2>2. Sound(l)
    BY <2>1 DEF DatedInv, Follows
  <2>. QED
    BY <2>1, <2>2, GraderDated DEF Becomes
<1>3. CASE OpenReport(g)
  <2>. DEFINE l == [grader[g] EXCEPT !.pc = "write", !.opened = cleans]
  <2>1. /\ grader' = [grader EXCEPT ![g] = l] /\ report' = Truncated /\ grader[g].pc = "report"
        /\ UNCHANGED <<limit, file, edits>>
    BY <1>3 DEF OpenReport, DatedInv, TypedInv, Locals
  <2>2. grader[g] \in Locals /\ Sound(grader[g])
    BY DEF DatedInv, TypedInv
  <2>3. Sound(l)
    BY <2>1, <2>2 DEF Sound, InOrder, Locals
  <2>. QED
    BY <2>1, <2>3, GraderDated
<1>4. CASE FillReport(g)
  <2>1. Result(g).tests = Result(g).digest
    BY <1>4 DEF FillReport, DatedInv, Sound, InOrder, Result
  <2>2. /\ grader' = [grader EXCEPT ![g] = Idle]
        /\ UNCHANGED <<limit, file, edits>>
        /\ report' = report \/ report' \in {Result(g), Truncated}
    BY <1>4 DEF FillReport
  <2>3. Sound(Idle)
    BY IdleFollows DEF DatedInv, Follows
  <2>. QED
    BY <2>1, <2>2, <2>3, GraderDated
<1>5. CASE Crash(g)
  <2>1. Sound(Idle)
    BY IdleFollows DEF DatedInv, Follows
  <2>. QED
    BY <1>5, <2>1, GraderDated DEF Crash
<1>. QED
  BY <1>1, <1>2, <1>3, <1>4, <1>5 DEF GraderStep, Moves

(* A new content has a higher number than all that was read.               *)
LEMMA EditKeepsDated ==
  ASSUME DatedInv, TypedInv', ~Reverts, NEW f \in Files, Edit(f)
  PROVE  DatedInv'
<1>1. PICK c \in {edits + 2, Missing} :
         /\ file' = [file EXCEPT ![f] = c] /\ edits' = edits + 1
         /\ UNCHANGED <<limit, report, grader>>
  BY DEF Edit
<1>2. edits \in Nat /\ file \in [Files -> Contents] /\ Contents \subseteq Int
  BY DEF DatedInv, TypedInv, Bounded, Contents
<1>3. FilesDated'
  <2>1. \A e \in Files : file'[e] = file[e] \/ file'[e] = c
    BY <1>1, <1>2
  <2>2. \A e \in Files : file[e] \in Int /\ file[e] <= edits + 1
    BY <1>2 DEF DatedInv, FilesDated
  <2>. QED
    BY <1>1, <1>2, <2>1, <2>2 DEF FilesDated, Missing
<1>4. ASSUME NEW read \in Reading, AsOld(read)
      PROVE  \A e \in Files : read[e] # Unread => /\ read[e] <= edits' + 1
                                                  /\ file'[e] = Missing \/ read[e] <= file'[e]
  <2>1. \A e \in Files : read[e] \in Int
    BY <1>4 DEF Reading, Contents, Unread, DatedInv, TypedInv, Bounded
  <2>. QED
    BY <1>1, <1>2, <1>4, <2>1 DEF AsOld
<1>5. \A g \in Graders : Sound(grader[g])'
  <2>. SUFFICES ASSUME NEW g \in Graders PROVE Sound(grader[g])'
    OBVIOUS
  <2>1. grader[g] \in Locals /\ Sound(grader[g])
    BY DEF DatedInv, TypedInv
  <2>. DEFINE me == grader[g]
  <2>2. me.read \in Reading /\ me.digest \in Reading /\ me.work \in Reading
    BY <2>1 DEF Locals
  <2>3. AsOld(me.read)' /\ AsOld(me.digest)' /\ AsOld(me.work)'
    BY <1>1, <1>4, <2>1, <2>2 DEF AsOld, Sound
  <2>. QED
    BY <1>1, <2>1, <2>3 DEF Sound, InOrder
<1>6. ReportIsAboutItsDigest'
  BY <1>1 DEF DatedInv, ReportIsAboutItsDigest, Reports, Contents
<1>. QED
  BY <1>3, <1>5, <1>6 DEF DatedInv

LEMMA NextDated == ~Reverts /\ DatedInv /\ [Next]_vars => DatedInv'
<1>. SUFFICES ASSUME ~Reverts, DatedInv, [Next]_vars PROVE DatedInv'
  OBVIOUS
<1>1. TypedInv'
  BY NextTyped DEF DatedInv
<1>2. CASE Clean
  <2>1. UNCHANGED <<limit, file, edits, grader>> /\ report' = NoReport
    BY <1>2 DEF Clean
  <2>2. ReportIsAboutItsDigest'
    BY <1>1, <2>1, NotReports DEF ReportIsAboutItsDigest, DatedInv, Reports, Contents
  <2>3. FilesDated' /\ \A g \in Graders : Sound(grader[g])'
    BY <2>1 DEF DatedInv, FilesDated, Sound, AsOld, InOrder
  <2>. QED
    BY <1>1, <2>2, <2>3 DEF DatedInv
<1>3. CASE BeginSubmit \/ ReadPayload \/ MakePackage \/ UNCHANGED vars
  <2>1. UNCHANGED <<limit, file, edits, grader, report>>
    BY <1>3 DEF BeginSubmit, ReadPayload, MakePackage, Submits, studentVars, vars
  <2>2. FilesDated' /\ \A g \in Graders : Sound(grader[g])'
    BY <2>1 DEF DatedInv, FilesDated, Sound, AsOld, InOrder
  <2>3. ReportIsAboutItsDigest'
    BY <2>1 DEF DatedInv, ReportIsAboutItsDigest, Reports, Contents
  <2>. QED
    BY <1>1, <2>2, <2>3 DEF DatedInv
<1>. QED
  BY <1>1, <1>2, <1>3, GraderKeepsDated, EditKeepsDated DEF Next

(* The two fingerprints around the copy and the tests tie a report to the  *)
(* code that was tested: although each of the three reads the files one by *)
(* one while the student edits, removes and cleans, and other grades run,  *)
(* a complete grade.json has the digest of what its tests ran on, where no *)
(* earlier content comes back between the two (the run lab_revert shows    *)
(* what happens where one does).                                           *)
THEOREM ReportsAreHonest == ~Reverts => (Spec => []ReportIsAboutItsDigest)
<1>. SUFFICES ASSUME ~Reverts PROVE Spec => []ReportIsAboutItsDigest
  OBVIOUS
<1>1. DatedInv /\ [Next]_vars => DatedInv'
  BY NextDated
<1>2. DatedInv => ReportIsAboutItsDigest
  BY DEF DatedInv
<1>. QED
  BY DatedInit, <1>1, <1>2, PTL DEF Spec

LEMMA PackageNext ==
  DatedInv /\ PackageCarriesItsGrade /\ [Next]_vars => PackageCarriesItsGrade'
<1>. SUFFICES ASSUME DatedInv, PackageCarriesItsGrade, [Next]_vars
              PROVE  PackageCarriesItsGrade'
  OBVIOUS
<1>1. CASE UNCHANGED package
  BY <1>1 DEF PackageCarriesItsGrade
<1>2. CASE MakePackage
  <2>. DEFINE current == report \in Reports /\ report.digest = submitter.read
              built == [files |-> submitter.read, current |-> current,
                        grade |-> IF current THEN report ELSE NoReport]
  <2>1. package' = package \/ package' = built
    BY <1>2 DEF MakePackage, PayloadDigest
  <2>2. CASE current
    <3>1. built.files = submitter.read /\ built.grade = report
      BY <2>2
    <3>2. report.digest = submitter.read /\ report.tests = submitter.read
      BY <2>2 DEF DatedInv, ReportIsAboutItsDigest
    <3>. HIDE DEF built
    <3>. QED
      BY <1>1, <2>1, <3>1, <3>2 DEF PackageCarriesItsGrade
  <2>3. CASE ~current
    <3>1. built.current = FALSE
      BY <2>3
    <3>. HIDE DEF built
    <3>. QED
      BY <1>1, <2>1, <3>1 DEF PackageCarriesItsGrade
  <2>. QED
    BY <2>2, <2>3
<1>3. ~MakePackage => UNCHANGED package
  BY DEF Next, BeginGrade, GraderStep, Fingerprint, Digest, Copy, StartPart, CommandTimesOut,
     FinishPart, PartsDone, Compare, OpenReport, NoPlaceForReport, FillReport, CommandEnds,
     Crash, BeginSubmit, ReadPayload, Edit, Clean, Becomes, Leave, vars
<1>. QED
  BY <1>1, <1>2, <1>3

(* submit looks at grade.json once and at the files one by one, without    *)
(* the lock; a grade it calls current is still that of the files in the    *)
(* package.                                                                *)
THEOREM PackagesAreHonest == ~Reverts => (Spec => []PackageCarriesItsGrade)
<1>. SUFFICES ASSUME ~Reverts PROVE Spec => []PackageCarriesItsGrade
  OBVIOUS
<1>1. Init => PackageCarriesItsGrade
  BY DEF Init, PackageCarriesItsGrade
<1>2. DatedInv /\ [Next]_vars => DatedInv'
  BY NextDated
<1>. QED
  BY DatedInit, <1>1, <1>2, PackageNext, PTL DEF Spec
================================================================================
