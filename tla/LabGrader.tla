-------------------------------- MODULE LabGrader --------------------------------
(***************************************************************************)
(* grade and submit of tools/lab.py on one workspace, beside a student who *)
(* goes on editing, a second grade, a crash and a cargo clean.  A lock     *)
(* file in the output directory keeps two grades apart, submit takes no    *)
(* lock; what ties a report to the code it is about is a digest taken      *)
(* before and after the tests.                                             *)
(***************************************************************************)
EXTENDS Integers

CONSTANTS
    Graders,      \* processes that run grade, one grade after the other
    NFiles,       \* the editable files are 1..NFiles, read in this order
    Parts,        \* the parts of the lab
    Whole,        \* no --part given
    NoReport, Truncated, NoPackage,
    Reverts,      \* the student may bring back an earlier content
    Limits        \* bounds of the model: who grades, how often the rest happens

ASSUME LabAssumption ==
    /\ NFiles \in Nat \ {0}
    /\ Whole \notin Parts
    /\ Reverts \in BOOLEAN
    /\ Limits \subseteq [graders : SUBSET Graders, edits : Nat, cleans : Nat,
                          crashes : Nat, submits : Nat]

Files == 1..NFiles

(* No report and half a report are not taken for a report.                 *)
ASSUME ReportAssumption ==
    {NoReport, Truncated} \cap
        [digest : [Files -> Int], tests : [Files -> Int], passed : SUBSET Parts,
         complete : BOOLEAN] = {}

VARIABLES
    limit,                      \* the bounds of this behaviour
    file,                       \* the student's files
    edits, cleans, crashes,     \* how often each has happened
    outputs,                    \* target/lab-grades exists
    report,                     \* grade.json
    grader,                     \* the running grades, each with its locals
    submitter, package          \* the running submit, the last package

vars == <<limit, file, edits, cleans, crashes, outputs, report, grader, submitter, package>>

studentVars == <<limit, file, edits, cleans, crashes>>

(* A file is missing (or not a regular one) or has a content; contents are *)
(* numbered in the order in which the student first writes them.           *)
Missing == 0
Contents == 0..(limit.edits + 1)
Unread == -1
Reading == [Files -> Contents \cup {Unread}]

Blank == [f \in Files |-> Unread]

(***************************************************************************)
(* The locals of grade_locked(): the files read so far, the digest, the    *)
(* copy the tests run on, the parts to run and those passed.  since and    *)
(* opened tell the lock file and the grade.json this grade has open from   *)
(* those made after a clean.                                               *)
(***************************************************************************)
Idle == [pc |-> "idle", part |-> Whole, since |-> 0, opened |-> 0, read |-> Blank,
         digest |-> Blank, work |-> Blank, todo |-> {}, passed |-> {}]

(* A digest stands for the contents it was computed from, one file after   *)
(* the other: SHA-256 does not collide.  tests, the code that was tested,  *)
(* is not in the real report.                                              *)
Reports == [digest : [Files -> Contents], tests : [Files -> Contents],
            passed : SUBSET Parts, complete : BOOLEAN]

Resting(n) == [pc |-> "idle", count |-> n, read |-> Blank]

(* read_student() of the next file; a missing one ends the operation.      *)
AllRead(read) == \A f \in Files : read[f] # Unread
NextFile(read) ==
    CHOOSE f \in Files : read[f] = Unread /\ \A e \in 1..(f - 1) : read[e] # Unread
Readable(read) == file[NextFile(read)] # Missing
ReadNext(read) == [read EXCEPT ![NextFile(read)] = file[NextFile(read)]]

(***************************************************************************)
(* grade().                                                                *)
(***************************************************************************)
Selected(part) == IF part = Whole THEN Parts ELSE {part}

(* Mutant: nobody looks at the lock.                                       *)
NoLock == TRUE

(* flock() locks the file that was opened: after a clean there is another. *)
LockFree == \A h \in Graders : grader[h].pc = "idle" \/ grader[h].since # cleans

(* output_dir() makes the directory and open() the lock file; a lock that  *)
(* is taken is an error at once (LOCK_NB), with nothing changed.           *)
BeginGrade(g) ==
    /\ g \in limit.graders /\ grader[g].pc = "idle" /\ LockFree
    /\ \E part \in Parts \cup {Whole} :
          grader' = [grader EXCEPT ![g] =
                       [Idle EXCEPT !.pc = "fingerprint", !.part = part, !.since = cleans,
                                    !.todo = Selected(part)]]
    /\ outputs' = TRUE
    /\ UNCHANGED <<studentVars, report, submitter, package>>

Becomes(g, locals) ==
    /\ grader' = [grader EXCEPT ![g] = locals]
    /\ UNCHANGED <<studentVars, outputs, report, submitter, package>>

(* An error, or the end: temporary directory and lock go.                  *)
Leave(g) == Becomes(g, Idle)

(* fingerprint(), before the copy and after the tests.                     *)
Fingerprint(g) ==
    /\ grader[g].pc \in {"fingerprint", "recheck"} /\ ~AllRead(grader[g].read)
    /\ IF Readable(grader[g].read)
       THEN Becomes(g, [grader[g] EXCEPT !.read = ReadNext(@)])
       ELSE Leave(g)

Digest(g) ==
    /\ grader[g].pc = "fingerprint" /\ AllRead(grader[g].read)
    /\ Becomes(g, [grader[g] EXCEPT !.pc = "copy", !.digest = grader[g].read,
                                    !.read = Blank])

Copy(g) ==
    /\ grader[g].pc = "copy" /\ ~AllRead(grader[g].work)
    /\ IF Readable(grader[g].work)
       THEN Becomes(g, [grader[g] EXCEPT !.work = ReadNext(@)])
       ELSE Leave(g)

(* Each part opens its log in the output directory, the first one after    *)
(* the build cache has been made there.                                    *)
StartPart(g) ==
    /\ \/ grader[g].pc = "copy" /\ AllRead(grader[g].work)
       \/ grader[g].pc = "parts" /\ grader[g].todo # {}
    /\ IF outputs THEN Becomes(g, [grader[g] EXCEPT !.pc = "command"]) ELSE Leave(g)

FinishPart(g, passes) ==
    \E p \in grader[g].todo :
       Becomes(g, [grader[g] EXCEPT !.pc = "parts", !.todo = @ \ {p},
                                    !.passed = IF passes THEN @ \cup {p} ELSE @])

(* The command passes or fails, if it ends.                                *)
CommandEnds(g) == grader[g].pc = "command" /\ \E passes \in BOOLEAN : FinishPart(g, passes)

(* Mutant: wait() without a timeout.                                       *)
Patient(g) == FALSE

Expires(g) == grader[g].pc = "command"

CommandTimesOut(g) == Expires(g) /\ FinishPart(g, FALSE)

PartsDone(g) ==
    /\ grader[g].pc = "parts" /\ grader[g].todo = {}
    /\ Becomes(g, [grader[g] EXCEPT !.pc = "recheck"])

(* Mutant: the second fingerprint is not compared.                         *)
Trusted(g) == TRUE

Unmodified(g) == grader[g].read = grader[g].digest

(* A report for one part has a file of its own, which submit does not read.*)
Compare(g) ==
    /\ grader[g].pc = "recheck" /\ AllRead(grader[g].read)
    /\ IF Unmodified(g) /\ grader[g].part = Whole
       THEN Becomes(g, [grader[g] EXCEPT !.pc = "report"])
       ELSE Leave(g)

(* write_text() of grade.json: the file is emptied, then filled.           *)
OpenReport(g) ==
    /\ grader[g].pc = "report" /\ outputs
    /\ report' = Truncated
    /\ grader' = [grader EXCEPT ![g].pc = "write", ![g].opened = cleans]
    /\ UNCHANGED <<studentVars, outputs, submitter, package>>

NoPlaceForReport(g) == grader[g].pc = "report" /\ ~outputs /\ Leave(g)

Result(g) == [digest |-> grader[g].digest, tests |-> grader[g].work,
              passed |-> grader[g].passed, complete |-> grader[g].passed = Parts]

(* A file removed since it was opened takes the text with it.  Two grades  *)
(* that have the same file open leave the last text or a mixture.          *)
FillReport(g) ==
    /\ grader[g].pc = "write"
    /\ CASE grader[g].opened # cleans -> UNCHANGED report
         [] report = Truncated -> report' = Result(g)
         [] OTHER -> report' \in {Result(g), Truncated}
    /\ grader' = [grader EXCEPT ![g] = Idle]
    /\ UNCHANGED <<studentVars, outputs, submitter, package>>

(***************************************************************************)
(* submit().                                                               *)
(***************************************************************************)
Submits(locals) ==
    /\ submitter' = locals
    /\ UNCHANGED <<studentVars, report, grader>>

BeginSubmit ==
    /\ submitter.pc = "idle" /\ submitter.count < limit.submits
    /\ Submits([submitter EXCEPT !.pc = "payload", !.count = @ + 1])
    /\ outputs' = TRUE
    /\ UNCHANGED package

ReadPayload ==
    /\ submitter.pc = "payload" /\ ~AllRead(submitter.read)
    /\ Submits(IF Readable(submitter.read) THEN [submitter EXCEPT !.read = ReadNext(@)]
                                           ELSE Resting(submitter.count))
    /\ UNCHANGED <<outputs, package>>

(* Mutant: the digest is that of the files as they are now.                *)
DiskDigest == file

PayloadDigest == submitter.read

(* No report, a report for other code or one for this code go into the     *)
(* package; half a report is a JSON error, and a directory that has gone   *)
(* again an OSError.                                                       *)
MakePackage ==
    /\ submitter.pc = "payload" /\ AllRead(submitter.read)
    /\ LET current == report \in Reports /\ report.digest = PayloadDigest
       IN package' = IF report = Truncated \/ ~outputs THEN package
                     ELSE [files |-> submitter.read, current |-> current,
                           grade |-> IF current THEN report ELSE NoReport]
    /\ Submits(Resting(submitter.count))
    /\ UNCHANGED outputs

(***************************************************************************)
(* The student, and what goes wrong.                                       *)
(***************************************************************************)
(* A new content, no file, or, with Reverts, a content written before.     *)
Edit(f) ==
    /\ edits < limit.edits
    /\ edits' = edits + 1
    /\ \E c \in {edits + 2, Missing} \cup (IF Reverts THEN 1..(edits + 1) ELSE {}) :
          c # file[f] /\ file' = [file EXCEPT ![f] = c]
    /\ UNCHANGED <<limit, cleans, crashes, outputs, report, grader, submitter, package>>

(* cargo clean removes target/ with reports, logs, cache and lock file.    *)
Clean ==
    /\ outputs /\ cleans < limit.cleans
    /\ cleans' = cleans + 1
    /\ outputs' = FALSE /\ report' = NoReport
    /\ UNCHANGED <<limit, file, edits, crashes, grader, submitter, package>>

(* A grade is killed: the system closes its files, the lock with them.     *)
Crash(g) ==
    /\ grader[g].pc # "idle" /\ crashes < limit.crashes
    /\ crashes' = crashes + 1
    /\ grader' = [grader EXCEPT ![g] = Idle]
    /\ UNCHANGED <<limit, file, edits, cleans, outputs, report, submitter, package>>

Init ==
    /\ limit \in Limits
    /\ file = [f \in Files |-> 1]
    /\ edits = 0 /\ cleans = 0 /\ crashes = 0
    /\ outputs = FALSE /\ report = NoReport
    /\ grader = [g \in Graders |-> Idle]
    /\ submitter = Resting(0) /\ package = NoPackage

GraderStep(g) ==
    \/ Fingerprint(g) \/ Digest(g) \/ Copy(g) \/ StartPart(g) \/ CommandTimesOut(g)
    \/ PartsDone(g) \/ Compare(g) \/ OpenReport(g) \/ NoPlaceForReport(g) \/ FillReport(g)

Next ==
    \/ \E g \in Graders : BeginGrade(g) \/ GraderStep(g) \/ CommandEnds(g) \/ Crash(g)
    \/ BeginSubmit \/ ReadPayload \/ MakePackage
    \/ \E f \in Files : Edit(f)
    \/ Clean

Spec == Init /\ [][Next]_vars

(* A running grade goes on; its commands need not end, but time passes.    *)
FairSpec == Spec /\ \A g \in Graders : WF_vars(GraderStep(g))

(***************************************************************************)
(* Properties.                                                             *)
(***************************************************************************)
(* Everything the processes hold is what they may hold.                    *)
TypeOK ==
    /\ file \in [Files -> Contents]
    /\ report \in Reports \cup {NoReport, Truncated}
    /\ grader \in [Graders ->
          [pc : {"idle", "fingerprint", "copy", "parts", "command", "recheck", "report",
                 "write"},
           part : Parts \cup {Whole}, since : 0..cleans, opened : 0..cleans,
           read : Reading, digest : Reading, work : Reading,
           todo : SUBSET Parts, passed : SUBSET Parts]]
    /\ submitter \in [pc : {"idle", "payload"}, count : 0..limit.submits, read : Reading]

(* A grade in grade.json is about the code its digest names: all its parts *)
(* ran on those contents, although the digest, the copy and the second     *)
(* digest read the files one by one while the student edits them.          *)
ReportIsAboutItsDigest == report \in Reports => report.tests = report.digest

(* The record submit calls current is one of the code in the same package, *)
(* earned by it, whatever is edited or graded while the package is made.   *)
PackageCarriesItsGrade ==
    package # NoPackage /\ package.current =>
        /\ package.grade.digest = package.files
        /\ package.grade.tests = package.files

(* Two grades run at once, on one build cache and one set of logs, only if *)
(* the output directory was removed under the first.                       *)
GradesApart ==
    \A g, h \in Graders :
       g # h /\ grader[g].pc # "idle" /\ grader[h].pc # "idle" =>
          grader[g].since # grader[h].since

(* Every grade ends, by itself, by an error or by the time limit of its    *)
(* commands, and lets go of the lock.                                      *)
GradingEnds == \A g \in Graders : grader[g].pc # "idle" ~> grader[g].pc = "idle"
================================================================================
