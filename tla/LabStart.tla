-------------------------------- MODULE LabStart --------------------------------
(***************************************************************************)
(* start() of tools/lab.py: several runs of it, and the student, on one    *)
(* destination directory.  Each run looks whether it exists, then builds a *)
(* workspace in a temporary directory beside it, which takes a while, and  *)
(* renames that directory.                                                 *)
(***************************************************************************)
EXTENDS Integers

CONSTANTS
    Starters,     \* processes that run start
    Stages,       \* steps of the build: snapshot, skeleton, papers, git commit
    MaxWork       \* bound of the model: how often the student does something there

(* Assumed by the module that instantiates this one.                       *)
StartAssumption ==
    /\ Stages \in Nat \ {0} /\ MaxWork \in Nat
    /\ "student" \notin Starters /\ "nobody" \notin Starters

VARIABLES
    dest,         \* the destination: who made it, what it holds
    temp,         \* the stages done in each temporary directory, 0 if none
    pc            \* where each start is

vars == <<dest, temp, pc>>

(* A directory of a starter holds the stages built, one of the student's   *)
(* none; work counts what the student has put into it.                     *)
Student == "student"
Absent == [owner |-> "nobody", built |-> 0, work |-> 0]
Dir(owner, built) == [owner |-> owner, built |-> built, work |-> 0]

IsEmptyDir(d) == d.built = 0 /\ d.work = 0 /\ d # Absent

Exists == dest # Absent

(* "Refuse to overwrite", before anything is built.                        *)
Check(s) ==
    /\ pc[s] = "idle"
    /\ pc' = [pc EXCEPT ![s] = IF Exists THEN "refused" ELSE "build"]
    /\ UNCHANGED <<dest, temp>>

Build(s) ==
    /\ pc[s] = "build" /\ temp[s] < Stages
    /\ temp' = [temp EXCEPT ![s] = @ + 1]
    /\ UNCHANGED <<dest, pc>>

(* Mutants: the temporary directory is moved over whatever is there; it is *)
(* renamed before the build is complete.                                   *)
Overwrites(d) == TRUE
OneStageEarly(s) == temp[s] >= Stages - 1

(* rename(2) takes the place of nothing or of an empty directory.          *)
CanReplace(d) == d = Absent \/ IsEmptyDir(d)

Built(s) == temp[s] = Stages

(* The rest of the temporary directory is removed in either case.          *)
Rename(s) ==
    /\ pc[s] = "build" /\ Built(s)
    /\ IF CanReplace(dest)
       THEN dest' = Dir(s, temp[s]) /\ pc' = [pc EXCEPT ![s] = "created"]
       ELSE pc' = [pc EXCEPT ![s] = "refused"] /\ UNCHANGED dest
    /\ temp' = [temp EXCEPT ![s] = 0]

(* A step of the build may fail, and the process may be killed, with its   *)
(* temporary directory left behind.                                        *)
Fails(s) ==
    /\ pc[s] = "build"
    /\ pc' = [pc EXCEPT ![s] = "refused"]
    /\ temp' \in {temp, [temp EXCEPT ![s] = 0]}
    /\ UNCHANGED dest

(* The student makes the directory, or works in it.                        *)
MakeDir == dest = Absent /\ dest' = Dir(Student, 0) /\ UNCHANGED <<temp, pc>>

Work ==
    /\ Exists /\ dest.work < MaxWork
    /\ dest' = [dest EXCEPT !.work = @ + 1]
    /\ UNCHANGED <<temp, pc>>

Again(s) ==
    /\ pc[s] \in {"refused", "created"}
    /\ pc' = [pc EXCEPT ![s] = "idle"] /\ temp' = [temp EXCEPT ![s] = 0]
    /\ UNCHANGED dest

Init ==
    /\ dest = Absent
    /\ temp = [s \in Starters |-> 0]
    /\ pc = [s \in Starters |-> "idle"]

Next ==
    \/ \E s \in Starters : Check(s) \/ Build(s) \/ Rename(s) \/ Fails(s) \/ Again(s)
    \/ MakeDir \/ Work

Spec == Init /\ [][Next]_vars

(***************************************************************************)
(* Properties.                                                             *)
(***************************************************************************)
(* What a start puts in place is a whole workspace, its commit included,   *)
(* also when the run is killed or two of them race.  Whatever is there     *)
(* stays: neither a second start that looked before the first one finished *)
(* nor one that raced with the student's own mkdir replaces files.         *)
WorkIsKept ==
    [][/\ dest'.owner \in Starters => dest'.built = Stages
       /\ dest.built + dest.work > 0 =>
             /\ dest'.owner = dest.owner /\ dest'.built = dest.built
             /\ dest'.work >= dest.work]_vars
================================================================================
