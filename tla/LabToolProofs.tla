------------------------------ MODULE LabToolProofs ------------------------------
(***************************************************************************)
(* What tools/lab.py says of a command, and what it does to a directory,   *)
(* for any number of processes of a command and any number of starts.      *)
(***************************************************************************)
EXTENDS MCLabTool, Integers, TLAPS

-----------------------------------------------------------------------------
(***************************************************************************)
(* execute(): what it returns is settled when its first wait ends, by a    *)
(* leader that was dead by then or by the time limit.                      *)
(***************************************************************************)
Judged ==
    \/ verdict = Timeout
    \/ /\ proc[Leader] = "dead" /\ ended = "wait"
       /\ verdict = (IF code = 0 THEN "pass" ELSE "fail")

Settled ==
    /\ proc \in [Members -> {"new", "alive", "dying", "dead"}]
    /\ pc \in {"start", "wait", "term", "reap", "killed", "done"}
    /\ pc = "start" => proc[Leader] = "new"
    /\ pc = "wait" /\ proc[Leader] = "dead" => ended = "wait"
    /\ pc \notin {"start", "wait"} => Judged

LEMMA SettledInductive == Settled /\ [Next]_vars => Settled'
<1> SUFFICES ASSUME Settled, [Next]_vars PROVE Settled'
  OBVIOUS
<1> Leader \in Members /\ \A c \in Children : c \in Members /\ c # Leader
  BY ExecuteAssumption DEF Members
<1> USE DEF Settled, Judged
<1>1. CASE Start
  BY <1>1 DEF Start
<1>2. CASE WaitEnds
  BY <1>2 DEF WaitEnds
<1>3. CASE WaitTimesOut
  BY <1>3 DEF WaitTimesOut, Timeout
<1>4. CASE SendTerm
  BY <1>4 DEF SendTerm, Terminate, Alive
<1>5. CASE LeaderGone
  BY <1>5 DEF LeaderGone, FinalVerdict
<1>6. CASE SendKill
  BY <1>6 DEF SendKill, LosesPatience, Kill, Alive
<1>7. ASSUME NEW c \in Children, Spawn(c) PROVE Settled'
  BY <1>7 DEF Spawn
<1>8. ASSUME NEW m \in Members, Exit(m) PROVE Settled'
  BY <1>8 DEF Exit, Alive
<1>9. CASE Return \/ UNCHANGED vars
  BY <1>9 DEF Return, vars
<1> QED
  BY <1>1, <1>2, <1>3, <1>4, <1>5, <1>6, <1>7, <1>8, <1>9 DEF Next, Execute

(* The verdict is TIMEOUT or that of a leader which ended before any       *)
(* signal: no code it exits with later is taken for a success, whatever    *)
(* the leader and its children do about SIGTERM.                           *)
THEOREM VerdictIsSettledInTime == ToolSpec => []VerdictInTime
<1>1. ToolInit => Settled
  BY DEF ToolInit, Init, Settled, Members
<1>2. Settled /\ [ToolNext]_<<scene, startVars, vars>> => Settled'
  <2>1. [ToolNext]_<<scene, startVars, vars>> => [Next]_vars
    BY DEF ToolNext, ExecuteStep, StartStep
  <2> QED BY <2>1, SettledInductive
<1>3. Settled => VerdictInTime
  BY DEF Settled, Judged, VerdictInTime
<1> QED BY <1>1, <1>2, <1>3, PTL DEF ToolSpec

-----------------------------------------------------------------------------
(***************************************************************************)
(* start(): a destination that belongs to a start is a whole workspace.    *)
(***************************************************************************)
Whole ==
    /\ dest \in [owner : Starters \cup {"student", "nobody"}, built : Nat, work : Nat]
    /\ temp \in [Starters -> Nat]
    /\ dest.owner \in Starters => dest.built = Stages

(* A step keeps what is whole, and what is not empty.                      *)
Keeps ==
    /\ dest'.owner \in Starters => dest'.built = Stages
    /\ dest.built + dest.work > 0 =>
          /\ dest'.owner = dest.owner /\ dest'.built = dest.built
          /\ dest'.work >= dest.work

LEMMA WholeInductive ==
    Whole /\ [Starting!Next]_startVars => Whole' /\ (Keeps \/ UNCHANGED startVars)
<1> SUFFICES ASSUME Whole, [Starting!Next]_startVars
    PROVE  Whole' /\ (Keeps \/ UNCHANGED startVars)
  OBVIOUS
<1> /\ Stages \in Nat \ {0} /\ MaxWork \in Nat
    /\ "student" \notin Starters /\ "nobody" \notin Starters
  BY StartAssumption DEF Starting!StartAssumption
<1> USE DEF Whole, Keeps
<1>1. ASSUME NEW s \in Starters,
             Starting!Check(s) \/ Starting!Build(s) \/ Starting!Fails(s) \/ Starting!Again(s)
      PROVE  Whole' /\ Keeps
  BY <1>1 DEF Starting!Check, Starting!Build, Starting!Fails, Starting!Again
<1>2. ASSUME NEW s \in Starters, Starting!Rename(s) PROVE Whole' /\ Keeps
  <2>1. CASE Starting!CanReplace(dest)
    <3>1. /\ dest' = [owner |-> s, built |-> Stages, work |-> 0]
          /\ temp' = [temp EXCEPT ![s] = 0]
      BY <1>2, <2>1 DEF Starting!Rename, Starting!Dir, Starting!Built
    <3>2. dest.built + dest.work = 0
      BY <2>1 DEF Starting!CanReplace, Starting!IsEmptyDir, Starting!Absent
    <3> QED BY <3>1, <3>2
  <2>2. CASE ~Starting!CanReplace(dest)
    BY <1>2, <2>2 DEF Starting!Rename
  <2> QED BY <2>1, <2>2
<1>3. CASE Starting!MakeDir
  BY <1>3 DEF Starting!MakeDir, Starting!Dir, Starting!Absent, Starting!Student
<1>4. CASE Starting!Work
  BY <1>4 DEF Starting!Work, Starting!Exists, Starting!Absent
<1>5. CASE UNCHANGED startVars
  BY <1>5 DEF startVars
<1> QED BY <1>1, <1>2, <1>3, <1>4, <1>5 DEF Starting!Next

(* Whatever starts race, fail or are killed: what one of them puts in      *)
(* place is a whole workspace, and no directory with anything in it is     *)
(* ever replaced.                                                          *)
THEOREM NoWorkIsLost == ToolSpec => WorkIsKept
<1>1. ToolInit => Whole
  BY StartAssumption
  DEF ToolInit, Starting!Init, Starting!Absent, Starting!StartAssumption, Whole
<1>2. [ToolNext]_<<scene, startVars, vars>> => [Starting!Next]_startVars
  BY DEF ToolNext, ExecuteStep, StartStep
<1>3. Whole /\ [ToolNext]_<<scene, startVars, vars>> => Whole'
  BY <1>2, WholeInductive
<1>4. Whole /\ [ToolNext]_<<scene, startVars, vars>> => [Keeps]_<<dest, temp, step>>
  BY <1>2, WholeInductive DEF startVars
<1>5. ToolSpec => [][Keeps]_<<dest, temp, step>>
  BY <1>1, <1>3, <1>4, PTL DEF ToolSpec
<1> QED BY <1>5 DEF WorkIsKept, Starting!WorkIsKept, Keeps, Starting!vars
================================================================================
