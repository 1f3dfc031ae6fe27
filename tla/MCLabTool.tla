-------------------------------- MODULE MCLabTool --------------------------------
(***************************************************************************)
(* The other two parts of tools/lab.py, each in behaviours of its own: the *)
(* end of a command (LabExecute), and the starts of a workspace (LabStart).*)
(***************************************************************************)
EXTENDS LabExecute

CONSTANTS Starters, Stages, MaxWork

VARIABLES scene, dest, temp, step

Starting == INSTANCE LabStart WITH pc <- step

ASSUME StartAssumption == Starting!StartAssumption

startVars == <<dest, temp, step>>

ToolInit == scene \in {"execute", "start"} /\ Init /\ Starting!Init

ExecuteStep == scene = "execute" /\ Next /\ UNCHANGED <<scene, startVars>>

StartStep == scene = "start" /\ Starting!Next /\ UNCHANGED <<scene, vars>>

ToolNext == ExecuteStep \/ StartStep

(* LabExecute's fairness; a start may be interrupted for ever.             *)
ToolSpec ==
    /\ ToolInit /\ [][ToolNext]_<<scene, startVars, vars>>
    /\ scene = "execute" => Fairness

(***************************************************************************)
(* Properties.                                                             *)
(***************************************************************************)
(* execute() returns, with the leader reaped, from whatever command.       *)
CommandReturns == scene = "execute" => ExecuteReturns

(* LabStart's: a workspace put in place is whole, with its commit, and no  *)
(* start replaces files, neither another start's nor the student's.        *)
WorkIsKept == Starting!WorkIsKept
================================================================================
