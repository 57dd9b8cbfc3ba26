---------------------------- MODULE MCPlanImport ----------------------------
(***************************************************************************)
(* PlanApply and Import: a behaviour is one of either, and the state of    *)
(* the other rests.  Both write notes into a vault, an import without      *)
(* asking git and only into a folder of its own.                           *)
(***************************************************************************)
EXTENDS MCPlanApply, MCImport

VARIABLE part   \* which of the two moves

PlanImportInit ==
    /\ Init /\ ImportInit
    /\ \/ part = "plan" /\ notes = NoNotes /\ source[2] = NoFile
       \/ /\ part = "import" /\ (notes[n1] # NoFile \/ source[2] # NoFile)
          /\ git = CHOOSE g \in GitAtStart : TRUE
          /\ \A f \in Files : files[f] = ABSENT /\ staged[f] = ABSENT

PlanImportNext ==
    /\ UNCHANGED part
    /\ \/ part = "plan" /\ Next /\ UNCHANGED importVars
       \/ part = "import" /\ ImportNext /\ CopyFirst /\ UNCHANGED vars

PlanImportSpec == PlanImportInit /\ [][PlanImportNext]_<<part, vars, importVars>>

PlanExplored == part = "plan" => Explored
=============================================================================
