--------------------------- MODULE MC_PlanExecution ---------------------------
(* Small instances of PlanExecution for TLC.                               *)
EXTENDS PlanExecution
=============================================================================
