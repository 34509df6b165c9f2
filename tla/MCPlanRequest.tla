--------------------------- MODULE MCPlanRequest ---------------------------
(* Model values and symmetry for the plan request. *)
EXTENDS PlanRequest, TLC

Symmetry == Permutations(Tasks)
=============================================================================
