----------------------------- MODULE MCPlanPool -----------------------------
(* Small instances of the plan pool.                                       *)
EXTENDS PlanPool
=============================================================================
