---------------------------- MODULE MCPlanService ----------------------------
(* Constants for model checking PlanService. *)
EXTENDS PlanService, TLC

CONSTANTS w1

=============================================================================
