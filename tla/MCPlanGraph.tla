---------------------------- MODULE MCPlanGraph ----------------------------
(* A catalogue of three POIs, two of one kind, for TLC. *)
EXTENDS PlanGraph

MCKind == [p \in 1 .. 3 |-> IF p = 3 THEN "attraction" ELSE "restaurant"]
=============================================================================
