-------------------------------- MODULE Tools --------------------------------
(***************************************************************************)
(* TOOL_REGISTRY of agent/schemas/tool.py, as far as the execution engine  *)
(* reads it, for the tools that book.  The planner writes the actions      *)
(* "arrive", "book_table" and "book_ticket" and the others keep what they  *)
(* find: "order", the one tool with a dependency that a draft can call, is *)
(* in the registry and in no draft.                                        *)
(***************************************************************************)
EXTENDS Integers

\* _execute_dag takes search_poi for an action the registry does not know.
ToolOf(action) == IF action \in {"book_table", "book_ticket", "order"} THEN action ELSE "search_poi"

LayerOf(tool) == IF tool = "search_poi" THEN 0 ELSE 2

DependenciesOf(tool) ==
    CASE tool = "search_poi" -> {}
      [] tool = "book_table" -> {"check_queue", "check_availability"}
      [] tool = "book_ticket" -> {"check_availability"}
      [] tool = "order" -> {"search_poi"}

PhysicalTool(tool) == tool # "search_poi"

\* default_timeout_ms, in units of half a second.
TimeoutOf(tool) == IF tool \in {"search_poi", "order"} THEN 3 ELSE 4

NoLayer == -1
LastLayer == 2

\* Mutant: layers counted one by one.
LayerAfterByOne(l) == l + 1

\* sorted(layers.keys())
LayerAfter(l) == IF l = NoLayer THEN 0 ELSE LastLayer
=============================================================================
