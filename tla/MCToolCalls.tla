---------------------------- MODULE MCToolCalls ----------------------------
(* Drafts for model checking ToolCalls, of the actions the planner writes. *)
EXTENDS ToolCalls

MCPlans == {<<"arrive", "book_ticket">>, <<"arrive", "book_table", "book_ticket">>}
=============================================================================
