-------------------------- MODULE MCExecutionEngine --------------------------
(* Constants for model checking ExecutionEngine. *)
EXTENDS ExecutionEngine, TLC

CONSTANTS r1, r2, w1, w2, s1, s2, s3

\* Two sessions of one user and one of another.
MCUserOf == [s \in Session |-> IF s = s3 THEN "u2" ELSE "u1"]

\* Runs are alike, and so are workers, and the two sessions of one user.
MCSymmetry == Permutations(Run) \cup Permutations(Worker) \cup Permutations({s1, s2})

Step(action, poi) == [action |-> action, poi |-> poi]

\* One POI booked twice, in calls of one layer: a run contends with itself and with the
\* other run.
Twice == <<Step("book_table", "p1"), Step("book_ticket", "p1")>>
MCTwice == {Twice}

\* Beside it a visit without booking, whose search can make execute() raise.
MCPlans == {Twice, <<Step("arrive", "p3"), Step("book_table", "p1")>>}

=============================================================================
