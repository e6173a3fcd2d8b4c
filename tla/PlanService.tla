---------------------------- MODULE PlanService ----------------------------
(***************************************************************************)
(* One plan as the API and the Celery workers handle it: POST /create and  *)
(* /confirm of api/v1/plan.py, the tasks of tasks/plan_tasks.py, the       *)
(* AgentService with its checkpointer, and the plan's row in plan_runs.    *)
(* The graph is as coarse as the service sees it: it plans, asks, executes *)
(* after a "confirmed" and asks again after a repair (see PlanGraph).      *)
(*                                                                         *)
(* External: Celery with acks_late and reject_on_worker_lost (a task of a  *)
(* dead worker is queued again), and LangGraph (a dict as input starts the *)
(* thread afresh, a resume goes on from the thread's last checkpoint).     *)
(***************************************************************************)
EXTENDS Integers, FiniteSets

CONSTANTS
    Worker,      \* worker processes
    MaxConfirms, \* bound: confirmations posted
    MaxFaults,   \* bound: workers that die and tasks that run into the time limit
    MaxEvents    \* bound: the two together

ASSUME ConfirmsAssumption == MaxConfirms \in Nat
ASSUME FaultsAssumption == MaxFaults \in Nat
ASSUME EventsAssumption == MaxEvents \in Nat

Gateway == "gateway"
NoWorker == "none"
ASSUME WorkerAssumption == Gateway \notin Worker /\ NoWorker \notin Worker

\* Task 0 is plan.submit, the others are the plan.confirm of each answer.
Submit == 0
Task == 0 .. MaxConfirms
Confirms == Task \ {Submit}

VARIABLES
    shared,      \* whether all processes use one checkpointer
    reliable,    \* whether the database and the broker answer every command
    client,      \* how the client learns that it is asked
    request,     \* where create_plan is
    row,         \* plan_runs.final_status
    stage,       \* where each task is
    worker,      \* who runs it
    question,    \* the question it put last
    outcome,     \* the status it is about to report
    answer,      \* each task's answer: the decision and the question it was given to
    thread,      \* the plan's last checkpoint in each checkpointer
    asked,       \* questions put so far: interrupt_requested events
    executed,    \* history: the execution node has run
    consumed,    \* history: each answer with the question that took it
    ended,       \* history: the graph has ended
    overran,     \* history: a task has run into the time limit
    faults       \* faults so far

tasks == <<stage, worker, question, outcome>>
graph == <<thread, asked, executed, consumed, ended>>
vars == <<shared, reliable, client, request, row, tasks, answer, graph, overran, faults>>

Stores == {Gateway} \cup Worker

\* build_plan_graph makes a MemorySaver of its own for each process that
\* injects none.
StoreOf(process) == IF shared THEN Gateway ELSE process

Thread == [at : {"none", "planning", "executing", "asking", "ended"}, question : Nat]
NoThread == [at |-> "none", question |-> 0]
At(node) == [at |-> node, question |-> 0]
Asking(number) == [at |-> "asking", question |-> number]

NoAnswer == [decision |-> "none", question |-> 0]

Outstanding(t) == stage[t] \notin {"none", "done"}
Posted == {t \in Confirms : stage[t] # "none"}
WithinBound == Cardinality(Posted) + faults < MaxEvents
Running(t) == Outstanding(t) /\ stage[t] # "queued"

Init ==
    /\ shared \in BOOLEAN
    /\ reliable \in BOOLEAN
    /\ client \in {"polls", "insists"}
    /\ request = "new"
    /\ row = "none"
    /\ stage = [t \in Task |-> "none"]
    /\ worker = [t \in Task |-> NoWorker]
    /\ question = [t \in Task |-> 0]
    /\ outcome = [t \in Task |-> "none"]
    /\ answer = [t \in Task |-> NoAnswer]
    /\ thread = [s \in Stores |-> NoThread]
    /\ asked = 0
    /\ executed = FALSE
    /\ consumed = {}
    /\ ended = FALSE
    /\ overran = FALSE
    /\ faults = 0

-----------------------------------------------------------------------------
(* The gateway *)

\* insert_run swallows its errors.
SetRow(newStatus) == row' = newStatus \/ (~reliable /\ UNCHANGED row)

\* update_status, which finds no row to update when the insertion failed.
UpdateRow(newStatus) == IF row = "none" THEN UNCHANGED row ELSE SetRow(newStatus)

InsertRun ==
    /\ request = "new"
    /\ request' = "inserted"
    /\ SetRow("queued")
    /\ UNCHANGED <<shared, reliable, client, tasks, answer, graph, overran, faults>>

\* delay() hands the task to the broker, or raises after the row was written.
SubmitPlan ==
    /\ request = "inserted"
    /\ \/ request' = "accepted" /\ stage' = [stage EXCEPT ![Submit] = "queued"]
       \/ ~reliable /\ request' = "refused" /\ UNCHANGED stage
    /\ UNCHANGED <<shared, reliable, client, row, worker, question, outcome, answer, graph, overran, faults>>

\* A client that polls /status answers when it reads awaiting_confirmation and
\* its last answer is through; one that insists posts whenever it likes.
MayAnswer ==
    client = "polls" =>
        row = "awaiting_confirmation" /\ \A t \in Confirms : ~Outstanding(t)

\* POST /confirm asks no more than whether its own process knows the plan.
KnownToGateway == thread[StoreOf(Gateway)].at # "none"

ConfirmPlan(t, decision) ==
    /\ request = "accepted"
    /\ stage[t] = "none"
    /\ \A u \in Confirms : u < t => stage[u] # "none"
    /\ MayAnswer
    /\ WithinBound
    /\ KnownToGateway
    /\ stage' = [stage EXCEPT ![t] = "queued"]
    /\ answer' = [answer EXCEPT ![t] = [decision |-> decision, question |-> asked]]
    /\ UNCHANGED <<shared, reliable, client, request, row, worker, question, outcome, graph, overran, faults>>

-----------------------------------------------------------------------------
(* A task on a worker *)

Here(t) == StoreOf(worker[t])
Checkpoint(t, to) == thread' = [thread EXCEPT ![Here(t)] = to]
Step(t, from, to) == stage[t] = from /\ stage' = [stage EXCEPT ![t] = to]

\* The task starts: update_status(plan_id, "running").
Start(t, w) ==
    /\ Step(t, "queued", "loading")
    /\ worker' = [worker EXCEPT ![t] = w]
    /\ UpdateRow("running")
    /\ UNCHANGED <<shared, reliable, client, request, question, outcome, answer, graph, overran, faults>>

\* The graph raises: the last checkpoint stays.
Fails(t) ==
    /\ stage' = [stage EXCEPT ![t] = "reporting"]
    /\ outcome' = [outcome EXCEPT ![t] = "failed"]

\* invoke(): a new start, whatever the thread holds.
Invoke(t) ==
    /\ t = Submit
    /\ Step(t, "loading", "planning")
    /\ Checkpoint(t, At("planning"))
    /\ UNCHANGED <<shared, reliable, client, request, row, worker, question, outcome, answer,
                   asked, executed, consumed, ended, overran, faults>>

\* Mutant: only a rejection is asked about again.
NodeAfterAnything(decision) == IF decision = "rejected" THEN "planning" ELSE "executing"

NodeAfter(decision) == IF decision = "confirmed" THEN "executing" ELSE "planning"

\* resume(): what it does depends on the checkpoint it finds.  One that is in
\* the middle of the graph is of a task still running or of a dead worker's.
Resume(t) ==
    LET found == thread[Here(t)]
        node == NodeAfter(answer[t].decision)
    IN
    /\ t \in Confirms
    /\ stage[t] = "loading"
    /\ \/ /\ found.at = "asking"
          /\ stage' = [stage EXCEPT ![t] = node]
          /\ Checkpoint(t, At(node))
          /\ consumed' = consumed \cup {<<t, found.question>>}
          /\ UNCHANGED outcome
       \/ /\ found.at \in {"planning", "executing"}
          /\ stage' = [stage EXCEPT ![t] = found.at]
          /\ UNCHANGED <<thread, outcome, consumed>>
       \/ /\ found.at = "ended"
          /\ stage' = [stage EXCEPT ![t] = "reporting"]
          /\ outcome' = [outcome EXCEPT ![t] = "completed"]
          /\ UNCHANGED <<thread, consumed>>
       \/ /\ found.at \in {"none", "planning", "executing"}
          /\ Fails(t)
          /\ UNCHANGED <<thread, consumed>>
    /\ UNCHANGED <<shared, reliable, client, request, row, worker, question, answer, asked,
                   executed, ended, overran, faults>>

\* Mutant: the row says awaiting_confirmation as soon as the question is out.
AskAndReport(t) ==
    /\ Step(t, "planning", "asking")
    /\ asked' = asked + 1
    /\ question' = [question EXCEPT ![t] = asked']
    /\ UpdateRow("awaiting_confirmation")
    /\ UNCHANGED <<shared, reliable, client, request, worker, outcome, answer, thread,
                   executed, consumed, ended, overran, faults>>

\* The nodes up to the consensus node, which emits interrupt_requested
Ask(t) ==
    /\ Step(t, "planning", "asking")
    /\ asked' = asked + 1
    /\ question' = [question EXCEPT ![t] = asked']
    /\ UNCHANGED <<shared, reliable, client, request, row, worker, outcome, answer, thread,
                   executed, consumed, ended, overran, faults>>

\* Mutant: the interrupt is taken for the end of the graph.
InterruptUnnoticed(t) ==
    /\ Step(t, "asking", "reporting")
    /\ Checkpoint(t, Asking(question[t]))
    /\ outcome' = [outcome EXCEPT ![t] = "completed"]
    /\ UNCHANGED <<shared, reliable, client, request, row, worker, question, answer, asked,
                   executed, consumed, ended, overran, faults>>

\* Mutant: the graph's own status is written instead of the run's.
InterruptAsConfirming(t) ==
    /\ Step(t, "asking", "reporting")
    /\ Checkpoint(t, Asking(question[t]))
    /\ outcome' = [outcome EXCEPT ![t] = "confirming"]
    /\ UNCHANGED <<shared, reliable, client, request, row, worker, question, answer, asked,
                   executed, consumed, ended, overran, faults>>

\* and then interrupts: AgentService turns that into an InterruptError.
Interrupt(t) ==
    /\ Step(t, "asking", "reporting")
    /\ Checkpoint(t, Asking(question[t]))
    /\ outcome' = [outcome EXCEPT ![t] = "awaiting_confirmation"]
    /\ UNCHANGED <<shared, reliable, client, request, row, worker, question, answer, asked,
                   executed, consumed, ended, overran, faults>>

\* The execution node: the graph ends, or a fallback leads back to the planner.
Execute(t) ==
    /\ stage[t] = "executing"
    /\ executed' = TRUE
    /\ \/ /\ Checkpoint(t, At("ended"))
          /\ ended' = TRUE
          /\ stage' = [stage EXCEPT ![t] = "reporting"]
          /\ outcome' = [outcome EXCEPT ![t] = "completed"]
       \/ /\ Checkpoint(t, At("planning"))
          /\ stage' = [stage EXCEPT ![t] = "planning"]
          /\ UNCHANGED <<ended, outcome>>
    /\ UNCHANGED <<shared, reliable, client, request, row, worker, question, answer, asked,
                   consumed, overran, faults>>

\* A node raises.
Raise(t) ==
    /\ stage[t] \in {"planning", "asking", "executing"}
    /\ Fails(t)
    /\ UNCHANGED <<shared, reliable, client, request, row, worker, question, answer, graph, overran, faults>>

\* Mutant: the error is raised before its status is written.
ReportUnlessFailed(t) ==
    /\ Step(t, "reporting", "acking")
    /\ IF outcome[t] = "failed" THEN UNCHANGED row ELSE UpdateRow(outcome[t])
    /\ UNCHANGED <<shared, reliable, client, request, worker, question, outcome, answer, graph,
                   overran, faults>>

\* The last update_status.
Report(t) ==
    /\ Step(t, "reporting", "acking")
    /\ UpdateRow(outcome[t])
    /\ UNCHANGED <<shared, reliable, client, request, worker, question, outcome, answer, graph,
                   overran, faults>>

\* acks_late: the message goes once the task is through, and the task with it.
Acknowledge(t) ==
    /\ Step(t, "acking", "done")
    /\ worker' = [worker EXCEPT ![t] = NoWorker]
    /\ question' = [question EXCEPT ![t] = 0]
    /\ outcome' = [outcome EXCEPT ![t] = "none"]
    /\ UNCHANGED <<shared, reliable, client, request, row, answer, graph, overran, faults>>

\* A worker dies with the checkpoints in its memory; its tasks are queued again.
Crash(w) ==
    /\ faults < MaxFaults /\ WithinBound
    /\ \E t \in Task : Running(t) /\ worker[t] = w
    /\ stage' = [t \in Task |-> IF Running(t) /\ worker[t] = w THEN "queued" ELSE stage[t]]
    /\ thread' = IF shared THEN thread ELSE [thread EXCEPT ![w] = NoThread]
    /\ faults' = faults + 1
    /\ UNCHANGED <<shared, reliable, client, request, row, worker, question, outcome, answer,
                   asked, executed, consumed, ended, overran>>

\* task_time_limit: the task is cut off where it is, and its message is
\* acknowledged; no except clause of the task sees it.
TimeLimit(t) ==
    /\ faults < MaxFaults /\ WithinBound
    /\ Running(t)
    /\ stage' = [stage EXCEPT ![t] = "done"]
    /\ overran' = TRUE
    /\ faults' = faults + 1
    /\ UNCHANGED <<shared, reliable, client, request, row, worker, question, outcome, answer, graph>>

Work(t) ==
    \/ \E w \in Worker : Start(t, w)
    \/ Invoke(t) \/ Resume(t) \/ Ask(t) \/ Interrupt(t) \/ Execute(t) \/ Raise(t)
    \/ Report(t) \/ Acknowledge(t)

Next ==
    \/ InsertRun \/ SubmitPlan
    \/ \E t \in Confirms, decision \in {"confirmed", "objection"} : ConfirmPlan(t, decision)
    \/ \E t \in Task : Work(t) \/ TimeLimit(t)
    \/ \E w \in Worker : Crash(w)

\* The workers go on with what is queued, and so does the gateway.
Spec ==
    /\ Init
    /\ [][Next]_vars
    /\ WF_vars(SubmitPlan)
    /\ \A t \in Task : WF_vars(Work(t))

-----------------------------------------------------------------------------
(* Properties *)

RowStatus == {"none", "queued", "running", "awaiting_confirmation", "completed", "failed"}

\* Every variable holds a value of its kind.
TypeOK ==
    /\ shared \in BOOLEAN /\ reliable \in BOOLEAN /\ executed \in BOOLEAN
    /\ ended \in BOOLEAN /\ overran \in BOOLEAN
    /\ client \in {"polls", "insists"}
    /\ request \in {"new", "inserted", "accepted", "refused"}
    /\ row \in RowStatus
    /\ stage \in [Task -> {"none", "queued", "loading", "planning", "asking", "executing",
                           "reporting", "acking", "done"}]
    /\ worker \in [Task -> Worker \cup {NoWorker}]
    /\ question \in [Task -> 0 .. asked]
    /\ outcome \in [Task -> {"none", "awaiting_confirmation", "completed", "failed"}]
    /\ answer \in [Task -> [decision : {"none", "confirmed", "objection"}, question : 0 .. asked]]
    /\ thread \in [Stores -> Thread]
    /\ asked \in Nat
    /\ consumed \subseteq Confirms \X (0 .. asked)
    /\ faults \in 0 .. MaxFaults

\* Whatever is posted twice, delivered twice or cut off, nothing is executed for
\* a plan unless somebody confirmed it.
NothingExecutedUnconfirmed ==
    executed => \E t \in Confirms : answer[t].decision = "confirmed"

\* With a client that polls /status and no fault, an answer is taken for the
\* question it was given to, and no question takes two answers.
AnswerMeetsItsQuestion ==
    client = "polls" /\ faults = 0 =>
        /\ \A c \in consumed : answer[c[1]].question = c[2]
        /\ \A c, d \in consumed : c[2] = d[2] => c = d

Quiet == \A t \in Task : ~Outstanding(t)

\* ... and once no task is left, plan_runs says what the checkpoint says.
RowMatchesThread ==
    client = "polls" /\ faults = 0 /\ reliable /\ shared /\ Quiet =>
        /\ row = "awaiting_confirmation" => thread[Gateway].at = "asking"
        /\ row = "completed" => thread[Gateway].at = "ended"

\* "completed" is never said of a plan whose graph has not ended.
CompletedHasEnded == row = "completed" => ended

\* A plan does not stay "running" for ever: after a worker's death too, some task
\* reports what came of it, unless the time limit cut a task off.
EveryPlanSettles ==
    row = "running" /\ reliable ~>
        row \in {"awaiting_confirmation", "completed", "failed"} \/ overran

\* api/v1/plan.py:15: what GET, /confirm and /stream read is there across
\* processes; a plan that waits for its user is found by the gateway.
WaitingPlanIsFound ==
    row = "awaiting_confirmation" /\ Quiet => KnownToGateway
=============================================================================
