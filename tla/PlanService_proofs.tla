-------------------------- MODULE PlanService_proofs --------------------------
(* Theorems about PlanService, for any workers and any number of answers and *)
(* faults.                                                                   *)
EXTENDS PlanService, TLAPS

-----------------------------------------------------------------------------
(* The inductive invariant *)

Confirmed == \E t \in Confirms : answer[t].decision = "confirmed"

\* A task that has started and is not through runs on a worker.
AtWork == \A t \in Task : Running(t) => worker[t] \in Worker

\* A checkpoint waits for no question that was not put.
Heard == \A s \in Stores : thread[s].question <= asked

\* Only what is posted has an answer, so no answer is ever written over.
Unposted == \A t \in Confirms : stage[t] = "none" => answer[t].decision = "none"

\* Wherever the execution node is about to run, or has run, there was a "confirmed".
Approved ==
    \/ executed
    \/ \E t \in Task : stage[t] = "executing"
    \/ \E s \in Stores : thread[s].at = "executing"
    => Confirmed

\* Wherever "completed" is written, or about to be, the graph has ended.
Finished ==
    \/ row = "completed"
    \/ \E t \in Task : outcome[t] = "completed"
    \/ \E s \in Stores : thread[s].at = "ended"
    => ended

Invariant == TypeOK /\ AtWork /\ Heard /\ Unposted /\ Approved /\ Finished

-----------------------------------------------------------------------------
(* Stores and checkpoints *)

LEMMA StoreOfKnown ==
    ASSUME TypeOK, NEW w \in Worker
    PROVE  StoreOf(w) \in Stores
BY DEF TypeOK, StoreOf, Stores

LEMMA CheckpointKept ==
    ASSUME TypeOK, AtWork, Heard, NEW t \in Task, Running(t), NEW to \in Thread,
           to.question <= asked, Checkpoint(t, to)
    PROVE  thread' \in [Stores -> Thread] /\ \A s \in Stores : thread'[s].question <= asked
<1>1. Here(t) \in Stores
  BY StoreOfKnown DEF AtWork, Here
<1> QED
  BY <1>1 DEF TypeOK, Heard, Checkpoint

-----------------------------------------------------------------------------
(* Types *)

TypesKept == TypeOK /\ AtWork /\ Heard

LEMMA TypeInit == Init => TypesKept
<1> SUFFICES ASSUME Init PROVE TypesKept
  OBVIOUS
<1>1. /\ NoThread \in Thread /\ NoThread.question = 0
      /\ NoAnswer \in [decision : {"none", "confirmed", "objection"}, question : 0 .. 0]
  BY DEF NoThread, Thread, NoAnswer
<1>2. thread \in [Stores -> Thread] /\ Heard
  BY <1>1 DEF Init, Heard
<1>3. answer \in [Task -> [decision : {"none", "confirmed", "objection"}, question : 0 .. asked]]
  BY <1>1 DEF Init
<1>4. consumed \subseteq Confirms \X (0 .. asked)
  BY DEF Init
<1>5. AtWork
  BY DEF Init, AtWork, Running, Outstanding
<1>6. /\ stage \in [Task -> {"none", "queued", "loading", "planning", "asking", "executing",
                           "reporting", "acking", "done"}]
      /\ worker \in [Task -> Worker \cup {NoWorker}]
  BY DEF Init
<1>7. asked = 0 /\ question \in [Task -> 0 .. asked]
  BY DEF Init
<1>8. outcome \in [Task -> {"none", "awaiting_confirmation", "completed", "failed"}]
  BY DEF Init
<1>9. faults \in 0 .. MaxFaults
  BY FaultsAssumption DEF Init
<1>10. /\ shared \in BOOLEAN /\ reliable \in BOOLEAN /\ executed \in BOOLEAN
       /\ ended \in BOOLEAN /\ overran \in BOOLEAN
       /\ client \in {"polls", "insists"}
       /\ request \in {"new", "inserted", "accepted", "refused"}
       /\ row \in RowStatus
  BY DEF Init, RowStatus
<1> QED
  BY <1>2, <1>3, <1>4, <1>5, <1>6, <1>7, <1>8, <1>9, <1>10 DEF TypesKept, TypeOK

LEMMA RowTyped ==
    ASSUME row \in RowStatus, NEW new \in RowStatus, UpdateRow(new)
    PROVE  row' \in RowStatus
BY DEF UpdateRow, SetRow

LEMMA TypeInsertRun == ASSUME TypesKept, InsertRun PROVE TypesKept'
BY DEF TypesKept, TypeOK, AtWork, Heard, InsertRun, SetRow, RowStatus, tasks, graph, Running, Outstanding

LEMMA TypeSubmitPlan == ASSUME TypesKept, SubmitPlan PROVE TypesKept'
BY DEF TypesKept, TypeOK, AtWork, Heard, SubmitPlan, graph, Running, Outstanding

LEMMA TypeConfirmPlan ==
    ASSUME TypesKept, NEW t \in Confirms, NEW decision \in {"confirmed", "objection"},
           ConfirmPlan(t, decision)
    PROVE  TypesKept'
BY DEF TypesKept, TypeOK, AtWork, Heard, ConfirmPlan, graph, Running, Outstanding, Confirms

LEMMA TypeStart ==
    ASSUME TypesKept, NEW t \in Task, NEW w \in Worker, Start(t, w) PROVE TypesKept'
<1>1. row' \in RowStatus
  BY RowTyped DEF TypesKept, TypeOK, Start, RowStatus
<1> QED
  BY <1>1 DEF TypesKept, TypeOK, AtWork, Heard, Start, Step, graph, Running, Outstanding

LEMMA TypeInvoke == ASSUME TypesKept, NEW t \in Task, Invoke(t) PROVE TypesKept'
<1>1. At("planning") \in Thread /\ At("planning").question <= asked
  BY DEF At, Thread, TypesKept, TypeOK
<1>2. Running(t)
  BY DEF Invoke, Step, Running, Outstanding
<1>3. thread' \in [Stores -> Thread] /\ \A s \in Stores : thread'[s].question <= asked
  BY <1>1, <1>2, CheckpointKept DEF Invoke, TypesKept
<1> QED
  BY <1>3 DEF TypesKept, TypeOK, AtWork, Heard, Invoke, Step, Running, Outstanding

LEMMA TypeResume == ASSUME TypesKept, NEW t \in Task, Resume(t) PROVE TypesKept'
<1> DEFINE found == thread[Here(t)]
           node == NodeAfter(answer[t].decision)
<1>1. Running(t) /\ stage[t] = "loading"
  BY DEF Resume, Running, Outstanding
<1>2. Here(t) \in Stores
  BY <1>1, StoreOfKnown DEF TypesKept, AtWork, Here
<1>3. found \in Thread /\ found.question <= asked /\ found.question \in Nat
  BY <1>2 DEF TypesKept, TypeOK, Heard, Thread
<1>4. node \in {"planning", "executing"}
  BY DEF NodeAfter
<1>5. At(node) \in Thread /\ At(node).question <= asked
  BY <1>4 DEF At, Thread, TypesKept, TypeOK
<1>6. thread' \in [Stores -> Thread] /\ \A s \in Stores : thread'[s].question <= asked
  <2>1. CASE Checkpoint(t, At(node))
    BY <1>1, <1>5, <2>1, CheckpointKept DEF TypesKept
  <2>2. CASE UNCHANGED thread
    BY <2>2 DEF TypesKept, TypeOK, Heard
  <2> QED
    BY <2>1, <2>2 DEF Resume
<1>7. consumed' \subseteq Confirms \X (0 .. asked)
  BY <1>3 DEF Resume, TypesKept, TypeOK
<1>8. stage' \in [Task -> {"none", "queued", "loading", "planning", "asking", "executing",
                           "reporting", "acking", "done"}]
  BY <1>4 DEF Resume, Fails, TypesKept, TypeOK
<1>9. outcome' \in [Task -> {"none", "awaiting_confirmation", "completed", "failed"}]
  BY DEF Resume, Fails, TypesKept, TypeOK
<1>10. UNCHANGED <<shared, reliable, client, request, row, worker, question, answer, asked,
                   executed, ended, overran, faults>>
  BY DEF Resume
<1>11. \A u \in Task : Running(u)' => Running(u)
  BY <1>1 DEF Resume, Fails, Running, Outstanding, TypesKept, TypeOK
<1> QED
  BY <1>6, <1>7, <1>8, <1>9, <1>10, <1>11 DEF TypesKept, TypeOK, AtWork, Heard

LEMMA TypeAsk == ASSUME TypesKept, NEW t \in Task, Ask(t) PROVE TypesKept'
BY DEF TypesKept, TypeOK, AtWork, Heard, Ask, Step, Running, Outstanding, Thread

LEMMA TypeInterrupt == ASSUME TypesKept, NEW t \in Task, Interrupt(t) PROVE TypesKept'
<1>1. Asking(question[t]) \in Thread /\ Asking(question[t]).question <= asked
  BY DEF Asking, Thread, TypesKept, TypeOK
<1>2. Running(t)
  BY DEF Interrupt, Step, Running, Outstanding
<1>3. thread' \in [Stores -> Thread] /\ \A s \in Stores : thread'[s].question <= asked
  BY <1>1, <1>2, CheckpointKept DEF Interrupt, TypesKept
<1> QED
  BY <1>3 DEF TypesKept, TypeOK, AtWork, Heard, Interrupt, Step, Running, Outstanding

LEMMA TypeExecute == ASSUME TypesKept, NEW t \in Task, Execute(t) PROVE TypesKept'
<1>1. \A node \in {"planning", "ended"} : At(node) \in Thread /\ At(node).question <= asked
  BY DEF At, Thread, TypesKept, TypeOK
<1>2. Running(t)
  BY DEF Execute, Running, Outstanding
<1>3. thread' \in [Stores -> Thread] /\ \A s \in Stores : thread'[s].question <= asked
  BY <1>1, <1>2, CheckpointKept DEF Execute, TypesKept
<1> QED
  BY <1>3 DEF TypesKept, TypeOK, AtWork, Heard, Execute, Running, Outstanding

LEMMA TypeRaise == ASSUME TypesKept, NEW t \in Task, Raise(t) PROVE TypesKept'
BY DEF TypesKept, TypeOK, AtWork, Heard, Raise, Fails, graph, Running, Outstanding

LEMMA TypeReport == ASSUME TypesKept, NEW t \in Task, Report(t) PROVE TypesKept'
<1>1. outcome[t] \in RowStatus
  BY DEF TypesKept, TypeOK, RowStatus
<1>2. row' \in RowStatus
  BY <1>1, RowTyped DEF TypesKept, TypeOK, Report
<1> QED
  BY <1>2 DEF TypesKept, TypeOK, AtWork, Heard, Report, Step, graph, Running, Outstanding

LEMMA TypeAcknowledge == ASSUME TypesKept, NEW t \in Task, Acknowledge(t) PROVE TypesKept'
BY DEF TypesKept, TypeOK, AtWork, Heard, Acknowledge, Step, graph, Running, Outstanding

LEMMA TypeCrash == ASSUME TypesKept, NEW w \in Worker, Crash(w) PROVE TypesKept'
<1>1. NoThread \in Thread /\ NoThread.question = 0
  BY DEF NoThread, Thread
<1>2. thread' \in [Stores -> Thread] /\ \A s \in Stores : thread'[s].question <= asked
  <2>1. thread' = thread \/ thread' = [thread EXCEPT ![w] = NoThread]
    BY DEF Crash
  <2>2. thread \in [Stores -> Thread] /\ asked \in Nat /\ \A s \in Stores : thread[s].question <= asked
    BY DEF TypesKept, TypeOK, Heard
  <2> QED
    BY <1>1, <2>1, <2>2
<1>3. faults' \in 0 .. MaxFaults
  BY FaultsAssumption DEF Crash, TypesKept, TypeOK
<1>4. stage' \in [Task -> {"none", "queued", "loading", "planning", "asking", "executing",
                           "reporting", "acking", "done"}]
  BY DEF Crash, TypesKept, TypeOK
<1>5. \A t \in Task : Running(t)' => Running(t)
  BY DEF Crash, Running, Outstanding, TypesKept, TypeOK
<1>6. UNCHANGED <<shared, reliable, client, request, row, worker, question, outcome, answer,
                  asked, executed, consumed, ended, overran>>
  BY DEF Crash
<1> QED
  BY <1>2, <1>3, <1>4, <1>5, <1>6 DEF TypesKept, TypeOK, AtWork, Heard

LEMMA TypeTimeLimit == ASSUME TypesKept, NEW t \in Task, TimeLimit(t) PROVE TypesKept'
<1>1. faults' \in 0 .. MaxFaults
  BY FaultsAssumption DEF TimeLimit, TypesKept, TypeOK
<1> QED
  BY <1>1 DEF TypesKept, TypeOK, AtWork, Heard, TimeLimit, graph, Running, Outstanding

LEMMA TypeNext == ASSUME TypesKept, [Next]_vars PROVE TypesKept'
<1>1. CASE InsertRun
  BY <1>1, TypeInsertRun
<1>2. CASE SubmitPlan
  BY <1>2, TypeSubmitPlan
<1>3. CASE \E t \in Confirms, decision \in {"confirmed", "objection"} : ConfirmPlan(t, decision)
  BY <1>3, TypeConfirmPlan
<1>4. ASSUME NEW t \in Task, Work(t) PROVE TypesKept'
  BY <1>4, TypeStart, TypeInvoke, TypeResume, TypeAsk, TypeInterrupt, TypeExecute, TypeRaise,
     TypeReport, TypeAcknowledge DEF Work
<1>5. CASE \E t \in Task : TimeLimit(t)
  BY <1>5, TypeTimeLimit
<1>6. CASE \E w \in Worker : Crash(w)
  BY <1>6, TypeCrash
<1>7. CASE UNCHANGED vars
  BY <1>7 DEF TypesKept, TypeOK, AtWork, Heard, Running, Outstanding, vars, tasks, graph
<1> QED
  BY <1>1, <1>2, <1>3, <1>4, <1>5, <1>6, <1>7 DEF Next

\* Whatever is posted, delivered again after a worker's death or cut off, every
\* variable of the service holds a value of its kind: no task reads a checkpoint
\* or a question that is not there.
THEOREM TypeCorrect == Spec => []TypeOK
<1>1. Init => TypesKept
  BY TypeInit
<1>2. TypesKept /\ [Next]_vars => TypesKept'
  BY TypeNext
<1>3. TypesKept => TypeOK
  BY DEF TypesKept
<1> QED
  BY <1>1, <1>2, <1>3, PTL DEF Spec

-----------------------------------------------------------------------------
(* Confirmed before executed, ended before completed *)

Justified == Unposted /\ Approved /\ Finished

\* An answer stays what it was.
LEMMA StaysConfirmed ==
    ASSUME Confirmed, UNCHANGED answer
    PROVE  Confirmed'
BY DEF Confirmed

\* A step that runs no graph: no task gets to "executing" or to "completed",
\* and no checkpoint changes.
Bystander ==
    /\ UNCHANGED <<answer, executed, ended>>
    /\ \A t \in Task : /\ stage'[t] = "executing" => stage[t] = "executing"
                       /\ outcome'[t] = "completed" => outcome[t] = "completed"
                       /\ stage'[t] = "none" => stage[t] = "none"
    /\ \A s \in Stores : thread'[s].at \in {"executing", "ended"} => thread'[s] = thread[s]
    /\ row' = "completed" => row = "completed" \/ \E t \in Task : outcome[t] = "completed"

LEMMA BystanderJustified ==
    ASSUME Invariant, Bystander
    PROVE  Justified'
<1>1. Unposted'
  BY DEF Invariant, Unposted, Bystander, Confirms
<1>2. Approved'
  <2>1. Confirmed => Confirmed'
    BY StaysConfirmed DEF Bystander
  <2> QED
    BY <2>1 DEF Invariant, Approved, Bystander
<1>3. Finished'
  BY DEF Invariant, Finished, Bystander
<1> QED
  BY <1>1, <1>2, <1>3 DEF Justified

LEMMA JustifiedInit == Init => Justified
BY DEF Init, Justified, Unposted, Approved, Finished, Confirms, NoAnswer, NoThread

LEMMA JustifiedInsertRun == ASSUME Invariant, InsertRun PROVE Justified'
BY BystanderJustified DEF InsertRun, SetRow, Bystander, tasks, graph

LEMMA JustifiedSubmitPlan == ASSUME Invariant, SubmitPlan PROVE Justified'
BY BystanderJustified DEF SubmitPlan, Bystander, graph, Invariant, TypeOK

\* The answer is new: it writes over none, so a plan that is confirmed stays so.
LEMMA JustifiedConfirmPlan ==
    ASSUME Invariant, NEW t \in Confirms, NEW decision \in {"confirmed", "objection"},
           ConfirmPlan(t, decision)
    PROVE  Justified'
<1>1. answer[t].decision = "none"
  BY DEF Invariant, Unposted, ConfirmPlan
<1>2. /\ t \in Task /\ Confirms \subseteq Task
      /\ answer' = [answer EXCEPT ![t] = [decision |-> decision, question |-> asked]]
      /\ stage' = [stage EXCEPT ![t] = "queued"]
      /\ UNCHANGED <<thread, executed, ended, row, outcome>>
  BY DEF ConfirmPlan, graph, Confirms
<1>3. Unposted'
  BY <1>2 DEF Invariant, TypeOK, Unposted
<1>4. Confirmed => Confirmed'
  BY <1>1, <1>2 DEF Confirmed, Invariant, TypeOK
<1>5. Approved'
  BY <1>2, <1>4 DEF Invariant, TypeOK, Approved
<1>6. Finished'
  BY <1>2 DEF Invariant, Finished
<1> QED
  BY <1>3, <1>5, <1>6 DEF Justified

LEMMA JustifiedStart ==
    ASSUME Invariant, NEW t \in Task, NEW w \in Worker, Start(t, w) PROVE Justified'
<1>1. row' = "completed" => row = "completed"
  BY DEF Start, UpdateRow, SetRow
<1> QED
  BY <1>1, BystanderJustified DEF Start, Step, Bystander, graph, Invariant, TypeOK

LEMMA JustifiedInvoke == ASSUME Invariant, NEW t \in Task, Invoke(t) PROVE Justified'
<1>1. \A s \in Stores : thread'[s].at \in {"executing", "ended"} => thread'[s] = thread[s]
  BY DEF Invoke, Checkpoint, At, Invariant, TypeOK
<1> QED
  BY <1>1, BystanderJustified DEF Invoke, Step, Bystander, Invariant, TypeOK

LEMMA JustifiedResume == ASSUME Invariant, NEW t \in Task, Resume(t) PROVE Justified'
<1> DEFINE found == thread[Here(t)]
           node == NodeAfter(answer[t].decision)
<1>1. /\ t \in Confirms /\ stage[t] = "loading"
      /\ UNCHANGED <<row, answer, executed, ended>>
  BY DEF Resume
<1>2. Here(t) \in Stores
  BY <1>1, StoreOfKnown DEF Invariant, AtWork, Here, Running, Outstanding
<1>3. CASE /\ stage' = [stage EXCEPT ![t] = node]
           /\ Checkpoint(t, At(node))
           /\ UNCHANGED outcome
  <2>1. /\ node \in {"planning", "executing"}
        /\ node = "executing" => answer[t].decision = "confirmed"
    BY DEF NodeAfter
  <2>2. \A s \in Stores : thread'[s] = thread[s] \/ thread'[s].at = node
    BY <1>3 DEF Checkpoint, At, Invariant, TypeOK
  <2>3. node = "executing" => Confirmed
    BY <1>1, <2>1 DEF Confirmed
  <2>4. Confirmed => Confirmed'
    BY <1>1, StaysConfirmed
  <2>5. Unposted'
    BY <1>1, <1>3, <2>1 DEF Invariant, TypeOK, Unposted
  <2>6. Approved'
    BY <1>1, <1>3, <2>2, <2>3, <2>4 DEF Invariant, TypeOK, Approved
  <2>7. Finished'
    BY <1>1, <1>3, <2>1, <2>2 DEF Invariant, Finished
  <2> QED
    BY <2>5, <2>6, <2>7 DEF Justified
<1>4. CASE /\ found.at \in {"planning", "executing"}
           /\ stage' = [stage EXCEPT ![t] = found.at]
           /\ UNCHANGED <<thread, outcome>>
  <2>1. Confirmed => Confirmed'
    BY <1>1, StaysConfirmed
  <2>2. Unposted'
    BY <1>1, <1>4 DEF Invariant, TypeOK, Unposted
  <2>3. Approved'
    BY <1>1, <1>2, <1>4, <2>1 DEF Invariant, TypeOK, Approved
  <2>4. Finished'
    BY <1>1, <1>4 DEF Invariant, Finished
  <2> QED
    BY <2>2, <2>3, <2>4 DEF Justified
<1>5. CASE /\ stage' = [stage EXCEPT ![t] = "reporting"]
           /\ \/ found.at = "ended" /\ outcome' = [outcome EXCEPT ![t] = "completed"]
              \/ outcome' = [outcome EXCEPT ![t] = "failed"]
           /\ UNCHANGED thread
  <2>1. Confirmed => Confirmed'
    BY <1>1, StaysConfirmed
  <2>2. Unposted'
    BY <1>1, <1>5 DEF Invariant, TypeOK, Unposted
  <2>3. Approved'
    BY <1>1, <1>5, <2>1 DEF Invariant, TypeOK, Approved
  <2>4. Finished'
    BY <1>1, <1>2, <1>5 DEF Invariant, TypeOK, Finished
  <2> QED
    BY <2>2, <2>3, <2>4 DEF Justified
<1> QED
  BY <1>3, <1>4, <1>5 DEF Resume, Fails

LEMMA JustifiedAsk == ASSUME Invariant, NEW t \in Task, Ask(t) PROVE Justified'
BY BystanderJustified DEF Ask, Step, Bystander, Invariant, TypeOK

LEMMA JustifiedInterrupt == ASSUME Invariant, NEW t \in Task, Interrupt(t) PROVE Justified'
<1>1. \A s \in Stores : thread'[s].at \in {"executing", "ended"} => thread'[s] = thread[s]
  BY DEF Interrupt, Checkpoint, Asking, Invariant, TypeOK
<1> QED
  BY <1>1, BystanderJustified DEF Interrupt, Step, Bystander, Invariant, TypeOK

\* The task was on its way to the execution node, so there was a "confirmed".
LEMMA JustifiedExecute == ASSUME Invariant, NEW t \in Task, Execute(t) PROVE Justified'
<1>1. stage[t] = "executing" /\ UNCHANGED <<row, answer>>
  BY DEF Execute
<1>2. Confirmed'
  BY <1>1, StaysConfirmed DEF Invariant, Approved
<1>3. Unposted'
  <2>1. \A u \in Task : stage'[u] = "none" => stage[u] = "none"
    BY DEF Execute, Invariant, TypeOK
  <2> QED
    BY <1>1, <2>1 DEF Invariant, Unposted, Confirms
<1>4. Approved'
  BY <1>2 DEF Approved
<1>5. Finished'
  <2>1. CASE ended'
    BY <2>1 DEF Finished
  <2>2. CASE Checkpoint(t, At("planning")) /\ UNCHANGED <<ended, outcome>>
    <3>1. \A s \in Stores : thread'[s].at = "ended" => thread[s].at = "ended"
      BY <2>2 DEF Checkpoint, At, Invariant, TypeOK
    <3> QED
      BY <1>1, <2>2, <3>1 DEF Invariant, Finished
  <2> QED
    BY <2>1, <2>2 DEF Execute
<1> QED
  BY <1>3, <1>4, <1>5 DEF Justified

LEMMA JustifiedRaise == ASSUME Invariant, NEW t \in Task, Raise(t) PROVE Justified'
BY BystanderJustified DEF Raise, Fails, Bystander, graph, Invariant, TypeOK

LEMMA JustifiedReport == ASSUME Invariant, NEW t \in Task, Report(t) PROVE Justified'
<1>1. row' = "completed" => row = "completed" \/ outcome[t] = "completed"
  BY DEF Report, UpdateRow, SetRow
<1> QED
  BY <1>1, BystanderJustified DEF Report, Step, Bystander, graph, Invariant, TypeOK

LEMMA JustifiedAcknowledge == ASSUME Invariant, NEW t \in Task, Acknowledge(t) PROVE Justified'
BY BystanderJustified DEF Acknowledge, Step, Bystander, graph, Invariant, TypeOK

\* A crash forgets checkpoints and queues tasks again: it adds nothing to justify.
LEMMA JustifiedCrash == ASSUME Invariant, NEW w \in Worker, Crash(w) PROVE Justified'
<1>1. thread' = thread \/ thread' = [thread EXCEPT ![w] = NoThread]
  BY DEF Crash
<1>2. \A s \in Stores : thread'[s].at \in {"executing", "ended"} => thread'[s] = thread[s]
  BY <1>1 DEF NoThread, Invariant, TypeOK
<1> QED
  BY <1>2, BystanderJustified DEF Crash, Bystander, Invariant, TypeOK

LEMMA JustifiedTimeLimit == ASSUME Invariant, NEW t \in Task, TimeLimit(t) PROVE Justified'
BY BystanderJustified DEF TimeLimit, Bystander, graph, Invariant, TypeOK

LEMMA JustifiedNext == ASSUME Invariant, [Next]_vars PROVE Justified'
<1>1. CASE InsertRun
  BY <1>1, JustifiedInsertRun
<1>2. CASE SubmitPlan
  BY <1>2, JustifiedSubmitPlan
<1>3. CASE \E t \in Confirms, decision \in {"confirmed", "objection"} : ConfirmPlan(t, decision)
  BY <1>3, JustifiedConfirmPlan
<1>4. ASSUME NEW t \in Task, Work(t) PROVE Justified'
  BY <1>4, JustifiedStart, JustifiedInvoke, JustifiedResume, JustifiedAsk, JustifiedInterrupt,
     JustifiedExecute, JustifiedRaise, JustifiedReport, JustifiedAcknowledge DEF Work
<1>5. CASE \E t \in Task : TimeLimit(t)
  BY <1>5, JustifiedTimeLimit
<1>6. CASE \E w \in Worker : Crash(w)
  BY <1>6, JustifiedCrash
<1>7. CASE UNCHANGED vars
  BY <1>7, BystanderJustified DEF Bystander, vars, tasks, graph
<1> QED
  BY <1>1, <1>2, <1>3, <1>4, <1>5, <1>6, <1>7 DEF Next

-----------------------------------------------------------------------------
(* The theorems *)

\* The inductive invariant: types, and the places from which "executing" and
\* "completed" can still spread (tasks, outcomes, checkpoints of every process)
\* are covered by a "confirmed" and by an end of the graph.
THEOREM InvariantHolds == Spec => []Invariant
<1>1. Init => Invariant
  BY TypeInit, JustifiedInit DEF Invariant, TypesKept, Justified
<1>2. Invariant /\ [Next]_vars => Invariant'
  BY TypeNext, JustifiedNext DEF Invariant, TypesKept, Justified
<1> QED
  BY <1>1, <1>2, PTL DEF Spec

\* Whatever is posted twice, delivered twice or cut off, and however many worker
\* processes with checkpointers of their own there are, nothing is executed for
\* a plan that nobody confirmed.
THEOREM NothingExecutedUnconfirmedHolds == Spec => []NothingExecutedUnconfirmed
<1>1. Invariant => NothingExecutedUnconfirmed
  BY DEF Invariant, Approved, Confirmed, NothingExecutedUnconfirmed
<1> QED
  BY <1>1, InvariantHolds, PTL

\* plan_runs says "completed" only of a plan whose graph has ended, though a resume
\* reports what it finds in the checkpoint of whatever process it runs on.
THEOREM CompletedHasEndedHolds == Spec => []CompletedHasEnded
<1>1. Invariant => CompletedHasEnded
  BY DEF Invariant, Finished, CompletedHasEnded
<1> QED
  BY <1>1, InvariantHolds, PTL

-----------------------------------------------------------------------------
(* A client that polls, and no fault: the second inductive invariant *)

Undisturbed == client = "polls" /\ faults = 0

Active(t) == stage[t] \notin {"none", "acking", "done"}
AnyPosted == \E t \in Confirms : stage[t] # "none"

\* Before the gateway has accepted the plan there is no task.
NothingYet ==
    request # "accepted" => row \in {"none", "queued"} /\ \A t \in Task : stage[t] = "none"

\* A gateway with a checkpointer of its own never gets to know the plan.
GatewayApart ==
    /\ ~shared => thread[Gateway].at = "none"
    /\ AnyPosted => shared

\* One task at a time: the first answer comes after plan.submit has reported, and
\* the next one when the last is through.
OneAtATime ==
    /\ \A t, u \in Task : Active(t) /\ Active(u) => t = u
    /\ row = "awaiting_confirmation" \/ AnyPosted => stage[Submit] \in {"acking", "done"}

\* The question an answer was given to is still the last one when it is taken.
AnsweredLast ==
    \A t \in Confirms : stage[t] \in {"queued", "loading"} => answer[t].question = asked

\* The checkpoint goes with the task that runs, and waits for the last question.
CheckpointFollows ==
    shared =>
        /\ \A t \in Task : /\ stage[t] \in {"planning", "asking"} => thread[Gateway].at = "planning"
                           /\ stage[t] = "executing" => thread[Gateway].at = "executing"
                           /\ stage[t] = "asking" => question[t] = asked
        /\ thread[Gateway].at = "asking" => thread[Gateway].question = asked

\* The last question has not been taken while it waits, or is about to.
TakenOnce ==
    /\ \A c \in consumed :
         /\ stage[c[1]] # "none"
         /\ answer[c[1]].question = c[2]
         /\ c[2] = asked => thread[Gateway].at # "asking" /\ \A t \in Task : stage[t] # "asking"
    /\ \A c, d \in consumed : c[2] = d[2] => c = d

\* What is about to be reported, or was reported last, is what the checkpoint says.
RowFollows ==
    reliable /\ shared =>
        /\ \A t \in Task : stage[t] = "reporting" =>
             /\ outcome[t] = "awaiting_confirmation" => thread[Gateway].at = "asking"
             /\ outcome[t] = "completed" => thread[Gateway].at = "ended"
        /\ row = "awaiting_confirmation" => thread[Gateway].at = "asking"
        /\ row = "completed" => thread[Gateway].at = "ended"
        /\ row \in {"awaiting_confirmation", "completed"} =>
             \A t \in Task : stage[t] \in {"none", "queued", "acking", "done"}

InTurn ==
    /\ NothingYet
    /\ GatewayApart
    /\ Undisturbed => OneAtATime /\ AnsweredLast /\ CheckpointFollows /\ TakenOnce /\ RowFollows

LEMMA SubmitIsTask == Submit \in Task /\ Submit \notin Confirms /\ Confirms \subseteq Task
BY ConfirmsAssumption DEF Submit, Task, Confirms

LEMMA InTurnInit == Init => InTurn
BY SubmitIsTask DEF Init, InTurn, NothingYet, GatewayApart, AnyPosted, Undisturbed, OneAtATime, Active,
   AnsweredLast, CheckpointFollows, TakenOnce, RowFollows, NoThread, Stores

LEMMA InTurnInsertRun == ASSUME TypeOK, InTurn, InsertRun PROVE InTurn'
<1>1. /\ request = "new" /\ row' \in {"queued", row} /\ \A t \in Task : stage[t] = "none"
      /\ row \in {"none", "queued"}
      /\ UNCHANGED <<client, faults, shared, reliable, stage, question, outcome, answer, thread,
                     asked, consumed>>
  BY DEF InsertRun, SetRow, tasks, graph, InTurn, NothingYet
<1>2. NothingYet' /\ GatewayApart'
  BY <1>1 DEF InTurn, NothingYet, GatewayApart, AnyPosted
<1>3. ASSUME Undisturbed'
      PROVE  (OneAtATime /\ AnsweredLast /\ CheckpointFollows /\ TakenOnce /\ RowFollows)'
  <2>1. OneAtATime /\ AnsweredLast /\ CheckpointFollows /\ TakenOnce /\ RowFollows
    BY <1>1, <1>3 DEF InTurn, Undisturbed
  <2>2. OneAtATime' /\ AnsweredLast'
    BY <1>1, <2>1, SubmitIsTask DEF OneAtATime, AnsweredLast, AnyPosted, Active
  <2>3. CheckpointFollows' /\ TakenOnce'
    BY <1>1, <2>1 DEF CheckpointFollows, TakenOnce
  <2>4. RowFollows'
    BY <1>1, <2>1 DEF RowFollows
  <2> QED  BY <2>2, <2>3, <2>4
<1> QED  BY <1>2, <1>3 DEF InTurn

LEMMA InTurnSubmitPlan == ASSUME TypeOK, InTurn, SubmitPlan PROVE InTurn'
<1>1. /\ request = "inserted" /\ row \in {"none", "queued"} /\ \A t \in Task : stage[t] = "none"
      /\ UNCHANGED <<client, faults, shared, reliable, row, question, outcome, answer, thread,
                     asked, consumed>>
      /\ \/ request' = "accepted" /\ stage' = [stage EXCEPT ![Submit] = "queued"]
         \/ request' # "accepted" /\ UNCHANGED stage
      /\ DOMAIN stage = Task
  BY DEF SubmitPlan, graph, InTurn, NothingYet, TypeOK
<1>2. \A t \in Task : stage'[t] = "none" \/ (t = Submit /\ stage'[t] = "queued")
  BY <1>1
<1>3. NothingYet' /\ GatewayApart'
  BY <1>1, <1>2, SubmitIsTask DEF InTurn, NothingYet, GatewayApart, AnyPosted
<1>4. ASSUME Undisturbed'
      PROVE  (OneAtATime /\ AnsweredLast /\ CheckpointFollows /\ TakenOnce /\ RowFollows)'
  <2>1. OneAtATime /\ AnsweredLast /\ CheckpointFollows /\ TakenOnce /\ RowFollows
    BY <1>1, <1>4 DEF InTurn, Undisturbed
  <2>2. OneAtATime' /\ AnsweredLast'
    BY <1>1, <1>2, SubmitIsTask DEF OneAtATime, AnsweredLast, AnyPosted, Active
  <2>3. CheckpointFollows'
    BY <1>1, <1>2, <2>1 DEF CheckpointFollows
  <2>4. TakenOnce'
    <3>1. consumed = {}
      BY <1>1, <2>1, SubmitIsTask DEF TakenOnce, TypeOK
    <3> QED  BY <1>1, <3>1 DEF TakenOnce
  <2>5. RowFollows'
    BY <1>1, <1>2, <2>1 DEF RowFollows
  <2> QED  BY <2>2, <2>3, <2>4, <2>5
<1> QED  BY <1>3, <1>4 DEF InTurn

\* The client has read awaiting_confirmation: no task is on its way, and the
\* gateway, which knows the plan, shares the workers' checkpointer.
LEMMA InTurnConfirmPlan ==
    ASSUME TypeOK, InTurn, NEW t \in Confirms, NEW decision \in {"confirmed", "objection"},
           ConfirmPlan(t, decision)
    PROVE  InTurn'
<1>1. /\ request = "accepted" /\ stage[t] = "none" /\ KnownToGateway /\ MayAnswer
      /\ stage' = [stage EXCEPT ![t] = "queued"]
      /\ answer' = [answer EXCEPT ![t] = [decision |-> decision, question |-> asked]]
      /\ UNCHANGED <<client, faults, shared, reliable, request, row, question, outcome, thread,
                     asked, consumed>>
      /\ DOMAIN stage = Task /\ DOMAIN answer = Task
  BY DEF ConfirmPlan, graph, TypeOK
<1>2. shared
  BY <1>1 DEF InTurn, GatewayApart, KnownToGateway, StoreOf, Gateway
<1>3. /\ \A u \in Task : u # t => stage'[u] = stage[u] /\ answer'[u] = answer[u]
      /\ stage'[t] = "queued" /\ answer'[t].question = asked
  BY <1>1, SubmitIsTask
<1>4. NothingYet' /\ GatewayApart'
  BY <1>1, <1>2 DEF InTurn, NothingYet, GatewayApart
<1>5. ASSUME Undisturbed'
      PROVE  (OneAtATime /\ AnsweredLast /\ CheckpointFollows /\ TakenOnce /\ RowFollows)'
  <2>1. OneAtATime /\ AnsweredLast /\ CheckpointFollows /\ TakenOnce /\ RowFollows
    BY <1>1, <1>5 DEF InTurn, Undisturbed
  <2>2. row = "awaiting_confirmation" /\ \A u \in Confirms : stage[u] \in {"none", "done"}
    BY <1>1, <1>5 DEF MayAnswer, Undisturbed, Outstanding
  <2>3. \A u \in Task : ~Active(u)
    BY <2>1, <2>2, SubmitIsTask DEF OneAtATime, Active, Confirms
  <2>4. OneAtATime'
    BY <1>1, <1>3, <2>1, <2>2, <2>3, SubmitIsTask DEF OneAtATime, Active
  <2>5. AnsweredLast'
    BY <1>1, <1>3, <2>1, SubmitIsTask DEF AnsweredLast
  <2>6. CheckpointFollows'
    BY <1>1, <1>3, <2>1 DEF CheckpointFollows
  <2>7. TakenOnce'
    <3>1. ASSUME NEW c \in consumed PROVE c[1] \in Task /\ c[1] # t
      BY <1>1, <2>1, SubmitIsTask DEF TakenOnce, TypeOK
    <3> QED  BY <1>1, <1>3, <2>1, <3>1 DEF TakenOnce
  <2>8. RowFollows'
    BY <1>1, <1>3, <2>1 DEF RowFollows
  <2> QED  BY <2>4, <2>5, <2>6, <2>7, <2>8
<1> QED  BY <1>4, <1>5 DEF InTurn

\* What the four parts that remain to be shown for a step of a task are.
Followed == AnsweredLast /\ CheckpointFollows /\ TakenOnce /\ RowFollows

\* A step of a task leaves the order of the tasks as it is, and meets no other task
\* that is on its way.
LEMMA TaskInTurn ==
    ASSUME TypeOK, InTurn, NEW t \in Task, NEW to \in {"loading", "planning", "asking", "executing",
                                                       "reporting", "acking", "done"},
           stage[t] \notin {"none", "done"}, stage' = [stage EXCEPT ![t] = to],
           stage[t] = "acking" => to = "done",
           row' = "awaiting_confirmation" => row = "awaiting_confirmation" \/ to = "acking",
           ~shared => thread'[Gateway] = thread[Gateway],
           UNCHANGED <<client, faults, shared, reliable, request>>,
           Undisturbed /\ OneAtATime /\ Followed => Followed'
    PROVE  InTurn'
<1>1. stage'[t] = to /\ \A u \in Task : u # t => stage'[u] = stage[u]
  BY DEF TypeOK
<1>2. request = "accepted"
  BY DEF InTurn, NothingYet
<1>3. NothingYet'
  BY <1>2 DEF NothingYet
<1>4. AnyPosted' => AnyPosted
  BY <1>1, SubmitIsTask DEF AnyPosted
<1>5. GatewayApart'
  BY <1>4 DEF InTurn, GatewayApart
<1>6. ASSUME Undisturbed' PROVE OneAtATime' /\ Followed'
  <2>1. Undisturbed /\ OneAtATime /\ Followed
    BY <1>6 DEF InTurn, Undisturbed, Followed
  <2>2. \A u \in Task : Active(u)' => Active(u)
    BY <1>1 DEF Active
  <2>3. \A u, v \in Task : Active(u)' /\ Active(v)' => u = v
    BY <2>1, <2>2 DEF OneAtATime
  <2>4. row' = "awaiting_confirmation" \/ AnyPosted' => stage'[Submit] \in {"acking", "done"}
    <3>1. CASE t = Submit
      BY <1>1, <1>4, <2>1, <3>1 DEF OneAtATime
    <3>2. CASE t # Submit
      <4>1. AnyPosted
        BY <3>2 DEF AnyPosted, Confirms
      <4> QED  BY <1>1, <2>1, <3>2, <4>1, SubmitIsTask DEF OneAtATime
    <3> QED  BY <3>1, <3>2
  <2> QED  BY <2>1, <2>3, <2>4 DEF OneAtATime
<1> QED  BY <1>3, <1>5, <1>6 DEF InTurn, Followed

\* The tasks beside the one that runs have not begun to, or are through.
LEMMA OthersRest ==
    ASSUME OneAtATime, NEW t \in Task, stage[t] \notin {"none", "acking", "done"}
    PROVE  \A u \in Task : u # t => stage[u] \in {"none", "acking", "done"}
BY DEF OneAtATime, Active

\* The gateway sees the checkpoints of tasks that share its checkpointer, no other.
LEMMA CheckpointSeen ==
    ASSUME TypeOK, AtWork, NEW t \in Task, Running(t), NEW to, Checkpoint(t, to)
    PROVE  /\ shared => thread'[Gateway] = to
           /\ ~shared => thread'[Gateway] = thread[Gateway]
<1>1. worker[t] \in Worker /\ worker[t] # Gateway
  BY WorkerAssumption DEF AtWork
<1> QED  BY <1>1 DEF Checkpoint, Here, StoreOf, TypeOK, Stores

LEMMA InTurnStart ==
    ASSUME TypeOK, InTurn, NEW t \in Task, NEW w \in Worker, Start(t, w) PROVE InTurn'
<1>1. /\ stage[t] = "queued" /\ stage' = [stage EXCEPT ![t] = "loading"] /\ UpdateRow("running")
      /\ UNCHANGED <<client, faults, shared, reliable, request, question, outcome, answer, thread,
                     asked, consumed>>
      /\ DOMAIN stage = Task
  BY DEF Start, Step, graph, TypeOK
<1>2. stage'[t] = "loading" /\ \A u \in Task : u # t => stage'[u] = stage[u]
  BY <1>1
<1>3. row' \in {row, "running"} /\ (reliable => row' \in {"none", "running"})
  BY <1>1 DEF UpdateRow, SetRow
<1>4. ASSUME Undisturbed, OneAtATime, Followed PROVE Followed'
  <2>1. AnsweredLast' /\ CheckpointFollows' /\ TakenOnce'
    BY <1>1, <1>2, <1>4, SubmitIsTask DEF Followed, AnsweredLast, CheckpointFollows, TakenOnce, TypeOK
  <2>2. RowFollows'
    BY <1>1, <1>2, <1>3, <1>4 DEF Followed, RowFollows
  <2> QED  BY <2>1, <2>2 DEF Followed
<1> QED  BY <1>1, <1>3, <1>4, TaskInTurn

LEMMA InTurnInvoke ==
    ASSUME TypeOK, AtWork, InTurn, NEW t \in Task, Invoke(t) PROVE InTurn'
<1>1. /\ stage[t] = "loading" /\ stage' = [stage EXCEPT ![t] = "planning"]
      /\ Checkpoint(t, At("planning"))
      /\ UNCHANGED <<client, faults, shared, reliable, request, row, question, outcome, answer,
                     asked, consumed>>
      /\ DOMAIN stage = Task
  BY DEF Invoke, Step, TypeOK
<1>2. stage'[t] = "planning" /\ \A u \in Task : u # t => stage'[u] = stage[u]
  BY <1>1
<1>3. /\ shared => thread'[Gateway].at = "planning"
      /\ ~shared => thread'[Gateway] = thread[Gateway]
  BY <1>1, CheckpointSeen DEF Running, Outstanding, At
<1>4. ASSUME Undisturbed, OneAtATime, Followed PROVE Followed'
  <2>1. \A u \in Task : u # t => stage[u] \in {"none", "acking", "done"}
    BY <1>1, <1>4, OthersRest
  <2>2. AnsweredLast' /\ CheckpointFollows'
    BY <1>1, <1>2, <1>3, <1>4, <2>1, SubmitIsTask DEF Followed, AnsweredLast, CheckpointFollows
  <2>3. TakenOnce'
    BY <1>1, <1>2, <1>3, <1>4, SubmitIsTask DEF Followed, TakenOnce, TypeOK
  <2>4. RowFollows'
    BY <1>1, <1>2, <1>3, <1>4, <2>1 DEF Followed, RowFollows
  <2> QED  BY <2>2, <2>3, <2>4 DEF Followed
<1> QED  BY <1>1, <1>3, <1>4, TaskInTurn

LEMMA InTurnAsk ==
    ASSUME TypeOK, InTurn, NEW t \in Task, Ask(t) PROVE InTurn'
<1>1. /\ stage[t] = "planning" /\ stage' = [stage EXCEPT ![t] = "asking"]
      /\ asked' = asked + 1 /\ question' = [question EXCEPT ![t] = asked']
      /\ UNCHANGED <<client, faults, shared, reliable, request, row, outcome, answer, thread, consumed>>
      /\ DOMAIN stage = Task /\ DOMAIN question = Task /\ asked \in Nat
  BY DEF Ask, Step, TypeOK
<1>2. /\ stage'[t] = "asking" /\ question'[t] = asked'
      /\ \A u \in Task : u # t => stage'[u] = stage[u] /\ question'[u] = question[u]
  BY <1>1
<1>3. ASSUME Undisturbed, OneAtATime, Followed PROVE Followed'
  <2>1. \A u \in Task : u # t => stage[u] \in {"none", "acking", "done"}
    BY <1>1, <1>3, OthersRest
  <2>2. AnsweredLast' /\ CheckpointFollows'
    BY <1>1, <1>2, <1>3, <2>1, SubmitIsTask DEF Followed, AnsweredLast, CheckpointFollows
  <2>3. TakenOnce'
    <3>1. ASSUME NEW c \in consumed PROVE c[1] \in Task /\ c[2] # asked'
      BY <1>1, SubmitIsTask DEF TypeOK
    <3> QED  BY <1>1, <1>2, <1>3, <3>1 DEF Followed, TakenOnce
  <2>4. RowFollows'
    BY <1>1, <1>2, <1>3 DEF Followed, RowFollows
  <2> QED  BY <2>2, <2>3, <2>4 DEF Followed
<1> QED  BY <1>1, <1>3, TaskInTurn

LEMMA InTurnInterrupt ==
    ASSUME TypeOK, AtWork, InTurn, NEW t \in Task, Interrupt(t) PROVE InTurn'
<1>1. /\ stage[t] = "asking" /\ stage' = [stage EXCEPT ![t] = "reporting"]
      /\ Checkpoint(t, Asking(question[t]))
      /\ outcome' = [outcome EXCEPT ![t] = "awaiting_confirmation"]
      /\ UNCHANGED <<client, faults, shared, reliable, request, row, question, answer, asked, consumed>>
      /\ DOMAIN stage = Task /\ DOMAIN outcome = Task
  BY DEF Interrupt, Step, TypeOK
<1>2. /\ stage'[t] = "reporting" /\ outcome'[t] = "awaiting_confirmation"
      /\ \A u \in Task : u # t => stage'[u] = stage[u] /\ outcome'[u] = outcome[u]
  BY <1>1
<1>3. /\ shared => thread'[Gateway].at = "asking" /\ thread'[Gateway].question = question[t]
      /\ ~shared => thread'[Gateway] = thread[Gateway]
  BY <1>1, CheckpointSeen DEF Running, Outstanding, Asking
<1>4. ASSUME Undisturbed, OneAtATime, Followed PROVE Followed'
  <2>1. \A u \in Task : u # t => stage[u] \in {"none", "acking", "done"}
    BY <1>1, <1>4, OthersRest
  <2>2. AnsweredLast' /\ CheckpointFollows'
    BY <1>1, <1>2, <1>3, <1>4, <2>1, SubmitIsTask DEF Followed, AnsweredLast, CheckpointFollows
  <2>3. TakenOnce'
    <3>1. ASSUME NEW c \in consumed PROVE c[1] \in Task /\ c[2] # asked
      BY <1>1, <1>4, SubmitIsTask DEF Followed, TakenOnce, TypeOK
    <3> QED  BY <1>1, <1>2, <1>4, <3>1 DEF Followed, TakenOnce
  <2>4. RowFollows'
    BY <1>1, <1>2, <1>3, <1>4, <2>1 DEF Followed, RowFollows
  <2> QED  BY <2>2, <2>3, <2>4 DEF Followed
<1> QED  BY <1>1, <1>3, <1>4, TaskInTurn

LEMMA InTurnExecute ==
    ASSUME TypeOK, AtWork, InTurn, NEW t \in Task, Execute(t) PROVE InTurn'
<1>1. PICK to \in {"reporting", "planning"} :
        /\ stage' = [stage EXCEPT ![t] = to]
        /\ Checkpoint(t, At(IF to = "reporting" THEN "ended" ELSE "planning"))
        /\ to = "reporting" => outcome' = [outcome EXCEPT ![t] = "completed"]
        /\ to = "planning" => UNCHANGED outcome
  BY DEF Execute
<1>2. /\ stage[t] = "executing"
      /\ UNCHANGED <<client, faults, shared, reliable, request, row, question, answer, asked, consumed>>
      /\ DOMAIN stage = Task /\ DOMAIN outcome = Task
  BY DEF Execute, TypeOK
<1>3. /\ stage'[t] = to /\ (to = "reporting" => outcome'[t] = "completed")
      /\ \A u \in Task : u # t => stage'[u] = stage[u] /\ outcome'[u] = outcome[u]
  BY <1>1, <1>2
<1>4. /\ shared => thread'[Gateway].at = IF to = "reporting" THEN "ended" ELSE "planning"
      /\ ~shared => thread'[Gateway] = thread[Gateway]
  BY <1>1, <1>2, CheckpointSeen DEF Running, Outstanding, At
<1>5. ASSUME Undisturbed, OneAtATime, Followed PROVE Followed'
  <2>1. \A u \in Task : u # t => stage[u] \in {"none", "acking", "done"}
    BY <1>2, <1>5, OthersRest
  <2>2. AnsweredLast' /\ CheckpointFollows'
    BY <1>2, <1>3, <1>4, <1>5, <2>1, SubmitIsTask DEF Followed, AnsweredLast, CheckpointFollows
  <2>3. TakenOnce'
    BY <1>2, <1>3, <1>4, <1>5, SubmitIsTask DEF Followed, TakenOnce, TypeOK
  <2>4. RowFollows'
    BY <1>2, <1>3, <1>4, <1>5, <2>1 DEF Followed, RowFollows
  <2> QED  BY <2>2, <2>3, <2>4 DEF Followed
<1> QED  BY <1>1, <1>2, <1>4, <1>5, TaskInTurn

\* The answer is taken for the question it was given to: the last one, which the
\* shared checkpoint waits for.
LEMMA InTurnResume ==
    ASSUME TypeOK, AtWork, InTurn, NEW t \in Task, Resume(t) PROVE InTurn'
<1> DEFINE found == thread[Here(t)]
           node == NodeAfter(answer[t].decision)
<1>1. /\ t \in Confirms /\ stage[t] = "loading"
      /\ UNCHANGED <<client, faults, shared, reliable, request, row, question, answer, asked>>
      /\ DOMAIN stage = Task /\ DOMAIN outcome = Task
  BY DEF Resume, TypeOK
<1>2. shared
  BY <1>1 DEF InTurn, GatewayApart, AnyPosted
<1>3. found = thread[Gateway]
  BY <1>2 DEF Here, StoreOf
<1>4. node \in {"planning", "executing"}
  BY DEF NodeAfter
<1> HIDE DEF node
<1>5. CASE /\ found.at = "asking"
           /\ stage' = [stage EXCEPT ![t] = node]
           /\ Checkpoint(t, At(node))
           /\ consumed' = consumed \cup {<<t, found.question>>}
           /\ UNCHANGED outcome
  <2>1. stage'[t] = node /\ \A u \in Task : u # t => stage'[u] = stage[u]
    BY <1>1, <1>5
  <2>2. thread'[Gateway].at = node
    BY <1>1, <1>2, <1>5, CheckpointSeen DEF Running, Outstanding, At
  <2>3. ASSUME Undisturbed, OneAtATime, Followed PROVE Followed'
    <3>1. \A u \in Task : u # t => stage[u] \in {"none", "acking", "done"}
      BY <1>1, <2>3, OthersRest
    <3>2. AnsweredLast' /\ CheckpointFollows'
      BY <1>1, <1>4, <2>1, <2>2, <2>3, <3>1, SubmitIsTask DEF Followed, AnsweredLast, CheckpointFollows
    <3>3. found.question = asked /\ answer[t].question = asked
      BY <1>1, <1>2, <1>3, <1>5, <2>3 DEF Followed, CheckpointFollows, AnsweredLast
    <3>4. ASSUME NEW c \in consumed
          PROVE  c[1] \in Task /\ c[2] # asked /\ stage[c[1]] # "none" /\ answer[c[1]].question = c[2]
      BY <1>3, <1>5, <2>3, SubmitIsTask DEF Followed, TakenOnce, TypeOK
    <3>5. \A c \in consumed' : c \in consumed \/ c = <<t, asked>>
      BY <1>5, <3>3
    <3>6. TakenOnce'
      <4>1. ASSUME NEW c \in consumed'
            PROVE  stage'[c[1]] # "none" /\ answer[c[1]].question = c[2]
        BY <1>1, <1>4, <2>1, <3>3, <3>4, <3>5
      <4>2. thread'[Gateway].at # "asking" /\ \A u \in Task : stage'[u] # "asking"
        BY <1>4, <2>1, <2>2, <3>1
      <4>3. \A c, d \in consumed' : c[2] = d[2] => c = d
        BY <2>3, <3>4, <3>5 DEF Followed, TakenOnce
      <4> QED  BY <1>1, <4>1, <4>2, <4>3 DEF TakenOnce
    <3>7. RowFollows'
      BY <1>1, <1>2, <1>4, <2>1, <2>2, <2>3, <3>1 DEF Followed, RowFollows
    <3> QED  BY <3>2, <3>6, <3>7 DEF Followed
  <2>4. node \in {"planning", "executing"} /\ stage' = [stage EXCEPT ![t] = node]
    BY <1>4, <1>5
  <2> QED  BY <1>1, <1>2, <2>3, <2>4, TaskInTurn
<1>6. CASE /\ found.at \in {"planning", "executing"}
           /\ stage' = [stage EXCEPT ![t] = found.at]
           /\ UNCHANGED <<thread, outcome, consumed>>
  <2> DEFINE at == thread[Gateway].at
  <2>1. /\ stage'[t] = at /\ at \in {"planning", "executing"}
        /\ \A u \in Task : u # t => stage'[u] = stage[u]
    BY <1>1, <1>3, <1>6
  <2>2. ASSUME Undisturbed, OneAtATime, Followed PROVE Followed'
    <3>1. \A u \in Task : u # t => stage[u] \in {"none", "acking", "done"}
      BY <1>1, <2>2, OthersRest
    <3>2. AnsweredLast' /\ CheckpointFollows'
      BY <1>1, <1>6, <2>1, <2>2, <3>1, SubmitIsTask DEF Followed, AnsweredLast, CheckpointFollows
    <3>3. TakenOnce'
      BY <1>1, <1>6, <2>1, <2>2, SubmitIsTask DEF Followed, TakenOnce, TypeOK
    <3>4. RowFollows'
      BY <1>1, <1>2, <1>6, <2>1, <2>2, <3>1 DEF Followed, RowFollows
    <3> QED  BY <3>2, <3>3, <3>4 DEF Followed
  <2>3. stage' = [stage EXCEPT ![t] = at]
    BY <1>3, <1>6
  <2> HIDE DEF at
  <2> QED  BY <1>1, <1>2, <2>1, <2>2, <2>3, TaskInTurn
<1>7. CASE /\ stage' = [stage EXCEPT ![t] = "reporting"]
           /\ \/ found.at = "ended" /\ outcome' = [outcome EXCEPT ![t] = "completed"]
              \/ outcome' = [outcome EXCEPT ![t] = "failed"]
           /\ UNCHANGED <<thread, consumed>>
  <2>1. /\ stage'[t] = "reporting"
        /\ \/ thread[Gateway].at = "ended" /\ outcome'[t] = "completed"
           \/ outcome'[t] = "failed"
        /\ \A u \in Task : u # t => stage'[u] = stage[u] /\ outcome'[u] = outcome[u]
    BY <1>1, <1>3, <1>7
  <2>2. ASSUME Undisturbed, OneAtATime, Followed PROVE Followed'
    <3>1. AnsweredLast' /\ CheckpointFollows' /\ TakenOnce'
      BY <1>1, <1>7, <2>1, <2>2, SubmitIsTask
      DEF Followed, AnsweredLast, CheckpointFollows, TakenOnce, TypeOK
    <3>2. RowFollows'
      BY <1>1, <1>2, <1>7, <2>1, <2>2 DEF Followed, RowFollows
    <3> QED  BY <3>1, <3>2 DEF Followed
  <2> QED  BY <1>1, <1>2, <1>7, <2>2, TaskInTurn
<1> QED  BY <1>5, <1>6, <1>7 DEF Resume, Fails, node

LEMMA InTurnRaise == ASSUME TypeOK, InTurn, NEW t \in Task, Raise(t) PROVE InTurn'
<1>1. /\ stage[t] \in {"planning", "asking", "executing"}
      /\ stage' = [stage EXCEPT ![t] = "reporting"]
      /\ outcome' = [outcome EXCEPT ![t] = "failed"]
      /\ UNCHANGED <<client, faults, shared, reliable, request, row, question, answer, thread,
                     asked, consumed>>
      /\ DOMAIN stage = Task /\ DOMAIN outcome = Task
  BY DEF Raise, Fails, graph, TypeOK
<1>2. /\ stage'[t] = "reporting" /\ outcome'[t] = "failed"
      /\ \A u \in Task : u # t => stage'[u] = stage[u] /\ outcome'[u] = outcome[u]
  BY <1>1
<1>3. ASSUME Undisturbed, OneAtATime, Followed PROVE Followed'
  <2>1. AnsweredLast' /\ CheckpointFollows' /\ TakenOnce'
    BY <1>1, <1>2, <1>3, SubmitIsTask DEF Followed, AnsweredLast, CheckpointFollows, TakenOnce, TypeOK
  <2>2. RowFollows'
    BY <1>1, <1>2, <1>3 DEF Followed, RowFollows
  <2> QED  BY <2>1, <2>2 DEF Followed
<1> QED  BY <1>1, <1>3, TaskInTurn

LEMMA InTurnReport == ASSUME TypeOK, InTurn, NEW t \in Task, Report(t) PROVE InTurn'
<1>1. /\ stage[t] = "reporting" /\ stage' = [stage EXCEPT ![t] = "acking"] /\ UpdateRow(outcome[t])
      /\ UNCHANGED <<client, faults, shared, reliable, request, question, outcome, answer, thread,
                     asked, consumed>>
      /\ DOMAIN stage = Task
  BY DEF Report, Step, graph, TypeOK
<1>2. stage'[t] = "acking" /\ \A u \in Task : u # t => stage'[u] = stage[u]
  BY <1>1
<1>3. row' \in {row, outcome[t]} /\ (reliable => row' \in {"none", outcome[t]})
  BY <1>1 DEF UpdateRow, SetRow
<1>4. ASSUME Undisturbed, OneAtATime, Followed PROVE Followed'
  <2>1. \A u \in Task : u # t => stage[u] \in {"none", "acking", "done"}
    BY <1>1, <1>4, OthersRest
  <2>2. AnsweredLast' /\ CheckpointFollows' /\ TakenOnce'
    BY <1>1, <1>2, <1>4, SubmitIsTask DEF Followed, AnsweredLast, CheckpointFollows, TakenOnce, TypeOK
  <2>3. RowFollows'
    BY <1>1, <1>2, <1>3, <1>4, <2>1 DEF Followed, RowFollows
  <2> QED  BY <2>2, <2>3 DEF Followed
<1> QED  BY <1>1, <1>4, TaskInTurn

LEMMA InTurnAcknowledge == ASSUME TypeOK, InTurn, NEW t \in Task, Acknowledge(t) PROVE InTurn'
<1>1. /\ stage[t] = "acking" /\ stage' = [stage EXCEPT ![t] = "done"]
      /\ question' = [question EXCEPT ![t] = 0] /\ outcome' = [outcome EXCEPT ![t] = "none"]
      /\ UNCHANGED <<client, faults, shared, reliable, request, row, answer, thread, asked, consumed>>
      /\ DOMAIN stage = Task /\ DOMAIN outcome = Task /\ DOMAIN question = Task
  BY DEF Acknowledge, Step, graph, TypeOK
<1>2. /\ stage'[t] = "done"
      /\ \A u \in Task : u # t => /\ stage'[u] = stage[u] /\ outcome'[u] = outcome[u]
                                  /\ question'[u] = question[u]
  BY <1>1
<1>3. ASSUME Undisturbed, OneAtATime, Followed PROVE Followed'
  <2>1. AnsweredLast' /\ CheckpointFollows' /\ TakenOnce'
    BY <1>1, <1>2, <1>3, SubmitIsTask DEF Followed, AnsweredLast, CheckpointFollows, TakenOnce, TypeOK
  <2>2. RowFollows'
    BY <1>1, <1>2, <1>3 DEF Followed, RowFollows
  <2> QED  BY <2>1, <2>2 DEF Followed
<1> QED  BY <1>1, <1>3, TaskInTurn

\* A fault is where what is promised of a run without one ends.
LEMMA InTurnFault ==
    ASSUME TypeOK, InTurn, faults' = faults + 1, UNCHANGED <<shared, request, row>>,
           thread' = thread \/ \E w \in Worker : thread' = [thread EXCEPT ![w] = NoThread],
           \A t \in Task : stage'[t] = "none" <=> stage[t] = "none"
    PROVE  InTurn'
<1>1. ~Undisturbed'
  BY DEF Undisturbed, TypeOK
<1>2. NothingYet'
  BY DEF InTurn, NothingYet
<1>3. GatewayApart'
  <2>1. AnyPosted' => AnyPosted
    BY SubmitIsTask DEF AnyPosted
  <2>2. thread'[Gateway] = thread[Gateway]
    BY WorkerAssumption DEF TypeOK, Stores
  <2> QED  BY <2>1, <2>2 DEF InTurn, GatewayApart
<1> QED  BY <1>1, <1>2, <1>3 DEF InTurn

LEMMA InTurnNext == ASSUME TypeOK, AtWork, InTurn, [Next]_vars PROVE InTurn'
<1>1. CASE InsertRun
  BY <1>1, InTurnInsertRun
<1>2. CASE SubmitPlan
  BY <1>2, InTurnSubmitPlan
<1>3. CASE \E t \in Confirms, decision \in {"confirmed", "objection"} : ConfirmPlan(t, decision)
  BY <1>3, InTurnConfirmPlan
<1>4. ASSUME NEW t \in Task, Work(t) PROVE InTurn'
  BY <1>4, InTurnStart, InTurnInvoke, InTurnResume, InTurnAsk, InTurnInterrupt, InTurnExecute,
     InTurnRaise, InTurnReport, InTurnAcknowledge DEF Work
<1>5. ASSUME NEW t \in Task, TimeLimit(t) PROVE InTurn'
  <2>1. \A u \in Task : stage'[u] = "none" <=> stage[u] = "none"
    BY <1>5 DEF TimeLimit, Running, Outstanding, TypeOK
  <2> QED  BY <1>5, <2>1, InTurnFault DEF TimeLimit, graph
<1>6. ASSUME NEW w \in Worker, Crash(w) PROVE InTurn'
  <2>1. \A u \in Task : stage'[u] = "none" <=> stage[u] = "none"
    BY <1>6 DEF Crash, Running, Outstanding
  <2> QED  BY <1>6, <2>1, InTurnFault DEF Crash
<1>7. CASE UNCHANGED vars
  <2>1. UNCHANGED <<client, faults, shared, reliable, request, row, stage, question, outcome, answer,
                    thread, asked, consumed>>
    BY <1>7 DEF vars, tasks, graph
  <2> QED
    BY <2>1 DEF InTurn, NothingYet, GatewayApart, AnyPosted, Undisturbed, OneAtATime, Active,
       AnsweredLast, CheckpointFollows, TakenOnce, RowFollows
<1> QED  BY <1>1, <1>2, <1>3, <1>4, <1>5, <1>6, <1>7 DEF Next

\* The second inductive invariant.
THEOREM InTurnHolds == Spec => []InTurn
<1>1. Init => InTurn
  BY InTurnInit
<1>2. Invariant /\ InTurn /\ [Next]_vars => InTurn'
  BY InTurnNext DEF Invariant
<1> QED  BY <1>1, <1>2, InvariantHolds, PTL DEF Spec

\* With a client that polls /status and no fault, an answer is taken for the question
\* it was given to and no question takes two, however many answers are posted and
\* whether the processes share a checkpointer or not.
THEOREM AnswerMeetsItsQuestionHolds == Spec => []AnswerMeetsItsQuestion
<1>1. InTurn => AnswerMeetsItsQuestion
  BY DEF InTurn, Undisturbed, TakenOnce, AnswerMeetsItsQuestion
<1> QED  BY <1>1, InTurnHolds, PTL

\* ... and with a database that answers, plan_runs says what the checkpoint says once
\* no task is left.
THEOREM RowMatchesThreadHolds == Spec => []RowMatchesThread
<1>1. InTurn => RowMatchesThread
  BY DEF InTurn, Undisturbed, RowFollows, RowMatchesThread
<1> QED  BY <1>1, InTurnHolds, PTL
=============================================================================
