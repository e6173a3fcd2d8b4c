------------------------------ MODULE PlanGraph ------------------------------
(***************************************************************************)
(* One run of the planning graph of agent/graph.py: the node that runs     *)
(* next, the PlanState fields the routing functions read, and the bookings *)
(* the run leaves at the providers.  The 10-node graph (build_plan_graph)  *)
(* and the 6-node graph (build_single_agent_graph) share every node from   *)
(* the planner on, so one module models both: the 6-node graph enters at   *)
(* the planner.  A run stops at the consensus node (LangGraph's interrupt) *)
(* until the user's answer resumes it, and stops for good where a node     *)
(* raises: no node but the consensus node's answer parser catches anything.*)
(* What a draft is, and how it may change, is in PlanDrafts.  The slots    *)
(* the user locks are left out: nodes hand them on and none reads them.    *)
(***************************************************************************)
EXTENDS PlanDrafts, FiniteSets

CONSTANTS
    FallbackMaxRetry,  \* FALLBACK_MAX_RETRY
    MaxReplans         \* bound: how often the user objects in one run

ASSUME FallbackMaxRetryAssumption == FallbackMaxRetry \in Nat \ {0}
ASSUME MaxReplansAssumption == MaxReplans \in Nat

VARIABLES
    runtime,        \* how the process wired the engine: with a saga or without
    pc,             \* the node that runs next, "interrupt", "end", or "raised"
    status,         \* PlanState.status
    draft,          \* PlanState.draft
    confirmation,   \* PlanState.confirmation
    execution,      \* PlanState.execution: status, confirmed and failed slots
    repair,         \* PlanState.repair.revised_draft
    fallbackCount,  \* PlanState.fallback_count
    bookings,       \* acknowledged and not cancelled: attempt, slot and POI
    approved,       \* history: the draft on the screen at the last confirmation
    executions,     \* history: execution attempts so far
    replans         \* history: planner runs caused by an objection

vars == <<runtime, pc, status, draft, confirmation, execution,
          repair, fallbackCount, bookings, approved, executions, replans>>

-----------------------------------------------------------------------------
\* The draft the API shows: state_to_response prefers the repair's revision.
Shown == IF repair # NoDraft THEN repair ELSE draft

-----------------------------------------------------------------------------
(* Answers *)

Decisions == {"confirmed", "objection", "partial_change", "rejected", "unknown"}
ChangeDecisions == {"objection", "partial_change", "rejected"}
ConfirmationStatus == {"none", "pending", "confirmed", "partial_change", "rejected"}

\* Slot numbers are the client's: one past the longest draft stands for every
\* index out of range.
AnyIndex == 0 .. MaxSlots
Confirmation == [status : ConfirmationStatus, rejected : SUBSET AnyIndex, again : SUBSET SlotIndex]
NoConfirmation == [status |-> "none", rejected |-> {}, again |-> {}]
PendingConfirmation == [status |-> "pending", rejected |-> {}, again |-> {}]

\* The list of rejected slots may name one twice (`again`, kept where something is
\* replaced); slot_index is added to it only if it is not there.
ConfirmationFromResume(decision, slotIndex, rejected, again) ==
    [status   |-> CASE decision = "confirmed" -> "confirmed"
                    [] decision \in {"objection", "partial_change"} -> "partial_change"
                    [] OTHER -> "rejected",
     rejected |-> IF decision \in ChangeDecisions THEN rejected \cup slotIndex ELSE rejected,
     again    |-> IF decision = "confirmed" THEN {} ELSE again]

Objects(c) == c.status \in {"partial_change", "rejected"}

-----------------------------------------------------------------------------
(* Routing *)

\* Mutant: an answer that is not understood asks the same question again.
RouteFromConfirmationReasking(c) ==
    CASE c.status = "confirmed" -> "execution_engine"
      [] c.status = "rejected" -> "consensus_resolver"
      [] OTHER -> "planning_engine"

RouteFromConfirmation(c) ==
    IF c.status = "confirmed" THEN "execution_engine" ELSE "planning_engine"

\* Mutant: the last retry is never used.
RouteExecutionOneShort(exec) ==
    CASE exec.status \in {"none", "full_success"} -> "notify_engine"
      [] exec.status = "partial_success" /\ fallbackCount < FallbackMaxRetry - 1 -> "fallback_engine"
      [] OTHER -> "end"

\* An execution that returned no data has no status: route_execution takes
\* "full_success" for it.
RouteExecution(exec) ==
    CASE exec.status \in {"none", "full_success"} -> "notify_engine"
      [] exec.status = "partial_success" /\ fallbackCount < FallbackMaxRetry -> "fallback_engine"
      [] OTHER -> "end"

\* Mutant: the repaired draft is executed unseen.
RouteFallbackUnseen(count) == IF count < FallbackMaxRetry THEN "execution_engine" ELSE "end"

\* Mutant: the retries are counted and no longer limited.
RouteFallbackUnlimited(count) == IF count > 0 THEN "planning_engine" ELSE "end"

RouteFallback(count) == IF count < FallbackMaxRetry THEN "planning_engine" ELSE "end"

\* monitor_engine_node builds its engine without a context port, so there is
\* no critical alert and no trigger.
ReplanTriggered == FALSE
RouteMonitor == IF ReplanTriggered THEN "planning_engine" ELSE "end"

-----------------------------------------------------------------------------
(* Execution *)

ExecutionStatus == {"none", "full_success", "partial_success", "full_failure"}
NoExecution == [status |-> "none", confirmed |-> {}, failed |-> {}]

\* The status _execute_dag computes.
DagStatus(confirmed, failed) ==
    CASE failed = {} -> "full_success"
      [] failed # {} /\ confirmed # {} -> "partial_success"
      [] OTHER -> "full_failure"

DagResult(confirmed, failed) ==
    [status |-> DagStatus(confirmed, failed), confirmed |-> confirmed, failed |-> failed]

\* The bookings an attempt makes: one for each acknowledged slot of a physical tool.
Booked(attempt, confirmed) ==
    {[attempt |-> attempt, slot |-> i, poi |-> draft.slots[i].poi] :
        i \in {j \in confirmed : Physical(draft.slots[j].poi)}}

\* What compensation may leave of bookings: the saga reports the cancellations that
\* failed, the engine logs them, and their bookings stay.
Compensated(made) == {bookings \cup left : left \in SUBSET made}

\* With a saga, an execution with a failed slot is compensated.
BookingsAfter(confirmed, failed) ==
    IF runtime.saga /\ failed # {}
    THEN Compensated(Booked(executions + 1, confirmed))
    ELSE {bookings \cup Booked(executions + 1, confirmed)}

-----------------------------------------------------------------------------
Entry(single) == IF single THEN "planning_engine" ELSE "intent_parser"

Init ==
    /\ runtime \in [saga : BOOLEAN]
    /\ pc \in {Entry(single) : single \in BOOLEAN}
    /\ status = "idle"
    /\ draft = NoDraft
    /\ confirmation = NoConfirmation
    /\ execution = NoExecution
    /\ repair = NoDraft
    /\ fallbackCount = 0
    /\ bookings = {}
    /\ approved = NoDraft
    /\ executions = 0
    /\ replans = 0

\* The four nodes before the planner in the 10-node graph; two of them move
\* the status on.
Prepare(node, next, newStatus) ==
    /\ pc = node
    /\ pc' = next
    /\ status' = newStatus
    /\ UNCHANGED <<runtime, draft, confirmation, execution, repair,
                   fallbackCount, bookings, approved, executions, replans>>

IntentParser == Prepare("intent_parser", "context_loader", "drafting")
ContextLoader == Prepare("context_loader", "memory_manager", status)
MemoryManager == Prepare("memory_manager", "retrieval_engine", status)
RetrievalEngine == Prepare("retrieval_engine", "planning_engine", "planning")

\* The planner's three ways to a draft, in the order it tries them.
ChangesDraft ==
    /\ Objects(confirmation)
    /\ draft # NoDraft
    /\ Replaceable(draft, confirmation.rejected) # {}

\* Mutant: the replanned draft is not recorded as the repair.
ConfirmationReplanUnrecorded ==
    /\ ChangesDraft
    /\ draft' = Replanned(draft, confirmation.rejected, confirmation.again)
    /\ UNCHANGED repair

ConfirmationReplan ==
    /\ ChangesDraft
    /\ draft' = Replanned(draft, confirmation.rejected, confirmation.again)
    /\ repair' = draft'

FallbackRepair ==
    /\ ~ChangesDraft
    /\ repair # NoDraft
    /\ draft' = repair
    /\ UNCHANGED repair

FreshPlan ==
    /\ ~ChangesDraft
    /\ repair = NoDraft
    /\ draft' \in FreshDrafts
    /\ UNCHANGED repair

PlanningEngine ==
    /\ pc = "planning_engine"
    /\ ConfirmationReplan \/ FallbackRepair \/ FreshPlan
    /\ confirmation' = PendingConfirmation
    /\ status' = "confirming"
    /\ pc' = "consensus_resolver"
    /\ replans' = IF Objects(confirmation) THEN replans + 1 ELSE replans
    /\ UNCHANGED <<runtime, execution, fallbackCount, bookings,
                   approved, executions>>

\* consensus_resolver_node up to interrupt(): the run waits in the checkpointer.
ConsensusInterrupt ==
    /\ pc = "consensus_resolver"
    /\ pc' = "interrupt"
    /\ UNCHANGED <<runtime, status, draft, confirmation, execution, repair,
                   fallbackCount, bookings, approved, executions, replans>>

\* The rest of the node once the user answers, and route_consensus.
ConsensusResume(decision, slotIndex, rejected, again) ==
    LET answer == ConfirmationFromResume(decision, slotIndex, rejected, again) IN
    /\ pc = "interrupt"
    /\ Objects(answer) => replans < MaxReplans
    /\ confirmation' = answer
    /\ pc' = RouteFromConfirmation(answer)
    /\ approved' = IF answer.status = "confirmed" THEN Shown ELSE approved
    /\ UNCHANGED <<runtime, status, draft, execution, repair, fallbackCount,
                   bookings, executions, replans>>

\* A slot's call is acknowledged, fails, or neither: a "degraded" result or an
\* exception that gather() swallows is in neither set.
ExecutionEngine ==
    /\ pc = "execution_engine"
    /\ \E confirmed \in SUBSET DOMAIN draft.slots :
       \E failed \in SUBSET (DOMAIN draft.slots \ confirmed) :
        /\ execution' = DagResult(confirmed, failed)
        /\ bookings' \in BookingsAfter(confirmed, failed)
        /\ pc' = RouteExecution(DagResult(confirmed, failed))
    /\ status' = "executing"
    /\ executions' = executions + 1
    /\ UNCHANGED <<runtime, draft, confirmation, repair, fallbackCount,
                   approved, replans>>

\* A search may report no booking id: the None is no value of confirmed_bookings,
\* execute() raises once the calls are made and compensated, and the node does not
\* catch it.  The run stops there and the node's update is lost.
ExecutionRaises ==
    /\ pc = "execution_engine"
    /\ \E confirmed \in SUBSET DOMAIN draft.slots :
       \E failed \in SUBSET (DOMAIN draft.slots \ confirmed) :
        /\ \E i \in confirmed : ~Physical(draft.slots[i].poi)
        /\ bookings' \in BookingsAfter(confirmed, failed)
    /\ pc' = "raised"
    /\ executions' = executions + 1
    /\ UNCHANGED <<runtime, status, draft, confirmation, execution, repair,
                   fallbackCount, approved, replans>>

\* The safety pipeline alone can return without data: a lock is held by
\* another run, or the 10 s limit of the whole DAG passed and the saga
\* compensated.
ExecutionWithoutData ==
    /\ pc = "execution_engine"
    /\ runtime.saga
    /\ execution' = NoExecution
    /\ bookings' \in Compensated(Booked(executions + 1, DOMAIN draft.slots))
    /\ pc' = RouteExecution(NoExecution)
    /\ status' = "executing"
    /\ executions' = executions + 1
    /\ UNCHANGED <<runtime, draft, confirmation, repair, fallbackCount,
                   approved, replans>>

FallbackEngine ==
    /\ pc = "fallback_engine"
    /\ draft' \in FallbackRevisions(draft, execution.failed)
    /\ repair' = draft'
    /\ fallbackCount' = fallbackCount + 1
    /\ pc' = RouteFallback(fallbackCount + 1)
    /\ UNCHANGED <<runtime, status, confirmation, execution, bookings,
                   approved, executions, replans>>

NotifyEngine ==
    /\ pc = "notify_engine"
    /\ status' = "done"
    /\ pc' = "monitor_engine"
    /\ UNCHANGED <<runtime, draft, confirmation, execution, repair,
                   fallbackCount, bookings, approved, executions, replans>>

MonitorEngine ==
    /\ pc = "monitor_engine"
    /\ pc' = RouteMonitor
    /\ UNCHANGED <<runtime, status, draft, confirmation, execution, repair,
                   fallbackCount, bookings, approved, executions, replans>>

Resume ==
    \E decision \in Decisions, slotIndex \in {{}} \cup {{i} : i \in AnyIndex},
       rejected \in SUBSET AnyIndex :
        \E again \in SUBSET (rejected \cap DOMAIN draft.slots) :
            ConsensusResume(decision, slotIndex, rejected, again)

Node == \/ IntentParser \/ ContextLoader \/ MemoryManager \/ RetrievalEngine
        \/ PlanningEngine \/ ConsensusInterrupt
        \/ ExecutionEngine \/ ExecutionRaises \/ ExecutionWithoutData
        \/ FallbackEngine \/ NotifyEngine \/ MonitorEngine

Next == Node \/ Resume

\* ainvoke() runs node after node until the run is interrupted, ends or raises.
Spec == Init /\ [][Next]_vars /\ WF_vars(Node)

-----------------------------------------------------------------------------
(* Properties *)

PrePlanning == {"intent_parser", "context_loader", "memory_manager", "retrieval_engine"}
\* The nodes and routes of the six-node graph wrap those of the other under shorter
\* names; here they have the names of what they wrap.
Nodes == PrePlanning \cup
         {"planning_engine", "consensus_resolver", "interrupt", "execution_engine",
          "fallback_engine", "notify_engine", "monitor_engine", "end", "raised"}

Booking == [attempt : Nat \ {0}, slot : SlotIndex, poi : Poi]

\* Every field of PlanState holds a value of its type.
TypeOK ==
    /\ runtime \in [saga : BOOLEAN]
    /\ pc \in Nodes
    /\ status \in {"idle", "drafting", "planning", "confirming", "executing", "done"}
    /\ draft \in Draft
    /\ confirmation \in Confirmation
    /\ execution \in [status : ExecutionStatus, confirmed : SUBSET SlotIndex,
                      failed : SUBSET SlotIndex]
    /\ repair \in Draft
    /\ fallbackCount \in Nat
    /\ bookings \in SUBSET Booking
    /\ approved \in Draft
    /\ executions \in Nat
    /\ replans \in Nat

\* Whenever the user may look at the plan (state_to_response, which prefers
\* repair.revised_draft), it shows the draft the next node works on: the
\* correction kept in `repair` is never older than `draft`.
ShownIsCurrent == Shown = draft

\* The engine books only what the user saw when confirming last: after a
\* fallback or an objection no booking is made before a new confirmation.
OnlyApprovedIsBooked ==
    [][\A b \in bookings' \ bookings :
        /\ b.slot \in DOMAIN approved.slots
        /\ b.poi = approved.slots[b.slot].poi]_vars

\* The two conditional edges bound the loop execution -> fallback -> planner
\* together: a run never executes more often than FALLBACK_MAX_RETRY.
ExecutionsBounded == executions <= FallbackMaxRetry

\* A run ends for one of the two reasons the routing functions know: it is
\* DONE with no failed slot, or it failed beyond repair (nothing confirmed, or
\* the retries used up).
EndIsJustified ==
    pc = "end" =>
        \/ status = "done" /\ execution.failed = {}
        \/ /\ status = "executing"
           /\ \/ execution.status = "full_failure"
              \/ execution.status = "partial_success" /\ fallbackCount = FallbackMaxRetry

\* The inductive invariant behind ShownIsCurrent, ExecutionsBounded and the
\* contract: before an execution every attempt so far has had its fallback,
\* and the draft about to be executed is the one the user confirmed.
Confirming == PrePlanning \cup {"planning_engine", "consensus_resolver", "interrupt"}

Counting ==
    /\ fallbackCount <= FallbackMaxRetry
    /\ executions <= FallbackMaxRetry
    /\ pc \in Confirming \cup {"execution_engine"} =>
            fallbackCount < FallbackMaxRetry /\ executions = fallbackCount
    /\ pc = "fallback_engine" =>
            fallbackCount < FallbackMaxRetry /\ executions = fallbackCount + 1

ApprovedIsNext == pc = "execution_engine" => approved = draft

\* What is known of the last execution while the run winds up.
Outcome ==
    /\ pc = "fallback_engine" => status = "executing" /\ execution.status = "partial_success"
    /\ pc = "notify_engine" => execution.failed = {}
    /\ pc = "monitor_engine" => status = "done" /\ execution.failed = {}
    /\ EndIsJustified

Invariant == ShownIsCurrent /\ Counting /\ ApprovedIsNext /\ Outcome

\* A user who answers every question and stops objecting at some point
\* (MaxReplans) sees the run end, or an execution raise: no route leads round in
\* circles and no node waits for anything but the user.
AnsweredRunEnds == []<>(pc # "interrupt") => <>(pc \in {"end", "raised"})

\* How the state of the graph reads as a state of the contract.
Drafting == PrePlanning \cup {"planning_engine", "consensus_resolver"}

ContractPhase ==
    CASE pc \in Drafting -> "drafting"
      [] pc = "interrupt" -> "asking"
      [] pc = "execution_engine" -> "booking"
      [] pc = "fallback_engine" -> "repairing"
      [] pc \in {"notify_engine", "monitor_engine"} -> "done"
      [] pc = "raised" -> "stopped"
      [] pc = "end" -> IF status = "done" THEN "done" ELSE "stopped"

ContractProposal ==
    CASE pc \in Drafting -> NoDraft
      [] pc = "interrupt" -> Shown
      [] OTHER -> approved

ContractAttempts == IF pc = "execution_engine" THEN executions + 1 ELSE executions

\* The graph implements what the run promises.
Contract == INSTANCE PlanContract WITH
    Proposal <- Draft,
    NoProposal <- NoDraft,
    MaxAttempts <- FallbackMaxRetry,
    phase <- ContractPhase,
    proposal <- ContractProposal,
    attempts <- ContractAttempts
ContractSpec == Contract!Spec

-----------------------------------------------------------------------------
(* A statement of the repository that the code does not keep *)

\* docs/architecture/03-tool-orchestration.md:9-12: when one tool fails and there is an
\* alternative, the reservations that succeeded are kept and only the failed step is
\* replaced; so no slot is booked a second time while its booking stands.
NoDoubleBooking ==
    \A b, c \in bookings : b.slot = c.slot => b = c

=============================================================================
