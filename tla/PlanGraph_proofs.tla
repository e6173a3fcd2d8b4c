--------------------------- MODULE PlanGraph_proofs ---------------------------
(* Theorems about PlanGraph, for every catalogue, draft length and bound. *)
EXTENDS PlanGraph, WellFoundedInduction, TLAPS

-----------------------------------------------------------------------------
(* Drafts *)

\* CHOOSE in FirstOf denotes the least element: every non-empty set of
\* naturals has one.
LEMMA FirstOfIsLeast ==
    ASSUME NEW S \in SUBSET Nat, S # {}
    PROVE  FirstOf(S) \in S /\ \A q \in S : FirstOf(S) <= q
<1> DEFINE R == {ss \in Nat \X Nat : ss[1] < ss[2]}
<1>1. IsWellFoundedOn(R, Nat)
  BY NatLessThanWellFounded DEF OpToRel
<1>2. PICK p \in S : \A q \in S : ~(<<q, p>> \in R)
  BY <1>1, WFMin
<1>3. \A q \in S : p <= q
  <2> SUFFICES ASSUME NEW q \in S, ~(p <= q)
               PROVE  <<q, p>> \in R
    BY <1>2
  <2>1. <<q, p>> \in Nat \X Nat /\ q < p
    OBVIOUS
  <2> QED
    BY <2>1
<1> QED
  BY <1>3 DEF FirstOf

LEMMA AlternativesArePoi ==
    ASSUME NEW slot \in Slot
    PROVE  Alternatives(slot) \in SUBSET Poi
BY DEF Alternatives, SameKind, Slot, NoPoi

LEMMA DraftParts ==
    ASSUME NEW d \in Draft
    PROVE  /\ d.version \in Nat
           /\ DOMAIN d.slots \in SUBSET SlotIndex
           /\ d.slots \in [DOMAIN d.slots -> Slot]
<1>1. PICK n \in 0 .. MaxSlots : d.slots \in [0 .. (n - 1) -> Slot]
  BY DEF Draft
<1>2. DOMAIN d.slots = 0 .. (n - 1)
  BY <1>1
<1>3. 0 .. (n - 1) \in SUBSET SlotIndex
  BY MaxSlotsAssumption DEF SlotIndex
<1>4. d.version \in Nat
  BY DEF Draft
<1> QED
  BY <1>1, <1>2, <1>3, <1>4

\* A draft with other slots in the same places is a draft.
LEMMA DraftWithSlots ==
    ASSUME NEW d \in Draft, NEW v \in Nat, NEW s \in [DOMAIN d.slots -> Slot]
    PROVE  [version |-> v, slots |-> s] \in Draft
<1>1. PICK n \in 0 .. MaxSlots : d.slots \in [0 .. (n - 1) -> Slot]
  BY DEF Draft
<1>2. s \in [0 .. (n - 1) -> Slot]
  BY <1>1
<1> QED
  BY <1>2 DEF Draft

LEMMA NoDraftIsDraft == NoDraft \in Draft
<1>1. [i \in {} |-> NoPoi] \in [0 .. (0 - 1) -> Slot]
  OBVIOUS
<1>2. 0 \in 0 .. MaxSlots
  BY MaxSlotsAssumption
<1> QED
  BY <1>1, <1>2 DEF NoDraft, Draft

LEMMA FreshDraftsAreDrafts == FreshDrafts \subseteq Draft
<1>1. \A n \in 0 .. MaxSlots : FreshSlots(n) \subseteq [0 .. (n - 1) -> Slot]
  BY DEF FreshSlots
<1> QED
  BY <1>1 DEF FreshDrafts, Draft

\* A slot that could be replaced can be replaced again: by its shadow, or by the POI
\* it had.
LEMMA SubstitutedIsSlot ==
    ASSUME NEW slot \in Slot, Alternatives(slot) # {}
    PROVE  Substituted(slot) \in Slot /\ Alternatives(Substituted(slot)) # {}
<1> DEFINE p == FirstOf(Alternatives(slot))
<1>1. Alternatives(slot) \subseteq Nat
  BY AlternativesArePoi, NumPoiAssumption DEF Poi
<1>2. p \in Alternatives(slot) /\ p \in Poi
  BY <1>1, AlternativesArePoi, FirstOfIsLeast
<1> HIDE DEF p
<1>3. Substituted(slot) = [slot EXCEPT !.poi = p]
  BY DEF Substituted, p
<1>4. Substituted(slot) \in Slot /\ Substituted(slot).poi = p /\ Substituted(slot).shadow = slot.shadow
  BY <1>2, <1>3 DEF Slot
<1>5. CASE slot.shadow # NoPoi
  BY <1>4, <1>5 DEF Alternatives
<1>6. CASE slot.shadow = NoPoi
  <2>1. p \in SameKind(slot.poi)
    BY <1>2, <1>6 DEF Alternatives
  <2>2. slot.poi \in SameKind(p)
    BY <2>1 DEF SameKind, Slot
  <2> QED
    BY <1>4, <1>6, <2>2 DEF Alternatives
<1> QED
  BY <1>4, <1>5, <1>6

LEMMA ReplannedSlotIsSlot ==
    ASSUME NEW slot \in Slot, Alternatives(slot) # {}, NEW again
    PROVE  ReplannedSlot(slot, again) \in Slot
BY SubstitutedIsSlot DEF ReplannedSlot

LEMMA ReplannedIsDraft ==
    ASSUME NEW d \in Draft, NEW R, NEW again
    PROVE  Replanned(d, R, again) \in Draft
<1>1. \A i \in DOMAIN d.slots : d.slots[i] \in Slot
  BY DraftParts
<1>2. \A i \in Replaceable(d, R) :
        i \in DOMAIN d.slots /\ ReplannedSlot(d.slots[i], i \in again) \in Slot
  BY <1>1, ReplannedSlotIsSlot DEF Replaceable
<1>3. ReplannedSlots(d, R, again) \in [DOMAIN d.slots -> Slot]
  BY <1>1, <1>2 DEF ReplannedSlots
<1> QED
  BY <1>3, DraftParts, DraftWithSlots DEF Replanned

LEMMA FallbackRevisionsAreDrafts ==
    ASSUME NEW d \in Draft, NEW F
    PROVE  FallbackRevisions(d, F) \subseteq Draft
BY DraftParts, DraftWithSlots DEF FallbackRevisions, RevisedSlots

-----------------------------------------------------------------------------
(* Types *)

LEMMA TypeInit == Init => TypeOK
<1>1. {} \in SUBSET AnyIndex /\ {} \in SUBSET SlotIndex /\ {} \in SUBSET Booking
  OBVIOUS
<1> QED
  BY <1>1, NoDraftIsDraft
  DEF Init, TypeOK, Entry, Nodes, PrePlanning, Confirmation, NoConfirmation,
      ConfirmationStatus, NoExecution, ExecutionStatus

LEMMA TypePrepare ==
    ASSUME TypeOK, NEW node, NEW next \in Nodes,
           NEW newStatus \in {"idle", "drafting", "planning", "confirming", "executing", "done"},
           Prepare(node, next, newStatus)
    PROVE  TypeOK'
BY DEF TypeOK, Prepare

LEMMA TypePlanningEngine ==
    ASSUME TypeOK, PlanningEngine
    PROVE  TypeOK'
<1>1. draft' \in Draft /\ repair' \in Draft
  <2>1. CASE ConfirmationReplan
    BY <2>1, ReplannedIsDraft DEF TypeOK, ConfirmationReplan
  <2>2. CASE FallbackRepair
    BY <2>2 DEF TypeOK, FallbackRepair
  <2>3. CASE FreshPlan
    BY <2>3, FreshDraftsAreDrafts DEF TypeOK, FreshPlan
  <2> QED
    BY <2>1, <2>2, <2>3 DEF PlanningEngine
<1>2. PendingConfirmation \in Confirmation
  BY DEF PendingConfirmation, Confirmation, ConfirmationStatus
<1>3. replans' \in Nat
  BY DEF PlanningEngine, TypeOK
<1> QED
  BY <1>1, <1>2, <1>3 DEF PlanningEngine, TypeOK, Nodes

LEMMA ConfirmationFromResumeType ==
    ASSUME NEW decision, NEW slotIndex \in SUBSET AnyIndex, NEW rejected \in SUBSET AnyIndex,
           NEW again \in SUBSET SlotIndex
    PROVE  ConfirmationFromResume(decision, slotIndex, rejected, again) \in Confirmation
BY DEF ConfirmationFromResume, Confirmation, ConfirmationStatus

LEMMA TypeResume ==
    ASSUME TypeOK, Resume
    PROVE  TypeOK'
<1>1. PICK decision \in Decisions, slotIndex \in {{}} \cup {{i} : i \in AnyIndex},
           rejected \in SUBSET AnyIndex,
           again \in SUBSET SlotIndex :
        ConsensusResume(decision, slotIndex, rejected, again)
  <2>1. DOMAIN draft.slots \subseteq SlotIndex
    BY DraftParts DEF TypeOK
  <2> QED
    BY <2>1 DEF Resume
<1>2. ConfirmationFromResume(decision, slotIndex, rejected, again) \in Confirmation
  BY ConfirmationFromResumeType
<1>3. approved' \in Draft
  BY <1>1 DEF ConsensusResume, TypeOK, Shown
<1>4. pc' \in Nodes
  BY <1>1 DEF ConsensusResume, RouteFromConfirmation, Nodes
<1> QED
  BY <1>1, <1>2, <1>3, <1>4 DEF ConsensusResume, TypeOK

LEMMA BookedType ==
    ASSUME TypeOK, NEW attempt \in Nat \ {0}, NEW confirmed \in SUBSET DOMAIN draft.slots
    PROVE  Booked(attempt, confirmed) \subseteq Booking
<1>1. \A i \in confirmed : i \in SlotIndex /\ draft.slots[i].poi \in Poi
  BY DraftParts DEF TypeOK, Slot
<1> QED
  BY <1>1 DEF Booked, Booking

LEMMA RouteExecutionType ==
    ASSUME NEW exec
    PROVE  RouteExecution(exec) \in {"notify_engine", "fallback_engine", "end"}
BY DEF RouteExecution

LEMMA TypeExecutionEngine ==
    ASSUME TypeOK, ExecutionEngine
    PROVE  TypeOK'
<1>1. PICK confirmed \in SUBSET DOMAIN draft.slots, failed \in SUBSET DOMAIN draft.slots :
        /\ execution' = DagResult(confirmed, failed)
        /\ bookings' \in BookingsAfter(confirmed, failed)
        /\ pc' = RouteExecution(DagResult(confirmed, failed))
  BY DEF ExecutionEngine
<1>2. DOMAIN draft.slots \in SUBSET SlotIndex
  BY DraftParts DEF TypeOK
<1>3. DagStatus(confirmed, failed) \in ExecutionStatus
  BY DEF DagStatus, ExecutionStatus
<1>4. execution' \in [status : ExecutionStatus, confirmed : SUBSET SlotIndex,
                      failed : SUBSET SlotIndex]
  BY <1>1, <1>2, <1>3 DEF DagResult
<1>5. executions' \in Nat \ {0}
  BY DEF ExecutionEngine, TypeOK
<1>6. bookings' \subseteq Booking
  BY <1>1, <1>5, BookedType DEF BookingsAfter, Compensated, TypeOK, ExecutionEngine
<1>7. pc' \in Nodes
  BY <1>1, RouteExecutionType DEF Nodes
<1> QED
  BY <1>4, <1>5, <1>6, <1>7 DEF ExecutionEngine, TypeOK

LEMMA TypeExecutionRaises ==
    ASSUME TypeOK, ExecutionRaises
    PROVE  TypeOK'
<1>1. PICK confirmed \in SUBSET DOMAIN draft.slots, failed \in SUBSET DOMAIN draft.slots :
        bookings' \in BookingsAfter(confirmed, failed)
  BY DEF ExecutionRaises
<1>2. executions' \in Nat \ {0} /\ executions' = executions + 1
  BY DEF ExecutionRaises, TypeOK
<1>3. bookings' \subseteq Booking
  BY <1>1, <1>2, BookedType DEF BookingsAfter, Compensated, TypeOK
<1>4. "raised" \in Nodes
  BY DEF Nodes
<1> QED
  BY <1>2, <1>3, <1>4 DEF ExecutionRaises, TypeOK

LEMMA TypeExecutionWithoutData ==
    ASSUME TypeOK, ExecutionWithoutData
    PROVE  TypeOK'
<1>1. NoExecution \in [status : ExecutionStatus, confirmed : SUBSET SlotIndex,
                       failed : SUBSET SlotIndex]
  BY DEF NoExecution, ExecutionStatus
<1>2. pc' \in Nodes
  BY RouteExecutionType DEF ExecutionWithoutData, Nodes
<1>3. executions' \in Nat \ {0} /\ executions' = executions + 1
  BY DEF ExecutionWithoutData, TypeOK
<1>4. bookings' \subseteq Booking
  BY <1>3, BookedType DEF ExecutionWithoutData, Compensated, TypeOK
<1> QED
  BY <1>1, <1>2, <1>3, <1>4 DEF ExecutionWithoutData, TypeOK

LEMMA TypeFallbackEngine ==
    ASSUME TypeOK, FallbackEngine
    PROVE  TypeOK'
<1>1. draft' \in Draft
  BY FallbackRevisionsAreDrafts DEF FallbackEngine, TypeOK
<1>2. pc' \in Nodes
  BY DEF FallbackEngine, RouteFallback, Nodes
<1> QED
  BY <1>1, <1>2 DEF FallbackEngine, TypeOK

\* Every step keeps every field of PlanState within its type.
LEMMA TypeNext ==
    ASSUME TypeOK, Next
    PROVE  TypeOK'
<1>1. CASE IntentParser
  BY <1>1, TypePrepare DEF IntentParser, Nodes, PrePlanning
<1>2. CASE ContextLoader
  <2>1. status \in {"idle", "drafting", "planning", "confirming", "executing", "done"}
    BY DEF TypeOK
  <2> QED
    BY <1>2, <2>1, TypePrepare DEF ContextLoader, Nodes, PrePlanning
<1>3. CASE MemoryManager
  <2>1. status \in {"idle", "drafting", "planning", "confirming", "executing", "done"}
    BY DEF TypeOK
  <2> QED
    BY <1>3, <2>1, TypePrepare DEF MemoryManager, Nodes, PrePlanning
<1>4. CASE RetrievalEngine
  BY <1>4, TypePrepare DEF RetrievalEngine, Nodes
<1>5. CASE ConsensusInterrupt
  BY <1>5 DEF ConsensusInterrupt, TypeOK, Nodes
<1>6. CASE NotifyEngine
  BY <1>6 DEF NotifyEngine, TypeOK, Nodes
<1>7. CASE MonitorEngine
  BY <1>7 DEF MonitorEngine, RouteMonitor, TypeOK, Nodes
<1> QED
  BY <1>1, <1>2, <1>3, <1>4, <1>5, <1>6, <1>7, TypePlanningEngine, TypeResume,
     TypeExecutionEngine, TypeExecutionRaises, TypeExecutionWithoutData, TypeFallbackEngine
  DEF Next, Node

\* PlanState is well typed in every reachable state of every run.
THEOREM TypeCorrect == Spec => []TypeOK
<1>1. TypeOK /\ [Next]_vars => TypeOK'
  <2>1. CASE UNCHANGED vars
    BY <2>1 DEF vars, TypeOK
  <2> QED
    BY <2>1, TypeNext
<1> QED
  BY <1>1, TypeInit, PTL DEF Spec

-----------------------------------------------------------------------------
(* The retry bound, and consent *)

LEMMA InvariantInit == Init => Invariant
<1> SUFFICES ASSUME Init
             PROVE  Invariant
  OBVIOUS
<1>1. Counting
  BY FallbackMaxRetryAssumption DEF Init, Counting, Confirming, PrePlanning, Entry
<1> QED
  BY <1>1 DEF Init, Invariant, ShownIsCurrent, Shown, ApprovedIsNext, Entry, Outcome,
              EndIsJustified

LEMMA CountingNext ==
    ASSUME TypeOK, Counting, Next
    PROVE  Counting'
<1> USE FallbackMaxRetryAssumption
<1>1. CASE IntentParser \/ ContextLoader \/ MemoryManager \/ RetrievalEngine
  BY <1>1 DEF IntentParser, ContextLoader, MemoryManager, RetrievalEngine, Prepare,
              Counting, Confirming, PrePlanning
<1>2. CASE PlanningEngine \/ ConsensusInterrupt
  BY <1>2 DEF PlanningEngine, ConsensusInterrupt, Counting, Confirming, PrePlanning
<1>3. CASE Resume
  BY <1>3 DEF Resume, ConsensusResume, RouteFromConfirmation, Counting, Confirming, PrePlanning
<1>4. CASE ExecutionEngine \/ ExecutionWithoutData
  <2>1. PICK exec : pc' = RouteExecution(exec)
    BY <1>4 DEF ExecutionEngine, ExecutionWithoutData
  <2>2. /\ pc = "execution_engine"
        /\ executions' = executions + 1
        /\ fallbackCount' = fallbackCount
    BY <1>4 DEF ExecutionEngine, ExecutionWithoutData
  <2>3. fallbackCount < FallbackMaxRetry /\ executions = fallbackCount
    BY <2>2 DEF Counting
  <2>4. pc' \in {"notify_engine", "fallback_engine", "end"}
    BY <2>1, RouteExecutionType
  <2> QED
    BY <2>2, <2>3, <2>4 DEF TypeOK, Counting, Confirming, PrePlanning
<1>5. CASE FallbackEngine
  <2>1. /\ fallbackCount' = fallbackCount + 1
        /\ executions' = executions
        /\ pc' = IF fallbackCount + 1 < FallbackMaxRetry THEN "planning_engine" ELSE "end"
        /\ fallbackCount < FallbackMaxRetry
        /\ executions = fallbackCount + 1
    BY <1>5 DEF FallbackEngine, RouteFallback, Counting
  <2> QED
    BY <2>1 DEF TypeOK, Counting, Confirming, PrePlanning
<1>6. CASE NotifyEngine \/ MonitorEngine
  BY <1>6 DEF NotifyEngine, MonitorEngine, RouteMonitor, ReplanTriggered, Counting,
              Confirming, PrePlanning
<1>7. CASE ExecutionRaises
  BY <1>7 DEF ExecutionRaises, TypeOK, Counting, Confirming, PrePlanning
<1> QED
  BY <1>1, <1>2, <1>3, <1>4, <1>5, <1>6, <1>7 DEF Next, Node

\* Whoever changes the draft once it has been shown changes the repair with it.
LEMMA ShownIsCurrentNext ==
    ASSUME TypeOK, ShownIsCurrent, Next
    PROVE  ShownIsCurrent'
<1>1. CASE PlanningEngine
  BY <1>1 DEF PlanningEngine, ConfirmationReplan, FallbackRepair, FreshPlan,
              ShownIsCurrent, Shown
<1>2. CASE FallbackEngine
  BY <1>2 DEF FallbackEngine, ShownIsCurrent, Shown
<1>3. ~(PlanningEngine \/ FallbackEngine) => UNCHANGED <<draft, repair>>
  BY DEF Next, Node, IntentParser, ContextLoader, MemoryManager, RetrievalEngine, Prepare,
         ConsensusInterrupt, Resume, ConsensusResume, ExecutionEngine, ExecutionRaises,
         ExecutionWithoutData, NotifyEngine, MonitorEngine
<1> QED
  BY <1>1, <1>2, <1>3 DEF ShownIsCurrent, Shown

LEMMA ApprovedIsNextNext ==
    ASSUME ShownIsCurrent, ApprovedIsNext, Next
    PROVE  ApprovedIsNext'
<1>1. CASE Resume
  <2>1. PICK answer : /\ pc' = RouteFromConfirmation(answer)
                      /\ approved' = IF answer.status = "confirmed" THEN Shown ELSE approved
                      /\ draft' = draft
    BY <1>1 DEF Resume, ConsensusResume
  <2> QED
    BY <2>1 DEF RouteFromConfirmation, ShownIsCurrent, ApprovedIsNext
<1>2. CASE ExecutionEngine \/ ExecutionWithoutData
  <2>1. PICK exec : pc' = RouteExecution(exec)
    BY <1>2 DEF ExecutionEngine, ExecutionWithoutData
  <2> QED
    BY <2>1, RouteExecutionType DEF ApprovedIsNext
<1>3. CASE Node /\ ~ExecutionEngine /\ ~ExecutionWithoutData
  BY <1>3 DEF Node, IntentParser, ContextLoader, MemoryManager, RetrievalEngine, Prepare,
              PlanningEngine, ConsensusInterrupt, ExecutionRaises, FallbackEngine, RouteFallback,
              NotifyEngine, MonitorEngine, RouteMonitor, ReplanTriggered, ApprovedIsNext
<1> QED
  BY <1>1, <1>2, <1>3 DEF Next

\* No failed slot reaches the notification, and the two dead ends are the
\* ones route_execution and route_fallback name.
LEMMA OutcomeNext ==
    ASSUME TypeOK, Counting, Outcome, Next
    PROVE  Outcome'
<1>1. CASE ExecutionEngine
  <2>1. PICK confirmed, failed : /\ execution' = DagResult(confirmed, failed)
                                 /\ pc' = RouteExecution(DagResult(confirmed, failed))
    BY <1>1 DEF ExecutionEngine
  <2>2. status' = "executing"
    BY <1>1 DEF ExecutionEngine
  <2>3. /\ execution'.failed = failed
        /\ execution'.status = DagStatus(confirmed, failed)
        /\ pc' = RouteExecution(execution')
    BY <2>1 DEF DagResult
  <2>4. fallbackCount < FallbackMaxRetry
    BY <1>1 DEF ExecutionEngine, Counting
  <2>5. CASE failed = {}
    <3>1. execution'.status = "full_success"
      BY <2>3, <2>5 DEF DagStatus
    <3> QED
      BY <2>3, <2>5, <3>1 DEF RouteExecution, Outcome, EndIsJustified
  <2>6. CASE failed # {} /\ confirmed # {}
    <3>1. execution'.status = "partial_success"
      BY <2>3, <2>6 DEF DagStatus
    <3> QED
      BY <2>2, <2>3, <2>4, <3>1 DEF RouteExecution, Outcome, EndIsJustified
  <2>7. CASE failed # {} /\ confirmed = {}
    <3>1. execution'.status = "full_failure"
      BY <2>3, <2>7 DEF DagStatus
    <3> QED
      BY <2>2, <2>3, <3>1 DEF RouteExecution, Outcome, EndIsJustified
  <2> QED
    BY <2>5, <2>6, <2>7
<1>2. CASE ExecutionWithoutData
  BY <1>2 DEF ExecutionWithoutData, RouteExecution, NoExecution, Outcome, EndIsJustified
<1>3. CASE FallbackEngine
  <2>1. /\ fallbackCount' = fallbackCount + 1
        /\ pc' = IF fallbackCount + 1 < FallbackMaxRetry THEN "planning_engine" ELSE "end"
        /\ UNCHANGED <<status, execution>>
        /\ fallbackCount < FallbackMaxRetry
        /\ status = "executing" /\ execution.status = "partial_success"
    BY <1>3 DEF FallbackEngine, RouteFallback, Counting, Outcome
  <2>2. pc' = "end" => fallbackCount' = FallbackMaxRetry
    BY <2>1, FallbackMaxRetryAssumption DEF TypeOK
  <2> QED
    BY <2>1, <2>2 DEF Outcome, EndIsJustified
<1>4. CASE NotifyEngine \/ MonitorEngine
  BY <1>4 DEF NotifyEngine, MonitorEngine, RouteMonitor, ReplanTriggered, Outcome,
              EndIsJustified
<1>5. CASE Resume
  BY <1>5 DEF Resume, ConsensusResume, RouteFromConfirmation, Outcome, EndIsJustified
<1>6. CASE IntentParser \/ ContextLoader \/ MemoryManager \/ RetrievalEngine
           \/ PlanningEngine \/ ConsensusInterrupt \/ ExecutionRaises
  BY <1>6 DEF IntentParser, ContextLoader, MemoryManager, RetrievalEngine, Prepare,
              PlanningEngine, ConsensusInterrupt, ExecutionRaises, Outcome, EndIsJustified
<1> QED
  BY <1>1, <1>2, <1>3, <1>4, <1>5, <1>6 DEF Next, Node

LEMMA InvariantNext ==
    ASSUME TypeOK, Invariant, [Next]_vars
    PROVE  Invariant'
<1>1. CASE UNCHANGED vars
  BY <1>1 DEF vars, Invariant, ShownIsCurrent, Shown, Counting, ApprovedIsNext, Outcome,
              EndIsJustified
<1>2. CASE Next
  BY <1>2, CountingNext, ShownIsCurrentNext, ApprovedIsNextNext, OutcomeNext DEF Invariant
<1> QED
  BY <1>1, <1>2

\* The inductive invariant: the draft shown, the counter of attempts, the draft
\* approved and the outcome of the last execution fit the node that runs next.
THEOREM InvariantHolds == Spec => []Invariant
BY TypeCorrect, InvariantInit, InvariantNext, PTL DEF Spec

\* state_to_response always shows the draft the graph works on: the revision
\* kept in `repair` never lags behind `draft`.
THEOREM ShownIsCurrentHolds == Spec => []ShownIsCurrent
<1>1. Invariant => ShownIsCurrent
  BY DEF Invariant
<1> QED
  BY <1>1, InvariantHolds, PTL

\* A run never executes more often than FALLBACK_MAX_RETRY, whatever the
\* answers of the user and of the providers.
THEOREM ExecutionsBoundedHolds == Spec => []ExecutionsBounded
<1>1. Invariant => ExecutionsBounded
  BY DEF Invariant, Counting, ExecutionsBounded
<1> QED
  BY <1>1, InvariantHolds, PTL

\* What the engine books is what the user saw when confirming last.
THEOREM OnlyApprovedIsBookedHolds == Spec => OnlyApprovedIsBooked
<1> DEFINE Consent == \A b \in bookings' \ bookings :
                        /\ b.slot \in DOMAIN approved.slots
                        /\ b.poi = approved.slots[b.slot].poi
<1>1. Invariant /\ [Next]_vars => [Consent]_vars
  <2> SUFFICES ASSUME Invariant, Next, NEW b \in bookings' \ bookings
               PROVE  /\ b.slot \in DOMAIN approved.slots
                      /\ b.poi = approved.slots[b.slot].poi
    BY DEF Consent
  <2>1. ~(ExecutionEngine \/ ExecutionRaises \/ ExecutionWithoutData) => bookings' = bookings
    BY DEF Next, Node, IntentParser, ContextLoader, MemoryManager, RetrievalEngine, Prepare,
           PlanningEngine, ConsensusInterrupt, Resume, ConsensusResume,
           FallbackEngine, NotifyEngine, MonitorEngine
  <2>2. pc = "execution_engine"
    BY <2>1 DEF ExecutionEngine, ExecutionRaises, ExecutionWithoutData
  <2>3. approved = draft
    BY <2>2 DEF Invariant, ApprovedIsNext
  <2>4. PICK acknowledged \in SUBSET DOMAIN draft.slots :
            b \in Booked(executions + 1, acknowledged)
    <3>1. CASE ExecutionEngine \/ ExecutionRaises
      <4>1. PICK confirmed \in SUBSET DOMAIN draft.slots, failed \in SUBSET DOMAIN draft.slots :
                bookings' \in BookingsAfter(confirmed, failed)
        BY <3>1 DEF ExecutionEngine, ExecutionRaises
      <4> QED
        BY <4>1 DEF BookingsAfter, Compensated
    <3>2. CASE ExecutionWithoutData
      BY <3>2 DEF ExecutionWithoutData, Compensated
    <3> QED
      BY <2>1, <3>1, <3>2
  <2> QED
    BY <2>3, <2>4 DEF Booked
<1> QED
  BY <1>1, InvariantHolds, PTL DEF Spec, OnlyApprovedIsBooked

\* A run ends DONE without a failed slot, or beyond repair.
THEOREM EndIsJustifiedHolds == Spec => []EndIsJustified
<1>1. Invariant => EndIsJustified
  BY DEF Invariant, Outcome
<1> QED
  BY <1>1, InvariantHolds, PTL

-----------------------------------------------------------------------------
(* The contract *)

LEMMA ContractInit == Init => Contract!Init
BY DEF Init, Contract!Init, Entry, Drafting, PrePlanning, ContractPhase, ContractProposal,
       ContractAttempts

LEMMA ContractNext ==
    ASSUME TypeOK, Invariant, [Next]_vars
    PROVE  [Contract!Next]_Contract!vars
<1> USE DEF Drafting, PrePlanning, ContractPhase, ContractProposal, ContractAttempts
<1>1. CASE UNCHANGED vars
  <2>1. ContractPhase' = ContractPhase
    BY <1>1 DEF vars
  <2>2. ContractProposal' = ContractProposal
    BY <1>1 DEF vars, Shown
  <2>3. ContractAttempts' = ContractAttempts
    BY <1>1 DEF vars
  <2> HIDE DEF ContractPhase, ContractProposal, ContractAttempts
  <2> QED
    BY <2>1, <2>2, <2>3 DEF Contract!vars
<1>2. CASE IntentParser \/ ContextLoader \/ MemoryManager \/ RetrievalEngine \/ PlanningEngine
  <2>1. pc \in Drafting /\ pc' \in Drafting /\ executions' = executions
    BY <1>2 DEF IntentParser, ContextLoader, MemoryManager, RetrievalEngine, Prepare,
                PlanningEngine
  <2>2. ContractPhase' = ContractPhase
    BY <2>1
  <2>3. ContractProposal' = ContractProposal
    BY <2>1
  <2>4. ContractAttempts' = ContractAttempts
    BY <2>1
  <2> HIDE DEF ContractPhase, ContractProposal, ContractAttempts
  <2> QED
    BY <2>2, <2>3, <2>4 DEF Contract!vars
<1>3. CASE ConsensusInterrupt
  <2>1. ContractPhase = "drafting" /\ ContractPhase' = "asking"
    BY <1>3 DEF ConsensusInterrupt
  <2>2. ContractProposal' \in Draft
    BY <1>3 DEF ConsensusInterrupt, Shown, TypeOK
  <2>3. ContractAttempts' = ContractAttempts
    BY <1>3 DEF ConsensusInterrupt
  <2> HIDE DEF ContractPhase, ContractProposal, ContractAttempts
  <2> QED
    BY <2>1, <2>2, <2>3 DEF Contract!Ask, Contract!Next
<1>4. CASE Resume
  <2>1. PICK answer : /\ pc = "interrupt"
                      /\ pc' = RouteFromConfirmation(answer)
                      /\ approved' = IF answer.status = "confirmed" THEN Shown ELSE approved
                      /\ executions' = executions
    BY <1>4 DEF Resume, ConsensusResume
  <2>2. executions < FallbackMaxRetry
    BY <2>1 DEF Invariant, Counting, Confirming
  <2>3. CASE answer.status = "confirmed"
    <3>1. pc' = "execution_engine" /\ approved' = Shown
      BY <2>1, <2>3 DEF RouteFromConfirmation
    <3>2. ContractPhase = "asking" /\ ContractPhase' = "booking"
      BY <2>1, <3>1
    <3>3. ContractProposal' = ContractProposal
      BY <2>1, <3>1
    <3>4. ContractAttempts < FallbackMaxRetry /\ ContractAttempts' = ContractAttempts + 1
      BY <2>1, <2>2, <3>1
    <3> HIDE DEF ContractPhase, ContractProposal, ContractAttempts
    <3> QED
      BY <3>2, <3>3, <3>4 DEF Contract!Accept, Contract!Next
  <2>4. CASE answer.status # "confirmed"
    <3>1. pc' = "planning_engine"
      BY <2>1, <2>4 DEF RouteFromConfirmation
    <3>2. ContractPhase = "asking" /\ ContractPhase' = "drafting"
      BY <2>1, <3>1
    <3>3. ContractProposal' = NoDraft
      BY <3>1
    <3>4. ContractAttempts' = ContractAttempts
      BY <2>1, <3>1
    <3> HIDE DEF ContractPhase, ContractProposal, ContractAttempts
    <3> QED
      BY <3>2, <3>3, <3>4 DEF Contract!Object, Contract!Next
  <2> QED
    BY <2>3, <2>4
<1>5. CASE ExecutionEngine \/ ExecutionWithoutData
  <2>1. /\ pc = "execution_engine"
        /\ executions' = executions + 1
        /\ approved' = approved
        /\ status' = "executing"
    BY <1>5 DEF ExecutionEngine, ExecutionWithoutData
  <2>2. PICK exec : pc' = RouteExecution(exec)
    BY <1>5 DEF ExecutionEngine, ExecutionWithoutData
  <2>3. pc' \in {"notify_engine", "fallback_engine", "end"}
    BY <2>2, RouteExecutionType
  <2>4. ContractPhase = "booking" /\ ContractPhase' \in {"done", "repairing", "stopped"}
    BY <2>1, <2>3
  <2>5. ContractProposal' = ContractProposal
    BY <2>1, <2>3
  <2>6. ContractAttempts' = ContractAttempts
    BY <2>1, <2>3
  <2> HIDE DEF ContractPhase, ContractProposal, ContractAttempts
  <2> QED
    BY <2>4, <2>5, <2>6
    DEF Contract!Fulfil, Contract!Repair, Contract!GiveUp, Contract!Next
<1>8. CASE ExecutionRaises
  <2>1. /\ pc = "execution_engine" /\ pc' = "raised"
        /\ executions' = executions + 1
        /\ approved' = approved
    BY <1>8 DEF ExecutionRaises
  <2>2. ContractPhase = "booking" /\ ContractPhase' = "stopped"
    BY <2>1
  <2>3. ContractProposal' = ContractProposal
    BY <2>1
  <2>4. ContractAttempts' = ContractAttempts
    BY <2>1
  <2> HIDE DEF ContractPhase, ContractProposal, ContractAttempts
  <2> QED
    BY <2>2, <2>3, <2>4 DEF Contract!GiveUp, Contract!Next
<1>6. CASE FallbackEngine
  <2>1. /\ pc = "fallback_engine"
        /\ pc' = IF fallbackCount + 1 < FallbackMaxRetry THEN "planning_engine" ELSE "end"
        /\ UNCHANGED <<status, approved, executions>>
        /\ executions = fallbackCount + 1
        /\ status = "executing"
    BY <1>6 DEF FallbackEngine, RouteFallback, Invariant, Counting, Outcome
  <2>2. ContractPhase = "repairing" /\ ContractAttempts' = ContractAttempts
    BY <2>1
  <2>3. CASE fallbackCount + 1 < FallbackMaxRetry
    <3>1. ContractPhase' = "drafting" /\ ContractAttempts < FallbackMaxRetry
      BY <2>1, <2>3
    <3>2. ContractProposal' = NoDraft
      BY <2>1, <2>3
    <3> HIDE DEF ContractPhase, ContractProposal, ContractAttempts
    <3> QED
      BY <2>2, <3>1, <3>2 DEF Contract!Redraft, Contract!Next
  <2>4. CASE ~(fallbackCount + 1 < FallbackMaxRetry)
    <3>1. ContractPhase' = "stopped"
      BY <2>1, <2>4
    <3>2. ContractProposal' = ContractProposal
      BY <2>1, <2>4
    <3> HIDE DEF ContractPhase, ContractProposal, ContractAttempts
    <3> QED
      BY <2>2, <3>1, <3>2 DEF Contract!GiveUp, Contract!Next
  <2> QED
    BY <2>3, <2>4
<1>7. CASE NotifyEngine \/ MonitorEngine
  <2>1. /\ pc \in {"notify_engine", "monitor_engine"}
        /\ pc' \in {"monitor_engine", "end"} /\ status' = "done"
        /\ UNCHANGED <<approved, executions>>
    BY <1>7 DEF NotifyEngine, MonitorEngine, RouteMonitor, ReplanTriggered, Invariant, Outcome
  <2>2. ContractPhase = "done" /\ ContractPhase' = "done"
    BY <2>1
  <2>3. ContractProposal' = ContractProposal
    BY <2>1
  <2>4. ContractAttempts' = ContractAttempts
    BY <2>1
  <2> HIDE DEF ContractPhase, ContractProposal, ContractAttempts
  <2> QED
    BY <2>2, <2>3, <2>4 DEF Contract!vars
<1> QED
  BY <1>1, <1>2, <1>3, <1>4, <1>5, <1>6, <1>7, <1>8 DEF Next, Node

\* Both graphs implement the contract: consent before every booking, a new
\* question after every change, at most FALLBACK_MAX_RETRY rounds.
THEOREM GraphImplementsContract == Spec => ContractSpec
BY TypeCorrect, InvariantHolds, ContractInit, ContractNext, PTL
DEF Spec, ContractSpec, Contract!Spec
=============================================================================
