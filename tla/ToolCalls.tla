------------------------------ MODULE ToolCalls ------------------------------
(***************************************************************************)
(* ExecutionEngine.execute as the Celery worker wires it: a gateway, no    *)
(* tool adapter, no saga and no Redis.  Every slot is one tool call with a *)
(* timeout of its own, through MockAPIGateway to the provider's HTTP       *)
(* service; gather collects what comes back, an exception included, and    *)
(* to_execution_state turns the result into records.                       *)
(*                                                                         *)
(* External: the provider and httpx.  A request may be served late, its    *)
(* answer may be lost, and call() may raise something that is no HTTPError *)
(* (a body that is not JSON, a connection of an event loop since closed).  *)
(***************************************************************************)
EXTENDS Tools, FiniteSets, Sequences, SequencesExt

CONSTANT Plans      \* the drafts: sequences of actions

ASSUME PlansAssumption == \A p \in Plans : p \in Seq(ToSet(p))

VARIABLES
    plan,       \* the draft's actions
    stage,      \* where execute() is
    layer,      \* the DAG layer being executed
    since,      \* the last time limit the layer reached, in half seconds
    call,       \* the state of each slot's call
    answer,     \* the ToolResult of each settled call
    wire,       \* slots whose request the provider may yet serve
    booked,     \* slots the provider holds a booking for
    result      \* the ExecutionState

vars == <<plan, stage, layer, since, call, answer, wire, booked, result>>

Slots == DOMAIN plan
Tool(i) == ToolOf(plan[i])
InLayer(l) == {i \in Slots : LayerOf(Tool(i)) = l}
Physical == {i \in Slots : PhysicalTool(Tool(i))}

CallState == {"waiting", "calling", "skipped", "settled", "raised"}

-----------------------------------------------------------------------------
(* What the gateway hands back, and what the engine makes of it *)

ToolStatus == {"success", "failure", "timeout", "degraded"}

\* The booking_id of an answer: there is none, it is null, it is the provider's,
\* or _normalize_gateway_response has made it up.
Booking == {"absent", "null", "given", "made up"}

\* A body with a status, of ToolResult's kind or not; or one with a success flag,
\* as the gateway itself answers for an HTTP error or an unknown tool.
Response ==
    [form : {"status"}, status : ToolStatus \cup {"pending"}, booking : {"absent", "null", "given"}]
    \cup [form : {"flag"}, success : BOOLEAN, booking : {"absent", "given"}]

Refusal == [form |-> "flag", success |-> FALSE, booking |-> "absent"]

SaysSuccess(resp) ==
    IF resp.form = "status" THEN resp.status = "success" ELSE resp.success

\* Mutant: a status no one knows is passed on.
NormalizedAsIs(resp) ==
    IF resp.form = "status" THEN [status |-> resp.status, booking |-> resp.booking]
    ELSE [status |-> IF resp.success THEN "success" ELSE "failure", booking |-> resp.booking]

\* _normalize_gateway_response: only a flagged success gets an id made up.
Normalized(resp) ==
    IF resp.form = "status"
    THEN [status |-> IF resp.status \in ToolStatus THEN resp.status ELSE "failure",
          booking |-> resp.booking]
    ELSE [status |-> IF resp.success THEN "success" ELSE "failure",
          booking |-> IF resp.success /\ resp.booking = "absent" THEN "made up" ELSE resp.booking]

NoAnswer == [status |-> "none", booking |-> "absent"]

-----------------------------------------------------------------------------
(* _execute_dag's account of the calls *)

\* Mutant: a timeout counts as no failure.
FailureOnly == {"failure"}

FailureStatus == {"failure", "timeout"}

Settled == {i \in Slots : call[i] = "settled"}
SkippedSlots == {i \in Slots : call[i] = "skipped"}
AnsweredFailed == {i \in Settled : answer[i].status \in FailureStatus}
FailedSlots == AnsweredFailed \cup SkippedSlots
FailedTools == {Tool(i) : i \in AnsweredFailed}
ConfirmedSlots == {i \in Settled : answer[i].status = "success" /\ answer[i].booking # "absent"}

Status ==
    CASE FailedSlots = {} -> "full_success"
      [] FailedSlots # {} /\ ConfirmedSlots # {} -> "partial_success"
      [] OTHER -> "full_failure"

\* Mutant: a degraded answer recorded as a failure.
RecordStatusStrict(status) == IF status = "degraded" THEN "failure" ELSE status

\* _normalize_tool_status
RecordStatus(status) == IF status = "degraded" THEN "success" ELSE status

\* _iter_slot_results: as the calls were made, layer by layer, by slot.
Before(i, j) ==
    \/ LayerOf(Tool(i)) < LayerOf(Tool(j))
    \/ LayerOf(Tool(i)) = LayerOf(Tool(j)) /\ i < j
Rank(S, i) == Cardinality({j \in S : Before(j, i)})
InOrder(S) == [k \in 1 .. Cardinality(S) |-> CHOOSE i \in S : Rank(S, i) = k - 1]

\* to_execution_state: a record for each result, then one for each failed slot
\* that has none.
ToolRecords ==
    LET results == InOrder(Settled)
        reported == [k \in DOMAIN results |->
            [slot |-> results[k], layer |-> LayerOf(Tool(results[k])),
             status |-> RecordStatus(answer[results[k]].status)]]
        missing == InOrder(FailedSlots \ {reported[k].slot : k \in DOMAIN reported})
    IN reported \o [k \in DOMAIN missing |->
            [slot |-> missing[k], layer |-> NoLayer, status |-> "skipped"]]

NoResult == [status |-> "none", confirmed |-> {}, failed |-> {}, records |-> <<>>]

-----------------------------------------------------------------------------
Init ==
    /\ plan \in Plans
    /\ stage = "dag"
    /\ layer = NoLayer
    /\ since = 0
    /\ call = [i \in Slots |-> "waiting"]
    /\ answer = [i \in Slots |-> NoAnswer]
    /\ wire = {}
    /\ booked = {}
    /\ result = NoResult

Calling == {i \in Slots : call[i] = "calling"}

\* gather() returned: the next layer's calls go out, but for those whose tool
\* depends on one that failed.  A call that raised has failed nothing.
NextLayer ==
    /\ stage = "dag"
    /\ Calling = {}
    /\ layer < LastLayer
    /\ layer' = LayerAfter(layer)
    /\ LET next == InLayer(LayerAfter(layer))
           called == {i \in next : DependenciesOf(Tool(i)) \cap FailedTools = {}}
       IN /\ call' = [i \in Slots |-> IF i \in called THEN "calling"
                                      ELSE IF i \in next THEN "skipped" ELSE call[i]]
          /\ wire' = wire \cup called
    /\ since' = 0
    /\ UNCHANGED <<plan, stage, answer, booked, result>>

\* Time passes until the next call reaches its limit, which is then cancelled
\* before more time passes; when the calls end earlier is not told apart.  Two layers
\* of two seconds at most never reach the ten that _execute_timed allows.
Tick ==
    /\ stage = "dag"
    /\ Calling # {}
    /\ since' = Min({TimeoutOf(Tool(i)) : i \in Calling})
    /\ since' > since
    /\ UNCHANGED <<plan, stage, layer, call, answer, wire, booked, result>>

\* The provider books, be the caller still there or not.
ProviderBooks(i) ==
    /\ i \in (wire \cap Physical) \ booked
    /\ booked' = booked \cup {i}
    /\ UNCHANGED <<plan, stage, layer, since, call, answer, wire, result>>

Settle(i, toolResult) ==
    /\ stage = "dag"
    /\ call[i] = "calling"
    /\ call' = [call EXCEPT ![i] = "settled"]
    /\ answer' = [answer EXCEPT ![i] = toolResult]
    /\ UNCHANGED <<plan, stage, layer, since, booked, result>>

\* The provider answers.  It calls no booking made that it has not made.
CallAnswered(i) ==
    \E resp \in Response :
        /\ SaysSuccess(resp) /\ i \in Physical => i \in booked
        /\ resp.booking = "given" => i \in booked
        /\ Settle(i, Normalized(resp))
        /\ wire' = wire \ {i}

\* The service turns the request away before any handler sees it: the injected
\* 503, or a route it does not have.
RequestRejected(i) ==
    /\ i \notin booked
    /\ Settle(i, Normalized(Refusal))
    /\ wire' = wire \ {i}

\* MockAPIGateway.call turns an HTTPError into a refusal too: the connection broke,
\* before the request got through or after.
ConnectionBreaks(i) ==
    /\ Settle(i, Normalized(Refusal))
    /\ wire' \in {wire, wire \ {i}}

\* wait_for gives the call up; the request is under way.
CallTimesOut(i) ==
    /\ since >= TimeoutOf(Tool(i))
    /\ Settle(i, [status |-> "timeout", booking |-> "absent"])
    /\ UNCHANGED wire

\* Anything else call() raises comes back from gather() and is passed over.
CallRaises(i) ==
    /\ stage = "dag"
    /\ call[i] = "calling"
    /\ call' = [call EXCEPT ![i] = "raised"]
    /\ wire' \in {wire, wire \ {i}}
    /\ UNCHANGED <<plan, stage, layer, since, answer, booked, result>>

\* All layers are through.  A null booking id is no value of confirmed_bookings:
\* the result cannot be built and execute() raises.
DagEnds ==
    /\ stage = "dag"
    /\ layer = LastLayer
    /\ Calling = {}
    /\ IF \E i \in ConfirmedSlots : answer[i].booking = "null"
       THEN stage' = "raised" /\ UNCHANGED result
       ELSE /\ stage' = "finished"
            /\ result' = [status |-> Status, confirmed |-> ConfirmedSlots,
                          failed |-> FailedSlots, records |-> ToolRecords]
    /\ UNCHANGED <<plan, layer, since, call, answer, wire, booked>>

Next ==
    \/ NextLayer \/ Tick \/ DagEnds
    \/ \E i \in Slots : \/ ProviderBooks(i) \/ CallAnswered(i) \/ RequestRejected(i)
                        \/ ConnectionBreaks(i) \/ CallTimesOut(i) \/ CallRaises(i)

Spec == Init /\ [][Next]_vars

-----------------------------------------------------------------------------
(* Properties *)

\* Every variable holds a value of its kind: of a status the provider made up, none
\* gets past the gateway's normalisation.
TypeOK ==
    /\ plan \in Plans
    /\ stage \in {"dag", "finished", "raised"}
    /\ layer \in {NoLayer, 0, LastLayer}
    /\ since \in Nat
    /\ call \in [Slots -> CallState]
    /\ answer \in [Slots -> [status : ToolStatus, booking : Booking] \cup {NoAnswer}]
    /\ wire \subseteq Slots
    /\ booked \subseteq Physical
    /\ result.status \in {"none", "full_success", "partial_success", "full_failure"}
    /\ result.confirmed \subseteq Slots /\ result.failed \subseteq Slots

\* A run reported as a full success has booked every slot that needed it, but
\* those whose call raised or was answered as degraded: these two ways past the
\* account are the only ones.
FullSuccessIsBooked ==
    result.status = "full_success" =>
        \A i \in Physical \ booked : call[i] = "raised" \/ answer[i].status = "degraded"

\* The records are a true account: one for each slot but those whose call raised,
\* not a success exactly for the slots listed as failed, and a success for every
\* slot listed as confirmed.
RecordsAgree ==
    stage = "finished" =>
        /\ \A i \in Slots :
             Cardinality({k \in DOMAIN result.records : result.records[k].slot = i}) =
                 IF call[i] = "raised" THEN 0 ELSE 1
        /\ result.failed = {result.records[k].slot :
             k \in {n \in DOMAIN result.records : result.records[n].status # "success"}}
        /\ result.confirmed \cap result.failed = {}

=============================================================================
