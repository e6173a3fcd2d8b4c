------------------------------- MODULE Monitor -------------------------------
(***************************************************************************)
(* engines/monitor_engine.py: the check the graph runs once after an       *)
(* execution (MonitorEngine.execute) and the background loop               *)
(* (run_monitor_loop) that runs it again and again, less and less often.   *)
(*                                                                         *)
(* External: the readings (RTContextPort has no implementation in the      *)
(* repository), the alert sink, the caller that starts the loop after the  *)
(* graph and may cancel it (graph.py:678; the repository has none).        *)
(***************************************************************************)
EXTENDS Integers, Sequences, FiniteSets, SequencesExt

CONSTANTS
    Moves,       \* minutes from one slot to the next
    Tenths,      \* congestion readings, in tenths
    QueueLength, \* queue readings
    Weather,     \* weather readings
    MaxSlots,    \* bound: slots of a draft
    MaxLate      \* bound: how late a sleep may end, in minutes

ASSUME ReadingAssumption == Moves \subseteq Nat /\ Tenths \subseteq 0 .. 10 /\ QueueLength \subseteq Nat
ASSUME WeatherAssumption == Weather \subseteq {"sunny", "cloudy", "rainy", "snowy", "stormy"}
ASSUME BoundAssumption == MaxSlots \in Nat /\ MaxLate \in Nat

VARIABLES
    draft,   \* the slots: [move, books]; the sequence is fixed while the monitor runs
    port,    \* whether the engine has a real-time port
    sink,    \* whether it has an alert sink
    phase,   \* of execute(): idle, checking, pushing, returned, raised
    todo,    \* the checks execute() still has to make
    alerts,  \* those of this execute(), oldest first
    trigger, \* the ReplanTrigger it returned
    crossed, \* history: the checks of this execute() that read more than they allow
    pushed,  \* history: the alerts of this execute() the sink has got
    loop,    \* run_monitor_loop: its phase, its interval and the minutes since it began
    cancelled \* cancel_event

vars == <<draft, port, sink, phase, todo, alerts, trigger, crossed, pushed, loop, cancelled>>
wiring == <<draft, port, sink>>
checking == <<phase, todo, alerts, trigger, crossed>>

TrafficDelayThreshold == 15
QueueThreshold == 10      \* max(baseline * 2, 10): every baseline is 0
FirstInterval == 1        \* INITIAL_POLL_INTERVAL_S, in minutes
MaxInterval == 5          \* MAX_POLL_INTERVAL_S
MaxDuration == 120        \* max_duration_s

Slot == [move : Moves, books : BOOLEAN]
Severity == {"warning", "critical"}
CheckOf(kind, i) == [kind |-> kind, slot |-> i]
Alert == [check : [kind : {"route", "queue", "weather", "booking"}, slot : 0 .. MaxSlots],
          severity : Severity, slots : SUBSET (1 .. MaxSlots), action : {"partial_replan", "full_replan"}]
NoTrigger == [scope |-> "none", slots |-> {}, auto |-> FALSE]

Init ==
    /\ draft \in UNION {[1 .. n -> Slot] : n \in 0 .. MaxSlots}
    /\ port \in BOOLEAN /\ sink \in BOOLEAN
    /\ phase = "idle"
    /\ todo = <<>> /\ alerts = <<>> /\ trigger = NoTrigger /\ crossed = {}
    /\ pushed = <<>>
    /\ loop = [phase |-> "off", interval |-> FirstInterval, elapsed |-> 0]
    /\ cancelled = FALSE

-----------------------------------------------------------------------------
(* MonitorEngine.execute *)

\* _build_monitor_plan: a route to every slot but the first, a queue at every
\* slot, the bookings; then the order of _check_all.
Checks(slots) ==
    LET n == Len(slots)
        bookings == {i \in 1 .. n : slots[i].books}
        Booking(k) == CHOOSE i \in bookings : Cardinality({j \in bookings : j < i}) = k - 1
    IN [i \in 1 .. n - 1 |-> CheckOf("route", i + 1)]
       \o [i \in 1 .. n |-> CheckOf("queue", i)]
       \o <<CheckOf("weather", 0)>>
       \o [k \in 1 .. Cardinality(bookings) |-> CheckOf("booking", Booking(k))]

\* Without a port no check reads anything.
Begin(slots) ==
    /\ phase' = "checking"
    /\ todo' = IF port THEN Checks(slots) ELSE <<>>
    /\ alerts' = <<>> /\ trigger' = NoTrigger /\ crossed' = {}

\* monitor_engine_node runs it on the draft that was executed.
NodeStarts ==
    /\ phase = "idle" /\ loop.phase = "off"
    /\ Begin(draft)
    /\ UNCHANGED <<wiring, pushed, loop, cancelled>>

Reports(check, severity, slots, action) ==
    /\ alerts' = Append(alerts, [check |-> check, severity |-> severity, slots |-> slots, action |-> action])
    /\ crossed' = crossed \cup {check}

Quiet == UNCHANGED <<alerts, crossed>>

\* Mutant: the route from a slot, not to it.
RouteReadForward(i, tenths) ==
    IF (draft[i].move * tenths) \div 10 > TrafficDelayThreshold
    THEN Reports(CheckOf("route", i), "warning", {i, i + 1}, "partial_replan")
    ELSE Quiet

\* A congestion reading, of tenths, makes the move longer by so many minutes.
RouteRead(i, tenths) ==
    IF (draft[i].move * tenths) \div 10 > TrafficDelayThreshold
    THEN Reports(CheckOf("route", i), "warning", {i - 1, i}, "partial_replan")
    ELSE Quiet

QueueRead(i, length) ==
    IF length > QueueThreshold
    THEN Reports(CheckOf("queue", i), IF length > 2 * QueueThreshold THEN "critical" ELSE "warning",
                 {i}, "partial_replan")
    ELSE Quiet

WeatherRead(condition) ==
    IF condition \in {"rainy", "stormy", "snowy"}
    THEN Reports(CheckOf("weather", 0), IF condition = "stormy" THEN "critical" ELSE "warning", {}, "full_replan")
    ELSE Quiet

\* No reading sets a booking's current_status: it stays confirmed.
BookingRead(i) == Quiet

\* Mutant: one try around all checks of a kind, whose alerts are lost with it.
FailsForAll(check) ==
    /\ todo' = SelectSeq(todo, LAMBDA c : c.kind # check.kind)
    /\ alerts' = SelectSeq(alerts, LAMBDA a : a.check.kind # check.kind)
    /\ UNCHANGED crossed

\* A port that raises, or knows no status of the POI: the try is around one check.
Fails(check) == todo' = Tail(todo) /\ Quiet

Check ==
    /\ phase = "checking" /\ todo # <<>>
    /\ LET check == Head(todo) IN
       \/ /\ todo' = Tail(todo)
          /\ \/ check.kind = "route" /\ \E tenths \in Tenths : RouteRead(check.slot, tenths)
             \/ check.kind = "queue" /\ \E length \in QueueLength : QueueRead(check.slot, length)
             \/ check.kind = "weather" /\ \E condition \in Weather : WeatherRead(condition)
             \/ check.kind = "booking" /\ BookingRead(check.slot)
       \/ check.kind # "booking" /\ Fails(check)
    /\ UNCHANGED <<wiring, phase, trigger, pushed, loop, cancelled>>

\* _build_replan_trigger: automatic only for a booking that was cancelled, which no
\* reading shows, or a closed POI, which no check looks for.  Its docstring and the
\* module's say every critical alert is: a storm or a crowd of 21 is critical, and
\* triggers nothing by itself.
TriggerOf(list) ==
    LET all == ToSet(list) IN
    IF all = {} THEN NoTrigger
    ELSE [scope |-> IF \E a \in all : a.action = "full_replan" THEN "full" ELSE "partial",
          slots |-> UNION {a.slots : a \in all},
          auto |-> \E a \in all : a.severity = "critical" /\ a.check.kind = "booking"]

\* The checks are made; with a sink the alerts are pushed first.
Conclude ==
    /\ phase = "checking" /\ todo = <<>>
    /\ IF sink /\ alerts # <<>>
       THEN /\ phase' = "pushing" /\ todo' = alerts
            /\ UNCHANGED trigger
       ELSE /\ phase' = "returned" /\ trigger' = TriggerOf(alerts)
            /\ UNCHANGED todo
    /\ UNCHANGED <<wiring, alerts, crossed, pushed, loop, cancelled>>

\* One alert after the other; a sink that raises makes execute() raise.
Push ==
    /\ phase = "pushing"
    /\ IF todo = <<>>
       THEN /\ phase' = "returned" /\ trigger' = TriggerOf(alerts)
            /\ UNCHANGED <<todo, pushed>>
       ELSE \/ /\ pushed' = Append(pushed, Head(todo)) /\ todo' = Tail(todo)
               /\ UNCHANGED <<phase, trigger>>
            \/ /\ phase' = "raised" /\ todo' = <<>>
               /\ UNCHANGED <<pushed, trigger>>
    /\ UNCHANGED <<wiring, alerts, crossed, loop, cancelled>>

-----------------------------------------------------------------------------
(* run_monitor_loop *)

\* The caller, who has the result, starts it after the graph; a node that raised
\* has ended the graph without one.
LoopStarts ==
    /\ phase = "returned" /\ loop.phase = "off"
    /\ loop' = [loop EXCEPT !.phase = "round"]
    /\ phase' = "idle" /\ todo' = <<>> /\ alerts' = <<>> /\ pushed' = <<>>
    /\ trigger' = NoTrigger /\ crossed' = {}
    /\ UNCHANGED <<wiring, cancelled>>

\* The context the loop builds has no history: _extract_draft finds no draft,
\* execute() answers "failed" before any check, and there is nothing to push.
LoopChecks == loop' = [loop EXCEPT !.phase = "sleeping"]

\* The top of the loop.
Round ==
    /\ loop.phase = "round"
    /\ IF cancelled \/ loop.elapsed > MaxDuration
       THEN loop' = [loop EXCEPT !.phase = "over"]
       ELSE LoopChecks
    /\ UNCHANGED <<wiring, checking, pushed, cancelled>>

\* Mutant: the time is taken from the last round.
SleepFromLastRound ==
    /\ loop.phase = "sleeping"
    /\ loop' = [phase |-> "round", interval |-> MaxInterval, elapsed |-> loop.interval]
    /\ UNCHANGED <<wiring, checking, pushed, cancelled>>

\* asyncio.sleep(interval), which nothing wakes early, and the back-off.
Sleep ==
    /\ loop.phase = "sleeping"
    /\ \E late \in 0 .. MaxLate :
         loop' = [phase |-> "round",
                  interval |-> IF 2 * loop.interval < MaxInterval THEN 2 * loop.interval ELSE MaxInterval,
                  elapsed |-> loop.elapsed + loop.interval + late]
    /\ UNCHANGED <<wiring, checking, pushed, cancelled>>

\* The caller sets cancel_event.
Cancel ==
    /\ loop.phase \notin {"off", "over"} /\ ~cancelled
    /\ cancelled' = TRUE
    /\ UNCHANGED <<wiring, checking, pushed, loop>>

Execute == NodeStarts \/ Check \/ Conclude \/ Push
Loop == Round \/ Sleep
Next == Execute \/ Loop \/ LoopStarts \/ Cancel

\* The event loop runs a ready coroutine, and a sleep ends.
Spec == Init /\ [][Next]_vars /\ WF_vars(Execute) /\ WF_vars(Loop)

-----------------------------------------------------------------------------
(* Properties *)

\* Every variable holds a value of its kind; what is left to do are checks, then
\* alerts; the loop never runs longer than its limit, one interval and a late sleep.
TypeOK ==
    /\ draft \in Seq(Slot) /\ port \in BOOLEAN /\ sink \in BOOLEAN
    /\ phase \in {"idle", "checking", "pushing", "returned", "raised"}
    /\ ToSet(todo) \subseteq IF phase = "pushing" THEN ToSet(alerts) ELSE ToSet(Checks(draft))
    /\ \A a \in ToSet(alerts) \cup ToSet(pushed) : a \in Alert /\ a.slots \subseteq DOMAIN draft
    /\ trigger \in [scope : {"none", "partial", "full"}, slots : SUBSET DOMAIN draft, auto : BOOLEAN]
    /\ crossed \subseteq ToSet(Checks(draft))
    /\ loop \in [phase : {"off", "round", "sleeping", "over"},
                interval : FirstInterval .. MaxInterval,
                elapsed : 0 .. (MaxDuration + MaxInterval + MaxLate)]
    /\ cancelled \in BOOLEAN

\* Where a check asks for a replan.
SlotsOf(check) ==
    IF check.kind = "weather" THEN {}
    ELSE IF check.kind = "route" THEN {check.slot - 1, check.slot} ELSE {check.slot}

Position(check) == CHOOSE k \in DOMAIN Checks(draft) : Checks(draft)[k] = check

\* Checks that fail hide no other: when execute() returns, every reading beyond
\* its limit has been pushed, where there is a sink, once and in the order of the
\* checks, and the trigger covers its slots, the whole plan for the weather.
FailedCheckHidesNone ==
    phase = "returned" =>
        /\ {alerts[i].check : i \in DOMAIN alerts} = crossed
        /\ \A i, j \in DOMAIN alerts :
             i < j => Position(alerts[i].check) < Position(alerts[j].check)
        /\ pushed = IF sink THEN alerts ELSE <<>>
        /\ trigger.slots = UNION {SlotsOf(c) : c \in crossed}
        /\ trigger.scope = IF crossed = {} THEN "none"
                           ELSE IF CheckOf("weather", 0) \in crossed THEN "full" ELSE "partial"

\* The loop ends, cancelled or not.
LoopEnds == loop.phase # "off" ~> loop.phase = "over"
=============================================================================
