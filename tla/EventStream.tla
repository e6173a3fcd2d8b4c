----------------------------- MODULE EventStream -----------------------------
(***************************************************************************)
(* How the events of one plan reach the browsers that watch it: the worker *)
(* emits them (RedisEventBus.emit: a row in plan_run_events, then a        *)
(* PUBLISH), and each open stream (_event_generator of api/v1/session.py)  *)
(* replays the table, subscribes to the channel and passes on what comes.  *)
(*                                                                         *)
(* An event is its place in the run.  A run that reaches the notify node   *)
(* emits plan_completed there; the monitor node emits two events after it. *)
(*                                                                         *)
(* External: the table and Redis Pub/Sub, which delivers a message once to *)
(* whoever is subscribed when it is published.  Either may fail a command. *)
(***************************************************************************)
EXTENDS Integers, Sequences, SequencesExt

CONSTANTS
    Stream,   \* connections to GET /plan/{plan_id}/stream
    Length    \* bound: how many events the run emits

AfterCompletion == 2
ASSUME LengthAssumption == Length \in Nat /\ AfterCompletion < Length

VARIABLES
    completes,    \* whether the run gets to plan_completed
    emitted,      \* how many events emit() has begun with
    publishing,   \* emit() is between its two steps
    table,        \* plan_run_events
    unpublished,  \* history: events whose PUBLISH failed
    stage,        \* where the generator of a stream is
    since,        \* how much of the run is before the client's Last-Event-ID
    replay,       \* rows read and not yet passed on
    channel,      \* messages at the subscriber
    delivered,    \* what the client was sent on this connection
    readAt,       \* history: how many were begun when the table was read, 0 if it was not
    handover,     \* history: how many events the client had when it subscribed
    subscribedAt  \* history: how many events were begun when it subscribed

emitter == <<emitted, publishing, table, unpublished>>
vars == <<completes, emitter, stage, since, replay, channel, delivered,
          readAt, handover, subscribedAt>>

Event == 1 .. Length
Completion == Length - AfterCompletion
IsCompletion(e) == completes /\ e = Completion

Init ==
    /\ completes \in BOOLEAN
    /\ emitted = 0
    /\ publishing = FALSE
    /\ table = {}
    /\ unpublished = {}
    /\ stage = [s \in Stream |-> "new"]
    /\ since = [s \in Stream |-> 0]
    /\ replay = [s \in Stream |-> <<>>]
    /\ channel = [s \in Stream |-> <<>>]
    /\ delivered = [s \in Stream |-> <<>>]
    /\ readAt = [s \in Stream |-> 0]
    /\ handover = [s \in Stream |-> 0]
    /\ subscribedAt = [s \in Stream |-> 0]

-----------------------------------------------------------------------------
(* The worker *)

\* The row is committed, or append() swallows the error.
Persist ==
    /\ ~publishing
    /\ emitted < Length
    /\ emitted' = emitted + 1
    /\ publishing' = TRUE
    /\ table' \in {table, table \cup {emitted'}}
    /\ UNCHANGED <<completes, unpublished, stage, since, replay, channel, delivered,
                   readAt, handover, subscribedAt>>

\* Mutants: a subscriber keeps the newest message only; plan_completed is
\* stored but not published.
BroadcastNewestOnly(e) ==
    channel' = [s \in Stream |-> IF stage[s] = "listening" THEN <<e>> ELSE channel[s]]
BroadcastAllButCompletion(e) ==
    channel' = [s \in Stream |-> IF stage[s] = "listening" /\ ~IsCompletion(e)
                                 THEN Append(channel[s], e) ELSE channel[s]]

\* What reaches the streams: a subscriber has the message behind those before it.
Broadcast(e) ==
    channel' = [s \in Stream |-> IF stage[s] = "listening" THEN Append(channel[s], e)
                                                           ELSE channel[s]]

\* The message goes to whoever listens, or emit() swallows the error.
Publish ==
    /\ publishing
    /\ publishing' = FALSE
    /\ \/ Broadcast(emitted) /\ UNCHANGED unpublished
       \/ unpublished' = unpublished \cup {emitted} /\ UNCHANGED channel
    /\ UNCHANGED <<completes, emitted, table, stage, since, replay, delivered,
                   readAt, handover, subscribedAt>>

-----------------------------------------------------------------------------
(* A stream *)

\* The rows after the client's Last-Event-ID, each of them once.
Answered(last) == SetToSeqs({e \in table : e > last})

\* Mutants: a greeting is sent as if it were an event; the newest rows first.
RowsAfterGreeting(last) == {<<0>> \o rows : rows \in Answered(last)}
RowsNewestFirst(last) == {rows \in Answered(last) : \A i, j \in DOMAIN rows : i < j => rows[i] > rows[j]}

\* What the query may answer: the rows in the order of created_at; all of them
\* for a client that sends no Last-Event-ID.
Rows(last) == {rows \in Answered(last) : \A i, j \in DOMAIN rows : i < j => rows[i] < rows[j]}

\* A first connection has no Last-Event-ID, and a browser's reconnection has none either:
\* no frame carries an id.  Any other client may send a time of the run.
Connect(s, last) ==
    /\ stage[s] = "new"
    /\ stage' = [stage EXCEPT ![s] = "replaying"]
    /\ since' = [since EXCEPT ![s] = last]
    /\ \E rows \in Rows(last) : replay' = [replay EXCEPT ![s] = rows]
    /\ readAt' = [readAt EXCEPT ![s] = emitted]
    /\ UNCHANGED <<completes, emitter, channel, delivered, handover, subscribedAt>>

\* The query fails, or the Last-Event-ID is no time and is refused by fromisoformat:
\* no row is replayed, and the stream goes on to the channel.
ConnectUnread(s) ==
    /\ stage[s] = "new"
    /\ stage' = [stage EXCEPT ![s] = "replaying"]
    /\ UNCHANGED <<completes, emitter, since, replay, channel, delivered, readAt, handover,
                   subscribedAt>>

\* An event is passed on; after plan_completed the generator returns.
Deliver(s, e) ==
    /\ delivered' = [delivered EXCEPT ![s] = Append(@, e)]
    /\ stage' = IF IsCompletion(e) THEN [stage EXCEPT ![s] = "closed"] ELSE stage

\* Mutant: the replay goes on after plan_completed.
ReplayPastCompletion(s) ==
    /\ stage[s] = "replaying"
    /\ replay[s] # <<>>
    /\ delivered' = [delivered EXCEPT ![s] = Append(@, Head(replay[s]))]
    /\ replay' = [replay EXCEPT ![s] = Tail(@)]
    /\ UNCHANGED <<completes, emitter, stage, since, channel, readAt, handover, subscribedAt>>

Replay(s) ==
    /\ stage[s] = "replaying"
    /\ replay[s] # <<>>
    /\ Deliver(s, Head(replay[s]))
    /\ replay' = [replay EXCEPT ![s] = Tail(@)]
    /\ UNCHANGED <<completes, emitter, since, channel, readAt, handover, subscribedAt>>

Subscribe(s) ==
    /\ stage[s] = "replaying"
    /\ replay[s] = <<>>
    /\ stage' = [stage EXCEPT ![s] = "listening"]
    /\ handover' = [handover EXCEPT ![s] = Len(delivered[s])]
    /\ subscribedAt' = [subscribedAt EXCEPT ![s] = emitted]
    /\ UNCHANGED <<completes, emitter, since, replay, channel, delivered, readAt>>

Listen(s) ==
    /\ stage[s] = "listening"
    /\ channel[s] # <<>>
    /\ Deliver(s, Head(channel[s]))
    /\ channel' = [channel EXCEPT ![s] = Tail(@)]
    /\ UNCHANGED <<completes, emitter, since, replay, readAt, handover, subscribedAt>>

\* The client goes away, or Redis drops the subscription.
Drop(s) ==
    /\ stage[s] \in {"replaying", "listening"}
    /\ stage' = [stage EXCEPT ![s] = "dropped"]
    /\ UNCHANGED <<completes, emitter, since, replay, channel, delivered,
                   readAt, handover, subscribedAt>>

Generate(s) == Replay(s) \/ Subscribe(s) \/ Listen(s)

Next ==
    \/ Persist \/ Publish
    \/ \E s \in Stream :
         Generate(s) \/ Drop(s) \/ ConnectUnread(s) \/ \E last \in 0 .. emitted : Connect(s, last)

\* The run goes on to its end, and so does every open stream.
Spec ==
    /\ Init
    /\ [][Next]_vars
    /\ WF_vars(Persist \/ Publish)
    /\ \A s \in Stream : WF_vars(Generate(s))

-----------------------------------------------------------------------------
(* Properties *)

\* Every variable holds a value of its kind.
TypeOK ==
    /\ completes \in BOOLEAN
    /\ emitted \in 0 .. Length
    /\ publishing \in BOOLEAN
    /\ table \subseteq Event
    /\ unpublished \subseteq Event
    /\ stage \in [Stream -> {"new", "replaying", "listening", "closed", "dropped"}]
    /\ since \in [Stream -> 0 .. Length]
    /\ replay \in [Stream -> Seq(Event)]
    /\ channel \in [Stream -> Seq(Event)]
    /\ delivered \in [Stream -> Seq(Event)]
    /\ readAt \in [Stream -> 0 .. Length]
    /\ handover \in [Stream -> 0 .. Length]
    /\ subscribedAt \in [Stream -> 0 .. Length]

\* A client is sent the events in the order of the run, each of them once and none from
\* before its Last-Event-ID, but for the one that was between its two steps while the
\* stream went over from the table to the channel: that one may come a second time, as
\* the first message after the hand-over.
OrderedStream ==
    \A s \in Stream : \A j \in DOMAIN delivered[s] :
        LET again == j = handover[s] + 1 /\ delivered[s][j] = subscribedAt[s]
        IN /\ since[s] < delivered[s][j] \/ (again /\ delivered[s][j] = since[s])
           /\ \A i \in DOMAIN delivered[s] :
                i < j => \/ delivered[s][i] < delivered[s][j]
                         \/ again /\ i = handover[s] /\ delivered[s][i] = delivered[s][j]

\* What a stream was not sent of what it asked for, when it listens or has closed: an
\* event that was begun before it read the table is missing only if it was not stored,
\* one from after its subscription only if it could not be published, and the ones in
\* between are lost with nothing having failed.  A stream that closed has no event of
\* the time after plan_completed, and is not owed one.
MissedAtHandoverOnly ==
    \A s \in Stream : \A e \in Event :
        /\ since[s] < e
        /\ e \notin ToSet(delivered[s])
        /\ \/ stage[s] = "closed" /\ e < Completion
           \/ /\ stage[s] = "listening" /\ e \notin ToSet(channel[s])
              /\ IF publishing THEN e < emitted ELSE e <= emitted
        => \/ e <= readAt[s] /\ e \notin table
           \/ readAt[s] < e /\ e <= subscribedAt[s]
           \/ subscribedAt[s] < e /\ e \in unpublished

\* plan_completed closes a stream, whether it was stored or published: the monitor's
\* events are never passed on after it, and a stream closes on nothing else.
CompletionCloses ==
    \A s \in Stream :
        /\ stage[s] = "closed" => delivered[s] # <<>> /\ IsCompletion(Last(delivered[s]))
        /\ \A i \in DOMAIN delivered[s] :
             IsCompletion(delivered[s][i]) => i = Len(delivered[s]) /\ stage[s] = "closed"

\* A stream that subscribed before plan_completed was begun, or has it among its rows,
\* does not hang: it closes, or its client goes away, or the message was never
\* published.  One that subscribed later than that and had not read it does hang.
CompletionEndsStream ==
    \A s \in Stream :
        /\ completes
        /\ \/ stage[s] = "listening" /\ emitted < Completion
           \/ stage[s] = "replaying" /\ Completion \in ToSet(replay[s])
        ~> stage[s] \in {"closed", "dropped"} \/ Completion \in unpublished
=============================================================================
