# SnapTrip in TLA+

A verification project for the SnapTrip repository: TLA+ modules translated from
the code, TLC runs that check them on small instances, and TLAPS proofs of what
matters most. Paths below are relative to the repository's root; `agent/` stands
for `agent/src/agent/`, `api/` for `backend/marketplace/app/api/v1/`.

## 1. The system

SnapTrip turns a wish ("an afternoon with a child, not too far") into a draft of
slots, asks the user, books what the user accepts, repairs what could not be
booked, and reports on the way.

| Component | State it keeps | Operations | Meets the others through |
|---|---|---|---|
| Planning graph (`agent/graph.py`, `agent/state/`) | `PlanState` of one run, in a LangGraph checkpointer | ten nodes (or six), five conditional edges, an interrupt | calls of the engines, `interrupt()`/resume |
| Execution engine (`agent/engines/execution_engine.py`) | locks in Redis, the saga's steps, the results of a DAG | `execute`, one call per slot, time limit, compensation | Redis keys shared by all workers, the providers, one saga per process |
| Event stream (`agent/events/redis_bus.py`, `agent/adapters/persistence/runtime_event.py`, `api/session.py`) | `plan_run_events`, a Redis channel per plan | `emit`, replay, subscribe, listen | table and channel between worker and gateway |
| Plan service (`api/plan.py`, `agent/tasks/plan_tasks.py`, `agent/services/agent.py`, `agent/adapters/persistence/plan_run.py`) | `plan_runs`, Celery's queue, one in-memory checkpointer per process | create, confirm, get, status, stream; `plan.submit`, `plan.confirm` | Celery messages, the database |
| In-memory event store (`agent/events/store.py`) | a list and a condition per plan | `emit`, `list_by_plan`, `wait_for_events` | asyncio condition |
| Preparing engines (`intent_parser.py`, `context_loader.py`, `memory_manager.py`, `retrieval_engine.py` of `agent/engines/`) | none; what each found is a field of `PlanState` | intent, profile, memory, candidates | the history a node writes for the next engine |
| Planner's algorithms (`agent/engines/planning_engine.py`) | none | filter, Pareto frontier, shadow choice, time propagation | called by the planner's node |
| Fallback engine (`agent/engines/fallback_engine.py`) | none | alternative, ripple of the times, orphan cancellation | called by the fallback's node |
| Monitor engine (`agent/engines/monitor_engine.py`) | none | checks, alerts, the monitor loop | called by the monitor's node |
| Rate limit and memory (`agent/memory/service.py`, `shared/.../rate_limit.py`) | sorted sets in Redis | sliding window, caches | every request |
| Accounts (`api/auth.py`, `api/user.py`, `shared/.../security.py`) | users, profiles, refresh tokens, saved plans | register, login, refresh, logout, profile, list, clone | the database |
| Amap adapters (`backend/marketplace/app/adapters/amap/`) | an HTTP client, a registry | dispatch, retries | remote map service |
| Mock provider (`mock-services/mock-meituan/`) | orders in memory | prepare, submit, pay, injected faults | HTTP |
| Frontend (`frontend/src/`) | stores folding the event stream | `usePlanSSE` | SSE |

What makes it hard:

- **Order of many steps.** A run alternates between planner, user, engine and
  fallback; three places (`draft`, `repair.revised_draft`, what the user
  confirmed) hold "the" draft.
- **Concurrency.** Runs of one user on several workers meet in Redis at three
  levels of locks; the slots of one layer are called in parallel.
- **Failure.** A time limit cancels a DAG at any await; Redis may fail and the
  engine goes on; a worker may die and its keys stay; a provider may have booked
  what the engine never hears of.
- **Passing on.** An engine learns what another found from its context's history,
  by the key of the datum; the nodes write that history anew and under keys of
  their own.
- **Delivery.** An event goes first to a table, then to a channel; a client reads
  the table, then subscribes.

What makes each part correct:

- graph: only what was approved is booked; what is shown is what comes next; the
  retry loop is bounded; a run ends, and for a reason the routing knows;
- execution engine: mutual exclusion per user and per POI; every return path gives
  its locks back and nobody else's; of a failed run no recorded booking is left but
  what could not be cancelled; it ends whatever the provider or Redis does; what it
  reports of a slot is what happened to it;
- planner and fallback: visits follow each other, repairs keep them in order and
  within what the planner may return, candidates reach the planner;
- monitor: one check that fails hides no other; the loop ends;
- accounts: a token that was exchanged is gone, a session that was ended stays ended,
  pages miss nothing;
- event stream: order, no duplicates, no loss but at the hand-over, an end;
- plan service: the row of `plan_runs` says what the checkpoint says; a plan that
  waits can be answered.

PROJECT.json lists the hazards at their lines, each with the property aimed at it.

## 2. Modules

| Module | What it is |
|---|---|
| `PlanContract` | what a planning run promises its user: five actions and three variables |
| `PlanDrafts` | what a draft is and what planner, user and fallback may make of it; shared by the next two and `Preparation` |
| `PlanGraph` | one run of the graph, one action per node; implements `PlanContract` |
| `PlanGraph_proofs` | its theorems, and that it implements `PlanContract` |
| `Preparation` | from the user's words to the planner's candidates; extended by `Itinerary` |
| `Itinerary` | how a draft comes about: filter, ranking, Pareto sort, time axis, repairs and replacements |
| `Itinerary_proofs` | theorems about `Preparation` and `Itinerary` |
| `Tools` | which tool an action calls, in which layer, after which others, for how long; used by the next two |
| `ExecutionEngine` | `execute()` with the safety pipeline, several runs on several workers, and the fallback's repair |
| `ExecutionEngine_proofs` | its theorems |
| `ToolCalls` | `execute()` as the worker wires it, call by call |
| `ToolCalls_proofs` | its theorems |
| `Monitor` | the check after an execution and the background loop |
| `Monitor_proofs` | its theorems |
| `EventStream` | emission, table, channel and streams of one run's events |
| `EventStream_proofs` | its theorems |
| `PlanService` | one plan between the API, the queue, the workers, the checkpointers and its row |
| `PlanService_proofs` | its theorems |
| `Accounts` | the account endpoints, several requests at once |
| `Accounts_proofs` | its theorems |
| `MC...` | constants for TLC, one module per specification |

### PlanGraph

`pc` is the node that runs next; the other variables are the fields of `PlanState`
the routing functions and `state_to_response` read, the bookings outstanding at
the providers, and four history variables. Each node is one action that also takes
its conditional edge, as LangGraph evaluates the edge with the node's own result.
`runtime` says whether the process wired the engine with the safety pipeline
(`set_v3_dependencies`, or an `AgentRuntime` with the ports); the worker's own wiring
(`plan_tasks.py:48`) has neither a saga nor Redis. The six-node graph is the same
from the planner on, where it enters.

A POI is its place in `SEED_POIS`; a slot keeps its POI and its shadow, a draft its
version and slots. What an LLM, a ranking or a provider decides is a choice: the
planner may return any draft of distinct POIs whose shadows are of their kind, a
call may be acknowledged, fail, or end as neither ("degraded", or an exception
`gather` swallows). The planner node's three ways to a draft (`ConfirmationReplan`,
`FallbackRepair`, `FreshPlan`) are tried in the code's order. The user's answer is
any `ConfirmRequest`: an unknown decision, indices out of range and indices named
twice included. A slot named twice is replaced twice, the second time perhaps by the
POI that was rejected (`again`: the slots named an even number of times; a third
replacement is the first again). Locked slots are left out: the nodes hand them on and
none reads them. The consensus node runs again from its beginning
when it is resumed; since it only reads before `interrupt()`, `ConsensusResume` is
one action.

Nothing in the nodes catches an exception, so a run may stop in the middle, `pc` =
"raised": `ExecutionRaises` is the case the code has, a search whose provider reports
no booking id, a None that `ExecutionResult` refuses after the calls were made
(`execution_engine.py:533`). The bookings stand, the node's update is lost, and no
node runs again. `AnsweredRunEnds` counts this as an end, `EndIsJustified` does not
speak of it. What compensation leaves is any part of what was made
(`Compensated`): a cancellation that fails is logged and left.

Not in the model: events (EventStream has them), prices and times, the share card.

### Preparation

The four engines that run before the planner, one step each, and the histories
the nodes hand them (`Latest` is the engines' own lookup by key). An intent is its
type preferences, the first of which an LLM or a table of keywords finds; `place`
says which POIs are within 15 and within 20 km of the user. Candidates always come
from the seeds: `_search_pois` asks its port for `intent.query`, a field
`IntentSchema` lacks, and takes the seeds when that raises. Where no seed is in
reach, `_fallback_seeds` draws from all cities with repetition, so a draft may
visit one POI twice, which PlanDrafts allows.

As the code has it: the profile goes into the history as `context_profile` while
memory manager and retrieval look for `enriched_intent`; the one does nothing, the
other goes on with an empty intent (section 5).

### Itinerary

What PlanGraph takes for granted, `FreshDrafts` and `FallbackRevisions` of
`PlanDrafts`, and the times it leaves out. `Plan` is `PlanningEngine.execute`:
`Shortlists` is the hard filter, `Rankings` any order of a shortlist (both scores
mix distance, mood, weather and hour), `LlmRankings` the order a model gives, which
puts what it names first; `ParetoSort` is the third phase, `Generated` the
time axis with one shadow per visit. Python's sorts are stable and the list is
already in the order of its scores, so the sorts of phase three keep the ranking's
order. `Repair` is `FallbackEngine.execute`, one round of `RepairedAt` per failed
slot in the order recorded; `ConfirmationReplan` replaces what the user rejects, once or
twice, and leaves the times. Times are integers from the start of the window; a window may be
negative, since nothing checks what the LLM returned.

The action property `DraftsAreAsAssumed` is the link: whatever Itinerary plans,
replaces or repairs is, its times left out, in the sets PlanGraph chooses from.

As the code has it, and seen while modelling: the ripple adds the move of the
visit before the gap (`fallback_engine.py:275`), so after a repair a gap may be
shorter than the way; a replaced slot keeps the move to the POI it replaced; a
shadow may be a POI the draft already visits; a slot the user has replaced keeps the
POI it now has as its shadow (`postconfirm.py:125`), so that, when it fails, the
fallback replaces it with itself; without a shadow the fallback takes
any POI of the kind, however far.

### ExecutionEngine

Where PlanGraph has one atomic execution, this module has its steps. `lock` is
Redis: `SET NX` takes, is refused, or fails, and a failure is taken for leave to
go on (`_acquire_lock` returns True). `held` is what `execute()`'s two `finally`
blocks will delete, `DEL` deletes whatever value the key has. The DAG runs layer
after layer, and a slot whose tool depends on a failed one is skipped, which no draft
the planner writes can bring about (`Tools`); `StartCall`, `ProviderBooks` and `CallEnds` are the points at which
calls of one layer, and of different runs, interleave. `DagTimesOut` is `wait_for`
cancelling all of them: what is in flight frees its resource (or is cancelled
while it does), what was being taken may stay taken, and a provider may book
afterwards. `saga` belongs to a worker, since `AgentRuntime` is built once per
process: `compensate()` reaches the steps of every run of the process. It is awaited
with the locks held: at the end of a failed DAG within the time limit
(`compensating`), and after the limit with none (`undoing`). It tries every step and
may report any of them as not cancelled; these are in `uncancelled` from then on, and
nothing tries them again. A run whose result cannot be built ends as `raised`, by
the same `finally` blocks. `Crash`
drops the saga and leaves the keys, `Expire` is `EX 300`. `Repair` is what the
fallback does to bookings after a failed run: it cancels the failed slots' own
(`CancelledOrphans`) and undoes the recorded steps of the tools that failed
(`TargetedSteps`), either with the same chance of failing. Of its own run a failed DAG has left none to undo, so those are
other runs' steps, which carry the same tool's name.

External, modelled from their use: Redis, the tool adapter, the saga.
Not in the model: the five gates of `PreExecutionValidator`, which nothing in the
repository constructs (and whose second gate reads a key nothing writes), and the
circuit breaker, which are a failure before the call; idempotency, a port without
code.

### ToolCalls

The same `execute()` without adapter, saga and Redis, which is the worker's wiring
(`plan_tasks.py:48`), with the calls taken apart: what the provider's HTTP service
does with a request (`ProviderBooks`, on time or late), what the gateway makes of an
answer, a refusal or a broken connection (`Normalized`), what `gather` brings back,
and the three accounts of it, `confirmed`, `failed` and the tool records. `since`
orders the time limits of a layer's calls; nothing else depends on time.

As the code has it: an exception other than a timeout is passed over at
`execution_engine.py:479`, so its slot is in no account, and a run may be a full
success that booked nothing; a degraded answer counts as a success; a success
flag without a booking gets a made-up booking id; a null booking id makes `execute`
raise. `FullSuccessIsBooked` says that the first two are the only ways past the account.
The mock service of the repository serves none of the paths in
`MockAPIGateway.TOOL_ROUTES`, so what the provider is, is left open.

### Monitor

`NodeStarts`, `Check`, `Conclude` and `Push` are one `MonitorEngine.execute`,
reading by reading; `Round` and `Sleep` are `run_monitor_loop`, in minutes. Real-time
port, alert sink and the caller that starts and cancels the loop are external: the
repository has no port and no caller.

As the code has it: the loop builds a context without a history, so `execute` fails
at its first line and the loop never checks; the intervals are 60, 120, 240 and 300
seconds where its header names 60, 120 and 300; a critical alert asks for an automatic replan
only for two kinds of alert no check reports; `deadline` and the monitor plan the
graph keeps are read by nothing.

### EventStream

A worker emits `Length` events one after the other: `Persist` commits the row (or
swallows the error), `Publish` sends it to whoever listens at that moment (or swallows
the error). A stream reads the table once, replays what it read, subscribes, listens.
`completes` says whether the run gets to `plan_completed`: the notify node emits it
(`graph.py:656`), and the monitor node two events more (`AfterCompletion`), which no
stream passes on once it has closed. Database and Redis may fail at any command: an
event that was not stored is missing in `table`, one not published is in
`unpublished`, and the properties refer to these, not to a run without faults.

A reconnecting client is a stream with `since` > 0: its Last-Event-ID may be any time of
the run. One that `datetime.fromisoformat` refuses makes `get_events_after` answer
nothing (`ConnectUnread`), as does a failing query. The frames carry no id
(`session.py:47`), so a browser that reconnects by itself sends none and gets the
table from the beginning.

### PlanService

`request`, `row` and `thread` are what the three parties keep of a plan: the API
call, `plan_runs.final_status`, and the last checkpoint in each checkpointer. A
task goes `queued -> loading -> ... -> reporting -> acking -> done`; in between it
walks the graph as coarsely as the service sees it, and several tasks of one plan
may do so at once, since `/confirm` does not ask what the plan is doing and Celery
does not order tasks. `shared` says whether the processes use one checkpointer (an
injected one) or the `MemorySaver` each `build_plan_graph()` makes; `reliable`
whether database and broker answer; `client` whether the user answers on reading
`awaiting_confirmation` from `/status`, or posts at any time.

External: Celery with `task_acks_late` and `task_reject_on_worker_lost` (a dead
worker's tasks are queued again; a task at its hard limit is gone), and LangGraph
(a dict starts a thread afresh; `Command(resume=...)` goes on from the last
checkpoint, answers the interrupt if there is one, returns at once at the end of
the graph and may raise where there is nothing to resume). What a resume does in
the middle of a graph that another task is running is left open: it goes on from
the last node, or raises. The soft time limit is an exception like any other
(`Raise`).

Not in the model: `GET /{plan_id}` and `/stream`, which read and write nothing.

### Accounts

A request is a coroutine with its own transaction: a `Send...` action is what it
reads before its first write, the action without the prefix what it commits. In
between any other request may commit, the client may go (`Drop`), a token may expire
and an operator may disable the account. READ COMMITTED is PostgreSQL's default and
nothing sets another. A row that a concurrent request has deleted is no error to
a refresh or a logout, whose DELETE finds nothing; the refresh inserts its token all
the same (`auth.py:126-137`). `line` tells which tokens a token came of, one exchanged
for the next. What that leaves is in the properties: an exchanged token is gone for good
(`ExchangedTokensAreGone`), but two refreshes of one row leave two tokens of the
login, side by side; and a login of which no token is live or on its way stays
without one (`EndedSessionsStayEnded`), but a refresh that read the row before a logout
deleted it is on its way, and leaves a live token after the logout.
The list's client takes page after page, and `wanted` are the plans there were when
it began. Passwords, hashes and JWTs are whether they are accepted.

## 3. Runs

| Run | Instance | What it shows |
|---|---|---|
| `plan_graph` | 3 POIs of two kinds, drafts of up to 2 slots, 2 retries, 2 objections; 290 264 states | everything of PlanGraph, and that it implements PlanContract |
| `plan_graph_double_booking` | same | without the saga a slot is booked twice |
| `execution_engine` | 2 runs, 2 workers, 3 sessions of 2 users, one POI booked twice in each plan, any cancellation failing; 1 320 255 states up to symmetry | exclusion, release, compensation, repair |
| `execution_engine_redis` | 1 run, 1 worker, one POI booked twice or a visit and a booking, Redis may fail, providers and saga may never answer, one crash; 8 818 states | the run ends, every key comes free |
| `tool_calls` | drafts of 2 and 3 slots, every answer; 39 472 states | what is reported of a slot is what happened to it |
| `event_stream` | 5 events, the completion the third, 1 stream; 1 427 192 states | order, loss, end |
| `itinerary` | 7 POIs of four kinds, 2 places; 2 candidates a type, 5 in all, 4 shortlisted, 2 leaders, 3 visits, 2 revisions; 68 780 states | candidates, order, times, hard constraints, PlanGraph's assumptions |
| `itinerary_preferences` | same | the user's preferences do not reach the retrieval |
| `monitor` | drafts of none to 2 slots, readings below, at and beyond each threshold; 63 740 states | alerts, trigger, the loop's end |
| `plan_service` | 1 worker, 2 confirmations, 1 fault, 2 of the three together; 741 963 states | confirmation, redelivery, row and checkpoint |
| `plan_service_found` | same | the gateway does not find a waiting plan |
| `accounts` | 4 requests, 1 address, 5 tokens, 3 plans, pages of one; 113 906 states up to symmetry | sessions, preferences, pages |

Why the bounds are enough. `plan_graph`: two slots are one that fails and one that
does not; three POIs of which two are of a kind give a slot with an alternative and
one without; `FALLBACK_MAX_RETRY` is 2 as in `config.py`; two objections can meet a
fresh draft, a replanned one and a repaired one, one after the other or around an
attempt. `execution_engine`: two runs are enough for a lock to be contended, two
workers for sagas to be apart and one for them to be shared, two sessions of one
user for the user lock to matter and a third for it not to; the two calls of a plan
are of one layer and for one POI, so that a run contends with itself and with the
other run. A plan with a visit, whose search can make `execute()` raise, is in
`execution_engine_redis`; in `execution_engine` it more than doubles the states and the four
invariants hold of it too (2 752 079 states). Redis failures are a run of their own because with them exclusion is
given up by design (`_acquire_lock` degrades), so its safety properties do not
apply; crashes likewise are asked about liveness only, and compensations that outlive a
key (`SagaMayHang`), for the reason in section 4. `event_stream`: the
hand-over has three phases (before the read, between read and subscription, after)
and the completion is followed by two events, hence five; streams do not share state,
so one suffices.

`plan_service`: two confirmations can answer one question or two, be posted before
the question or run at once, and one fault meets a submission or a confirmation at
any step; `MaxEvents` keeps the state space in reach by leaving out a fault among
two confirmations. One worker process runs several tasks at once (a thread or
gevent pool), so one is enough for tasks to interleave; a second would only keep
apart the memories of tasks that do not share a checkpointer.

`itinerary`: three visits are the fewest in which a ripple can skip one and reach
the next, or two repairs can meet at one; three restaurants against two candidates of
a type and five in all against six in reach make every limit bite; a frontier may be
smaller than, equal to or larger than two leaders; a window
of 40 is divided, capped at 6 and may run out, one of -3 ends before it begins; two
revisions let a repair follow a replacement or a repair. One user has six POIs in
reach, the other none and draws seeds. It states no liveness: a
draft need not be revised.

`tool_calls`: both layers a draft reaches, all three tools of the second, with time
limits that differ, and a slot that books nothing; no tool of a draft depends on another.
`monitor`: two slots have one route, two queues and two bookings, hence a check before, between and after a
failing one; the readings lie on both sides of each threshold; the loop runs its two
hours in full, each sleep up to a minute late. `accounts`: three requests can meet on
one token, a fourth reads or follows; five tokens are the first, one for each
request that may issue one; with three plans and pages of one a clone can fall
between any two pages. One address is enough: no statement joins two users' rows.

`CHECK_DEADLOCK FALSE` throughout: a run ends, a stream closes, and nothing more
happens.

### Fairness

- PlanGraph: weak fairness of the nodes. `ainvoke` runs node after node until
  interrupt, end or an exception. None for the user's answer: `AnsweredRunEnds` assumes
  `[]<>(pc # "interrupt")` where it needs it. `MaxReplans` makes the user stop
  objecting at some point, without which no run need end.
- ExecutionEngine: weak fairness of `Proceed(r)`, the coroutine on a live worker's
  loop, which includes the time limit, and of `Expire`, Redis's own clock. None for
  providers and the saga: they may never answer. The limit ends a DAG that waits for
  them; nothing ends the compensation after the limit (`execution_engine.py:386`), and
  `EveryRunEnds` says so. None for `Begin`.
- Monitor: weak fairness of `Execute` and of `Loop`: the event loop runs a ready
  coroutine and a sleep ends. None for the start of either, nor for `Cancel`.
- Preparation and Itinerary, ToolCalls, Accounts: none. They state safety only; a
  request may be dropped and a provider may never answer.
- EventStream: weak fairness of emission and of each generator. None for clients.
- PlanService: weak fairness of `SubmitPlan`, the rest of a handler that has
  started, and of each task, queued (an idle worker takes it) or running. None for
  the client, faults and `InsertRun`.

## 4. Proofs

TLAPS checks the eight `_proofs` modules. Their theorems hold for every value of the
constants, within the named assumptions, and prove every invariant and every
action property that the passing runs check, of all nine specifications. The
bounds of the runs (`MaxTokens`, `MaxRevisions`, `MaxCrashes`, ...) are arbitrary
here. One theorem of each module is `InvariantHolds`, `Spec => []Invariant` for an
inductive `Invariant`; this section says why it has the parts it has.

| Module | Properties proved | Assumed of the constants |
|---|---|---|
| `PlanGraph_proofs` | `TypeOK`, `ShownIsCurrent`, `EndIsJustified`, `OnlyApprovedIsBooked`, `ContractSpec`, `ExecutionsBounded` | retry limit at least 1 |
| `PlanService_proofs` | `TypeOK`, `NothingExecutedUnconfirmed`, `CompletedHasEnded`, `AnswerMeetsItsQuestion`, `RowMatchesThread` | bounds are numbers, the gateway is no worker |
| `ExecutionEngine_proofs` | `TypeOK`, `FailedRunIsUndone`; where Redis answers and no compensation outlives a key also `KeysMatchUse`, `LocksExclude` | every session has a user |
| `ToolCalls_proofs` | `TypeOK`, `FullSuccessIsBooked`, `RecordsAgree` | drafts are sequences |
| `EventStream_proofs` | `TypeOK`, `OrderedStream`, `MissedAtHandoverOnly`, `CompletionCloses` | more than two events |
| `Itinerary_proofs` | `TypeOK`, `PlannerIsPrepared`, `VisitsInOrder`, `HardConstraintsKept`, `RepairOrderIrrelevant`, `DraftsAreAsAssumed` | travel times and scores are natural numbers; an LLM's list is a sequence; at least one candidate is kept and drawn |
| `Accounts_proofs` | `TypeOK`, `ExchangedTokensAreGone`, `EndedSessionsStayEnded`, `ChangedPreferencesAnnounced`, `PagingMissesNothing` | a page holds at least one plan, an account may hold one; finitely many addresses, each with a token to begin with |
| `Monitor_proofs` | `TypeOK`, `FailedCheckHidesNone` | readings are numbers |

### PlanGraph

`Invariant == ShownIsCurrent /\ Counting /\ ApprovedIsNext /\ Outcome`.
`executions <= FallbackMaxRetry` is not inductive, since
nothing in it relates `executions` to the counter the edges test. `Counting` says
that before an execution every attempt so far has had its fallback (`executions =
fallbackCount`, below the limit), and after one is one ahead. `OnlyApprovedIsBooked`
needs `ApprovedIsNext`: what reaches the engine is what the user saw last, and that
needs `ShownIsCurrent`, since the user sees `repair` while the engine executes
`draft`. `EndIsJustified` needs `Outcome`: what is known of the last execution
while notify and monitor run. `FirstOf`, a CHOOSE, is covered by the lemma that an
alternative exists where one is taken; and a slot that was replaced can be replaced
again (`SubstitutedIsSlot`). `GraphImplementsContract` shows step by step
that each node is a step of the contract or a stutter. `ExecutionsBoundedHolds`
states a bound that no run checks by itself; it is half of why the contract holds.

### PlanService

There are two invariants. `Invariant == TypeOK /\ AtWork /\ Heard /\ Unposted /\
Approved /\ Finished` holds in every wiring and under every fault.
The types need `AtWork` and `Heard`: a resume reads the checkpoint of the process
it runs on, so that process must be there, and a question in a checkpoint must have
been put. `executed => Confirmed` is not inductive: a task is about to execute
because of its own answer, or because a checkpoint of its process says so, which
another task wrote. `Approved` covers both places, and `Finished` does the same for
"completed" in a task's outcome, a checkpoint and the row. `Unposted` is why a
confirmation stays one: an answer is written once. A crash keeps all of them, since
it only forgets checkpoints. The steps that run no graph are one lemma
(`BystanderJustified`).

`AnswerMeetsItsQuestion` and `RowMatchesThread` are about a client that answers
when `/status` says so and a service without a fault (`Undisturbed`), and so is the
main part of the second invariant, `InTurn`. Nothing in the code keeps two tasks of
a plan apart; with such a client they are, but only because the row is written last: a
task that has reported "awaiting_confirmation" has nothing left to do but to
acknowledge, so that the next one finds the plan to itself (`OneAtATime`). From that
follow that the question an answer was given to is still the last one
(`AnsweredLast`), that the checkpoint goes with the one task (`CheckpointFollows`),
that a question taken is not asked again (`TakenOnce`) and that the row follows the
checkpoint (`RowFollows`).

### ExecutionEngine

What an execution does holds whatever Redis does and whoever dies.
`FailedRunIsUndone` needs that a booking an executing run was told of is in its
worker's saga, or among the steps reported as not cancelled (`Recorded`), until the
compensation of some run of that worker undoes it; that from the compensation on
nothing else is left (`Undone`), which the repair and the compensations of other runs
must keep; that only physical tools book, since the saga records no other; and that
a call behind the current layer is settled (`Layered`).

What the locks do is proved where Redis answers and no compensation outlives a key
(`ASSUME ~RedisMayFail, ~SagaMayHang`). With a Redis that fails `_acquire_lock` gives
leave, and exclusion is given up by design. With a compensation that takes more than
the 300 s of a key the key expires under the run, another run takes it, and the first
run's `finally` deletes the other's: TLC finds `LocksExclude` and `KeysMatchUse` violated
with `SagaMayHang` set and everything else as in `execution_engine`. `LocksExclude` is not inductive: it does not say why a key is the holder's.
`Locks` has three facts about keys: what a run holds follows from where it is
(`HeldByStage`), a key in use has that run's value (`UsedKeysAreOwn`), and a run has no
user or session key its `finally` will not delete (`NoKeyForgotten`). The second is
what a DEL without a check of the value could break, and does not, since a run
deletes only what it holds. `OneCallPerPoi` settles two slots of one run with one
POI, which the value of the key, the run, cannot tell apart: the second finds the key
taken. That a live run's keys do not expire is in the model's `Expire`, from the
ten seconds of a DAG against `EX 300`.

### ToolCalls

A result is made of the answers, so `Answers` says of each settled call that its
status is one of the four and that a physical success has its booking behind it;
`Reached` says that in a finished DAG no slot still waits. `RecordsAgree` is
about `_iter_slot_results`, which puts results in the draft's order: `InOrder` takes
the slot of each rank, and the proof shows by counting that every rank is
some slot's (`EveryRank`) and each slot therefore in the list exactly once.

### EventStream

A stream gets its events in two parts, from the table up to the
reading and from the channel after the subscription. Each part is ordered, and the
one event that may lie in both is the one being published at the subscription
(`InTwoParts`, with `RowsAhead` and `MessagesAhead` for what is still on its way).
`NothingLost` says the same of presence, for the events that were stored and those that
were published, and keeps it for a stream that has closed. `CompletionCloses` is
inductive with `Ends`: an event is delivered only while the stream is open, and the
delivery of `plan_completed` closes it.

### Itinerary

`Prepared` and `Planned` say where in the chain of engines what is known; `InTurn`
is `VisitsInOrder` for neighbours, the form in which the ripple keeps it. The rest is
about recursive definitions. TLAPS has no induction over data here, but
numbers have least elements, and what holds of 0 and is passed on from each number to
the next has no least exception (`LeastNumber`, `UpTo`): with this the lemmas say of
the time axis, the ripple, the list comprehensions and the repair of one slot after
the other what they compute for every length. `RepairOrderIrrelevant` then follows
since a ripple is determined by the least start of each visit, `DraftsAreAsAssumed`
since filter, Pareto sort and merge neither lose nor repeat a candidate.

### Accounts

`Invariant` says that tables fit each other (an account has a profile, a
token an owner), that what a live token came of is gone (`Tokens`), and that what a
request read before its first write is still so when it commits, but for the row of a
token, which another request may delete (`Reads`). `ExchangedTokensAreGone` needs more
than the rows: what a refresh under way is about to name as its token's line must be
gone, too, but for the row it deletes itself. `EndedSessionsStayEnded` follows from how
a step continues a line (`Continues`): with the row, or from a refresh that had read
it. `ChangedPreferencesAnnounced` and
`PagingMissesNothing` have strengthenings of their own: an account without a profile
has announced nothing (`Announced`), and a client that reads on has seen what lies
before its next page, though every clone moves all of it by one (`PagesSeen`).

### Monitor

The checks still to do are the rest of the plan (`Ahead`) and the alerts are of the
part behind, each from a reading beyond its limit and in the plan's order (`Reported`);
`PushedInOrder` is the same for the sink. That a check's place in the plan is unique
is a fact about four kinds of checks laid end to end. `Timely` bounds the
loop's time: no sleep begins after the two hours.

### Written for both tools

TLC and the provers read the same modules. `SelectSeq` and `SetToSortSeq` are defined by
recursion the provers cannot unfold, so that the code's list comprehensions and sorts
are `Only` (a recursive function), `InOrder` (by rank) and `Rows` (the sequences of
a set that are ordered).

### Only model-checked

`AnsweredRunEnds`, `EveryPlanSettles`, `EveryRunEnds`, `LocksComeFree`, `LoopEnds`
and the end in `CompletionEndsStream`: these are liveness, and TLAPS does not reason
about fairness or ENABLED here. With a Redis that fails no exclusion is claimed.

## 5. Where the code does not do what the repository says

Three runs expect a violation; PROJECT.json `findings` has each with its line and
quotation: the second booking without a saga, the waiting plan the gateway does
not find, the preferences that do not reach the retrieval.

Other disagreements were met and need no run:

- an execution without data is DONE (`graph.py:556` reads a missing status as
  `full_success`); `EndIsJustified` is stated with this case;
- a locked slot that is also rejected is replaced (`postconfirm.py:110`, against
  `checkpoint.py:12`);
- a run whose execution raises has no end: no `plan_completed`, no status, its bookings
  stand (`execution_engine.py:533`, uncaught in `graph.py:509-549`); PlanGraph has it as
  "raised";
- a cancellation that fails is logged and given up (`execution_engine.py:386-390` and
  `509-511`, `fallback_engine.py:130`), where
  `docs/architecture/03-tool-orchestration.md:20-22` has all held bookings released and an
  error returned; `FailedRunIsUndone` is stated with this exception;
- the compensation after the time limit is awaited without one, while the locks' 300 s
  run (`execution_engine.py:386`); `EveryRunEnds` excepts it, the theorems about locks
  assume it away;
- would a draft have an order, its failure would cancel the reservations of its run
  (`execution_engine.py:508`, against `03-tool-orchestration.md:141`), since the saga
  undoes every recorded step;
- a critical alert does not trigger a replan: `monitor_engine.py:11` and the docstring
  at `:325` say every critical alert does, the code at `:341-343` asks for a cancelled booking
  or a closed POI, which no reading yields, so `auto_replan` is never set although a storm
  or a crowd is critical; `TriggerOf` is translated from the code. No run states the
  docstring's claim: `Monitor`'s own run has storms and crowds among its readings, and the
  counterexample is any of them;
- the run's events do not end with `plan_completed` (`graph.py:656`, then `680` and
  `706`), which `session.py:67` calls the terminal event: a live stream never shows the monitor's two, a client that connects later
  does not either;
- a stream's frames carry no id (`session.py:47`), though the generator is written for
  reconnections with one (`session.py:65`);
- two refreshes of one token leave two live tokens of a login, and one that read the row
  before a logout leaves a live token after it (`auth.py:126-137`);
- an event emitted between replay and subscription is lost (`session.py:94`,
  against `docs/api/plan.md:193`); `MissedAtHandoverOnly` says it is the only way;
- an exception of a tool is recorded nowhere (`execution_engine.py:479`, against
  `docs/architecture/05-agent-architecture.md:281`); `FullSuccessIsBooked` has it as
  one of the two ways past the account;
- the monitor loop never checks (see Monitor above).

## 6. Plan

Every module has its runs and its theorems. Proofs worth having next, in this order:

1. The safety half of the liveness properties, as far as it goes without fairness:
   in ExecutionEngine that a live run always has a step of its own (no two runs wait
   for each other's keys, since a refused key is given up, not waited for), in
   PlanService that a task is never left without one.
2. PlanService: what of `RowMatchesThread` survives a fault, which is known only as
   a list of the ways a fault breaks it.
3. EventStream: that a reconnecting client has missed nothing once it has both
   streams; today each stream is looked at by itself.
4. PlanDrafts and Itinerary: `DraftsAreAsAssumed` lifted from a property of steps to
   a refinement of the part of PlanGraph that revises drafts.

## 7. Not modelled

- In-memory event store: no endpoint reads it and the worker does not use it.
- Memory service and rate limiter: wired to no route and no engine.
- Amap adapters: `RetrievalEngine()` is built without a port to them.
- LLM and prompt adapters: no state; what a model may answer is a choice.
- Frontend: rendering and small stores. Its hook for the event stream is given a plan
  id only with slots, which the create call does not return, so that the streams of
  EventStream are not the ones it opens.
- Mock provider's order book: no call of the gateway reaches its routes.
- Schema and migrations: declarations.
- Within modelled parts: prices, scores, confidences and constraint edges, texts,
  prompts, the share card, logging.
