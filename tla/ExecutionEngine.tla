--------------------------- MODULE ExecutionEngine ---------------------------
(***************************************************************************)
(* ExecutionEngine.execute of agent/engines/execution_engine.py with the   *)
(* safety pipeline injected, run by several workers at once: the session,  *)
(* user and resource locks in Redis, the layers of the tool DAG with their *)
(* parallel calls, the time limit on the whole DAG, and the compensation.  *)
(*                                                                         *)
(* A worker process executes several runs at once and owns one saga for    *)
(* all of them: AgentRuntime holds it.  Runs meet in Redis, at the         *)
(* providers and in that saga.                                             *)
(*                                                                         *)
(* External: Redis (SET NX EX, DEL), the tool adapter and the saga, whose  *)
(* code is not in the repository; they do what their callers rely on: the  *)
(* saga tries every step it has recorded and reports what it could not     *)
(* cancel, and may take any time over it.                                  *)
(***************************************************************************)
EXTENDS Tools, FiniteSets, Sequences

CONSTANTS
    Run,           \* executions asked for
    Worker,        \* worker processes
    Session,       \* chat sessions
    UserOf,        \* the user of each session
    Plans,         \* the drafts a run may execute: sequences of [action, poi]
    RedisMayFail,  \* whether a Redis command may raise
    SagaMayHang,   \* whether a compensation may take longer than a key lives
    MaxCrashes     \* bound: how many workers die

ASSUME UserAssumption == DOMAIN UserOf = Session
ASSUME RedisAssumption == RedisMayFail \in BOOLEAN
ASSUME SagaAssumption == SagaMayHang \in BOOLEAN
ASSUME CrashAssumption == MaxCrashes \in Nat

NoRun == "none"
NoWorker == "none"
ASSUME NoneAssumption == NoRun \notin Run /\ NoWorker \notin Worker

VARIABLES
    plan,       \* the draft of each run
    session,    \* the session of each run
    stage,      \* where execute() is
    worker,     \* who executes the run
    layer,      \* the DAG layer being executed
    call,       \* the state of each slot's tool call
    lock,       \* Redis: the run whose value the key holds
    held,       \* keys the run believes it holds, in execute()'s finally blocks
    booked,     \* outstanding bookings at the providers: run and slot
    saga,       \* each worker's recorded steps: run and slot
    uncancelled,\* history: steps reported among the compensate_errors
    result,     \* what execute() returned
    crashes     \* how many workers have died

vars == <<plan, session, stage, worker, layer, call, lock, held, booked, saga,
          uncancelled, result, crashes>>

-----------------------------------------------------------------------------
(* Slots *)

SlotsOf(r) == DOMAIN plan[r]
Tool(r, i) == ToolOf(plan[r][i].action)
InLayer(r, l) == {i \in SlotsOf(r) : LayerOf(Tool(r, i)) = l}

-----------------------------------------------------------------------------
(* Locks *)

SessionKey(r) == <<"session", session[r]>>
UserKey(r) == <<"user", UserOf[session[r]]>>
ResourceKey(r, i) == <<"poi", plan[r][i].poi>>

Pois == UNION {{p[i].poi : i \in DOMAIN p} : p \in Plans}
Key == ({"session"} \X Session) \cup ({"user"} \X {UserOf[s] : s \in Session})
        \cup ({"poi"} \X Pois)

\* SET key NX: taken, refused, or an error that _acquire_lock takes for leave
\* to go on without the lock.
Acquired(r, key) == lock[key] = NoRun /\ lock' = [lock EXCEPT ![key] = r]
Degraded(key) == RedisMayFail /\ UNCHANGED lock

\* Mutant: a refusal reached inside the try block, so that the finally block deletes
\* the other run's key.
RefusedAndDeleted(key) == lock[key] # NoRun /\ lock' = [lock EXCEPT ![key] = NoRun]

Refused(key) == lock[key] # NoRun /\ UNCHANGED lock

\* DEL key, whoever's value it holds; an error leaves it.
Release(key) ==
    \/ lock' = [lock EXCEPT ![key] = NoRun]
    \/ RedisMayFail /\ UNCHANGED lock

-----------------------------------------------------------------------------
(* Calls *)

\* waiting -> (skipped | starting); starting -> (failure | calling);
\* calling -> acted, the provider has booked; then the outcome.
Settled == {"skipped", "success", "degraded", "failure"}
InFlight == {"calling", "acted"}
CallState == {"waiting", "starting"} \cup InFlight \cup Settled

\* The slot's call holds its resource.
Occupies(r, i) == PhysicalTool(Tool(r, i)) /\ call[r][i] \in InFlight

FailedSlots(r) == {i \in SlotsOf(r) : call[r][i] \in {"failure", "skipped"}}
ConfirmedSlots(r) == {i \in SlotsOf(r) : call[r][i] = "success"}
\* A skipped slot is not in failed_tools.
FailedTools(r) == {Tool(r, i) : i \in {j \in SlotsOf(r) : call[r][j] = "failure"}}

\* Mutant: the record is dropped before the steps are cancelled.
CompensateNothing(w) ==
    /\ saga' = [saga EXCEPT ![w] = {}]
    /\ UNCHANGED <<booked, uncancelled>>

\* What a cancellation of recorded steps does: some are cancelled at the provider, the
\* others come back as compensate_errors, which the callers log; nothing tries again.
Cancel(steps) ==
    \E undone \in SUBSET steps :
        /\ booked' = booked \ undone
        /\ uncancelled' = uncancelled \cup (steps \ undone)

\* saga.compensate() answers: it has gone through every recorded step of the process.
Compensate(w) ==
    /\ Cancel(saga[w])
    /\ saga' = [saga EXCEPT ![w] = {}]

-----------------------------------------------------------------------------
Init ==
    /\ plan \in [Run -> Plans]
    /\ session \in [Run -> Session]
    /\ stage = [r \in Run |-> "queued"]
    /\ worker = [r \in Run |-> NoWorker]
    /\ layer = [r \in Run |-> NoLayer]
    /\ call = [r \in Run |-> [i \in SlotsOf(r) |-> "waiting"]]
    /\ lock = [k \in Key |-> NoRun]
    /\ held = [r \in Run |-> {}]
    /\ booked = {}
    /\ saga = [w \in Worker |-> {}]
    /\ uncancelled = {}
    /\ result = [r \in Run |-> "none"]
    /\ crashes = 0

Executing == {"dag", "compensating", "undoing"}
Over == {"finished", "repaired", "crashed"}
RunningAt(w) == {r \in Run : worker[r] = w /\ stage[r] \notin Over}

\* A worker's graph reaches the execution node, and execute() asks for the
\* session's lock, the fine one.
Begin(r, w) ==
    /\ stage[r] = "queued"
    /\ worker' = [worker EXCEPT ![r] = w]
    /\ \/ /\ Acquired(r, SessionKey(r)) \/ Degraded(SessionKey(r))
          /\ stage' = [stage EXCEPT ![r] = "user"]
          /\ held' = [held EXCEPT ![r] = {SessionKey(r)}]
          /\ UNCHANGED result
       \/ /\ Refused(SessionKey(r))
          /\ stage' = [stage EXCEPT ![r] = "finished"]
          /\ result' = [result EXCEPT ![r] = "no data"]
          /\ UNCHANGED held
    /\ UNCHANGED <<plan, session, layer, call, booked, saga, uncancelled,
                   crashes>>

\* Then for the user's, the coarse one.  A finally block is entered with
\* whatever _acquire_lock said yes to.
TakeUser(r) ==
    /\ stage[r] = "user"
    /\ \/ /\ Acquired(r, UserKey(r)) \/ Degraded(UserKey(r))
          /\ stage' = [stage EXCEPT ![r] = "dag"]
          /\ held' = [held EXCEPT ![r] = @ \cup {UserKey(r)}]
          /\ UNCHANGED result
       \/ /\ Refused(UserKey(r))
          /\ stage' = [stage EXCEPT ![r] = "unlocking"]
          /\ result' = [result EXCEPT ![r] = "no data"]
          /\ UNCHANGED held
    /\ UNCHANGED <<plan, session, worker, layer, call, booked, saga, uncancelled,
                   crashes>>

DependenciesMet(r, i) == DependenciesOf(Tool(r, i)) \cap FailedTools(r) = {}
LayerSettled(r) == \A i \in InLayer(r, layer[r]) : call[r][i] \in Settled

\* gather() returned: the next layer's calls start, but for those whose tool
\* depends on one that failed.
NextLayer(r) ==
    /\ stage[r] = "dag"
    /\ LayerSettled(r)
    /\ layer[r] < LastLayer
    /\ layer' = [layer EXCEPT ![r] = LayerAfter(@)]
    /\ call' = [call EXCEPT ![r] =
                 [i \in SlotsOf(r) |->
                    IF i \notin InLayer(r, LayerAfter(layer[r])) THEN call[r][i]
                    ELSE IF DependenciesMet(r, i) THEN "starting" ELSE "skipped"]]
    /\ UNCHANGED <<plan, session, stage, worker, lock, held, booked, saga, uncancelled, result,
                   crashes>>

SetCall(r, i, state) == call' = [call EXCEPT ![r][i] = state]

\* Mutant: the resource lock is asked for, its answer ignored.
StartCallRegardless(r, i) ==
    /\ stage[r] = "dag"
    /\ call[r][i] = "starting"
    /\ SetCall(r, i, "calling")
    /\ \/ PhysicalTool(Tool(r, i)) /\ Acquired(r, ResourceKey(r, i))
       \/ PhysicalTool(Tool(r, i)) /\ Refused(ResourceKey(r, i))
       \/ ~PhysicalTool(Tool(r, i)) /\ UNCHANGED lock
    /\ UNCHANGED <<plan, session, stage, worker, layer, held, booked, saga, uncancelled, result,
                   crashes>>

\* _execute_via_adapter up to the adapter's call: an open breaker fails it, a
\* physical tool takes the resource lock first.
StartCall(r, i) ==
    /\ stage[r] = "dag"
    /\ call[r][i] = "starting"
    /\ \/ SetCall(r, i, "failure") /\ UNCHANGED lock
       \/ /\ PhysicalTool(Tool(r, i))
          /\ \/ /\ Acquired(r, ResourceKey(r, i)) \/ Degraded(ResourceKey(r, i))
                /\ SetCall(r, i, "calling")
             \/ Refused(ResourceKey(r, i)) /\ SetCall(r, i, "failure")
       \/ /\ ~PhysicalTool(Tool(r, i))
          /\ SetCall(r, i, "calling")
          /\ UNCHANGED lock
    /\ UNCHANGED <<plan, session, stage, worker, layer, held, booked, saga, uncancelled, result,
                   crashes>>

\* The provider makes the booking: while the call waits for it, or after the
\* call was cancelled or its worker has died.
ProviderBooks(r, i) ==
    /\ call[r][i] = "calling"
    /\ PhysicalTool(Tool(r, i))
    /\ SetCall(r, i, "acted")
    /\ booked' = booked \cup {<<r, i>>}
    /\ UNCHANGED <<plan, session, stage, worker, layer, lock, held, saga, uncancelled, result,
                   crashes>>

\* The adapter returns: with the booking, with an unknown or degraded result,
\* or with an error; a booking made may still be reported as either of these.
\* The finally block gives the resource back, and a success is recorded.
CallEnds(r, i) ==
    /\ stage[r] = "dag"
    /\ call[r][i] \in InFlight
    /\ \E outcome \in {"success", "degraded", "failure"} :
         /\ outcome = "success" => call[r][i] = "acted" \/ ~PhysicalTool(Tool(r, i))
         /\ SetCall(r, i, outcome)
         /\ saga' = IF outcome = "success" /\ PhysicalTool(Tool(r, i))
                    THEN [saga EXCEPT ![worker[r]] = @ \cup {<<r, i>>}]
                    ELSE saga
    /\ IF PhysicalTool(Tool(r, i)) THEN Release(ResourceKey(r, i)) ELSE UNCHANGED lock
    /\ UNCHANGED <<plan, session, stage, worker, layer, held, booked, uncancelled, result,
                   crashes>>

DagResult(r) ==
    CASE FailedSlots(r) = {} -> "full_success"
      [] FailedSlots(r) # {} /\ ConfirmedSlots(r) # {} -> "partial_success"
      [] OTHER -> "full_failure"

\* What execute() returns after the DAG.  A search may report no booking id: its None
\* is no value of confirmed_bookings, the result cannot be built, and execute() raises.
Returns(r) ==
    /\ \/ result' = [result EXCEPT ![r] = DagResult(r)]
       \/ /\ \E i \in ConfirmedSlots(r) : ~PhysicalTool(Tool(r, i))
          /\ result' = [result EXCEPT ![r] = "raised"]
    /\ stage' = [stage EXCEPT ![r] = "unlocking"]

\* All layers are through.  With a failed slot, and a physical step on record, the saga
\* is asked to compensate.
MustCompensate(r) == FailedSlots(r) # {} /\ saga[worker[r]] # {}

DagEnds(r) ==
    /\ stage[r] = "dag"
    /\ layer[r] = LastLayer
    /\ LayerSettled(r)
    /\ \/ ~MustCompensate(r) /\ Returns(r)
       \/ /\ MustCompensate(r)
          /\ stage' = [stage EXCEPT ![r] = "compensating"]
          /\ UNCHANGED result
    /\ UNCHANGED <<plan, session, worker, layer, call, lock, held, booked, saga, uncancelled,
                   crashes>>

\* The saga answers in time; the DAG has its result.
DagCompensated(r) ==
    /\ stage[r] = "compensating"
    /\ Compensate(worker[r])
    /\ Returns(r)
    /\ UNCHANGED <<plan, session, worker, layer, call, lock, held, crashes>>

\* Mutant: the time limit looked at between layers only.
DagTimesOutBetweenLayers(r) ==
    /\ stage[r] = "dag"
    /\ LayerSettled(r)
    /\ stage' = [stage EXCEPT ![r] = "undoing"]
    /\ UNCHANGED <<plan, session, worker, layer, call, lock, held, booked, saga, uncancelled,
                   result, crashes>>

\* A call in flight is cancelled, is never recorded, and gives its lock back on its way
\* out, unless the cancellation hits the release itself; one that was taking its lock may
\* leave it taken.
CallsCutOff(r) ==
    LET keys(states) == {ResourceKey(r, i) :
            i \in {j \in SlotsOf(r) : PhysicalTool(Tool(r, j)) /\ call[r][j] \in states}}
    IN \E freed \in SUBSET keys(InFlight) :
         \E leaked \in SUBSET {key \in keys({"starting"}) : lock[key] = NoRun} :
           lock' = [key \in Key |-> IF key \in leaked THEN r
                                    ELSE IF key \in freed THEN NoRun ELSE lock[key]]

\* wait_for cancels the DAG with its calls, or the compensation it is waiting for.
DagTimesOut(r) ==
    /\ \/ stage[r] = "dag" /\ CallsCutOff(r)
       \/ stage[r] = "compensating" /\ UNCHANGED lock
    /\ stage' = [stage EXCEPT ![r] = "undoing"]
    /\ UNCHANGED <<plan, session, worker, layer, call, held, booked, saga, uncancelled, result,
                   crashes>>

\* Then the saga compensates what was recorded.  Nothing limits this wait, and the run
\* keeps its locks meanwhile.
TimeoutCompensated(r) ==
    /\ stage[r] = "undoing"
    /\ Compensate(worker[r])
    /\ result' = [result EXCEPT ![r] = "no data"]
    /\ stage' = [stage EXCEPT ![r] = "unlocking"]
    /\ UNCHANGED <<plan, session, worker, layer, call, lock, held, crashes>>

\* The finally blocks of execute(), the user's lock first; after the session's
\* it returns.
Unlock(r, key) ==
    /\ stage[r] = "unlocking"
    /\ key \in held[r]
    /\ key = SessionKey(r) => UserKey(r) \notin held[r]
    /\ Release(key)
    /\ held' = [held EXCEPT ![r] = @ \ {key}]
    /\ stage' = IF key = SessionKey(r) THEN [stage EXCEPT ![r] = "finished"] ELSE stage
    /\ UNCHANGED <<plan, session, worker, layer, call, booked, saga, uncancelled, result,
                   crashes>>

\* FallbackEngine._repair, for the failed slots it finds an alternative for.  Of a slot
\* that failed and is booked all the same the reference may be known, and cancelled at
\* the provider; then compensate_for_tool tries to undo every step of the slot's tool
\* that the process's saga has, which can only be another run's.
CancelledOrphans(r, replaced) == SUBSET {<<r, i>> : i \in replaced}

TargetedSteps(r, replaced) ==
    {step \in saga[worker[r]] : \E i \in replaced : Tool(step[1], step[2]) = Tool(r, i)}

Repair(r) ==
    /\ stage[r] = "finished"
    /\ result[r] = "partial_success"
    /\ \E replaced \in (SUBSET FailedSlots(r)) \ {{}} :
         \E cancelled \in CancelledOrphans(r, replaced) :
            /\ \E undone \in SUBSET TargetedSteps(r, replaced) :
                 /\ booked' = booked \ (cancelled \cup undone)
                 /\ uncancelled' = uncancelled \cup (TargetedSteps(r, replaced) \ undone)
            /\ saga' = [saga EXCEPT ![worker[r]] = @ \ TargetedSteps(r, replaced)]
    /\ stage' = [stage EXCEPT ![r] = "repaired"]
    /\ UNCHANGED <<plan, session, worker, layer, call, lock, held, result, crashes>>

\* A worker dies: its saga is gone, its keys stay.
Crash(w) ==
    /\ crashes < MaxCrashes
    /\ RunningAt(w) # {}
    /\ stage' = [r \in Run |-> IF r \in RunningAt(w) THEN "crashed" ELSE stage[r]]
    /\ saga' = [saga EXCEPT ![w] = {}]
    /\ crashes' = crashes + 1
    /\ UNCHANGED <<plan, session, worker, layer, call, lock, held, booked, uncancelled, result>>

\* Mutant: SET without EX: only a run's own release frees a key.
ExpireNever(key) == key \notin Key /\ UNCHANGED vars

\* EX 300: a key outlives its holder's ten seconds, and expires once nobody will delete
\* it.  What has no limit is the compensation after a time-out.
InUse(key, r) ==
    \/ key \in held[r] /\ stage[r] # "crashed" /\ ~(SagaMayHang /\ stage[r] = "undoing")
    \/ stage[r] = "dag" /\ \E i \in SlotsOf(r) : Occupies(r, i) /\ ResourceKey(r, i) = key

Expire(key) ==
    /\ lock[key] # NoRun
    /\ ~InUse(key, lock[key])
    /\ lock' = [lock EXCEPT ![key] = NoRun]
    /\ UNCHANGED <<plan, session, stage, worker, layer, call, held, booked, saga, uncancelled, result,
                   crashes>>

\* What the engine's own coroutine does, and what it waits for: adapter and saga.
Proceed(r) ==
    \/ TakeUser(r) \/ NextLayer(r)
    \/ \E i \in SlotsOf(r) : StartCall(r, i)
    \/ DagEnds(r) \/ DagTimesOut(r)
    \/ \E key \in {SessionKey(r), UserKey(r)} : Unlock(r, key)

Answer(r) ==
    \/ \E i \in SlotsOf(r) : ProviderBooks(r, i) \/ CallEnds(r, i)
    \/ DagCompensated(r) \/ TimeoutCompensated(r)

Next ==
    \/ \E r \in Run : Proceed(r) \/ Answer(r) \/ Repair(r) \/ \E w \in Worker : Begin(r, w)
    \/ \E w \in Worker : Crash(w)
    \/ \E key \in Key : Expire(key)

\* A live worker goes on with its run and Redis expires keys.  An adapter or the saga may
\* never answer: only the time limit ends such a DAG.
Spec ==
    /\ Init
    /\ [][Next]_vars
    /\ \A r \in Run : WF_vars(Proceed(r))
    /\ \A key \in Key : WF_vars(Expire(key))

-----------------------------------------------------------------------------
(* Properties *)

\* Every variable holds a value of its kind.
TypeOK ==
    /\ plan \in [Run -> Plans]
    /\ session \in [Run -> Session]
    /\ stage \in [Run -> {"queued", "user", "dag", "compensating", "undoing", "unlocking"} \cup Over]
    /\ worker \in [Run -> Worker \cup {NoWorker}]
    /\ layer \in [Run -> {NoLayer, 0, LastLayer}]
    /\ DOMAIN call = Run /\ \A r \in Run : call[r] \in [SlotsOf(r) -> CallState]
    /\ lock \in [Key -> Run \cup {NoRun}]
    /\ DOMAIN held = Run /\ \A r \in Run : held[r] \subseteq {SessionKey(r), UserKey(r)}
    /\ DOMAIN saga = Worker
    /\ \A b \in booked \cup uncancelled \cup UNION {saga[w] : w \in Worker} :
          b[1] \in Run /\ b[2] \in SlotsOf(b[1])
    /\ result \in [Run -> {"none", "no data", "raised"} \cup
                            {"full_success", "partial_success", "full_failure"}]
    /\ crashes \in 0 .. MaxCrashes

\* The locks exclude what they are for: no two live runs of one user are in the DAG or
\* in a compensation together, whatever sessions they come from, and no two live tool
\* calls, of one run or of two, are at a provider for the same POI.
LocksExclude ==
    /\ \A r, q \in Run :
         r # q /\ stage[r] \in Executing /\ stage[q] \in Executing =>
             UserOf[session[r]] # UserOf[session[q]]
    /\ \A r, q \in Run : \A i \in SlotsOf(r), j \in SlotsOf(q) :
         /\ stage[r] = "dag" /\ Occupies(r, i)
         /\ stage[q] = "dag" /\ Occupies(q, j)
         /\ plan[r][i].poi = plan[q][j].poi
         => <<r, i>> = <<q, j>>

\* A key a live run relies on has that run's value: nobody else's finally block,
\* time-out or expiry has deleted it.  And a run that got to the end of execute(),
\* by whichever return, has left neither its session nor its user locked.
KeysMatchUse ==
    /\ \A r \in Run : \A key \in Key : InUse(key, r) => lock[key] = r
    /\ \A r \in Run : stage[r] = "finished" =>
         lock[SessionKey(r)] # r /\ lock[UserKey(r)] # r

\* When execute() returns for a run that failed in part, failed or timed out, none of
\* the bookings it was told of is outstanding at a provider but those whose
\* cancellation failed and was reported: no booking is left that nobody tried to undo.
FailedRunIsUndone ==
    \A r \in Run : \A i \in SlotsOf(r) :
        /\ stage[r] = "finished"
        /\ FailedSlots(r) # {} \/ result[r] = "no data"
        /\ call[r][i] = "success"
        => <<r, i>> \notin booked \ uncancelled

\* Every execution a worker has begun returns, or its worker dies, whatever the
\* provider, Redis and the clock do; only the compensation after the time limit, which
\* no limit covers, can keep it.
EveryRunEnds ==
    \A r \in Run : worker[r] # NoWorker ~> stage[r] \in Over \cup {"undoing"}

\* Every lock comes free: after a crash, a lost release, a cancelled command, and under
\* a compensation that is never answered, too.
LocksComeFree ==
    \A key \in Key : \A r \in Run : lock[key] = r ~> lock[key] # r
=============================================================================
