------------------------ MODULE ExecutionEngine_proofs ------------------------
(* Theorems about ExecutionEngine, for any runs, workers, sessions and drafts. *)
EXTENDS ExecutionEngine, TLAPS

-----------------------------------------------------------------------------
(* The inductive invariants *)

\* A run a worker has begun has that worker, and one that is not in the DAG yet
\* has reached no layer.
Begun ==
    \A r \in Run :
        /\ stage[r] # "queued" => worker[r] \in Worker
        /\ stage[r] \in {"queued", "user"} => layer[r] = NoLayer

\* The slots of the layers to come wait, those of the layers that are through
\* have their outcome.
Layered ==
    \A r \in Run : \A i \in SlotsOf(r) :
        /\ layer[r] < LayerOf(Tool(r, i)) => call[r][i] = "waiting"
        /\ LayerOf(Tool(r, i)) < layer[r] => call[r][i] \in Settled

\* Only physical tools book.
OnlyPhysicalBooked ==
    \A r \in Run : \A i \in SlotsOf(r) : <<r, i>> \in booked => PhysicalTool(Tool(r, i))

\* A booking an executing run was told of is in its worker's saga, unless another run's
\* compensation has undone it or failed to.
Recorded ==
    \A r \in Run : \A i \in SlotsOf(r) :
        stage[r] \in Executing /\ call[r][i] = "success" /\ <<r, i>> \in booked =>
            <<r, i>> \in saga[worker[r]] \/ <<r, i>> \in uncancelled

\* From then on a failed run has nothing booked that it was told of, but what could not
\* be cancelled.
Undone ==
    \A r \in Run : \A i \in SlotsOf(r) :
        /\ stage[r] \in {"unlocking", "finished"}
        /\ FailedSlots(r) # {} \/ result[r] = "no data"
        /\ call[r][i] = "success"
        => <<r, i>> \notin booked \ uncancelled

Invariant ==
    /\ TypeOK /\ Begun /\ Layered
    /\ OnlyPhysicalBooked /\ Recorded /\ Undone

\* What a run holds follows from where it is.
HeldByStage(r) ==
    /\ stage[r] \in {"queued", "finished", "repaired"} => held[r] = {}
    /\ stage[r] = "user" => held[r] = {SessionKey(r)}
    /\ stage[r] \in Executing => held[r] = {SessionKey(r), UserKey(r)}
    /\ stage[r] = "unlocking" => SessionKey(r) \in held[r]

UsedKeysAreOwn(r) == \A key \in Key : InUse(key, r) => lock[key] = r

\* A live run has no session or user key that its finally blocks will not delete.
NoKeyForgotten(r) ==
    stage[r] # "crashed" =>
        \A key \in {SessionKey(r), UserKey(r)} : lock[key] = r => key \in held[r]

\* Of the calls of one run one at most has a POI.
OneCallPerPoi(r) ==
    \A i, j \in SlotsOf(r) :
        /\ stage[r] = "dag" /\ Occupies(r, i) /\ Occupies(r, j)
        /\ plan[r][i].poi = plan[r][j].poi
        => i = j

Locks == \A r \in Run : HeldByStage(r) /\ UsedKeysAreOwn(r) /\ NoKeyForgotten(r) /\ OneCallPerPoi(r)

-----------------------------------------------------------------------------
(* Tools and keys *)

\* The tools of a draft are of two layers.
LEMMA ToolLayers ==
    ASSUME NEW r \in Run, NEW i \in SlotsOf(r)
    PROVE  LayerOf(Tool(r, i)) \in {0, LastLayer}
BY DEF LayerOf, LastLayer

LEMMA KeysKnown ==
    ASSUME TypeOK, NEW r \in Run
    PROVE  /\ SessionKey(r) \in Key /\ UserKey(r) \in Key
           /\ \A i \in SlotsOf(r) : ResourceKey(r, i) \in Key
<1>1. session[r] \in Session /\ plan[r] \in Plans
  BY DEF TypeOK
<1>2. SessionKey(r) \in Key
  BY <1>1 DEF SessionKey, Key
<1>3. UserKey(r) \in Key
  BY <1>1 DEF UserKey, Key
<1>4. ASSUME NEW i \in SlotsOf(r) PROVE ResourceKey(r, i) \in Key
  <2>1. plan[r][i].poi \in Pois
    BY <1>1 DEF SlotsOf, Pois
  <2> QED
    BY <2>1 DEF ResourceKey, Key
<1> QED
  BY <1>2, <1>3, <1>4

LEMMA KeysApart ==
    ASSUME NEW r, NEW q
    PROVE  /\ SessionKey(r) # UserKey(q)
           /\ \A i : ResourceKey(r, i) # SessionKey(q) /\ ResourceKey(r, i) # UserKey(q)
BY DEF SessionKey, UserKey, ResourceKey

\* No step changes what a run has to do.
LEMMA Fixed ==
    ASSUME [Next]_vars
    PROVE  plan' = plan /\ session' = session
<1>1. CASE Next
  <2>1. ASSUME NEW r \in Run, Proceed(r) PROVE plan' = plan /\ session' = session
    BY <2>1 DEF Proceed, TakeUser, NextLayer, StartCall, DagEnds, DagTimesOut, Unlock
  <2>2. ASSUME NEW r \in Run, Answer(r) PROVE plan' = plan /\ session' = session
    BY <2>2 DEF Answer, ProviderBooks, CallEnds, DagCompensated, TimeoutCompensated
  <2>3. ASSUME NEW r \in Run, NEW w \in Worker, Begin(r, w) PROVE plan' = plan /\ session' = session
    BY <2>3 DEF Begin
  <2>4. ASSUME NEW r \in Run, Repair(r) PROVE plan' = plan /\ session' = session
    BY <2>4 DEF Repair
  <2>5. ASSUME NEW w \in Worker, Crash(w) PROVE plan' = plan /\ session' = session
    BY <2>5 DEF Crash
  <2>6. ASSUME NEW key \in Key, Expire(key) PROVE plan' = plan /\ session' = session
    BY <2>6 DEF Expire
  <2> QED
    BY <1>1, <2>1, <2>2, <2>3, <2>4, <2>5, <2>6 DEF Next
<1>2. CASE UNCHANGED vars
  BY <1>2 DEF vars
<1> QED
  BY <1>1, <1>2

LEMMA CallSet ==
    ASSUME TypeOK, NEW r \in Run, NEW i \in SlotsOf(r), NEW state \in CallState,
           SetCall(r, i, state)
    PROVE  /\ DOMAIN call' = Run
           /\ \A q \in Run : call'[q] \in [SlotsOf(q) -> CallState]
           /\ \A q \in Run : \A j \in SlotsOf(q) :
                call'[q][j] = IF q = r /\ j = i THEN state ELSE call[q][j]
<1>1. DOMAIN call = Run /\ \A q \in Run : call[q] \in [SlotsOf(q) -> CallState]
  BY DEF TypeOK
<1>2. call' = [call EXCEPT ![r] = [call[r] EXCEPT ![i] = state]]
  BY DEF SetCall
<1>3. [call[r] EXCEPT ![i] = state] \in [SlotsOf(r) -> CallState]
  BY <1>1
<1>4. \A j \in SlotsOf(r) : [call[r] EXCEPT ![i] = state][j] = IF j = i THEN state ELSE call[r][j]
  BY <1>1
<1> QED
  BY <1>1, <1>2, <1>3, <1>4

-----------------------------------------------------------------------------
(* Types *)

Typed == TypeOK /\ Begun

StageTyped(st) == st \in [Run -> {"queued", "user", "dag", "compensating", "undoing", "unlocking"} \cup Over]
LockTyped(lo) == lo \in [Key -> Run \cup {NoRun}]
CallTyped(ca) == DOMAIN ca = Run /\ \A r \in Run : ca[r] \in [SlotsOf(r) -> CallState]
HeldTyped(he) == DOMAIN he = Run /\ \A r \in Run : he[r] \subseteq {SessionKey(r), UserKey(r)}
BooksTyped(bo, sa) ==
    /\ DOMAIN sa = Worker
    /\ \A b \in bo \cup UNION {sa[w] : w \in Worker} : b[1] \in Run /\ b[2] \in SlotsOf(b[1])
ResultTyped(re) ==
    re \in [Run -> {"none", "no data", "raised"} \cup {"full_success", "partial_success", "full_failure"}]

LEMMA TypeParts ==
    ASSUME Typed
    PROVE  /\ plan \in [Run -> Plans] /\ session \in [Run -> Session]
           /\ StageTyped(stage) /\ worker \in [Run -> Worker \cup {NoWorker}]
           /\ layer \in [Run -> {NoLayer, 0, LastLayer}] /\ CallTyped(call)
           /\ LockTyped(lock) /\ HeldTyped(held) /\ BooksTyped(booked \cup uncancelled, saga)
           /\ ResultTyped(result) /\ crashes \in 0 .. MaxCrashes
BY DEF Typed, TypeOK, StageTyped, LockTyped, CallTyped, HeldTyped, BooksTyped, ResultTyped

\* The parts again, from what a step leaves.
LEMMA TypeAgain ==
    ASSUME Typed, plan' = plan, session' = session, Begun',
           StageTyped(stage'), worker' \in [Run -> Worker \cup {NoWorker}],
           layer' \in [Run -> {NoLayer, 0, LastLayer}], CallTyped(call'),
           LockTyped(lock'), HeldTyped(held'), BooksTyped(booked' \cup uncancelled', saga'),
           ResultTyped(result'), crashes' \in 0 .. MaxCrashes
    PROVE  Typed'
<1>1. plan' \in [Run -> Plans] /\ session' \in [Run -> Session]
  BY DEF Typed, TypeOK
<1>2. /\ \A r : SlotsOf(r)' = SlotsOf(r)
      /\ \A r : SessionKey(r)' = SessionKey(r) /\ UserKey(r)' = UserKey(r)
  BY DEF SlotsOf, SessionKey, UserKey
<1>3. (DOMAIN call = Run /\ \A r \in Run : call[r] \in [SlotsOf(r) -> CallState])'
  BY <1>2 DEF CallTyped
<1>4. (DOMAIN held = Run /\ \A r \in Run : held[r] \subseteq {SessionKey(r), UserKey(r)})'
  BY <1>2 DEF HeldTyped
<1>5. (/\ DOMAIN saga = Worker
       /\ \A b \in booked \cup uncancelled \cup UNION {saga[w] : w \in Worker} :
            b[1] \in Run /\ b[2] \in SlotsOf(b[1]))'
  BY <1>2 DEF BooksTyped
<1> QED
  BY <1>1, <1>3, <1>4, <1>5 DEF Typed, TypeOK, StageTyped, LockTyped, ResultTyped

LEMMA TypedInit == Init => Typed
<1> SUFFICES ASSUME Init PROVE Typed
  OBVIOUS
<1>1. DOMAIN call = Run /\ \A r \in Run : call[r] \in [SlotsOf(r) -> CallState]
  BY DEF Init, CallState
<1>2. lock \in [Key -> Run \cup {NoRun}]
  BY DEF Init
<1>3. \A b \in booked \cup uncancelled \cup UNION {saga[w] : w \in Worker} :
        b[1] \in Run /\ b[2] \in SlotsOf(b[1])
  BY DEF Init
<1>4. crashes \in 0 .. MaxCrashes
  BY CrashAssumption DEF Init
<1>5. layer \in [Run -> {NoLayer, 0, LastLayer}] /\ worker \in [Run -> Worker \cup {NoWorker}]
  BY DEF Init
<1>6. DOMAIN held = Run /\ \A r \in Run : held[r] \subseteq {SessionKey(r), UserKey(r)}
  BY DEF Init
<1>7. plan \in [Run -> Plans] /\ session \in [Run -> Session] /\ DOMAIN saga = Worker
  BY DEF Init
<1>8. /\ stage \in [Run -> {"queued", "user", "dag", "compensating", "undoing", "unlocking"} \cup Over]
      /\ result \in [Run -> {"none", "no data", "raised"} \cup
                            {"full_success", "partial_success", "full_failure"}]
  BY DEF Init
<1>9. Begun
  BY DEF Init, Begun
<1> QED
  BY <1>1, <1>2, <1>3, <1>4, <1>5, <1>6, <1>7, <1>8, <1>9 DEF Typed, TypeOK

\* What the steps of the locks do to them.
LEMMA LocksTyped ==
    ASSUME Typed, NEW r \in Run, NEW key \in Key,
           \/ Acquired(r, key) \/ Degraded(key) \/ Refused(key) \/ Release(key)
    PROVE  LockTyped(lock')
BY DEF Typed, TypeOK, Acquired, Degraded, Refused, Release, LockTyped

LEMMA TypedBegin ==
    ASSUME Typed, NEW r \in Run, NEW w \in Worker, Begin(r, w) PROVE Typed'
<1> USE TypeParts
<1>1. LockTyped(lock')
  BY KeysKnown, LocksTyped DEF Begin, Typed
<1>2. StageTyped(stage') /\ ResultTyped(result')
  BY DEF Begin, StageTyped, ResultTyped, Over
<1>3. HeldTyped(held')
  <2>1. HeldTyped([held EXCEPT ![r] = {SessionKey(r)}])
    BY DEF HeldTyped
  <2>2. held' = held \/ held' = [held EXCEPT ![r] = {SessionKey(r)}]
    BY DEF Begin
  <2> QED
    BY <2>1, <2>2
<1>4. Begun'
  BY DEF Begin, Begun, Typed, StageTyped
<1> QED
  BY <1>1, <1>2, <1>3, <1>4, TypeAgain DEF Begin

LEMMA TypedTakeUser ==
    ASSUME Typed, NEW r \in Run, TakeUser(r) PROVE Typed'
<1> USE TypeParts
<1>1. LockTyped(lock')
  BY KeysKnown, LocksTyped DEF TakeUser, Typed
<1>2. StageTyped(stage') /\ ResultTyped(result')
  BY DEF TakeUser, StageTyped, ResultTyped, Over
<1>3. HeldTyped(held')
  <2>1. HeldTyped([held EXCEPT ![r] = @ \cup {UserKey(r)}])
    BY DEF HeldTyped
  <2>2. held' = held \/ held' = [held EXCEPT ![r] = @ \cup {UserKey(r)}]
    BY DEF TakeUser
  <2> QED
    BY <2>1, <2>2
<1>4. Begun'
  BY DEF TakeUser, Begun, Typed, StageTyped
<1> QED
  BY <1>1, <1>2, <1>3, <1>4, TypeAgain DEF TakeUser

LEMMA TypedNextLayer ==
    ASSUME Typed, NEW r \in Run, NextLayer(r) PROVE Typed'
<1> USE TypeParts
<1> DEFINE new == [i \in SlotsOf(r) |->
                    IF i \notin InLayer(r, LayerAfter(layer[r])) THEN call[r][i]
                    ELSE IF DependenciesMet(r, i) THEN "starting" ELSE "skipped"]
<1>1. new \in [SlotsOf(r) -> CallState]
  BY DEF CallTyped, CallState, Settled
<1>2. call' = [call EXCEPT ![r] = new]
  BY DEF NextLayer
<1> HIDE DEF new
<1>3. CallTyped(call')
  BY <1>1, <1>2 DEF CallTyped
<1>4. layer' \in [Run -> {NoLayer, 0, LastLayer}]
  BY DEF NextLayer, LayerAfter
<1>5. Begun'
  BY DEF NextLayer, Begun, Typed
<1> QED
  BY <1>3, <1>4, <1>5, TypeAgain DEF NextLayer

LEMMA TypedStartCall ==
    ASSUME Typed, NEW r \in Run, NEW i \in SlotsOf(r), StartCall(r, i) PROVE Typed'
<1> USE TypeParts
<1>1. LockTyped(lock')
  <2>1. CASE UNCHANGED lock
    BY <2>1
  <2>2. CASE lock' # lock
    BY <2>2, KeysKnown, LocksTyped DEF StartCall, Typed, Degraded, Refused
  <2> QED
    BY <2>1, <2>2
<1>2. SetCall(r, i, "failure") \/ SetCall(r, i, "calling")
  BY DEF StartCall
<1>3. CallTyped(call')
  BY <1>2, CallSet DEF Typed, CallState, Settled, InFlight, CallTyped
<1>4. Begun'
  BY DEF StartCall, Begun, Typed
<1> QED
  BY <1>1, <1>3, <1>4, TypeAgain DEF StartCall

LEMMA TypedProviderBooks ==
    ASSUME Typed, NEW r \in Run, NEW i \in SlotsOf(r), ProviderBooks(r, i) PROVE Typed'
<1> USE TypeParts
<1>1. CallTyped(call')
  BY CallSet DEF Typed, CallState, InFlight, ProviderBooks, CallTyped
<1>2. BooksTyped(booked' \cup uncancelled', saga')
  BY DEF ProviderBooks, BooksTyped
<1>3. Begun'
  BY DEF ProviderBooks, Begun, Typed
<1> QED
  BY <1>1, <1>2, <1>3, TypeAgain DEF ProviderBooks

LEMMA TypedCallEnds ==
    ASSUME Typed, NEW r \in Run, NEW i \in SlotsOf(r), CallEnds(r, i) PROVE Typed'
<1> USE TypeParts
<1>1. LockTyped(lock')
  BY KeysKnown, LocksTyped DEF CallEnds, Typed
<1>2. PICK outcome \in {"success", "degraded", "failure"} :
        /\ SetCall(r, i, outcome)
        /\ saga' = IF outcome = "success" /\ PhysicalTool(Tool(r, i))
                   THEN [saga EXCEPT ![worker[r]] = @ \cup {<<r, i>>}]
                   ELSE saga
  BY DEF CallEnds
<1>3. CallTyped(call')
  BY <1>2, CallSet DEF Typed, CallState, Settled, CallTyped
<1>4. DOMAIN saga' = Worker /\ \A w \in Worker : saga'[w] \subseteq saga[w] \cup {<<r, i>>}
  BY <1>2 DEF BooksTyped
<1>5. BooksTyped(booked' \cup uncancelled', saga')
  BY <1>4 DEF CallEnds, BooksTyped
<1>6. Begun'
  BY DEF CallEnds, Begun, Typed
<1> QED
  BY <1>1, <1>3, <1>5, <1>6, TypeAgain DEF CallEnds

\* Bookings and steps only go, or become uncancelled ones.
LEMMA FewerTyped ==
    ASSUME Typed, booked' \subseteq booked, DOMAIN saga' = Worker,
           uncancelled' \subseteq uncancelled \cup UNION {saga[w] : w \in Worker},
           \A w \in Worker : saga'[w] \subseteq saga[w]
    PROVE  BooksTyped(booked' \cup uncancelled', saga')
<1>1. UNION {saga'[w] : w \in Worker} \subseteq UNION {saga[w] : w \in Worker}
  OBVIOUS
<1> QED
  BY <1>1, TypeParts DEF BooksTyped

LEMMA CompensateFewer ==
    ASSUME Typed, NEW w \in Worker, Compensate(w)
    PROVE  BooksTyped(booked' \cup uncancelled', saga')
BY FewerTyped DEF Typed, TypeOK, Compensate, Cancel

LEMMA ReturnsTyped ==
    ASSUME Typed, NEW r \in Run, Returns(r)
    PROVE  StageTyped(stage') /\ ResultTyped(result')
<1> USE TypeParts
<1>1. DagResult(r) \in {"full_success", "partial_success", "full_failure"}
  <2>1. CASE FailedSlots(r) = {}
    BY <2>1, Zenon DEF DagResult
  <2>2. CASE FailedSlots(r) # {} /\ ConfirmedSlots(r) # {}
    BY <2>2, Zenon DEF DagResult
  <2>3. CASE FailedSlots(r) # {} /\ ConfirmedSlots(r) = {}
    BY <2>3, Zenon DEF DagResult
  <2> QED
    BY <2>1, <2>2, <2>3
<1> QED
  BY <1>1 DEF Returns, StageTyped, ResultTyped

LEMMA TypedDagEnds ==
    ASSUME Typed, NEW r \in Run, DagEnds(r) PROVE Typed'
<1> USE TypeParts
<1>1. StageTyped(stage') /\ ResultTyped(result')
  BY ReturnsTyped DEF DagEnds, StageTyped
<1>2. Begun'
  BY DEF DagEnds, Returns, Begun, Typed, StageTyped
<1> QED
  BY <1>1, <1>2, TypeAgain DEF DagEnds

LEMMA TypedDagCompensated ==
    ASSUME Typed, NEW r \in Run, DagCompensated(r) PROVE Typed'
<1> USE TypeParts
<1>1. BooksTyped(booked' \cup uncancelled', saga')
  BY CompensateFewer DEF DagCompensated, Typed, Begun
<1>2. Begun'
  BY DEF DagCompensated, Returns, Begun, Typed, StageTyped
<1> QED
  BY <1>1, <1>2, ReturnsTyped, TypeAgain DEF DagCompensated

LEMMA TypedDagTimesOut ==
    ASSUME Typed, NEW r \in Run, DagTimesOut(r) PROVE Typed'
<1> USE TypeParts
<1>1. StageTyped(stage')
  BY DEF DagTimesOut, StageTyped
<1>2. LockTyped(lock')
  BY DEF DagTimesOut, CallsCutOff, LockTyped
<1>3. Begun'
  BY DEF DagTimesOut, Begun, Typed, StageTyped
<1> QED
  BY <1>1, <1>2, <1>3, TypeAgain DEF DagTimesOut

LEMMA TypedTimeoutCompensated ==
    ASSUME Typed, NEW r \in Run, TimeoutCompensated(r) PROVE Typed'
<1> USE TypeParts
<1>1. BooksTyped(booked' \cup uncancelled', saga')
  BY CompensateFewer DEF TimeoutCompensated, Typed, Begun
<1>2. StageTyped(stage') /\ ResultTyped(result')
  BY DEF TimeoutCompensated, StageTyped, ResultTyped
<1>3. Begun'
  BY DEF TimeoutCompensated, Begun, Typed, StageTyped
<1> QED
  BY <1>1, <1>2, <1>3, TypeAgain DEF TimeoutCompensated

LEMMA TypedUnlock ==
    ASSUME Typed, NEW r \in Run, NEW key \in {SessionKey(r), UserKey(r)}, Unlock(r, key)
    PROVE  Typed'
<1> USE TypeParts
<1>1. LockTyped(lock')
  BY KeysKnown, LocksTyped DEF Unlock, Typed
<1>2. StageTyped(stage') /\ HeldTyped(held')
  BY DEF Unlock, StageTyped, HeldTyped, Over
<1>3. Begun'
  BY DEF Unlock, Begun, Typed, StageTyped
<1> QED
  BY <1>1, <1>2, <1>3, TypeAgain DEF Unlock

LEMMA TypedRepair ==
    ASSUME Typed, NEW r \in Run, Repair(r) PROVE Typed'
<1> USE TypeParts
<1>1. /\ booked' \subseteq booked /\ DOMAIN saga' = Worker
      /\ \A v \in Worker : saga'[v] \subseteq saga[v]
      /\ uncancelled' \subseteq uncancelled \cup UNION {saga[v] : v \in Worker}
  <2>1. worker[r] \in Worker
    BY DEF Repair, Typed, Begun
  <2>2. \A replaced : TargetedSteps(r, replaced) \subseteq saga[worker[r]]
    BY DEF TargetedSteps
  <2> QED
    BY <2>1, <2>2 DEF Repair, BooksTyped
<1>2. BooksTyped(booked' \cup uncancelled', saga')
  BY <1>1, FewerTyped
<1>3. StageTyped(stage')
  BY DEF Repair, StageTyped, Over
<1>4. Begun'
  BY DEF Repair, Begun, Typed, StageTyped
<1> QED
  BY <1>2, <1>3, <1>4, TypeAgain DEF Repair

LEMMA TypedCrash ==
    ASSUME Typed, NEW w \in Worker, Crash(w) PROVE Typed'
<1> USE TypeParts
<1>1. /\ booked' \subseteq booked /\ DOMAIN saga' = Worker
      /\ \A v \in Worker : saga'[v] \subseteq saga[v]
      /\ uncancelled' = uncancelled
  BY DEF Crash, BooksTyped
<1>2. BooksTyped(booked' \cup uncancelled', saga')
  BY <1>1, FewerTyped
<1>3. crashes' \in 0 .. MaxCrashes
  BY CrashAssumption DEF Crash
<1>4. StageTyped(stage')
  BY DEF Crash, StageTyped, Over
<1>5. \A r \in RunningAt(w) : worker[r] = w
  BY DEF RunningAt
<1>6. Begun'
  BY <1>5 DEF Crash, Begun, Typed, StageTyped
<1> QED
  BY <1>2, <1>3, <1>4, <1>6, TypeAgain DEF Crash

LEMMA TypedExpire ==
    ASSUME Typed, NEW key \in Key, Expire(key) PROVE Typed'
<1> USE TypeParts
<1>1. LockTyped(lock')
  BY DEF Expire, LockTyped
<1>2. Begun'
  BY DEF Expire, Begun, Typed
<1> QED
  BY <1>1, <1>2, TypeAgain DEF Expire

LEMMA TypedStep == Typed /\ [Next]_vars => Typed'
<1> SUFFICES ASSUME Typed, [Next]_vars PROVE Typed'
  OBVIOUS
<1>1. CASE UNCHANGED vars
  <2>1. Begun'
    BY <1>1 DEF Begun, Typed, vars
  <2> QED
    BY <1>1, <2>1, TypeParts, TypeAgain DEF vars
<1>2. ASSUME NEW r \in Run, Proceed(r) PROVE Typed'
  BY <1>2, TypedTakeUser, TypedNextLayer, TypedStartCall, TypedDagEnds, TypedDagTimesOut, TypedUnlock
  DEF Proceed
<1>3. ASSUME NEW r \in Run, Answer(r) PROVE Typed'
  BY <1>3, TypedProviderBooks, TypedCallEnds, TypedDagCompensated, TypedTimeoutCompensated
  DEF Answer
<1> QED
  BY <1>1, <1>2, <1>3, TypedBegin, TypedRepair, TypedCrash, TypedExpire DEF Next

\* Every variable of ExecutionEngine.execute keeps its type, with failing Redis and
\* dying workers too.
THEOREM TypeCorrect == Spec => []TypeOK
BY TypedInit, TypedStep, PTL DEF Spec, Typed

-----------------------------------------------------------------------------
(* Calls and layers *)

Calls == Layered

LEMMA CallsKept ==
    ASSUME Calls, plan' = plan, layer' = layer, call' = call PROVE Calls'
BY DEF Calls, Layered, SlotsOf, Tool

\* A call that was made or is being made moves on.
LEMMA CallMoves ==
    ASSUME Typed, Calls, NEW r \in Run, NEW i \in SlotsOf(r), NEW state \in CallState,
           plan' = plan, layer' = layer, SetCall(r, i, state),
           call[r][i] \in {"starting"} \cup InFlight
    PROVE  Calls'
<1>1. \A q \in Run : \A j \in SlotsOf(q) :
         call'[q][j] = IF q = r /\ j = i THEN state ELSE call[q][j]
  BY CallSet DEF Typed
<1>2. \A q : SlotsOf(q)' = SlotsOf(q) /\ \A j : Tool(q, j)' = Tool(q, j)
  BY DEF SlotsOf, Tool
<1>3. call[r][i] \notin Settled \cup {"waiting"}
  BY DEF Settled, InFlight
<1>4. ~(layer[r] < LayerOf(Tool(r, i))) /\ ~(LayerOf(Tool(r, i)) < layer[r])
  BY <1>3 DEF Calls, Layered
<1> QED
  BY <1>1, <1>2, <1>4 DEF Calls, Layered

LEMMA CallsNextLayer ==
    ASSUME Typed, Calls, NEW r \in Run, NextLayer(r) PROVE Calls'
<1> DEFINE next == LayerAfter(layer[r])
<1>1. \A q : SlotsOf(q)' = SlotsOf(q) /\ \A j : Tool(q, j)' = Tool(q, j)
  BY DEF NextLayer, SlotsOf, Tool
<1>2. layer[r] \in {NoLayer, 0} /\ next \in {0, LastLayer} /\ layer[r] < next
      /\ (next = 0 => layer[r] = NoLayer) /\ (next = LastLayer => layer[r] = 0)
  BY TypeParts DEF NextLayer, LayerAfter, NoLayer, LastLayer
<1>3. \A q \in Run : layer'[q] = IF q = r THEN next ELSE layer[q]
  BY TypeParts DEF NextLayer
<1>4. \A i \in SlotsOf(r) : call'[r][i] =
         IF LayerOf(Tool(r, i)) # next THEN call[r][i]
         ELSE IF DependenciesMet(r, i) THEN "starting" ELSE "skipped"
  BY TypeParts DEF NextLayer, InLayer, CallTyped
<1>5. \A q \in Run : q # r => call'[q] = call[q]
  BY TypeParts DEF NextLayer, CallTyped
<1>6. \A i \in SlotsOf(r) : LayerOf(Tool(r, i)) = layer[r] => call[r][i] \in Settled
  BY DEF NextLayer, LayerSettled, InLayer
<1> HIDE DEF next
<1>7. ASSUME NEW i \in SlotsOf(r)
      PROVE  /\ next < LayerOf(Tool(r, i)) => call'[r][i] = "waiting"
             /\ LayerOf(Tool(r, i)) < next => call'[r][i] \in Settled
  <2>1. LayerOf(Tool(r, i)) \in {0, LastLayer}
    BY ToolLayers
  <2>2. ASSUME next < LayerOf(Tool(r, i)) PROVE call'[r][i] = "waiting"
    <3>1. layer[r] < LayerOf(Tool(r, i)) /\ LayerOf(Tool(r, i)) # next
      BY <1>2, <2>1, <2>2 DEF NoLayer, LastLayer
    <3> QED
      BY <3>1, <1>4 DEF Calls, Layered
  <2>3. ASSUME LayerOf(Tool(r, i)) < next PROVE call'[r][i] \in Settled
    <3>1. LayerOf(Tool(r, i)) = layer[r] /\ LayerOf(Tool(r, i)) # next
      BY <1>2, <2>1, <2>3 DEF NoLayer, LastLayer
    <3> QED
      BY <3>1, <1>4, <1>6
  <2> QED
    BY <2>2, <2>3
<1> QED
  BY <1>1, <1>3, <1>5, <1>7 DEF Calls, Layered

LEMMA CallsInit == Init => Calls
<1> SUFFICES ASSUME Init PROVE Calls
  OBVIOUS
<1>1. \A r \in Run : layer[r] = NoLayer /\ \A i \in SlotsOf(r) : call[r][i] = "waiting"
  BY DEF Init
<1>2. \A r \in Run : \A i \in SlotsOf(r) : LayerOf(Tool(r, i)) \in {0, LastLayer}
  BY ToolLayers
<1> QED
  BY <1>1, <1>2 DEF Calls, Layered, NoLayer, LastLayer

LEMMA CallsStep == Typed /\ Calls /\ [Next]_vars => Calls'
<1> SUFFICES ASSUME Typed, Calls, [Next]_vars PROVE Calls'
  OBVIOUS
<1> USE CallsKept
<1>1. ASSUME NEW r \in Run, Proceed(r) PROVE Calls'
  <2>1. CASE NextLayer(r)
    BY <2>1, CallsNextLayer
  <2>2. ASSUME NEW i \in SlotsOf(r), StartCall(r, i) PROVE Calls'
    <3>1. SetCall(r, i, "failure") \/ SetCall(r, i, "calling")
      BY <2>2 DEF StartCall
    <3> QED
      BY <2>2, <3>1, CallMoves DEF StartCall, CallState, Settled, InFlight
  <2> QED
    BY <1>1, <2>1, <2>2 DEF Proceed, TakeUser, DagEnds, DagTimesOut, Unlock
<1>2. ASSUME NEW r \in Run, NEW i \in SlotsOf(r), ProviderBooks(r, i) \/ CallEnds(r, i)
      PROVE  Calls'
  <2>2. CASE ProviderBooks(r, i)
    BY <2>2, CallMoves DEF ProviderBooks, CallState, InFlight
  <2>3. CASE CallEnds(r, i)
    BY <2>3, CallMoves DEF CallEnds, CallState, Settled
  <2> QED
    BY <1>2, <2>2, <2>3
<1>3. CASE UNCHANGED vars
  BY <1>3 DEF vars
<1> QED
  BY <1>1, <1>2, <1>3
  DEF Next, Answer, DagCompensated, TimeoutCompensated, Begin, Repair, Crash, Expire

-----------------------------------------------------------------------------
(* Bookings and the saga *)

Books == OnlyPhysicalBooked /\ Recorded /\ Undone

LEMMA BooksInit == Init => Books
BY DEF Init, Books, OnlyPhysicalBooked, Recorded, Undone

\* No call of a run that is not in the DAG yet has been answered.
LEMMA NothingCalledYet ==
    ASSUME Typed, Calls, NEW r \in Run, stage[r] \in {"queued", "user"}, NEW i \in SlotsOf(r)
    PROVE  call[r][i] = "waiting"
<1>1. layer[r] = NoLayer
  BY DEF Typed, Begun
<1>2. LayerOf(Tool(r, i)) \in {0, LastLayer}
  BY ToolLayers
<1> QED
  BY <1>1, <1>2 DEF Calls, Layered, NoLayer, LastLayer

\* The sets of slots depend on the draft and the run's calls.
LEMMA SameSlots ==
    ASSUME plan' = plan, NEW r \in Run, call'[r] = call[r]
    PROVE  /\ SlotsOf(r)' = SlotsOf(r) /\ FailedSlots(r)' = FailedSlots(r)
           /\ \A i : Tool(r, i)' = Tool(r, i)
BY DEF SlotsOf, FailedSlots, Tool

\* The steps before the DAG.
LEMMA BooksEnter ==
    ASSUME Typed, Calls, Books, NEW r \in Run, stage[r] \in {"queued", "user"},
           plan' = plan, call' = call, booked' = booked, saga' = saga, uncancelled' = uncancelled,
           \A q \in Run : q # r => stage'[q] = stage[q] /\ worker'[q] = worker[q] /\ result'[q] = result[q]
    PROVE  Books'
<1> USE SameSlots
<1>1. \A i \in SlotsOf(r) : call[r][i] # "success"
  BY NothingCalledYet
<1>2. OnlyPhysicalBooked'
  BY DEF Books, OnlyPhysicalBooked
<1>3. Recorded'
  BY <1>1 DEF Books, Recorded
<1>4. Undone'
  BY <1>1 DEF Books, Undone
<1> QED
  BY <1>2, <1>3, <1>4 DEF Books

\* The steps in the DAG that book nothing: no answer is a success that was none.
LEMMA BooksInDag ==
    ASSUME Typed, Books, NEW r \in Run, stage[r] = "dag",
           UNCHANGED <<plan, stage, worker, booked, saga, uncancelled, result>>,
           \A q \in Run : q # r => call'[q] = call[q],
           \A i \in SlotsOf(r) : call'[r][i] = "success" => call[r][i] = "success"
    PROVE  Books'
<1>1. \A q : SlotsOf(q)' = SlotsOf(q) /\ \A i : Tool(q, i)' = Tool(q, i)
  BY DEF SlotsOf, Tool
<1>2. OnlyPhysicalBooked'
  BY <1>1 DEF Books, OnlyPhysicalBooked
<1>3. Recorded'
  BY <1>1 DEF Books, Recorded
<1>4. Undone'
  BY <1>1, SameSlots DEF Books, Undone
<1> QED
  BY <1>2, <1>3, <1>4 DEF Books

LEMMA BooksNextLayer ==
    ASSUME Typed, Books, NEW r \in Run, NextLayer(r) PROVE Books'
<1>1. \A q \in Run : q # r => call'[q] = call[q]
  BY TypeParts DEF NextLayer, CallTyped
<1>2. \A i \in SlotsOf(r) : call'[r][i] = "success" => call[r][i] = "success"
  BY TypeParts DEF NextLayer, CallTyped
<1> QED
  BY <1>1, <1>2, BooksInDag DEF NextLayer

LEMMA BooksStartCall ==
    ASSUME Typed, Books, NEW r \in Run, NEW i \in SlotsOf(r), StartCall(r, i) PROVE Books'
<1>1. PICK state \in {"failure", "calling"} : SetCall(r, i, state)
  BY DEF StartCall
<1>2. \A q \in Run : \A j \in SlotsOf(q) :
         call'[q][j] = IF q = r /\ j = i THEN state ELSE call[q][j]
  BY <1>1, CallSet DEF Typed, CallState, Settled, InFlight
<1>3. \A q \in Run : q # r => call'[q] = call[q]
  BY <1>1, TypeParts DEF SetCall, CallTyped
<1> QED
  BY <1>2, <1>3, BooksInDag DEF StartCall

\* A booking is made by a call that has not been answered.
LEMMA BooksProvider ==
    ASSUME Typed, Books, NEW r \in Run, NEW i \in SlotsOf(r), ProviderBooks(r, i) PROVE Books'
<1>1. \A q \in Run : \A j \in SlotsOf(q) :
         call'[q][j] = IF q = r /\ j = i THEN "acted" ELSE call[q][j]
  BY CallSet DEF Typed, ProviderBooks, CallState, InFlight
<1>2. \A q : SlotsOf(q)' = SlotsOf(q) /\ \A j : Tool(q, j)' = Tool(q, j)
  BY DEF ProviderBooks, SlotsOf, Tool
<1>3. \A q \in Run : FailedSlots(q)' = FailedSlots(q)
  BY <1>1, <1>2 DEF ProviderBooks, FailedSlots
<1>4. OnlyPhysicalBooked'
  BY <1>2 DEF ProviderBooks, Books, OnlyPhysicalBooked
<1>5. \A q \in Run : \A j \in SlotsOf(q) : call'[q][j] = "success" =>
         call[q][j] = "success" /\ (<<q, j>> \in booked' => <<q, j>> \in booked)
  BY <1>1 DEF ProviderBooks
<1>6. Recorded'
  BY <1>2, <1>5 DEF ProviderBooks, Books, Recorded
<1>7. Undone'
  BY <1>2, <1>3, <1>5 DEF ProviderBooks, Books, Undone
<1> QED
  BY <1>4, <1>6, <1>7 DEF Books

\* A success that is booked is a physical tool's, and goes into the saga.
LEMMA BooksCallEnds ==
    ASSUME Typed, Books, NEW r \in Run, NEW i \in SlotsOf(r), CallEnds(r, i) PROVE Books'
<1>1. PICK outcome \in {"success", "degraded", "failure"} :
        /\ SetCall(r, i, outcome)
        /\ saga' = IF outcome = "success" /\ PhysicalTool(Tool(r, i))
                   THEN [saga EXCEPT ![worker[r]] = @ \cup {<<r, i>>}]
                   ELSE saga
  BY DEF CallEnds
<1>2. \A q \in Run : \A j \in SlotsOf(q) :
         call'[q][j] = IF q = r /\ j = i THEN outcome ELSE call[q][j]
  BY <1>1, CallSet DEF Typed, CallState, Settled
<1>3. \A q : SlotsOf(q)' = SlotsOf(q) /\ \A j : Tool(q, j)' = Tool(q, j)
  BY DEF CallEnds, SlotsOf, Tool
<1>4. \A q \in Run : q # r => FailedSlots(q)' = FailedSlots(q)
  BY <1>2, <1>3 DEF FailedSlots
<1>5. worker[r] \in Worker /\ DOMAIN saga = Worker
  BY DEF CallEnds, Typed, TypeOK, Begun
<1>6. OnlyPhysicalBooked'
  BY <1>3 DEF CallEnds, Books, OnlyPhysicalBooked
<1>7. ASSUME NEW q \in Run, NEW j \in SlotsOf(q), stage[q] \in Executing,
             call'[q][j] = "success", <<q, j>> \in booked, <<q, j>> \notin uncancelled
      PROVE  <<q, j>> \in saga'[worker[q]]
  <2>1. CASE q = r /\ j = i
    <3>1. outcome = "success" /\ PhysicalTool(Tool(r, i))
      BY <1>2, <1>7, <2>1 DEF Books, OnlyPhysicalBooked
    <3> QED
      BY <3>1, <1>1, <1>5, <2>1
  <2>2. CASE ~(q = r /\ j = i)
    <3>1. <<q, j>> \in saga[worker[q]]
      BY <1>2, <1>7, <2>2 DEF Books, Recorded
    <3>2. worker[q] \in Worker
      BY <1>7 DEF Typed, Begun, Executing
    <3> QED
      BY <3>1, <3>2, <1>1, <1>5
  <2> QED
    BY <2>1, <2>2
<1>8. Recorded'
  BY <1>3, <1>7 DEF CallEnds, Recorded
<1>9. Undone'
  BY <1>2, <1>3, <1>4 DEF CallEnds, Books, Undone
<1> QED
  BY <1>6, <1>8, <1>9 DEF Books

\* A compensation: what a run was told of is in its worker's saga, which is undone or
\* reported.
LEMMA BooksCompensated ==
    ASSUME Typed, Books, NEW r \in Run, stage[r] \in Executing, Compensate(worker[r]),
           stage' = [stage EXCEPT ![r] = "unlocking"],
           UNCHANGED <<plan, worker, call>>,
           \A q \in Run : q # r => result'[q] = result[q]
    PROVE  Books'
<1> USE SameSlots
<1>1. PICK undone \in SUBSET saga[worker[r]] :
        /\ booked' = booked \ undone
        /\ uncancelled' = uncancelled \cup (saga[worker[r]] \ undone)
  BY DEF Compensate, Cancel
<1>2. saga' = [saga EXCEPT ![worker[r]] = {}]
  BY DEF Compensate
<1>3. \A q \in Run : stage'[q] = IF q = r THEN "unlocking" ELSE stage[q]
  BY DEF Typed, TypeOK
<1>4. OnlyPhysicalBooked'
  BY <1>1 DEF Books, OnlyPhysicalBooked
<1>5. ASSUME NEW q \in Run, NEW i \in SlotsOf(q), stage'[q] \in Executing,
             call[q][i] = "success", <<q, i>> \in booked', <<q, i>> \notin uncancelled'
      PROVE  <<q, i>> \in saga'[worker[q]]
  <2>1. stage[q] \in Executing /\ worker[q] \in Worker /\ DOMAIN saga = Worker
    BY <1>3, <1>5 DEF Typed, TypeOK, Begun, Executing
  <2>2. <<q, i>> \in saga[worker[q]] /\ <<q, i>> \notin saga[worker[r]]
    BY <1>1, <1>5, <2>1 DEF Books, Recorded
  <2> QED
    BY <1>2, <2>1, <2>2
<1>6. Recorded'
  BY <1>5 DEF Recorded
<1>7. \A i \in SlotsOf(r) : call[r][i] = "success" => <<r, i>> \notin booked' \ uncancelled'
  BY <1>1 DEF Books, Recorded
<1>8. \A q \in Run : q # r => \A i : <<q, i>> \in booked' \ uncancelled' => <<q, i>> \in booked \ uncancelled
  BY <1>1
<1>9. Undone'
  BY <1>3, <1>7, <1>8 DEF Books, Undone
<1> QED
  BY <1>4, <1>6, <1>9 DEF Books

\* The end of the DAG with nothing to compensate: there was no failure, or nothing is on
\* record.
LEMMA BooksReturns ==
    ASSUME Typed, Books, NEW r \in Run, stage[r] = "dag", ~MustCompensate(r), Returns(r),
           UNCHANGED <<plan, worker, call, booked, saga, uncancelled>>
    PROVE  Books'
<1> USE SameSlots
<1>1. \A q \in Run : q # r => result'[q] = result[q]
  BY TypeParts DEF Returns, ResultTyped
<1>2. FailedSlots(r) = {} => result'[r] # "no data"
  <2>1. FailedSlots(r) = {} => DagResult(r) = "full_success"
    BY Zenon DEF DagResult
  <2> QED
    BY <2>1, TypeParts DEF Returns, ResultTyped
<1>3. \A q \in Run : stage'[q] = IF q = r THEN "unlocking" ELSE stage[q]
  BY TypeParts DEF Returns, StageTyped
<1>4. OnlyPhysicalBooked'
  BY DEF Books, OnlyPhysicalBooked
<1>5. Recorded'
  BY <1>3 DEF Books, Recorded, Executing
<1>6. FailedSlots(r) # {} => \A i \in SlotsOf(r) :
        call[r][i] = "success" => <<r, i>> \notin booked \ uncancelled
  BY DEF MustCompensate, Books, Recorded, Executing
<1>7. Undone'
  BY <1>1, <1>2, <1>3, <1>6 DEF Books, Undone
<1> QED
  BY <1>4, <1>5, <1>7 DEF Books

\* A run goes on to wait for its compensation.
LEMMA BooksWait ==
    ASSUME Typed, Books, NEW r \in Run, stage[r] \in {"dag", "compensating"},
           NEW next \in {"compensating", "undoing"}, stage' = [stage EXCEPT ![r] = next],
           UNCHANGED <<plan, worker, call, booked, saga, uncancelled, result>>
    PROVE  Books'
<1> USE SameSlots
<1>1. \A q \in Run : stage'[q] = IF q = r THEN next ELSE stage[q]
  BY TypeParts DEF StageTyped
<1>2. OnlyPhysicalBooked'
  BY DEF Books, OnlyPhysicalBooked
<1>3. Recorded'
  BY <1>1 DEF Books, Recorded, Executing
<1>4. Undone'
  BY <1>1 DEF Books, Undone
<1> QED
  BY <1>2, <1>3, <1>4 DEF Books

LEMMA BooksDagEnds ==
    ASSUME Typed, Books, NEW r \in Run, DagEnds(r) PROVE Books'
BY BooksReturns, BooksWait DEF DagEnds

LEMMA BooksDagCompensated ==
    ASSUME Typed, Books, NEW r \in Run, DagCompensated(r) PROVE Books'
<1>1. \A q \in Run : q # r => result'[q] = result[q]
  BY TypeParts DEF DagCompensated, Returns, ResultTyped
<1> QED
  BY <1>1, BooksCompensated DEF DagCompensated, Returns, Executing

LEMMA BooksDagTimesOut ==
    ASSUME Typed, Books, NEW r \in Run, DagTimesOut(r) PROVE Books'
BY BooksWait DEF DagTimesOut

LEMMA BooksTimeoutCompensated ==
    ASSUME Typed, Books, NEW r \in Run, TimeoutCompensated(r) PROVE Books'
<1>1. \A q \in Run : q # r => result'[q] = result[q]
  BY TypeParts DEF TimeoutCompensated, ResultTyped
<1> QED
  BY <1>1, BooksCompensated DEF TimeoutCompensated, Executing

LEMMA BooksUnlock ==
    ASSUME Typed, Books, NEW r \in Run, NEW key, Unlock(r, key) PROVE Books'
<1> USE SameSlots
<1>1. UNCHANGED <<plan, worker, call, booked, saga, uncancelled, result>>
  BY DEF Unlock
<1>2. \A q \in Run : stage'[q] = stage[q] \/ (stage[q] = "unlocking" /\ stage'[q] = "finished")
  <2>1. stage[r] = "unlocking" /\ StageTyped(stage)
    BY TypeParts DEF Unlock
  <2>2. stage' = stage \/ stage' = [stage EXCEPT ![r] = "finished"]
    BY DEF Unlock
  <2> QED
    BY <2>1, <2>2 DEF StageTyped
<1>3. OnlyPhysicalBooked'
  BY <1>1 DEF Books, OnlyPhysicalBooked
<1>4. Recorded'
  BY <1>1, <1>2 DEF Books, Recorded, Executing
<1>5. Undone'
  BY <1>1, <1>2 DEF Books, Undone
<1> QED
  BY <1>3, <1>4, <1>5 DEF Books

\* The replanner takes a step out of the saga, and out of the bookings or among those
\* that could not be cancelled.
LEMMA BooksRepair ==
    ASSUME Typed, Books, NEW r \in Run, Repair(r) PROVE Books'
<1> USE SameSlots
<1>1. PICK replaced : \E cancelled : \E undone \in SUBSET TargetedSteps(r, replaced) :
        /\ booked' = booked \ (cancelled \cup undone)
        /\ uncancelled' = uncancelled \cup (TargetedSteps(r, replaced) \ undone)
        /\ saga' = [saga EXCEPT ![worker[r]] = @ \ TargetedSteps(r, replaced)]
  BY DEF Repair
<1> DEFINE steps == TargetedSteps(r, replaced)
<1>2. PICK cancelled : \E undone \in SUBSET steps :
        /\ booked' = booked \ (cancelled \cup undone)
        /\ uncancelled' = uncancelled \cup (steps \ undone)
        /\ saga' = [saga EXCEPT ![worker[r]] = @ \ steps]
  BY <1>1
<1> HIDE DEF steps
<1>3. UNCHANGED <<plan, worker, call, result>>
  BY DEF Repair
<1>4. \A q \in Run : stage'[q] = IF q = r THEN "repaired" ELSE stage[q]
  BY TypeParts DEF Repair, StageTyped
<1>5. OnlyPhysicalBooked'
  BY <1>2, <1>3 DEF Books, OnlyPhysicalBooked
<1>6. ASSUME NEW q \in Run, NEW i \in SlotsOf(q), stage'[q] \in Executing,
             call[q][i] = "success", <<q, i>> \in booked', <<q, i>> \notin uncancelled'
      PROVE  <<q, i>> \in saga'[worker[q]]
  <2>1. stage[q] \in Executing /\ worker[q] \in Worker /\ DOMAIN saga = Worker
    BY <1>4, <1>6 DEF Typed, TypeOK, Begun, Executing
  <2>2. <<q, i>> \in saga[worker[q]] /\ <<q, i>> \notin steps
    BY <1>2, <1>6, <2>1 DEF Books, Recorded
  <2> QED
    BY <1>2, <2>1, <2>2
<1>7. Recorded'
  BY <1>3, <1>6 DEF Recorded
<1>8. booked' \ uncancelled' \subseteq booked \ uncancelled
  BY <1>2
<1>9. Undone'
  BY <1>3, <1>4, <1>8 DEF Books, Undone
<1> QED
  BY <1>5, <1>7, <1>9 DEF Books

\* With a worker its runs go, and only they rely on its saga.
LEMMA BooksCrash ==
    ASSUME Typed, Books, NEW w \in Worker, Crash(w) PROVE Books'
<1> USE SameSlots
<1>1. UNCHANGED <<plan, worker, call, booked, uncancelled, result>>
  BY DEF Crash
<1>2. \A q \in Run : stage'[q] = IF q \in RunningAt(w) THEN "crashed" ELSE stage[q]
  BY DEF Crash
<1>3. OnlyPhysicalBooked'
  BY <1>1 DEF Books, OnlyPhysicalBooked
<1>4. \A q \in Run : stage'[q] \in Executing =>
        stage[q] \in Executing /\ worker[q] \in Worker /\ worker[q] # w
  BY <1>2 DEF RunningAt, Over, Typed, Begun, Executing
<1>5. \A v \in Worker : v # w => saga'[v] = saga[v]
  BY TypeParts DEF Crash, BooksTyped
<1>6. Recorded'
  BY <1>1, <1>4, <1>5 DEF Books, Recorded
<1>7. Undone'
  BY <1>1, <1>2 DEF Books, Undone
<1> QED
  BY <1>3, <1>6, <1>7 DEF Books

LEMMA BooksStep == Typed /\ Calls /\ Books /\ [Next]_vars => Books'
<1> SUFFICES ASSUME Typed, Calls, Books, [Next]_vars PROVE Books'
  OBVIOUS
<1>1. ASSUME UNCHANGED <<plan, stage, worker, call, booked, saga, uncancelled, result>>
      PROVE  Books'
  BY <1>1, SameSlots DEF Books, OnlyPhysicalBooked, Recorded, Undone
<1>2. ASSUME NEW r \in Run, NEW w \in Worker, Begin(r, w) PROVE Books'
  <2>1. \A q \in Run : q # r => stage'[q] = stage[q] /\ worker'[q] = worker[q] /\ result'[q] = result[q]
    BY <1>2, TypeParts DEF Begin, StageTyped, ResultTyped
  <2> QED
    BY <1>2, <2>1, BooksEnter DEF Begin
<1>3. ASSUME NEW r \in Run, Proceed(r) PROVE Books'
  <2>1. CASE TakeUser(r)
    <3>1. \A q \in Run : q # r => stage'[q] = stage[q] /\ worker'[q] = worker[q] /\ result'[q] = result[q]
      BY <2>1, TypeParts DEF TakeUser, StageTyped, ResultTyped
    <3> QED
      BY <2>1, <3>1, BooksEnter DEF TakeUser
  <2> QED
    BY <1>3, <2>1, BooksNextLayer, BooksStartCall, BooksDagEnds, BooksDagTimesOut, BooksUnlock DEF Proceed
<1>4. ASSUME NEW r \in Run, Answer(r) PROVE Books'
  BY <1>4, BooksProvider, BooksCallEnds, BooksDagCompensated, BooksTimeoutCompensated DEF Answer
<1>5. ASSUME NEW key \in Key, Expire(key) PROVE Books'
  BY <1>1, <1>5 DEF Expire
<1>6. CASE UNCHANGED vars
  BY <1>1, <1>6 DEF vars
<1> QED
  BY <1>2, <1>3, <1>4, <1>5, <1>6, BooksRepair, BooksCrash DEF Next

LEMMA InvariantInit == Init => Invariant
BY TypedInit, CallsInit, BooksInit DEF Typed, Calls, Books, Invariant

LEMMA InvariantStep == Invariant /\ [Next]_vars => Invariant'
BY TypedStep, CallsStep, BooksStep DEF Typed, Calls, Books, Invariant

\* The inductive invariant, with dying workers and a Redis that may fail.
THEOREM InvariantHolds == Spec => []Invariant
BY InvariantInit, InvariantStep, PTL DEF Spec

\* When execute() returns for a run that failed in part, failed or timed out, none of
\* the bookings it was told of is outstanding but those whose cancellation failed and
\* was reported, with runs of several workers compensating, repairing and dying in
\* between.
THEOREM FailedRunIsUndoneHolds == Spec => []FailedRunIsUndone
<1>1. Invariant => FailedRunIsUndone
  BY DEF Invariant, Undone, FailedRunIsUndone
<1> QED
  BY <1>1, InvariantHolds, PTL

-----------------------------------------------------------------------------
(* Locks, as long as no Redis command fails and no compensation outlives a key *)

LEMMA LocksInit == Init => Locks
<1> SUFFICES ASSUME Init, NEW r \in Run
             PROVE  HeldByStage(r) /\ UsedKeysAreOwn(r) /\ NoKeyForgotten(r) /\ OneCallPerPoi(r)
  BY DEF Locks
<1>1. Typed
  BY TypedInit
<1>2. stage[r] = "queued" /\ held[r] = {} /\ \A key \in Key : lock[key] = NoRun
  BY DEF Init
<1>3. SessionKey(r) \in Key /\ UserKey(r) \in Key
  BY <1>1, KeysKnown DEF Typed
<1> QED
  BY <1>2, <1>3, NoneAssumption DEF HeldByStage, Executing, UsedKeysAreOwn, InUse, NoKeyForgotten,
     OneCallPerPoi

\* What a step does not change about a run.
LEMMA SameRun ==
    ASSUME plan' = plan, session' = session, NEW r \in Run, NEW q \in Run
    PROVE  /\ SlotsOf(q)' = SlotsOf(q) /\ Key' = Key
           /\ SessionKey(q)' = SessionKey(q) /\ UserKey(q)' = UserKey(q)
           /\ \A i : Tool(q, i)' = Tool(q, i) /\ ResourceKey(q, i)' = ResourceKey(q, i)
           /\ call'[q] = call[q] => \A i : Occupies(q, i)' = Occupies(q, i)
           /\ call'[q] = call[q] /\ held'[q] = held[q] /\ stage'[q] = stage[q] =>
                \A key : InUse(key, q)' = InUse(key, q)
BY DEF SlotsOf, Key, SessionKey, UserKey, Tool, ResourceKey, Occupies, InUse

\* A step of run r that touches no key that has another run's value leaves the others
\* what they had.
LEMMA OthersKeep ==
    ASSUME Typed, Locks, plan' = plan, session' = session, NEW r \in Run, NEW q \in Run, q # r,
           call'[q] = call[q], held'[q] = held[q], stage'[q] = stage[q],
           \A key \in Key : lock'[key] = lock[key] \/ (lock[key] \in {r, NoRun} /\ lock'[key] \in {r, NoRun})
    PROVE  (HeldByStage(q) /\ UsedKeysAreOwn(q) /\ NoKeyForgotten(q) /\ OneCallPerPoi(q))'
<1> USE SameRun, NoneAssumption
<1>1. HeldByStage(q)'
  BY DEF Locks, HeldByStage
<1>2. UsedKeysAreOwn(q)'
  BY DEF Locks, UsedKeysAreOwn
<1>3. SessionKey(q) \in Key /\ UserKey(q) \in Key
  BY KeysKnown DEF Typed
<1>4. NoKeyForgotten(q)'
  BY <1>3 DEF Locks, NoKeyForgotten
<1>5. OneCallPerPoi(q)'
  BY DEF Locks, OneCallPerPoi
<1> QED
  BY <1>1, <1>2, <1>4, <1>5

LEMMA LocksStepOf ==
    ASSUME Typed, Locks, plan' = plan, session' = session, NEW r \in Run,
           \A q \in Run : q # r => call'[q] = call[q] /\ held'[q] = held[q] /\ stage'[q] = stage[q],
           \A key \in Key : lock'[key] = lock[key] \/ (lock[key] \in {r, NoRun} /\ lock'[key] \in {r, NoRun}),
           (HeldByStage(r) /\ UsedKeysAreOwn(r) /\ NoKeyForgotten(r) /\ OneCallPerPoi(r))'
    PROVE  Locks'
BY OthersKeep DEF Locks

\* A run that holds nothing and calls nobody.
LEMMA IdleInUse ==
    ASSUME NEW r \in Run, \A i \in SlotsOf(r) : ~Occupies(r, i)
    PROVE  /\ \A key : InUse(key, r) => key \in held[r]
           /\ OneCallPerPoi(r)
BY DEF InUse, OneCallPerPoi

\* execute() gets the session's lock or returns.
LEMMA LocksBegin ==
    ASSUME ~RedisMayFail, Typed, Calls, Locks, NEW r \in Run, NEW w \in Worker, Begin(r, w)
    PROVE  Locks'
<1> USE SameRun, NoneAssumption, TypeParts DEF Executing
<1>1. plan' = plan /\ session' = session /\ call' = call
  BY DEF Begin
<1>2. \A q \in Run : q # r => held'[q] = held[q] /\ stage'[q] = stage[q]
  BY DEF Begin, HeldTyped, StageTyped
<1>3. stage[r] = "queued" /\ held[r] = {}
  BY DEF Begin, Locks, HeldByStage
<1>4. \A i \in SlotsOf(r) : ~Occupies(r, i)
  BY <1>3, NothingCalledYet DEF Occupies, InFlight
<1>5. SessionKey(r) \in Key /\ UserKey(r) \in Key /\ SessionKey(r) # UserKey(r)
  BY KeysKnown, KeysApart DEF Typed
<1>6. lock[SessionKey(r)] # r /\ lock[UserKey(r)] # r
  BY <1>3 DEF Locks, NoKeyForgotten
<1>7. CASE Acquired(r, SessionKey(r)) /\ stage' = [stage EXCEPT ![r] = "user"]
           /\ held' = [held EXCEPT ![r] = {SessionKey(r)}]
  <2>1. stage'[r] = "user" /\ held'[r] = {SessionKey(r)}
    BY <1>7 DEF StageTyped, HeldTyped
  <2>2. lock[SessionKey(r)] = NoRun /\ lock'[SessionKey(r)] = r
        /\ \A key \in Key : key # SessionKey(r) => lock'[key] = lock[key]
    BY <1>5, <1>7 DEF Acquired, LockTyped
  <2>3. HeldByStage(r)' /\ UsedKeysAreOwn(r)'
    BY <1>1, <2>1, <2>2 DEF HeldByStage, UsedKeysAreOwn, InUse
  <2>4. NoKeyForgotten(r)'
    BY <1>1, <1>5, <1>6, <2>1, <2>2 DEF NoKeyForgotten
  <2>5. OneCallPerPoi(r)'
    BY <1>1, <2>1 DEF OneCallPerPoi
  <2> QED
    BY <1>1, <1>2, <2>2, <2>3, <2>4, <2>5, LocksStepOf
<1>8. CASE lock' = lock /\ stage' = [stage EXCEPT ![r] = "finished"] /\ held' = held
  <2>1. stage'[r] = "finished" /\ held'[r] = {}
    BY <1>3, <1>8 DEF StageTyped
  <2>2. HeldByStage(r)' /\ UsedKeysAreOwn(r)' /\ OneCallPerPoi(r)'
    BY <1>1, <2>1 DEF HeldByStage, UsedKeysAreOwn, InUse, OneCallPerPoi
  <2>3. NoKeyForgotten(r)'
    BY <1>1, <1>6, <1>8 DEF NoKeyForgotten
  <2> QED
    BY <1>1, <1>2, <1>8, <2>2, <2>3, LocksStepOf
<1> QED
  BY <1>7, <1>8 DEF Begin, Degraded, Refused

\* The user's lock, and into the DAG.
LEMMA LocksTakeUser ==
    ASSUME ~RedisMayFail, Typed, Calls, Locks, NEW r \in Run, TakeUser(r)
    PROVE  Locks'
<1> USE SameRun, NoneAssumption, TypeParts DEF Executing
<1>1. plan' = plan /\ session' = session /\ call' = call
  BY DEF TakeUser
<1>2. \A q \in Run : q # r => held'[q] = held[q] /\ stage'[q] = stage[q]
  BY DEF TakeUser, HeldTyped, StageTyped
<1>3. stage[r] = "user" /\ held[r] = {SessionKey(r)}
  BY DEF TakeUser, Locks, HeldByStage
<1>4. \A i \in SlotsOf(r) : ~Occupies(r, i)
  BY <1>3, NothingCalledYet DEF Occupies, InFlight
<1>5. SessionKey(r) \in Key /\ UserKey(r) \in Key /\ SessionKey(r) # UserKey(r)
  BY KeysKnown, KeysApart DEF Typed
<1>6. lock[SessionKey(r)] = r /\ lock[UserKey(r)] # r
  BY <1>3, <1>5 DEF Locks, UsedKeysAreOwn, InUse, NoKeyForgotten
<1>7. CASE Acquired(r, UserKey(r)) /\ stage' = [stage EXCEPT ![r] = "dag"]
           /\ held' = [held EXCEPT ![r] = @ \cup {UserKey(r)}]
  <2>1. stage'[r] = "dag" /\ held'[r] = {SessionKey(r), UserKey(r)}
    BY <1>3, <1>7 DEF StageTyped, HeldTyped
  <2>2. lock[UserKey(r)] = NoRun /\ lock'[UserKey(r)] = r
        /\ \A key \in Key : key # UserKey(r) => lock'[key] = lock[key]
    BY <1>5, <1>7 DEF Acquired, LockTyped
  <2>3. HeldByStage(r)' /\ OneCallPerPoi(r)'
    BY <1>1, <1>4, <2>1 DEF HeldByStage, OneCallPerPoi
  <2>4. UsedKeysAreOwn(r)'
    BY <1>1, <1>4, <1>5, <1>6, <2>1, <2>2 DEF UsedKeysAreOwn, InUse
  <2>5. NoKeyForgotten(r)'
    BY <1>1, <2>1 DEF NoKeyForgotten
  <2> QED
    BY <1>1, <1>2, <2>2, <2>3, <2>4, <2>5, LocksStepOf
<1>8. CASE lock' = lock /\ stage' = [stage EXCEPT ![r] = "unlocking"] /\ held' = held
  <2>1. stage'[r] = "unlocking" /\ held'[r] = {SessionKey(r)}
    BY <1>3, <1>8 DEF StageTyped
  <2>2. HeldByStage(r)' /\ OneCallPerPoi(r)'
    BY <1>1, <2>1 DEF HeldByStage, OneCallPerPoi
  <2>3. UsedKeysAreOwn(r)' /\ NoKeyForgotten(r)'
    BY <1>1, <1>6, <1>8, <2>1 DEF UsedKeysAreOwn, InUse, NoKeyForgotten
  <2> QED
    BY <1>1, <1>2, <1>8, <2>2, <2>3, LocksStepOf
<1> QED
  BY <1>7, <1>8 DEF TakeUser, Degraded, Refused

\* Steps in the DAG after which the run occupies no more than before.
LEMMA LocksInDag ==
    ASSUME Typed, Locks, NEW r \in Run,
           UNCHANGED <<plan, session, stage, held, lock>>,
           \A q \in Run : q # r => call'[q] = call[q],
           \A i \in SlotsOf(r) : call'[r][i] \in InFlight =>
                call[r][i] \in InFlight \/ ~PhysicalTool(Tool(r, i))
    PROVE  Locks'
<1> USE SameRun
<1>1. \A i \in SlotsOf(r) : Occupies(r, i)' => Occupies(r, i)
  BY DEF Occupies
<1>2. HeldByStage(r)' /\ UsedKeysAreOwn(r)' /\ NoKeyForgotten(r)' /\ OneCallPerPoi(r)'
  BY <1>1 DEF Locks, HeldByStage, UsedKeysAreOwn, InUse, NoKeyForgotten, OneCallPerPoi
<1> QED
  BY <1>2, LocksStepOf

LEMMA LocksNextLayer ==
    ASSUME Typed, Locks, NEW r \in Run, NextLayer(r) PROVE Locks'
<1>1. \A q \in Run : q # r => call'[q] = call[q]
  BY TypeParts DEF NextLayer, CallTyped
<1>2. \A i \in SlotsOf(r) : call'[r][i] \in {call[r][i], "starting", "skipped"}
  BY TypeParts DEF NextLayer, CallTyped
<1> QED
  BY <1>1, <1>2, LocksInDag DEF NextLayer, InFlight

\* The resource's lock comes before the call.
LEMMA LocksStartCall ==
    ASSUME ~RedisMayFail, Typed, Locks, NEW r \in Run, NEW i \in SlotsOf(r), StartCall(r, i)
    PROVE  Locks'
<1> USE SameRun, NoneAssumption, TypeParts
<1>1. UNCHANGED <<plan, session, stage, held>> /\ stage[r] = "dag"
  BY DEF StartCall
<1>2. ASSUME NEW state \in CallState, SetCall(r, i, state)
      PROVE  /\ \A j \in SlotsOf(r) : call'[r][j] = IF j = i THEN state ELSE call[r][j]
             /\ \A q \in Run : q # r => call'[q] = call[q]
  <2>1. \A j \in SlotsOf(r) : call'[r][j] = IF j = i THEN state ELSE call[r][j]
    BY <1>2, CallSet DEF Typed
  <2>2. \A q \in Run : q # r => call'[q] = call[q]
    BY <1>2 DEF SetCall, CallTyped
  <2> QED
    BY <2>1, <2>2
<1>3. CASE UNCHANGED lock /\ (SetCall(r, i, "failure") \/
                              (~PhysicalTool(Tool(r, i)) /\ SetCall(r, i, "calling")))
  <2>1. PICK state \in {"failure", "calling"} :
           SetCall(r, i, state) /\ (state = "calling" => ~PhysicalTool(Tool(r, i)))
    BY <1>3
  <2>2. state \in CallState
    BY <2>1 DEF CallState, Settled, InFlight
  <2>3. \A j \in SlotsOf(r) : call'[r][j] = IF j = i THEN state ELSE call[r][j]
    BY <1>2, <2>1, <2>2
  <2>4. \A q \in Run : q # r => call'[q] = call[q]
    BY <1>2, <2>1, <2>2
  <2>5. \A j \in SlotsOf(r) : call'[r][j] \in InFlight =>
          call[r][j] \in InFlight \/ ~PhysicalTool(Tool(r, j))
    BY <2>1, <2>3 DEF InFlight
  <2> QED
    BY <1>1, <1>3, <2>4, <2>5, LocksInDag
<1>4. CASE PhysicalTool(Tool(r, i)) /\ Acquired(r, ResourceKey(r, i)) /\ SetCall(r, i, "calling")
  <2> DEFINE key0 == ResourceKey(r, i)
  <2>1. /\ \A j \in SlotsOf(r) : call'[r][j] = IF j = i THEN "calling" ELSE call[r][j]
        /\ \A q \in Run : q # r => call'[q] = call[q]
    BY <1>2, <1>4 DEF CallState, InFlight
  <2>2. key0 \in Key /\ key0 # SessionKey(r) /\ key0 # UserKey(r)
    BY KeysKnown, KeysApart DEF Typed
  <2>3. /\ lock[key0] = NoRun /\ lock'[key0] = r
        /\ \A key \in Key : key # key0 => lock'[key] = lock[key]
    BY <1>4, <2>2 DEF Acquired, LockTyped
  <2>4. \A j \in SlotsOf(r) : Occupies(r, j)' => Occupies(r, j) \/ j = i
    BY <1>1, <2>1 DEF Occupies
  <2>5. \A j \in SlotsOf(r) : Occupies(r, j) => ResourceKey(r, j) # key0
    <3>1. ASSUME NEW j \in SlotsOf(r), Occupies(r, j), ResourceKey(r, j) = key0 PROVE FALSE
      <4>1. InUse(key0, r)
        BY <1>1, <3>1 DEF InUse
      <4> QED
        BY <4>1, <2>2, <2>3 DEF Locks, UsedKeysAreOwn
    <3> QED
      BY <3>1
  <2>6. HeldByStage(r)'
    BY <1>1 DEF Locks, HeldByStage
  <2>7. NoKeyForgotten(r)'
    <3>1. lock'[SessionKey(r)] = lock[SessionKey(r)] /\ lock'[UserKey(r)] = lock[UserKey(r)]
      BY <2>2, <2>3, KeysKnown DEF Typed
    <3> QED
      BY <1>1, <3>1 DEF Locks, NoKeyForgotten
  <2>8. UsedKeysAreOwn(r)'
    <3>1. \A key \in Key : InUse(key, r)' => InUse(key, r) \/ key = key0
      BY <1>1, <2>4 DEF InUse
    <3> QED
      BY <1>1, <2>3, <3>1 DEF Locks, UsedKeysAreOwn
  <2>9. OneCallPerPoi(r)'
    <3>1. \A j, k \in SlotsOf(r) : plan[r][j].poi = plan[r][k].poi => ResourceKey(r, j) = ResourceKey(r, k)
      BY DEF ResourceKey
    <3> QED
      BY <1>1, <2>4, <2>5, <3>1 DEF Locks, OneCallPerPoi
  <2> QED
    BY <1>1, <2>1, <2>3, <2>6, <2>7, <2>8, <2>9, LocksStepOf
<1> QED
  BY <1>3, <1>4 DEF StartCall, Degraded, Refused

LEMMA LocksProviderBooks ==
    ASSUME Typed, Locks, NEW r \in Run, NEW i \in SlotsOf(r), ProviderBooks(r, i) PROVE Locks'
<1>1. \A q \in Run : q # r => call'[q] = call[q]
  BY TypeParts DEF ProviderBooks, SetCall, CallTyped
<1>2. \A j \in SlotsOf(r) : call'[r][j] = IF j = i THEN "acted" ELSE call[r][j]
  BY CallSet DEF ProviderBooks, Typed, CallState, InFlight
<1>3. UNCHANGED <<plan, session, stage, held, lock>> /\ call[r][i] \in InFlight
  BY DEF ProviderBooks, InFlight
<1> QED
  BY <1>1, <1>2, <1>3, LocksInDag

\* The finally block of a call deletes a key that is the call's own.
LEMMA LocksCallEnds ==
    ASSUME ~RedisMayFail, Typed, Locks, NEW r \in Run, NEW i \in SlotsOf(r), CallEnds(r, i)
    PROVE  Locks'
<1> USE SameRun, NoneAssumption, TypeParts
<1>1. UNCHANGED <<plan, session, stage, held>> /\ stage[r] = "dag" /\ call[r][i] \in InFlight
  BY DEF CallEnds
<1>2. PICK outcome \in {"success", "degraded", "failure"} : SetCall(r, i, outcome)
  BY DEF CallEnds
<1>3. \A q \in Run : q # r => call'[q] = call[q]
  BY <1>2 DEF SetCall, CallTyped
<1>4. \A j \in SlotsOf(r) : call'[r][j] = IF j = i THEN outcome ELSE call[r][j]
  BY <1>2, CallSet DEF Typed, CallState, Settled
<1>5. outcome \notin InFlight
  BY DEF InFlight
<1>6. CASE ~PhysicalTool(Tool(r, i))
  <2>1. lock' = lock
    BY <1>6 DEF CallEnds
  <2>2. \A j \in SlotsOf(r) : call'[r][j] \in InFlight => call[r][j] \in InFlight
    BY <1>4, <1>5
  <2> QED
    BY <1>1, <1>3, <2>1, <2>2, LocksInDag
<1>7. CASE PhysicalTool(Tool(r, i))
  <2> DEFINE key0 == ResourceKey(r, i)
  <2>1. Occupies(r, i)
    BY <1>1, <1>7 DEF Occupies
  <2>2. key0 \in Key /\ key0 # SessionKey(r) /\ key0 # UserKey(r)
    BY KeysKnown, KeysApart DEF Typed
  <2>3. lock[key0] = r
    BY <1>1, <2>1, <2>2 DEF Locks, UsedKeysAreOwn, InUse
  <2>4. lock'[key0] = NoRun /\ \A key \in Key : key # key0 => lock'[key] = lock[key]
    BY <1>7, <2>2 DEF CallEnds, Release, LockTyped
  <2>5. \A j \in SlotsOf(r) : Occupies(r, j)' => Occupies(r, j) /\ j # i
    BY <1>1, <1>4, <1>5 DEF Occupies
  <2>6. \A j \in SlotsOf(r) : Occupies(r, j)' => ResourceKey(r, j) # key0
    <3>1. \A j \in SlotsOf(r) : ResourceKey(r, j) = key0 => plan[r][j].poi = plan[r][i].poi
      BY DEF ResourceKey
    <3> QED
      BY <1>1, <2>1, <2>5, <3>1 DEF Locks, OneCallPerPoi
  <2>7. HeldByStage(r)'
    BY <1>1 DEF Locks, HeldByStage
  <2>8. NoKeyForgotten(r)'
    <3>1. lock'[SessionKey(r)] = lock[SessionKey(r)] /\ lock'[UserKey(r)] = lock[UserKey(r)]
      BY <2>2, <2>4, KeysKnown DEF Typed
    <3> QED
      BY <1>1, <3>1 DEF Locks, NoKeyForgotten
  <2>9. UsedKeysAreOwn(r)'
    <3>1. held[r] \subseteq {SessionKey(r), UserKey(r)}
      BY DEF HeldTyped
    <3>2. \A key \in Key : InUse(key, r)' => InUse(key, r) /\ key # key0
      BY <1>1, <2>2, <2>5, <2>6, <3>1 DEF InUse
    <3> QED
      BY <1>1, <2>4, <3>2 DEF Locks, UsedKeysAreOwn
  <2>10. OneCallPerPoi(r)'
    BY <1>1, <2>5 DEF Locks, OneCallPerPoi
  <2> QED
    BY <1>1, <1>3, <2>3, <2>4, <2>7, <2>8, <2>9, <2>10, LocksStepOf
<1> QED
  BY <1>6, <1>7

\* The DAG is over, or a wait for the saga: the calls' keys may be left behind, those of
\* the session and the user are still held.
LEMMA LocksDagOver ==
    ASSUME ~SagaMayHang, Typed, Locks, NEW r \in Run, stage[r] \in Executing,
           NEW next \in {"compensating", "undoing", "unlocking"},
           UNCHANGED <<plan, session, call, held>>, stage' = [stage EXCEPT ![r] = next],
           \A key \in Key : lock'[key] = lock[key] \/ (lock[key] \in {r, NoRun} /\ lock'[key] \in {r, NoRun}),
           lock'[SessionKey(r)] = lock[SessionKey(r)], lock'[UserKey(r)] = lock[UserKey(r)]
    PROVE  Locks'
<1> USE SameRun DEF Executing
<1>1. \A q \in Run : stage'[q] = IF q = r THEN next ELSE stage[q]
  BY TypeParts DEF StageTyped
<1>2. held[r] = {SessionKey(r), UserKey(r)}
  BY DEF Locks, HeldByStage
<1>3. SessionKey(r) \in Key /\ UserKey(r) \in Key
  BY KeysKnown DEF Typed
<1>4. lock[SessionKey(r)] = r /\ lock[UserKey(r)] = r
  BY <1>2, <1>3 DEF Locks, UsedKeysAreOwn, InUse
<1>5. HeldByStage(r)' /\ OneCallPerPoi(r)'
  BY <1>1, <1>2 DEF HeldByStage, OneCallPerPoi
<1>6. UsedKeysAreOwn(r)' /\ NoKeyForgotten(r)'
  BY <1>1, <1>2, <1>4 DEF UsedKeysAreOwn, InUse, NoKeyForgotten
<1> QED
  BY <1>1, <1>5, <1>6, LocksStepOf

\* The calls cut off free or leave their own keys only.
LEMMA LocksDagTimesOut ==
    ASSUME ~SagaMayHang, Typed, Locks, NEW r \in Run, DagTimesOut(r) PROVE Locks'
<1> USE NoneAssumption
<1>1. stage[r] \in Executing /\ UNCHANGED <<plan, session, call, held>>
      /\ stage' = [stage EXCEPT ![r] = "undoing"]
  BY DEF DagTimesOut, Executing
<1>2. CASE stage[r] = "compensating" /\ UNCHANGED lock
  BY <1>1, <1>2, LocksDagOver
<1>3. CASE stage[r] = "dag" /\ CallsCutOff(r)
  <2> DEFINE keys(states) == {ResourceKey(r, i) :
                i \in {j \in SlotsOf(r) : PhysicalTool(Tool(r, j)) /\ call[r][j] \in states}}
  <2>1. PICK freed \in SUBSET keys(InFlight) :
          \E leaked \in SUBSET {key \in keys({"starting"}) : lock[key] = NoRun} :
                lock' = [key \in Key |-> IF key \in leaked THEN r
                                         ELSE IF key \in freed THEN NoRun ELSE lock[key]]
    BY <1>3 DEF CallsCutOff
  <2>2. PICK leaked \in SUBSET {key \in keys({"starting"}) : lock[key] = NoRun} :
                lock' = [key \in Key |-> IF key \in leaked THEN r
                                         ELSE IF key \in freed THEN NoRun ELSE lock[key]]
    BY <2>1
  <2>3. \A key \in keys(InFlight) : key \in Key => lock[key] = r
    BY <1>3 DEF Occupies, InUse, Locks, UsedKeysAreOwn
  <2>4. \A states : SessionKey(r) \notin keys(states) /\ UserKey(r) \notin keys(states)
    BY KeysApart
  <2> HIDE DEF keys
  <2>5. SessionKey(r) \in Key /\ UserKey(r) \in Key
    BY KeysKnown DEF Typed
  <2>6. lock'[SessionKey(r)] = lock[SessionKey(r)] /\ lock'[UserKey(r)] = lock[UserKey(r)]
    BY <2>2, <2>4, <2>5
  <2>7. \A key \in Key : lock'[key] = lock[key] \/ (lock[key] \in {r, NoRun} /\ lock'[key] \in {r, NoRun})
    BY <2>2, <2>3
  <2> QED
    BY <1>1, <2>6, <2>7, LocksDagOver
<1> QED
  BY <1>2, <1>3 DEF DagTimesOut

LEMMA LocksDagEnds ==
    ASSUME ~SagaMayHang, Typed, Locks, NEW r \in Run, DagEnds(r) PROVE Locks'
<1>1. stage[r] \in Executing /\ UNCHANGED <<plan, session, call, held, lock>>
  BY DEF DagEnds, Executing
<1>2. CASE Returns(r)
  BY <1>1, <1>2, LocksDagOver DEF Returns
<1>3. CASE stage' = [stage EXCEPT ![r] = "compensating"]
  BY <1>1, <1>3, LocksDagOver
<1> QED
  BY <1>2, <1>3 DEF DagEnds

LEMMA LocksCompensated ==
    ASSUME ~SagaMayHang, Typed, Locks, NEW r \in Run, DagCompensated(r) \/ TimeoutCompensated(r)
    PROVE  Locks'
<1>1. stage[r] \in Executing /\ UNCHANGED <<plan, session, call, held, lock>>
      /\ stage' = [stage EXCEPT ![r] = "unlocking"]
  BY DEF DagCompensated, TimeoutCompensated, Returns, Executing
<1> QED
  BY <1>1, LocksDagOver

\* A finally block deletes the run's own key, and forgets it.
LEMMA LocksUnlock ==
    ASSUME ~RedisMayFail, Typed, Locks, NEW r \in Run,
           NEW key0 \in {SessionKey(r), UserKey(r)}, Unlock(r, key0)
    PROVE  Locks'
<1> USE SameRun, NoneAssumption, TypeParts DEF Executing
<1>1. UNCHANGED <<plan, session, call>> /\ stage[r] = "unlocking" /\ key0 \in held[r]
  BY DEF Unlock
<1>2. SessionKey(r) \in Key /\ UserKey(r) \in Key /\ SessionKey(r) # UserKey(r)
  BY KeysKnown, KeysApart DEF Typed
<1>3. lock[key0] = r
  BY <1>1, <1>2 DEF Locks, UsedKeysAreOwn, InUse
<1>4. lock'[key0] = NoRun /\ \A key \in Key : key # key0 => lock'[key] = lock[key]
  BY <1>2 DEF Unlock, Release, LockTyped
<1>5. held'[r] = held[r] \ {key0} /\ \A q \in Run : q # r => held'[q] = held[q]
  BY DEF Unlock, HeldTyped
<1>6. /\ stage'[r] = IF key0 = SessionKey(r) THEN "finished" ELSE "unlocking"
      /\ \A q \in Run : q # r => stage'[q] = stage[q]
  BY <1>1 DEF Unlock, StageTyped
<1>7. HeldByStage(r)'
  <2>1. held[r] \subseteq {SessionKey(r), UserKey(r)} /\ SessionKey(r) \in held[r]
    BY <1>1 DEF HeldTyped, Locks, HeldByStage
  <2>2. key0 = SessionKey(r) => UserKey(r) \notin held[r]
    BY DEF Unlock
  <2>3. key0 = SessionKey(r) => held'[r] = {}
    BY <1>5, <2>1, <2>2
  <2>4. key0 # SessionKey(r) => SessionKey(r) \in held'[r]
    BY <1>5, <2>1
  <2> QED
    BY <1>1, <1>6, <2>3, <2>4 DEF HeldByStage
<1>8. UsedKeysAreOwn(r)'
  <2>1. \A key \in Key : InUse(key, r)' => key \in held[r] \ {key0}
    BY <1>1, <1>5, <1>6 DEF InUse
  <2>2. \A key \in Key : key \in held[r] => lock[key] = r
    BY <1>1 DEF Locks, UsedKeysAreOwn, InUse
  <2> QED
    BY <1>1, <1>4, <2>1, <2>2 DEF UsedKeysAreOwn
<1>9. NoKeyForgotten(r)'
  BY <1>1, <1>2, <1>4, <1>5 DEF Locks, NoKeyForgotten
<1>10. OneCallPerPoi(r)'
  BY <1>6 DEF OneCallPerPoi
<1> QED
  BY <1>1, <1>3, <1>4, <1>5, <1>6, <1>7, <1>8, <1>9, <1>10, LocksStepOf

LEMMA LocksRepair ==
    ASSUME Typed, Locks, NEW r \in Run, Repair(r) PROVE Locks'
<1> USE SameRun DEF Executing
<1>1. UNCHANGED <<plan, session, call, held, lock>> /\ stage[r] = "finished"
  BY DEF Repair
<1>2. \A q \in Run : stage'[q] = IF q = r THEN "repaired" ELSE stage[q]
  BY TypeParts DEF Repair, StageTyped
<1>3. (HeldByStage(r) /\ UsedKeysAreOwn(r) /\ NoKeyForgotten(r) /\ OneCallPerPoi(r))'
  BY <1>1, <1>2 DEF Locks, HeldByStage, UsedKeysAreOwn, InUse, NoKeyForgotten, OneCallPerPoi
<1> QED
  BY <1>1, <1>2, <1>3, LocksStepOf

\* A dead worker's runs use nothing; their keys stay.
LEMMA LocksCrash ==
    ASSUME Typed, Locks, NEW w \in Worker, Crash(w) PROVE Locks'
<1> USE SameRun DEF Executing
<1>1. UNCHANGED <<plan, session, call, held, lock>>
  BY DEF Crash
<1>2. \A q \in Run : stage'[q] \in {stage[q], "crashed"}
  BY DEF Crash
<1>3. ASSUME NEW q \in Run
      PROVE  (HeldByStage(q) /\ UsedKeysAreOwn(q) /\ NoKeyForgotten(q) /\ OneCallPerPoi(q))'
  <2>1. CASE stage'[q] = stage[q]
    BY <1>1, <2>1 DEF Locks, HeldByStage, UsedKeysAreOwn, NoKeyForgotten, OneCallPerPoi
  <2>2. CASE stage'[q] = "crashed"
    BY <2>2 DEF HeldByStage, UsedKeysAreOwn, InUse, NoKeyForgotten, OneCallPerPoi
  <2> QED
    BY <1>2, <2>1, <2>2
<1> QED
  BY <1>3 DEF Locks

\* Only keys nobody relies on expire.
LEMMA LocksExpire ==
    ASSUME Typed, Locks, NEW key0 \in Key, Expire(key0) PROVE Locks'
<1> USE SameRun, NoneAssumption
<1>1. UNCHANGED <<plan, session, stage, call, held>>
  BY DEF Expire
<1>2. \A key \in Key : lock'[key] = IF key = key0 THEN NoRun ELSE lock[key]
  BY TypeParts DEF Expire, LockTyped
<1>3. \A q \in Run : ~(lock[key0] = q /\ InUse(key0, q))
  BY DEF Expire
<1>4. ASSUME NEW q \in Run
      PROVE  (HeldByStage(q) /\ UsedKeysAreOwn(q) /\ NoKeyForgotten(q) /\ OneCallPerPoi(q))'
  <2>1. HeldByStage(q)' /\ OneCallPerPoi(q)'
    BY <1>1 DEF Locks, HeldByStage, OneCallPerPoi
  <2>2. UsedKeysAreOwn(q)'
    BY <1>1, <1>2, <1>3 DEF Locks, UsedKeysAreOwn
  <2>3. NoKeyForgotten(q)'
    BY <1>1, <1>2, KeysKnown DEF Typed, Locks, NoKeyForgotten
  <2> QED
    BY <2>1, <2>2, <2>3
<1> QED
  BY <1>4 DEF Locks

LEMMA LocksStep ==
    ASSUME ~RedisMayFail, ~SagaMayHang, Invariant, Locks, [Next]_vars PROVE Locks'
<1>1. Typed /\ Calls
  BY DEF Invariant, Typed, Calls
<1>2. CASE UNCHANGED vars
  <2> USE SameRun
  <2> QED
    BY <1>2 DEF vars, Locks, HeldByStage, UsedKeysAreOwn, NoKeyForgotten, OneCallPerPoi
<1>3. ASSUME NEW r \in Run, Proceed(r) PROVE Locks'
  BY <1>1, <1>3, LocksTakeUser, LocksNextLayer, LocksStartCall, LocksDagEnds, LocksDagTimesOut,
     LocksUnlock
  DEF Proceed
<1>4. ASSUME NEW r \in Run, Answer(r) PROVE Locks'
  BY <1>1, <1>4, LocksProviderBooks, LocksCallEnds, LocksCompensated DEF Answer
<1> QED
  BY <1>1, <1>2, <1>3, <1>4, LocksBegin, LocksRepair, LocksCrash, LocksExpire DEF Next

\* The inductive invariant of the locks.
THEOREM LocksHold ==
    ASSUME ~RedisMayFail, ~SagaMayHang PROVE Spec => [](Invariant /\ Locks)
<1>1. Init => Invariant /\ Locks
  BY InvariantInit, LocksInit
<1>2. Invariant /\ Locks /\ [Next]_vars => (Invariant /\ Locks)'
  BY InvariantStep, LocksStep
<1> QED
  BY <1>1, <1>2, PTL DEF Spec

\* As long as Redis answers and no compensation outlives a key, a key a live run relies
\* on has that run's value, and a run that has returned has left none behind: for any
\* number of runs and of workers that die holding locks (_acquire_lock, _release_lock
\* and the finally blocks).
THEOREM KeysMatchUseHolds ==
    ASSUME ~RedisMayFail, ~SagaMayHang PROVE Spec => []KeysMatchUse
<1>1. Invariant /\ Locks => KeysMatchUse
  BY DEF Locks, HeldByStage, UsedKeysAreOwn, NoKeyForgotten, KeysMatchUse
<1> QED
  BY <1>1, LocksHold, PTL

\* As long as Redis answers and no compensation outlives a key, two live runs of one user
\* are never executing or compensating together, and two live calls never at a provider
\* for one POI.
THEOREM LocksExcludeHolds ==
    ASSUME ~RedisMayFail, ~SagaMayHang PROVE Spec => []LocksExclude
<1>1. ASSUME Typed, Locks PROVE LocksExclude
  <2>1. ASSUME NEW r \in Run, stage[r] \in Executing PROVE UserKey(r) \in Key /\ lock[UserKey(r)] = r
    <3>1. UserKey(r) \in Key
      BY <1>1, KeysKnown DEF Typed
    <3> QED
      BY <1>1, <2>1, <3>1 DEF Locks, HeldByStage, UsedKeysAreOwn, InUse, Executing
  <2>2. ASSUME NEW r \in Run, NEW q \in Run, r # q, stage[r] \in Executing, stage[q] \in Executing
        PROVE  UserOf[session[r]] # UserOf[session[q]]
    BY <2>1, <2>2 DEF UserKey
  <2>3. ASSUME NEW r \in Run, NEW i \in SlotsOf(r), stage[r] = "dag", Occupies(r, i)
        PROVE  lock[ResourceKey(r, i)] = r
    <3>1. ResourceKey(r, i) \in Key
      BY <1>1, KeysKnown DEF Typed
    <3> QED
      BY <1>1, <2>3, <3>1 DEF Locks, UsedKeysAreOwn, InUse
  <2>4. ASSUME NEW r \in Run, NEW q \in Run, NEW i \in SlotsOf(r), NEW j \in SlotsOf(q),
               stage[r] = "dag", Occupies(r, i), stage[q] = "dag", Occupies(q, j),
               plan[r][i].poi = plan[q][j].poi
        PROVE  <<r, i>> = <<q, j>>
    <3>1. ResourceKey(r, i) = ResourceKey(q, j)
      BY <2>4 DEF ResourceKey
    <3>2. r = q
      BY <2>3, <2>4, <3>1
    <3> QED
      BY <1>1, <2>4, <3>2 DEF Locks, OneCallPerPoi
  <2> QED
    BY <2>2, <2>4 DEF LocksExclude
<1>2. Invariant => Typed
  BY DEF Invariant, Typed
<1> QED
  BY <1>1, <1>2, LocksHold, PTL
=============================================================================
