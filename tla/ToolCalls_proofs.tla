--------------------------- MODULE ToolCalls_proofs ---------------------------
(* Theorems about ToolCalls, for any drafts. *)
EXTENDS ToolCalls, FiniteSetTheorems, TLAPS

-----------------------------------------------------------------------------
(* The inductive invariant *)

\* The slots of the layers reached have been called or skipped.
Reached == \A i \in Slots : LayerOf(Tool(i)) <= layer => call[i] # "waiting"

\* A settled call has an answer, and a success of a physical tool is booked.
Answers ==
    \A i \in Settled :
        /\ answer[i].status \in ToolStatus
        /\ answer[i].status = "success" /\ i \in Physical => i \in booked

\* There is a result once all calls have ended.
ResultLast == stage # "finished" => result = NoResult

Invariant == TypeOK /\ Reached /\ Answers /\ ResultLast /\ FullSuccessIsBooked

-----------------------------------------------------------------------------
(* Putting slots in order *)

\* As many ranks as elements, no two alike: every rank is somebody's.
LEMMA EveryRank ==
    ASSUME NEW S, IsFiniteSet(S), NEW f \in [S -> 0 .. (Cardinality(S) - 1)],
           \A i, j \in S : f[i] = f[j] => i = j
    PROVE  \A k \in 0 .. (Cardinality(S) - 1) : \E i \in S : f[i] = k
<1> DEFINE T == 0 .. (Cardinality(S) - 1)
<1>1. Cardinality(S) \in Nat
  BY IsFiniteSet(S), FS_CardinalityType
<1>2. IsFiniteSet(T) /\ Cardinality(T) = Cardinality(S)
  <2>1. 0 \in Int /\ Cardinality(S) - 1 \in Int
    BY <1>1
  <2>2. /\ IsFiniteSet(T)
        /\ Cardinality(T) = IF 0 > Cardinality(S) - 1 THEN 0 ELSE (Cardinality(S) - 1) - 0 + 1
    BY <2>1, FS_Interval
  <2> QED
    BY <1>1, <2>2
<1> HIDE DEF T
<1>3. f \in [S -> T]
  BY DEF T
<1>4. f \in Injection(S, T)
  BY <1>3, \A i, j \in S : f[i] = f[j] => i = j DEF Injection, IsInjective
<1>5. f \in Surjection(S, T)
  BY <1>2, <1>4, FS_Injection
<1> QED
  BY <1>5 DEF Surjection, T

LEMMA PlanSlots ==
    ASSUME plan \in Plans
    PROVE  Slots = 1 .. Len(plan) /\ Len(plan) \in Nat /\ IsFiniteSet(Slots)
<1>1. plan \in Seq(ToSet(plan))
  BY PlansAssumption, plan \in Plans
<1>2. Slots = 1 .. Len(plan) /\ Len(plan) \in Nat
  BY <1>1 DEF Slots
<1> QED
  BY <1>2, FS_Interval

\* The slots of a set, in order, are those of the set, each once.
LEMMA InOrderIs ==
    ASSUME plan \in Plans, NEW S \in SUBSET Slots
    PROVE  LET q == InOrder(S) IN
           /\ q \in Seq(S)
           /\ \A i \in S : \E k \in DOMAIN q : q[k] = i
           /\ \A k, l \in DOMAIN q : q[k] = q[l] => k = l
<1> DEFINE n == Cardinality(S)
           Below(i) == {j \in S : Before(j, i)}
           rank == [i \in S |-> Rank(S, i)]
           q == InOrder(S)
<1>1. Slots \subseteq Nat /\ IsFiniteSet(S) /\ n \in Nat
  <2>1. IsFiniteSet(S)
    BY plan \in Plans, PlanSlots, FS_Subset
  <2> QED
    BY <2>1, plan \in Plans, PlanSlots, FS_CardinalityType
<1>2. \A i \in S : i \in Nat /\ LayerOf(Tool(i)) \in {0, 2}
  BY <1>1 DEF LayerOf
<1> HIDE DEF n
<1>3. /\ \A i \in S : ~Before(i, i)
      /\ \A i, j \in S : i # j => Before(i, j) \/ Before(j, i)
      /\ \A i, j, k \in S : Before(i, j) /\ Before(j, k) => Before(i, k)
  BY <1>2 DEF Before
<1>4. ASSUME NEW i \in S
      PROVE  Rank(S, i) \in 0 .. (n - 1)
  <2>1. Below(i) \in SUBSET (S \ {i})
    BY <1>3
  <2>2. IsFiniteSet(S \ {i}) /\ Cardinality(S \ {i}) = n - 1
    BY <1>1, FS_RemoveElement DEF n
  <2>3. IsFiniteSet(Below(i)) /\ Cardinality(Below(i)) <= n - 1
    BY <2>1, <2>2, FS_Subset
  <2>4. Cardinality(Below(i)) \in Nat
    BY <2>3, FS_CardinalityType
  <2>5. Rank(S, i) = Cardinality(Below(i))
    BY DEF Rank
  <2> QED
    BY <1>1, <2>3, <2>4, <2>5
<1>5. ASSUME NEW i \in S, NEW j \in S, Before(i, j)
      PROVE  Rank(S, i) # Rank(S, j)
  <2>1. Below(i) \in SUBSET Below(j) /\ i \in Below(j) /\ i \notin Below(i)
    BY <1>3, <1>5
  <2>2. IsFiniteSet(Below(j))
    BY <1>1, FS_Subset
  <2> HIDE DEF Below
  <2>3. Cardinality(Below(j)) # Cardinality(Below(i))
    BY <2>1, <2>2, FS_Subset
  <2> QED
    BY <2>3 DEF Rank, Below
<1>6. \A i, j \in S : Rank(S, i) = Rank(S, j) => i = j
  BY <1>3, <1>5
<1>7. \A k \in 0 .. (n - 1) : \E i \in S : Rank(S, i) = k
  <2>1. rank \in [S -> 0 .. (n - 1)] /\ \A i, j \in S : rank[i] = rank[j] => i = j
    BY <1>4, <1>6
  <2> HIDE DEF rank
  <2>2. \A k \in 0 .. (n - 1) : \E i \in S : rank[i] = k
    BY <1>1, <2>1, EveryRank DEF n
  <2> QED
    BY <2>2 DEF rank
<1>8. DOMAIN q = 1 .. n /\ \A k \in 1 .. n : q[k] = CHOOSE i \in S : Rank(S, i) = k - 1
  BY DEF InOrder, n
<1> HIDE DEF q
<1>9. \A k \in 1 .. n : q[k] \in S /\ Rank(S, q[k]) = k - 1
  <2> TAKE k \in 1 .. n
  <2>1. k - 1 \in 0 .. (n - 1)
    BY <1>1
  <2> QED
    BY <1>7, <1>8, <2>1
<1>10. q \in Seq(S)
  <2>1. q = [k \in 1 .. n |-> q[k]]
    BY <1>8 DEF q, InOrder, n
  <2>2. q \in [1 .. n -> S]
    BY <1>9, <2>1
  <2> QED
    BY <1>1, <2>2
<1>11. ASSUME NEW i \in S PROVE \E k \in DOMAIN q : q[k] = i
  <2> DEFINE k == Rank(S, i) + 1
  <2>1. k \in 1 .. n /\ k - 1 = Rank(S, i)
    BY <1>1, <1>4
  <2> HIDE DEF k
  <2>2. q[k] = i
    BY <1>6, <1>9, <2>1
  <2> QED
    BY <1>8, <2>1, <2>2
<1>12. ASSUME NEW k \in DOMAIN q, NEW l \in DOMAIN q, q[k] = q[l] PROVE k = l
  <2>1. k \in Nat /\ l \in Nat /\ k - 1 = l - 1
    BY <1>1, <1>8, <1>9, <1>12
  <2> QED
    BY <2>1
<1> QED
  BY <1>10, <1>11, <1>12 DEF q

-----------------------------------------------------------------------------
(* Every step keeps the invariant *)


LEMMA SlotLayers == \A i : LayerOf(Tool(i)) \in {0, LastLayer}
BY DEF LayerOf, LastLayer

\* What the gateway hands on has a status the engine knows, and is a success only of
\* an answer that says so.
LEMMA NormalizedKnown ==
    ASSUME NEW resp \in Response
    PROVE  /\ Normalized(resp) \in [status : ToolStatus, booking : Booking]
           /\ Normalized(resp).status = "success" => SaysSuccess(resp)
<1>1. CASE resp.form = "status"
  <2>1. resp.booking \in Booking
    BY DEF Response, Booking
  <2> QED
    BY <1>1, <2>1 DEF Normalized, SaysSuccess, ToolStatus
<1>2. CASE resp.form = "flag"
  <2>1. resp.booking \in Booking /\ "made up" \in Booking
    BY DEF Response, Booking
  <2> QED
    BY <1>2, <2>1 DEF Normalized, SaysSuccess, ToolStatus
<1> QED
  BY <1>1, <1>2 DEF Response

LEMMA InvariantInit == Init => Invariant
<1> SUFFICES ASSUME Init PROVE Invariant
  OBVIOUS
<1>1. TypeOK
  BY DEF Init, TypeOK, CallState, NoResult, NoLayer, LastLayer
<1>2. Reached
  BY SlotLayers DEF Init, Reached, NoLayer, LastLayer
<1>3. Answers /\ ResultLast /\ FullSuccessIsBooked
  BY DEF Init, Answers, Settled, ResultLast, FullSuccessIsBooked, NoResult
<1> QED
  BY <1>1, <1>2, <1>3 DEF Invariant

LEMMA SamePlan ==
    ASSUME plan' = plan
    PROVE  Slots' = Slots /\ Physical' = Physical /\ \A i : Tool(i)' = Tool(i)
BY DEF Slots, Physical, Tool

\* A step in the DAG that settles nothing: there is no result to be wrong.
LEMMA NextLayerStep == Invariant /\ NextLayer => Invariant'
<1> SUFFICES ASSUME Invariant, NextLayer PROVE Invariant'
  OBVIOUS
<1> USE SamePlan
<1>1. UNCHANGED <<plan, stage, answer, booked, result>> /\ stage = "dag" /\ layer < LastLayer
      /\ layer' = LayerAfter(layer) /\ since' = 0
  BY DEF NextLayer
<1>2. PICK called \in SUBSET Slots :
        /\ called \subseteq InLayer(LayerAfter(layer)) /\ wire' = wire \cup called
        /\ call' = [i \in Slots |-> IF i \in called THEN "calling"
                                    ELSE IF i \in InLayer(LayerAfter(layer)) THEN "skipped" ELSE call[i]]
  BY DEF NextLayer, InLayer
<1>3. layer \in {NoLayer, 0} /\ layer' \in {0, LastLayer} /\ (layer' = 0 => layer = NoLayer)
      /\ (layer' = LastLayer => layer = 0)
  BY <1>1 DEF Invariant, TypeOK, LayerAfter, NoLayer, LastLayer
<1>4. call' \in [Slots -> CallState]
  BY <1>2 DEF Invariant, TypeOK, CallState
<1>5. TypeOK'
  BY <1>1, <1>2, <1>3, <1>4 DEF Invariant, TypeOK, LastLayer
<1>6. ASSUME NEW i \in Slots, LayerOf(Tool(i)) <= layer' PROVE call'[i] # "waiting"
  <2>1. CASE LayerOf(Tool(i)) = layer'
    BY <1>1, <1>2, <2>1 DEF InLayer
  <2>2. CASE LayerOf(Tool(i)) # layer'
    <3>1. LayerOf(Tool(i)) <= layer
      BY <1>3, <1>6, <2>2, SlotLayers DEF NoLayer, LastLayer
    <3> QED
      BY <1>2, <3>1 DEF Invariant, Reached
  <2> QED
    BY <2>1, <2>2
<1>7. Reached'
  BY <1>1, <1>6 DEF Reached
<1>8. \A i \in Slots : call'[i] = "settled" => call[i] = "settled"
  BY <1>2
<1>9. Answers'
  BY <1>1, <1>8 DEF Invariant, Answers, Settled
<1>10. ResultLast' /\ FullSuccessIsBooked'
  BY <1>1 DEF Invariant, ResultLast, FullSuccessIsBooked, NoResult
<1> QED
  BY <1>5, <1>7, <1>9, <1>10 DEF Invariant

LEMMA TickStep == Invariant /\ Tick => Invariant'
<1> SUFFICES ASSUME Invariant, Tick PROVE Invariant'
  OBVIOUS
<1> USE SamePlan
<1>1. UNCHANGED <<plan, stage, layer, call, answer, wire, booked, result>>
  BY DEF Tick
<1>2. since' \in Nat
  <2> DEFINE limits == {TimeoutOf(Tool(i)) : i \in Calling}
  <2>1. limits \subseteq {3, 4} /\ limits # {}
    BY DEF Tick, TimeoutOf
  <2>2. \E x \in limits : \A y \in limits : x <= y
    BY <2>1
  <2>3. since' \in limits
    BY <2>2 DEF Tick, Min
  <2> QED
    BY <2>1, <2>3
<1>3. TypeOK'
  BY <1>1, <1>2 DEF Invariant, TypeOK
<1> QED
  BY <1>1, <1>3 DEF Invariant, Reached, Answers, Settled, ResultLast, FullSuccessIsBooked

LEMMA ProviderBooksStep == ASSUME Invariant, NEW i \in Slots, ProviderBooks(i) PROVE Invariant'
<1> USE SamePlan
<1>1. UNCHANGED <<plan, stage, layer, since, call, answer, wire, result>>
      /\ booked' = booked \cup {i} /\ i \in Physical
  BY DEF ProviderBooks
<1>2. TypeOK'
  BY <1>1 DEF Invariant, TypeOK
<1> QED
  BY <1>1, <1>2 DEF Invariant, Reached, Answers, Settled, ResultLast, FullSuccessIsBooked

\* A call settles with an answer the engine knows, and with a success only once booked.
LEMMA SettleStep ==
    ASSUME Invariant, NEW i \in Slots, NEW toolResult \in [status : ToolStatus, booking : Booking],
           Settle(i, toolResult), wire' \subseteq Slots,
           toolResult.status = "success" /\ i \in Physical => i \in booked
    PROVE  Invariant'
<1> USE SamePlan
<1>1. /\ UNCHANGED <<plan, stage, layer, since, booked, result>> /\ stage = "dag"
      /\ call' = [call EXCEPT ![i] = "settled"] /\ answer' = [answer EXCEPT ![i] = toolResult]
  BY DEF Settle
<1>2. \A j \in Slots : /\ call'[j] = IF j = i THEN "settled" ELSE call[j]
                       /\ answer'[j] = IF j = i THEN toolResult ELSE answer[j]
  BY <1>1 DEF Invariant, TypeOK
<1>3. call' \in [Slots -> CallState]
      /\ answer' \in [Slots -> [status : ToolStatus, booking : Booking] \cup {NoAnswer}]
  BY <1>1 DEF Invariant, TypeOK, CallState
<1>4. TypeOK'
  BY <1>1, <1>3 DEF Invariant, TypeOK
<1>5. Reached'
  BY <1>1, <1>2 DEF Invariant, Reached
<1>6. Answers'
  BY <1>1, <1>2 DEF Invariant, Answers, Settled
<1>7. ResultLast' /\ FullSuccessIsBooked'
  BY <1>1 DEF Invariant, ResultLast, FullSuccessIsBooked, NoResult
<1> QED
  BY <1>4, <1>5, <1>6, <1>7 DEF Invariant

LEMMA RefusedStep ==
    ASSUME Invariant, NEW i \in Slots, Settle(i, Normalized(Refusal)), wire' \in {wire, wire \ {i}}
    PROVE  Invariant'
<1>1. Refusal \in Response /\ ~SaysSuccess(Refusal)
  BY DEF Refusal, Response, SaysSuccess
<1>2. wire' \subseteq Slots
  BY DEF Invariant, TypeOK
<1> QED
  BY <1>1, <1>2, NormalizedKnown, SettleStep

LEMMA CallAnsweredStep == ASSUME Invariant, NEW i \in Slots, CallAnswered(i) PROVE Invariant'
<1>1. PICK resp \in Response :
        /\ SaysSuccess(resp) /\ i \in Physical => i \in booked
        /\ Settle(i, Normalized(resp)) /\ wire' = wire \ {i}
  BY DEF CallAnswered
<1>2. wire' \subseteq Slots
  BY <1>1 DEF Invariant, TypeOK
<1> QED
  BY <1>1, <1>2, NormalizedKnown, SettleStep

LEMMA CallTimesOutStep == ASSUME Invariant, NEW i \in Slots, CallTimesOut(i) PROVE Invariant'
<1> DEFINE late == [status |-> "timeout", booking |-> "absent"]
<1>1. late \in [status : ToolStatus, booking : Booking] /\ late.status # "success"
  BY DEF ToolStatus, Booking
<1>2. Settle(i, late) /\ wire' \subseteq Slots
  BY DEF CallTimesOut, Invariant, TypeOK
<1> QED
  BY <1>1, <1>2, SettleStep

LEMMA CallRaisesStep == ASSUME Invariant, NEW i \in Slots, CallRaises(i) PROVE Invariant'
<1> USE SamePlan
<1>1. /\ UNCHANGED <<plan, stage, layer, since, answer, booked, result>> /\ stage = "dag"
      /\ call' = [call EXCEPT ![i] = "raised"] /\ wire' \in {wire, wire \ {i}}
  BY DEF CallRaises
<1>2. \A j \in Slots : call'[j] = IF j = i THEN "raised" ELSE call[j]
  BY <1>1 DEF Invariant, TypeOK
<1>3. call' \in [Slots -> CallState]
  BY <1>1 DEF Invariant, TypeOK, CallState
<1>4. TypeOK'
  BY <1>1, <1>3 DEF Invariant, TypeOK
<1>5. Reached' /\ Answers'
  BY <1>1, <1>2 DEF Invariant, Reached, Answers, Settled
<1>6. ResultLast' /\ FullSuccessIsBooked'
  BY <1>1 DEF Invariant, ResultLast, FullSuccessIsBooked, NoResult
<1> QED
  BY <1>4, <1>5, <1>6 DEF Invariant

\* All calls have ended, each in a success that is booked, degraded, failed, skipped or
\* raised; a failed or skipped one makes the result no full success.
LEMMA DagEndsStep == Invariant /\ DagEnds => Invariant'
<1> SUFFICES ASSUME Invariant, DagEnds PROVE Invariant'
  OBVIOUS
<1> USE SamePlan
<1>1. /\ UNCHANGED <<plan, layer, since, call, answer, wire, booked>>
      /\ layer = LastLayer /\ Calling = {} /\ stage = "dag"
  BY DEF DagEnds
<1>2. Reached' /\ Answers'
  BY <1>1 DEF Invariant, Reached, Answers, Settled
<1>3. CASE stage' = "raised" /\ UNCHANGED result
  <2>1. TypeOK'
    BY <1>1, <1>3 DEF Invariant, TypeOK
  <2> QED
    BY <1>1, <1>2, <1>3, <2>1 DEF Invariant, ResultLast, FullSuccessIsBooked
<1>4. CASE stage' = "finished" /\ result' = [status |-> Status, confirmed |-> ConfirmedSlots,
                                             failed |-> FailedSlots, records |-> ToolRecords]
  <2>1. /\ Status \in {"full_success", "partial_success", "full_failure"}
        /\ Status = "full_success" => FailedSlots = {}
    <3>1. CASE FailedSlots = {}
      <4>1. Status = "full_success"
        BY <3>1, Zenon DEF Status
      <4> QED
        BY <3>1, <4>1
    <3>2. CASE FailedSlots # {} /\ ConfirmedSlots # {}
      <4>1. Status = "partial_success"
        BY <3>2, Zenon DEF Status
      <4> QED
        BY <4>1
    <3>3. CASE FailedSlots # {} /\ ConfirmedSlots = {}
      <4>1. Status = "full_failure"
        BY <3>3, Zenon DEF Status
      <4> QED
        BY <4>1
    <3> QED
      BY <3>1, <3>2, <3>3
  <2>2. ConfirmedSlots \subseteq Slots /\ FailedSlots \subseteq Slots
    BY DEF ConfirmedSlots, FailedSlots, AnsweredFailed, SkippedSlots, Settled
  <2>3. result'.status = Status /\ result'.confirmed = ConfirmedSlots /\ result'.failed = FailedSlots
    BY <1>4
  <2>4. TypeOK'
    BY <1>1, <1>4, <2>1, <2>2, <2>3 DEF Invariant, TypeOK
  <2>5. ASSUME Status = "full_success", NEW i \in Physical \ booked
        PROVE  call[i] = "raised" \/ answer[i].status = "degraded"
    <3>1. i \in Slots /\ FailedSlots = {}
      BY <2>1, <2>5 DEF Physical
    <3>2. call[i] # "waiting"
      BY <1>1, <3>1, SlotLayers DEF Invariant, Reached, LastLayer
    <3>3. call[i] \notin {"calling", "skipped"}
      BY <1>1, <3>1 DEF Calling, FailedSlots, SkippedSlots
    <3>4. CASE call[i] = "settled"
      <4>1. i \in Settled /\ answer[i].status \in ToolStatus /\ answer[i].status # "success"
        BY <2>5, <3>1, <3>4 DEF Invariant, Answers, Settled
      <4>2. answer[i].status \notin FailureStatus
        BY <3>1, <4>1 DEF FailedSlots, AnsweredFailed
      <4> QED
        BY <4>1, <4>2 DEF ToolStatus, FailureStatus
    <3> QED
      BY <3>1, <3>2, <3>3, <3>4 DEF Invariant, TypeOK, CallState
  <2>6. FullSuccessIsBooked'
    BY <1>1, <2>3, <2>5 DEF FullSuccessIsBooked
  <2> QED
    BY <1>2, <1>4, <2>4, <2>6 DEF Invariant, ResultLast
<1> QED
  BY <1>3, <1>4 DEF DagEnds

LEMMA InvariantStep == Invariant /\ [Next]_vars => Invariant'
<1> SUFFICES ASSUME Invariant, [Next]_vars PROVE Invariant'
  OBVIOUS
<1>1. ASSUME NEW i \in Slots, RequestRejected(i) \/ ConnectionBreaks(i) PROVE Invariant'
  BY <1>1, RefusedStep DEF RequestRejected, ConnectionBreaks
<1>2. CASE UNCHANGED vars
  <2> USE SamePlan
  <2>1. TypeOK'
    BY <1>2 DEF vars, Invariant, TypeOK
  <2> QED
    BY <1>2, <2>1 DEF vars, Invariant, Reached, Answers, Settled, ResultLast, FullSuccessIsBooked
<1> QED
  BY <1>1, <1>2, NextLayerStep, TickStep, DagEndsStep, ProviderBooksStep, CallAnsweredStep,
     CallTimesOutStep, CallRaisesStep DEF Next

\* The inductive invariant: a slot counted as successful has its answer behind it.
THEOREM InvariantHolds == Spec => []Invariant
BY InvariantInit, InvariantStep, PTL DEF Spec

\* Every variable keeps its type: no status a provider makes up gets past the gateway's
\* normalisation, for any draft.
THEOREM TypeCorrect == Spec => []TypeOK
BY InvariantHolds, PTL DEF Invariant

\* A full success has booked every slot that needed it, but for the calls that raised or
\* were degraded, whatever is late, lost or refused between engine and provider.
THEOREM FullSuccessIsBookedHolds == Spec => []FullSuccessIsBooked
BY InvariantHolds, PTL DEF Invariant

-----------------------------------------------------------------------------
(* The account of a run *)

Joins(st, s, t, m, n) ==
    /\ Len(st) = m + n
    /\ \A k \in 1 .. (m + n) :
         /\ k <= m => st[k] = s[k]
         /\ k > m => st[k] = t[k - m]

LEMMA Concatenation ==
    ASSUME NEW S, NEW s \in Seq(S), NEW t \in Seq(S),
           NEW m \in Nat, NEW n \in Nat, Len(s) = m, Len(t) = n
    PROVE  Joins(s \o t, s, t, m, n) /\ s \o t \in Seq(S)
BY DEF Joins

\* What to_execution_state writes, once all calls have ended: a record for each slot
\* that is settled or skipped, and a success for just the slots that have not failed.
LEMMA RecordsAre ==
    ASSUME Invariant, layer = LastLayer, Calling = {}
    PROVE  LET recs == ToolRecords IN
           /\ \A k \in DOMAIN recs :
                /\ recs[k].slot \in Settled \cup SkippedSlots
                /\ recs[k].status # "success" <=> recs[k].slot \in FailedSlots
           /\ \A i \in Settled \cup SkippedSlots : \E k \in DOMAIN recs : recs[k].slot = i
           /\ \A k, l \in DOMAIN recs : recs[k].slot = recs[l].slot => k = l
<1>1. /\ plan \in Plans /\ Settled \in SUBSET Slots /\ SkippedSlots \in SUBSET Slots
      /\ Settled \cap SkippedSlots = {} /\ AnsweredFailed \subseteq Settled
      /\ \A i \in Settled : answer[i].status \in ToolStatus
  BY DEF Invariant, TypeOK, Answers, Settled, SkippedSlots, AnsweredFailed
<1> DEFINE r == InOrder(Settled)
           reported == [k \in DOMAIN r |->
               [slot |-> r[k], layer |-> LayerOf(Tool(r[k])), status |-> RecordStatus(answer[r[k]].status)]]
           M == FailedSlots \ {reported[k].slot : k \in DOMAIN reported}
           m == InOrder(M)
           skipped == [k \in DOMAIN m |-> [slot |-> m[k], layer |-> NoLayer, status |-> "skipped"]]
           recs == ToolRecords
<1>2. recs = reported \o skipped
  BY DEF ToolRecords
<1>3. /\ r \in Seq(Settled)
      /\ \A i \in Settled : \E k \in DOMAIN r : r[k] = i
      /\ \A k, l \in DOMAIN r : r[k] = r[l] => k = l
  BY <1>1, InOrderIs
<1> HIDE DEF r
<1>4. M = SkippedSlots
  <2>1. \A k \in DOMAIN r : r[k] \in Settled
    BY <1>3
  <2>2. {reported[k].slot : k \in DOMAIN reported} = Settled
    BY <1>3, <2>1
  <2> HIDE DEF reported
  <2> QED
    BY <1>1, <2>2 DEF FailedSlots
<1> HIDE DEF M
<1>5. /\ m \in Seq(SkippedSlots)
      /\ \A i \in SkippedSlots : \E k \in DOMAIN m : m[k] = i
      /\ \A k, l \in DOMAIN m : m[k] = m[l] => k = l
  BY <1>1, <1>4, InOrderIs
<1> HIDE DEF m
<1> DEFINE a == Len(r)
           b == Len(m)
<1>6. /\ a \in Nat /\ b \in Nat /\ DOMAIN r = 1 .. a /\ DOMAIN m = 1 .. b
      /\ \A k \in 1 .. a : r[k] \in Settled
      /\ \A k \in 1 .. b : m[k] \in SkippedSlots
  BY <1>3, <1>5
<1> HIDE DEF a, b
<1>7. /\ DOMAIN reported = 1 .. a /\ DOMAIN skipped = 1 .. b
      /\ \A k \in 1 .. a : reported[k].slot = r[k] /\ reported[k].status = RecordStatus(answer[r[k]].status)
      /\ \A k \in 1 .. b : skipped[k].slot = m[k] /\ skipped[k].status = "skipped"
  BY <1>6
<1> DEFINE U == {reported[k] : k \in 1 .. a} \cup {skipped[k] : k \in 1 .. b}
<1>8. reported \in [1 .. a -> U] /\ skipped \in [1 .. b -> U]
  BY <1>6
<1> HIDE DEF reported, skipped, U
<1>9. reported \in Seq(U) /\ skipped \in Seq(U) /\ Len(reported) = a /\ Len(skipped) = b
  BY <1>6, <1>8
<1>10. /\ DOMAIN recs = 1 .. (a + b)
       /\ \A k \in 1 .. a : recs[k] = reported[k]
       /\ \A k \in (a + 1) .. (a + b) : recs[k] = skipped[k - a]
  <2> HIDE DEF recs
  <2>1. recs \in Seq(U) /\ Joins(recs, reported, skipped, a, b)
    BY <1>2, <1>6, <1>9, Concatenation
  <2>2. DOMAIN recs = 1 .. (a + b)
    BY <1>6, <2>1 DEF Joins
  <2>3. \A k \in 1 .. a : recs[k] = reported[k]
    BY <1>6, <2>1 DEF Joins
  <2>4. \A k \in (a + 1) .. (a + b) : recs[k] = skipped[k - a]
    BY <1>6, <2>1 DEF Joins
  <2> QED
    BY <2>2, <2>3, <2>4
<1> HIDE DEF recs
<1>11. ASSUME NEW k \in DOMAIN recs
       PROVE  \/ k \in 1 .. a /\ recs[k].slot = r[k] /\ recs[k].slot \in Settled
                 /\ recs[k].status = RecordStatus(answer[r[k]].status)
              \/ k - a \in 1 .. b /\ recs[k].slot = m[k - a] /\ recs[k].slot \in SkippedSlots
                 /\ recs[k].status = "skipped"
  <2>1. CASE k \in 1 .. a
    BY <1>6, <1>7, <1>10, <2>1
  <2>2. CASE k \in (a + 1) .. (a + b)
    <3>1. k - a \in 1 .. b
      BY <1>6, <2>2
    <3> QED
      BY <1>6, <1>7, <1>10, <2>2, <3>1
  <2> QED
    BY <1>6, <1>10, <2>1, <2>2
<1>12. ASSUME NEW k \in DOMAIN recs
       PROVE  /\ recs[k].slot \in Settled \cup SkippedSlots
              /\ recs[k].status # "success" <=> recs[k].slot \in FailedSlots
  <2>1. CASE recs[k].slot \in Settled /\ recs[k].status = RecordStatus(answer[recs[k].slot].status)
    <3> DEFINE i == recs[k].slot
    <3>1. answer[i].status \in ToolStatus /\ (i \in FailedSlots <=> answer[i].status \in FailureStatus)
      BY <1>1, <2>1 DEF FailedSlots, AnsweredFailed
    <3> QED
      BY <2>1, <3>1 DEF RecordStatus, ToolStatus, FailureStatus
  <2>2. CASE recs[k].slot \in SkippedSlots /\ recs[k].status = "skipped"
    BY <2>2 DEF FailedSlots
  <2> QED
    BY <1>11, <2>1, <2>2
<1>13. ASSUME NEW i \in Settled \cup SkippedSlots
       PROVE  \E k \in DOMAIN recs : recs[k].slot = i
  <2>1. CASE i \in Settled
    <3>1. PICK k \in 1 .. a : r[k] = i
      BY <1>3, <1>6, <2>1
    <3>2. k \in DOMAIN recs /\ recs[k].slot = i
      BY <1>6, <1>7, <1>10, <3>1
    <3> QED
      BY <3>2
  <2>2. CASE i \in SkippedSlots
    <3>1. PICK k \in 1 .. b : m[k] = i
      BY <1>5, <1>6, <2>2
    <3>2. k + a \in (a + 1) .. (a + b) /\ k + a - a = k
      BY <1>6
    <3>3. k + a \in DOMAIN recs /\ recs[k + a].slot = i
      BY <1>6, <1>7, <1>10, <3>1, <3>2
    <3> QED
      BY <3>3
  <2> QED
    BY <2>1, <2>2
<1>14. ASSUME NEW k \in DOMAIN recs, NEW l \in DOMAIN recs, recs[k].slot = recs[l].slot
       PROVE  k = l
  <2>1. CASE recs[k].slot \in Settled
    <3>1. k \in 1 .. a /\ l \in 1 .. a /\ r[k] = r[l]
      BY <1>1, <1>11, <1>14, <2>1
    <3> QED
      BY <1>3, <1>6, <3>1
  <2>2. CASE recs[k].slot \in SkippedSlots
    <3>1. k - a \in 1 .. b /\ l - a \in 1 .. b /\ m[k - a] = m[l - a]
      BY <1>1, <1>11, <1>14, <2>2
    <3>2. k - a = l - a
      BY <1>5, <1>6, <3>1
    <3> QED
      BY <1>6, <1>10, <3>2
  <2> QED
    BY <1>12, <2>1, <2>2
<1> QED
  BY <1>12, <1>13, <1>14 DEF recs

LEMMA AccountStep == Invariant /\ RecordsAgree /\ [Next]_vars => RecordsAgree'
<1> SUFFICES ASSUME Invariant, RecordsAgree, [Next]_vars, stage' = "finished" PROVE RecordsAgree'
  BY DEF RecordsAgree
<1>1. CASE DagEnds
  <2>1. /\ plan' = plan /\ call' = call /\ layer = LastLayer /\ Calling = {}
        /\ result' = [status |-> Status, confirmed |-> ConfirmedSlots,
                      failed |-> FailedSlots, records |-> ToolRecords]
    BY <1>1 DEF DagEnds
  <2> DEFINE recs == ToolRecords
  <2>2. /\ \A k \in DOMAIN recs :
             /\ recs[k].slot \in Settled \cup SkippedSlots
             /\ recs[k].status # "success" <=> recs[k].slot \in FailedSlots
        /\ \A i \in Settled \cup SkippedSlots : \E k \in DOMAIN recs : recs[k].slot = i
        /\ \A k, l \in DOMAIN recs : recs[k].slot = recs[l].slot => k = l
    BY <2>1, RecordsAre
  <2> HIDE DEF recs
  <2>3. result'.records = recs /\ result'.failed = FailedSlots /\ result'.confirmed = ConfirmedSlots
    BY <2>1 DEF recs
  <2>4. ASSUME NEW i \in Slots
        PROVE  Cardinality({k \in DOMAIN recs : recs[k].slot = i}) = IF call[i] = "raised" THEN 0 ELSE 1
    <3> DEFINE K == {k \in DOMAIN recs : recs[k].slot = i}
    <3>1. call[i] \in CallState \ {"waiting", "calling"}
      BY <2>1, <2>4, SlotLayers DEF Invariant, TypeOK, Reached, Calling, LastLayer
    <3>2. CASE call[i] = "raised"
      <4>1. i \notin Settled \cup SkippedSlots
        BY <3>2 DEF Settled, SkippedSlots
      <4>2. K = {}
        BY <2>2, <4>1
      <4> QED
        BY <3>2, <4>2, FS_EmptySet
    <3>3. CASE call[i] # "raised"
      <4>1. i \in Settled \cup SkippedSlots
        BY <2>4, <3>1, <3>3 DEF Settled, SkippedSlots, CallState
      <4>2. PICK k \in DOMAIN recs : recs[k].slot = i
        BY <2>2, <4>1
      <4>3. K = {k}
        BY <2>2, <4>2
      <4> QED
        BY <3>3, <4>3, FS_Singleton
    <3> QED
      BY <3>2, <3>3
  <2>5. FailedSlots = {recs[k].slot : k \in {n \in DOMAIN recs : recs[n].status # "success"}}
    <3>1. FailedSlots \subseteq Settled \cup SkippedSlots
      BY DEF FailedSlots, AnsweredFailed
    <3>2. \A i \in FailedSlots : \E k \in {n \in DOMAIN recs : recs[n].status # "success"} : recs[k].slot = i
      BY <2>2, <3>1
    <3>3. \A k \in {n \in DOMAIN recs : recs[n].status # "success"} : recs[k].slot \in FailedSlots
      BY <2>2
    <3> QED
      BY <3>2, <3>3
  <2>6. ConfirmedSlots \cap FailedSlots = {}
    BY DEF ConfirmedSlots, FailedSlots, AnsweredFailed, SkippedSlots, Settled, FailureStatus
  <2>7. Slots' = Slots
    BY <2>1, SamePlan
  <2> QED
    BY <2>1, <2>3, <2>4, <2>5, <2>6, <2>7 DEF RecordsAgree
<1>2. CASE ~DagEnds
  <2>1. UNCHANGED <<plan, stage, call, result>>
    BY <1>2, [Next]_vars, stage' = "finished"
    DEF Next, vars, NextLayer, Tick, ProviderBooks, CallAnswered, RequestRejected, ConnectionBreaks,
        CallTimesOut, CallRaises, Settle
  <2>2. Slots' = Slots
    BY <2>1, SamePlan
  <2> QED
    BY <2>1, <2>2 DEF RecordsAgree
<1> QED
  BY <1>1, <1>2

\* to_execution_state with _execute_dag's account: each slot whose call did not raise has
\* exactly one record, failures are the listed ones and nothing confirmed is among them,
\* however the layers' calls end.
THEOREM RecordsAgreeHolds == Spec => []RecordsAgree
<1>1. Init => RecordsAgree
  BY DEF Init, RecordsAgree
<1>2. Invariant /\ RecordsAgree /\ [Next]_vars => RecordsAgree'
  BY AccountStep
<1> QED
  BY <1>1, <1>2, InvariantHolds, PTL DEF Spec
=============================================================================
