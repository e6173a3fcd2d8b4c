---------------------------- MODULE Monitor_proofs ----------------------------
(***************************************************************************)
(* Proofs about Monitor, for every draft, reading and lateness.            *)
(***************************************************************************)
EXTENDS Monitor, FiniteSetTheorems, TLAPS

-----------------------------------------------------------------------------
(* The inductive invariant *)

Plan == Checks(draft)
Checked(i) == alerts[i].check

\* The draft is one the bound allows; the routes lead to its slots but the first.
Planned == draft \in Seq(Slot) /\ Len(draft) \in 0 .. MaxSlots
Routes == IF Len(draft) = 0 THEN 0 ELSE Len(draft) - 1

\* What is left to check is the rest of the plan.
Ahead ==
    phase = "checking" =>
        /\ todo \in Seq(ToSet(Plan)) /\ Len(todo) <= Len(Plan)
        /\ \A i \in 1 .. Len(todo) : todo[i] = Plan[Len(Plan) - Len(todo) + i]

\* The alerts are those of the readings beyond their limits, in the order of the
\* plan, and none is about a check still ahead.
Reported ==
    /\ alerts \in Seq(Alert)
    /\ {Checked(i) : i \in DOMAIN alerts} = crossed
    /\ \A i \in DOMAIN alerts :
         /\ alerts[i].slots = SlotsOf(Checked(i)) /\ alerts[i].slots \subseteq DOMAIN draft
         /\ alerts[i].action = "full_replan" <=> Checked(i) = CheckOf("weather", 0)
         /\ Checked(i).kind # "booking"
         /\ Position(Checked(i)) \in DOMAIN Plan
         /\ phase = "checking" => Position(Checked(i)) <= Len(Plan) - Len(todo)
    /\ \A i, j \in DOMAIN alerts : i < j => Position(Checked(i)) < Position(Checked(j))

\* The sink gets them from the first to the last.
PushedInOrder ==
    /\ phase \in {"idle", "checking"} => pushed = <<>>
    /\ phase = "pushing" => sink /\ pushed \in Seq(Alert) /\ todo \in Seq(Alert) /\ alerts = pushed \o todo
    /\ phase = "returned" => pushed = (IF sink THEN alerts ELSE <<>>) /\ trigger = TriggerOf(alerts)

\* No sleep begins after the time is up.
Timely == loop.phase = "sleeping" => loop.elapsed <= MaxDuration

\* At rest, nothing is left to do.
AtRest == phase \notin {"checking", "pushing"} => todo = <<>>

Invariant == TypeOK /\ Planned /\ Ahead /\ Reported /\ PushedInOrder /\ Timely /\ AtRest

-----------------------------------------------------------------------------
(* The plan of a check *)

Joins(st, s, t, m, n) ==
    /\ Len(st) = m + n
    /\ \A k \in 1 .. (m + n) :
         /\ k <= m => st[k] = s[k]
         /\ k > m => st[k] = t[k - m]

LEMMA Concatenation ==
    ASSUME NEW S, NEW s \in Seq(S), NEW t \in Seq(S),
           NEW m \in Nat, NEW n \in Nat, Len(s) = m, Len(t) = n
    PROVE  Joins(s \o t, s, t, m, n) /\ s \o t \in Seq(S)
BY DEF Joins

\* What is the k-th check of a plan of n slots and r routes.
PlannedAt(k, check, n, r) ==
    \/ k <= r /\ check = CheckOf("route", k + 1)
    \/ k > r /\ k <= r + n /\ check = CheckOf("queue", k - r)
    \/ k = r + n + 1 /\ check = CheckOf("weather", 0)
    \/ k > r + n + 1 /\ check.kind = "booking"

\* A plan has the routes first, then the queues, the weather and the bookings.
LEMMA PlanIs ==
    ASSUME Planned
    PROVE  LET n == Len(draft) IN
           /\ Plan \in Seq(ToSet(Plan)) /\ Len(Plan) \in Nat
           /\ DOMAIN Plan = 1 .. Len(Plan)
           /\ \A k \in 1 .. Len(Plan) : PlannedAt(k, Plan[k], n, Routes)
<1> DEFINE n == Len(draft)
           r == Routes
           bookings == {i \in 1 .. n : draft[i].books}
           Booking(k) == CHOOSE i \in bookings : Cardinality({j \in bookings : j < i}) = k - 1
           b == Cardinality(bookings)
           routes == [i \in 1 .. n - 1 |-> CheckOf("route", i + 1)]
           queues == [i \in 1 .. n |-> CheckOf("queue", i)]
           weather == <<CheckOf("weather", 0)>>
           booked == [k \in 1 .. b |-> CheckOf("booking", Booking(k))]
           A == {routes[i] : i \in 1 .. n - 1} \cup {queues[i] : i \in 1 .. n}
                  \cup {CheckOf("weather", 0)} \cup {booked[k] : k \in 1 .. b}
<1>1. n \in Nat /\ r \in Nat /\ 1 .. n - 1 = 1 .. r
    BY BoundAssumption DEF Planned, Routes
<1>2. b \in Nat
    <2>1. IsFiniteSet(1 .. n)
        BY <1>1, FS_Interval
    <2>2. IsFiniteSet(bookings)
        BY <2>1, FS_Subset
    <2> QED
        BY <2>2, FS_CardinalityType
<1>3. Plan = ((routes \o queues) \o weather) \o booked
    BY DEF Plan, Checks
<1> HIDE DEF n, b, r
<1>4. /\ DOMAIN routes = 1 .. r /\ \A i \in 1 .. r : routes[i] = CheckOf("route", i + 1)
      /\ DOMAIN queues = 1 .. n /\ \A i \in 1 .. n : queues[i] = CheckOf("queue", i)
      /\ DOMAIN booked = 1 .. b /\ \A k \in 1 .. b : booked[k] = CheckOf("booking", Booking(k))
    BY <1>1
<1>5. /\ routes \in [1 .. r -> A] /\ queues \in [1 .. n -> A] /\ booked \in [1 .. b -> A]
      /\ CheckOf("weather", 0) \in A
    BY <1>4
<1>6. \A k \in 1 .. b : booked[k].kind = "booking"
    BY <1>4 DEF CheckOf
<1> HIDE DEF routes, queues, booked, A
<1>7. /\ routes \in Seq(A) /\ Len(routes) = r
      /\ queues \in Seq(A) /\ Len(queues) = n
      /\ booked \in Seq(A) /\ Len(booked) = b
    BY <1>1, <1>2, <1>5
<1>8. weather \in Seq(A) /\ Len(weather) = 1 /\ weather[1] = CheckOf("weather", 0)
    BY <1>5
<1> HIDE DEF weather
<1> DEFINE rq == routes \o queues
           rqw == rq \o weather
<1>9. rq \in Seq(A) /\ Joins(rq, routes, queues, r, n)
    BY <1>1, <1>7, Concatenation
<1> HIDE DEF rq
<1>10. rqw \in Seq(A) /\ Joins(rqw, rq, weather, r + n, 1)
    <2>1. 1 \in Nat /\ r + n \in Nat /\ Len(rq) = r + n
        BY <1>1, <1>9 DEF Joins
    <2> QED
        BY <1>8, <1>9, <2>1, Concatenation
<1>11. /\ Len(rqw) = r + n + 1 /\ r + n + 1 \in Nat
       /\ \A k \in 1 .. (r + n + 1) :
            /\ k <= r => rqw[k] = routes[k]
            /\ k > r /\ k <= r + n => rqw[k] = queues[k - r]
            /\ k = r + n + 1 => rqw[k] = weather[1]
    <2> HIDE DEF rqw
    <2>1. r + n \in Nat /\ r + n + 1 \in Nat
        BY <1>1
    <2>2. Len(rqw) = r + n + 1
        BY <1>10, <2>1 DEF Joins
    <2>3. \A k \in 1 .. (r + n) : rqw[k] = rq[k]
        BY <1>10, <2>1 DEF Joins
    <2>4. rqw[r + n + 1] = weather[1]
        <3> DEFINE m == r + n
        <3>1. m \in Nat /\ \A k \in 1 .. (m + 1) : k > m => rqw[k] = weather[k - m]
            BY <1>10, <2>1 DEF Joins
        <3> HIDE DEF m
        <3>2. m + 1 \in 1 .. (m + 1) /\ m + 1 > m /\ m + 1 - m = 1
            BY <3>1
        <3>3. rqw[m + 1] = weather[1]
            BY <3>1, <3>2
        <3> QED
            BY <3>3 DEF m
    <2>5. \A k \in 1 .. (r + n) :
             /\ k <= r => rq[k] = routes[k]
             /\ k > r => rq[k] = queues[k - r]
        BY <1>9, <2>1 DEF Joins
    <2> SUFFICES ASSUME NEW k \in 1 .. (r + n + 1)
                 PROVE  /\ k <= r => rqw[k] = routes[k]
                        /\ k > r /\ k <= r + n => rqw[k] = queues[k - r]
                        /\ k = r + n + 1 => rqw[k] = weather[1]
        BY <2>1, <2>2
    <2>6. CASE k = r + n + 1
        <3>1. ~(k <= r) /\ ~(k <= r + n)
            BY <1>1, <2>6
        <3> QED
            BY <2>4, <2>6, <3>1
    <2>7. CASE k \in 1 .. (r + n)
        <3>1. k # r + n + 1
            BY <1>1, <2>7
        <3> QED
            BY <2>3, <2>5, <2>7, <3>1
    <2> QED
        BY <1>1, <2>6, <2>7
<1> HIDE DEF rqw
<1>12. Plan \in Seq(A) /\ Joins(Plan, rqw, booked, r + n + 1, b)
    <2>1. Plan = rqw \o booked
        BY <1>3 DEF rq, rqw
    <2> HIDE DEF Plan
    <2> QED
        BY <1>2, <1>7, <1>10, <1>11, <2>1, Concatenation
<1> HIDE DEF Plan
<1>13. DOMAIN Plan = 1 .. Len(Plan) /\ Len(Plan) \in Nat
    BY <1>12 DEF Joins
<1>14. Plan \in Seq(ToSet(Plan))
    BY <1>12, <1>13 DEF ToSet, Joins
<1>15. ASSUME NEW k \in 1 .. Len(Plan) PROVE PlannedAt(k, Plan[k], n, r)
    <2>1. CASE k <= r
        <3>1. Plan[k] = routes[k]
            BY <1>1, <1>2, <1>11, <1>12, <2>1 DEF Joins
        <3> QED
            BY <1>1, <1>4, <2>1, <3>1 DEF PlannedAt
    <2>2. CASE k > r /\ k <= r + n
        <3>1. Plan[k] = queues[k - r]
            BY <1>1, <1>2, <1>11, <1>12, <2>2 DEF Joins
        <3>2. k - r \in 1 .. n
            BY <1>1, <2>2
        <3> QED
            BY <1>4, <2>2, <3>1, <3>2 DEF PlannedAt
    <2>3. CASE k = r + n + 1
        <3>1. Plan[k] = weather[1]
            BY <1>1, <1>2, <1>11, <1>12, <2>3 DEF Joins
        <3> QED
            BY <1>8, <2>3, <3>1 DEF PlannedAt
    <2>4. CASE k > r + n + 1
        <3>1. Plan[k] = booked[k - (r + n + 1)] /\ k - (r + n + 1) \in 1 .. b
            BY <1>1, <1>2, <1>12, <2>4 DEF Joins
        <3> QED
            BY <1>6, <2>4, <3>1 DEF PlannedAt
    <2> QED
        BY <1>1, <2>1, <2>2, <2>3, <2>4
<1> QED
    BY <1>13, <1>14, <1>15 DEF n, r

\* No check but a booking's is in the plan twice.
LEMMA PositionIs ==
    ASSUME Planned, NEW k \in 1 .. Len(Plan), Plan[k].kind # "booking"
    PROVE  Position(Plan[k]) = k
<1> DEFINE n == Len(draft)  r == Routes
<1>1. /\ n \in Nat /\ r \in Nat /\ DOMAIN Plan = 1 .. Len(Plan) /\ Len(Plan) \in Nat
      /\ \A j \in 1 .. Len(Plan) : PlannedAt(j, Plan[j], n, r)
    BY Planned, PlanIs, BoundAssumption DEF Planned, Routes
<1> HIDE DEF Plan, n, r
<1>2. ASSUME NEW j \in DOMAIN Plan, Plan[j] = Plan[k] PROVE j = k
    <2>1. Plan[j].kind # "booking"
        BY <1>2, Plan[k].kind # "booking"
    <2>2. CASE k <= r
        <3>1. Plan[j].kind = "route" /\ Plan[j].slot = k + 1
            BY <1>1, <1>2, <2>2 DEF PlannedAt, CheckOf
        <3> QED
            BY <1>1, <2>2, <3>1 DEF PlannedAt, CheckOf
    <2>3. CASE k > r /\ k <= r + n
        <3>1. Plan[j].kind = "queue" /\ Plan[j].slot = k - r
            BY <1>1, <1>2, <2>3 DEF PlannedAt, CheckOf
        <3> QED
            BY <1>1, <2>3, <3>1 DEF PlannedAt, CheckOf
    <2>4. CASE k = r + n + 1
        <3>1. Plan[j].kind = "weather"
            BY <1>1, <1>2, <2>4 DEF PlannedAt, CheckOf
        <3> QED
            BY <1>1, <2>4, <3>1 DEF PlannedAt, CheckOf
    <2> QED
        BY <1>1, <2>2, <2>3, <2>4, Plan[k].kind # "booking" DEF PlannedAt
<1>3. k \in DOMAIN Plan
    BY <1>1
<1> QED
    BY <1>2, <1>3 DEF Position, Plan

-----------------------------------------------------------------------------
(* Every step keeps the invariant *)

LEMMA InvariantInit == Init => Invariant
<1> SUFFICES ASSUME Init PROVE Invariant
    OBVIOUS
<1>1. PICK n \in 0 .. MaxSlots : draft \in [1 .. n -> Slot]
    BY DEF Init
<1>2. draft \in Seq(Slot) /\ Len(draft) = n /\ n \in Nat
    BY <1>1, BoundAssumption
<1>3. /\ port \in BOOLEAN /\ sink \in BOOLEAN /\ phase = "idle"
      /\ todo = <<>> /\ alerts = <<>> /\ trigger = NoTrigger /\ crossed = {} /\ pushed = <<>>
      /\ loop = [phase |-> "off", interval |-> FirstInterval, elapsed |-> 0] /\ cancelled = FALSE
    BY DEF Init
<1>4. ToSet(todo) = {} /\ ToSet(alerts) = {} /\ ToSet(pushed) = {}
    BY <1>3 DEF ToSet
<1>5. TypeOK
    <2>1. trigger \in [scope : {"none", "partial", "full"}, slots : SUBSET DOMAIN draft, auto : BOOLEAN]
        BY <1>3 DEF NoTrigger
    <2>2. loop \in [phase : {"off", "round", "sleeping", "over"},
                   interval : FirstInterval .. MaxInterval,
                   elapsed : 0 .. (MaxDuration + MaxInterval + MaxLate)]
        BY <1>3, BoundAssumption DEF FirstInterval, MaxInterval, MaxDuration
    <2> QED
        BY <1>2, <1>3, <1>4, <2>1, <2>2 DEF TypeOK
<1>6. Planned /\ Ahead /\ Timely /\ AtRest /\ PushedInOrder
    BY <1>1, <1>2, <1>3 DEF Planned, Ahead, Timely, AtRest, PushedInOrder
<1>7. Reported
    BY <1>3 DEF Reported
<1> QED
    BY <1>5, <1>6, <1>7 DEF Invariant

LEMMA Unmoved ==
    ASSUME draft' = draft
    PROVE  Plan' = Plan /\ \A check : Position(check)' = Position(check)
BY draft' = draft DEF Plan, Position

\* The next check, and what is left after it.
LEMMA NextCheck ==
    ASSUME Invariant, phase = "checking", todo # <<>>
    PROVE  LET k == Len(Plan) - Len(todo) + 1 IN
           /\ k \in 1 .. Len(Plan) /\ Head(todo) = Plan[k]
           /\ Tail(todo) \in Seq(ToSet(Plan)) /\ Len(Tail(todo)) = Len(todo) - 1
           /\ Len(Plan) - Len(Tail(todo)) = k
           /\ \A i \in 1 .. Len(Tail(todo)) : Tail(todo)[i] = Plan[Len(Plan) - Len(Tail(todo)) + i]
<1> DEFINE S == ToSet(Plan)
<1>1. /\ Len(Plan) \in Nat /\ todo \in Seq(S) /\ Len(todo) <= Len(Plan)
      /\ \A i \in 1 .. Len(todo) : todo[i] = Plan[Len(Plan) - Len(todo) + i]
    BY Invariant, phase = "checking", PlanIs DEF Invariant, Ahead
<1> HIDE DEF S, Plan
<1>2. /\ Len(todo) \in Nat \ {0} /\ Head(todo) = todo[1]
      /\ Tail(todo) \in Seq(S) /\ Len(Tail(todo)) = Len(todo) - 1
      /\ \A i \in 1 .. (Len(todo) - 1) : Tail(todo)[i] = todo[i + 1]
    BY <1>1, todo # <<>>
<1> DEFINE t == Tail(todo)
           m == Len(todo)
           h == Head(todo)
<1>3. /\ m \in Nat \ {0} /\ h = todo[1] /\ Len(t) = m - 1 /\ m <= Len(Plan) /\ Len(Plan) \in Nat
      /\ \A i \in 1 .. m : todo[i] = Plan[Len(Plan) - m + i]
      /\ \A i \in 1 .. (m - 1) : t[i] = todo[i + 1]
    BY <1>1, <1>2
<1> HIDE DEF t, m, h
<1>4. Len(Plan) - m + 1 \in 1 .. Len(Plan) /\ h = Plan[Len(Plan) - m + 1]
    BY <1>3
<1>5. \A i \in 1 .. Len(t) : t[i] = Plan[Len(Plan) - Len(t) + i]
    <2> TAKE i \in 1 .. Len(t)
    <2>1. i + 1 \in 1 .. m /\ Len(Plan) - m + (i + 1) = Len(Plan) - Len(t) + i
        BY <1>3
    <2> QED
        BY <1>3, <2>1
<1>6. Len(Plan) - Len(t) = Len(Plan) - m + 1
    BY <1>3
<1> QED
    BY <1>2, <1>4, <1>5, <1>6 DEF t, m, h, S

\* A quiet check.
LEMMA QuietKeeps ==
    ASSUME Invariant, phase = "checking", todo # <<>>, todo' = Tail(todo), Quiet,
           UNCHANGED <<wiring, phase, trigger, pushed, loop, cancelled>>
    PROVE  Invariant'
<1> DEFINE k == Len(Plan) - Len(todo) + 1
<1>1. /\ k \in 1 .. Len(Plan) /\ todo' \in Seq(ToSet(Plan)) /\ Len(todo') = Len(todo) - 1
      /\ Len(Plan) - Len(todo') = k
      /\ \A i \in 1 .. Len(todo') : todo'[i] = Plan[Len(Plan) - Len(todo') + i]
    BY Invariant, phase = "checking", todo # <<>>, todo' = Tail(todo), NextCheck
<1>2. /\ draft' = draft /\ port' = port /\ sink' = sink /\ phase' = phase /\ trigger' = trigger
      /\ pushed' = pushed /\ loop' = loop /\ cancelled' = cancelled
      /\ alerts' = alerts /\ crossed' = crossed
    BY Quiet, UNCHANGED <<wiring, phase, trigger, pushed, loop, cancelled>> DEF Quiet, wiring
<1>3. Plan' = Plan /\ \A check : Position(check)' = Position(check)
    BY <1>2, Unmoved
<1>4. Len(Plan) \in Nat /\ Len(todo) \in Nat /\ Len(todo) <= Len(Plan)
    BY Invariant, phase = "checking", PlanIs DEF Invariant, Ahead
<1>5. Planned' /\ Timely' /\ AtRest' /\ PushedInOrder'
    BY Invariant, phase = "checking", <1>2 DEF Invariant, Planned, Timely, AtRest, PushedInOrder
<1>6. Ahead'
    <2>1. Len(todo') <= Len(Plan)
        BY <1>1, <1>4
    <2> QED
        BY <1>1, <1>3, <2>1 DEF Ahead, ToSet
<1>7. Reported'
    <2>1. Len(Plan) - Len(todo) < k /\ k \in Int
        BY <1>4
    <2> HIDE DEF k
    <2>2. \A i \in DOMAIN alerts : Position(Checked(i)) \in Nat /\ Position(Checked(i)) <= k
        BY Invariant, phase = "checking", PlanIs, <1>4, <2>1 DEF Invariant, Reported
    <2> QED
        BY Invariant, phase = "checking", <1>1, <1>2, <1>3, <2>2 DEF Invariant, Reported, Checked
<1>8. TypeOK'
    <2>1. ToSet(todo') \subseteq ToSet(Plan)
        BY <1>1 DEF ToSet
    <2> HIDE DEF Plan
    <2>2. ToSet(todo)' \subseteq ToSet(Checks(draft))
        BY <2>1 DEF ToSet, Plan
    <2>3. /\ ToSet(alerts)' = ToSet(alerts) /\ ToSet(pushed)' = ToSet(pushed)
          /\ ToSet(Checks(draft))' = ToSet(Checks(draft)) /\ phase' # "pushing"
        BY phase = "checking", <1>2 DEF ToSet
    <2>4. TypeOK
        BY Invariant DEF Invariant
    <2> HIDE DEF k
    <2> QED
        BY <1>2, <2>2, <2>3, <2>4 DEF TypeOK
<1> QED
    BY <1>5, <1>6, <1>7, <1>8 DEF Invariant

\* A reading beyond its limit.
LEMMA ReportsKeeps ==
    ASSUME Invariant, phase = "checking", todo # <<>>, todo' = Tail(todo),
           UNCHANGED <<wiring, phase, trigger, pushed, loop, cancelled>>,
           NEW check, check = Head(todo), check.kind # "booking",
           NEW severity \in Severity, NEW action,
           Reports(check, severity, SlotsOf(check), action),
           action = IF check.kind = "weather" THEN "full_replan" ELSE "partial_replan"
    PROVE  Invariant'
<1> DEFINE k == Len(Plan) - Len(todo) + 1
           n == Len(draft)
           r == Routes
           alert == [check |-> check, severity |-> severity, slots |-> SlotsOf(check), action |-> action]
<1>1. /\ k \in 1 .. Len(Plan) /\ todo' \in Seq(ToSet(Plan)) /\ Len(todo') = Len(todo) - 1
      /\ Len(Plan) - Len(todo') = k /\ check = Plan[k]
      /\ \A i \in 1 .. Len(todo') : todo'[i] = Plan[Len(Plan) - Len(todo') + i]
    BY Invariant, phase = "checking", todo # <<>>, todo' = Tail(todo), check = Head(todo), NextCheck
<1>2. /\ draft' = draft /\ port' = port /\ sink' = sink /\ phase' = phase /\ trigger' = trigger
      /\ pushed' = pushed /\ loop' = loop /\ cancelled' = cancelled
      /\ alerts' = Append(alerts, alert) /\ crossed' = crossed \cup {check}
    BY Reports(check, severity, SlotsOf(check), action),
       UNCHANGED <<wiring, phase, trigger, pushed, loop, cancelled>> DEF Reports, wiring
<1>3. Plan' = Plan /\ \A c : Position(c)' = Position(c)
    BY <1>2, Unmoved
<1>4. /\ Len(Plan) \in Nat /\ Len(todo) \in Nat /\ Len(todo) <= Len(Plan)
      /\ DOMAIN Plan = 1 .. Len(Plan)
    BY Invariant, phase = "checking", PlanIs DEF Invariant, Ahead
<1>5. Planned' /\ Timely' /\ AtRest' /\ PushedInOrder'
    BY Invariant, phase = "checking", <1>2 DEF Invariant, Planned, Timely, AtRest, PushedInOrder
<1>6. Ahead'
    <2>1. Len(todo') <= Len(Plan)
        BY <1>1, <1>4
    <2> QED
        BY <1>1, <1>3, <2>1 DEF Ahead, ToSet
<1>7. Len(Plan) - Len(todo) < k /\ k \in Int
    BY <1>4
<1>8. /\ n \in Nat /\ r \in Nat /\ (r = n - 1 \/ r = 0) /\ n <= MaxSlots /\ DOMAIN draft = 1 .. n
      /\ \/ k <= r /\ check = CheckOf("route", k + 1)
         \/ k > r /\ k <= r + n /\ check = CheckOf("queue", k - r)
         \/ check = CheckOf("weather", 0)
    <2>1. Planned
        BY Invariant DEF Invariant
    <2>2. n \in Nat /\ r \in Nat /\ (r = n - 1 \/ r = 0) /\ n <= MaxSlots /\ DOMAIN draft = 1 .. n
        BY <2>1, BoundAssumption DEF Planned, Routes
    <2>3. PlannedAt(k, Plan[k], n, r)
        <3> HIDE DEF k
        <3> QED
            BY <1>1, <2>1, PlanIs
    <2> QED
        BY <1>1, <2>2, <2>3, check.kind # "booking" DEF PlannedAt
<1>9. Position(check) = k
    BY Invariant, <1>1, check.kind # "booking", PositionIs DEF Invariant
<1> HIDE DEF k, n, r, alert
<1>10. /\ check \in [kind : {"route", "queue", "weather", "booking"}, slot : 0 .. MaxSlots]
       /\ SlotsOf(check) \subseteq DOMAIN draft /\ SlotsOf(check) \subseteq 1 .. MaxSlots
       /\ check.kind = "weather" <=> check = CheckOf("weather", 0)
    <2>1. CASE k <= r /\ check = CheckOf("route", k + 1)
        <3>1. k \in 1 .. MaxSlots /\ k + 1 \in 1 .. MaxSlots /\ k \in 1 .. n /\ k + 1 \in 1 .. n /\ k + 1 - 1 = k
            BY <1>1, <1>7, <1>8, <2>1, BoundAssumption
        <3>2. check.kind = "route" /\ check.slot = k + 1
            BY <2>1 DEF CheckOf
        <3>3. SlotsOf(check) = {k, k + 1}
            BY <3>1, <3>2 DEF SlotsOf
        <3>4. check \in [kind : {"route", "queue", "weather", "booking"}, slot : 0 .. MaxSlots]
            BY <2>1, <3>1 DEF CheckOf
        <3> QED
            BY <1>8, <3>1, <3>2, <3>3, <3>4 DEF CheckOf
    <2>2. CASE k > r /\ k <= r + n /\ check = CheckOf("queue", k - r)
        <3>1. k - r \in 1 .. MaxSlots /\ k - r \in 1 .. n
            BY <1>1, <1>7, <1>8, <2>2, BoundAssumption
        <3>2. check.kind = "queue" /\ check.slot = k - r
            BY <2>2 DEF CheckOf
        <3>3. SlotsOf(check) = {k - r}
            BY <3>2 DEF SlotsOf
        <3>4. check \in [kind : {"route", "queue", "weather", "booking"}, slot : 0 .. MaxSlots]
            BY <2>2, <3>1 DEF CheckOf
        <3> QED
            BY <1>8, <3>1, <3>2, <3>3, <3>4 DEF CheckOf
    <2>3. CASE check = CheckOf("weather", 0)
        BY <2>3, BoundAssumption DEF CheckOf, SlotsOf
    <2> QED
        BY <1>8, <2>1, <2>2, <2>3
<1>11. alert \in Alert
    <2>1. action \in {"partial_replan", "full_replan"}
        BY action = IF check.kind = "weather" THEN "full_replan" ELSE "partial_replan"
    <2> QED
        BY <1>10, <2>1 DEF Alert, alert
<1>12. /\ alert.check = check /\ alert.slots = SlotsOf(check)
       /\ alert.action = "full_replan" <=> check = CheckOf("weather", 0)
    BY <1>10, action = IF check.kind = "weather" THEN "full_replan" ELSE "partial_replan" DEF alert
<1>13. /\ alerts \in Seq(Alert) /\ Len(alerts) \in Nat /\ DOMAIN alerts = 1 .. Len(alerts)
       /\ alerts' \in Seq(Alert) /\ DOMAIN alerts' = 1 .. (Len(alerts) + 1)
       /\ \A i \in 1 .. Len(alerts) : alerts'[i] = alerts[i]
       /\ alerts'[Len(alerts) + 1] = alert
    BY Invariant, <1>2, <1>11 DEF Invariant, Reported
<1>14. Reported'
    <2>1. \A i \in DOMAIN alerts : Position(Checked(i)) \in Nat /\ Position(Checked(i)) < k
        BY Invariant, phase = "checking", <1>4, <1>7 DEF Invariant, Reported
    <2>2. {alerts'[i].check : i \in DOMAIN alerts'} = crossed'
        <3>1. {alerts[i].check : i \in 1 .. Len(alerts)} = crossed
            BY Invariant, <1>13 DEF Invariant, Reported, Checked
        <3>2. {alerts'[i].check : i \in DOMAIN alerts'}
                 = {alerts'[i].check : i \in 1 .. Len(alerts)} \cup {alerts'[Len(alerts) + 1].check}
            <4>1. DOMAIN alerts' = (1 .. Len(alerts)) \cup {Len(alerts) + 1}
                BY <1>13
            <4> QED
                BY <4>1
        <3>3. {alerts'[i].check : i \in 1 .. Len(alerts)} = {alerts[i].check : i \in 1 .. Len(alerts)}
            BY <1>13
        <3> QED
            BY <1>2, <1>12, <1>13, <3>1, <3>2, <3>3
    <2>3. ASSUME NEW i \in DOMAIN alerts'
          PROVE  /\ alerts'[i].slots = SlotsOf(alerts'[i].check) /\ alerts'[i].slots \subseteq DOMAIN draft
                 /\ alerts'[i].action = "full_replan" <=> alerts'[i].check = CheckOf("weather", 0)
                 /\ alerts'[i].check.kind # "booking"
                 /\ Position(alerts'[i].check) \in DOMAIN Plan
                 /\ Position(alerts'[i].check) <= k
        <3>1. CASE i = Len(alerts) + 1
            BY <1>1, <1>4, <1>7, <1>9, <1>10, <1>12, <1>13, <3>1, check.kind # "booking"
        <3>2. CASE i \in 1 .. Len(alerts)
            BY Invariant, <1>7, <1>13, <2>1, <3>2 DEF Invariant, Reported, Checked
        <3> QED
            BY <1>13, <3>1, <3>2
    <2>4. ASSUME NEW i \in DOMAIN alerts', NEW j \in DOMAIN alerts', i < j
          PROVE  Position(alerts'[i].check) < Position(alerts'[j].check)
        <3>1. i \in 1 .. Len(alerts) /\ (j \in 1 .. Len(alerts) \/ j = Len(alerts) + 1)
            BY <1>13, <2>4
        <3>2. CASE j = Len(alerts) + 1
            BY <1>9, <1>12, <1>13, <2>1, <3>1, <3>2 DEF Checked
        <3>3. CASE j \in 1 .. Len(alerts)
            BY Invariant, <1>13, <2>4, <3>1, <3>3 DEF Invariant, Reported, Checked
        <3> QED
            BY <3>1, <3>2, <3>3
    <2> QED
        BY <1>1, <1>2, <1>3, <1>13, <2>2, <2>3, <2>4 DEF Reported, Checked, SlotsOf
<1>15. TypeOK'
    <2>1. ToSet(todo)' \subseteq ToSet(Checks(draft))
        <3>1. ToSet(todo') \subseteq ToSet(Plan)
            BY <1>1 DEF ToSet
        <3> QED
            BY <3>1 DEF ToSet, Plan
    <2>2. check \in ToSet(Checks(draft))
        BY <1>1, <1>4 DEF ToSet, Plan
    <2>3. ToSet(alerts)' = ToSet(alerts) \cup {alert}
        BY <1>13 DEF ToSet
    <2>4. alert \in Alert /\ alert.slots \subseteq DOMAIN draft
        BY <1>10, <1>11, <1>12
    <2>5. \A a \in ToSet(alerts)' \cup ToSet(pushed) : a \in Alert /\ a.slots \subseteq DOMAIN draft
        BY Invariant, <2>3, <2>4 DEF Invariant, TypeOK
    <2>6. ToSet(pushed)' = ToSet(pushed)
        BY <1>2 DEF ToSet
    <2> HIDE DEF alert
    <2> QED
        <3>1. ToSet(Checks(draft))' = ToSet(Checks(draft))
            BY <1>2 DEF ToSet
        <3>2. TypeOK
            BY Invariant DEF Invariant
        <3>3. crossed' \subseteq ToSet(Checks(draft))
            BY <1>2, <2>2, <3>2 DEF TypeOK
        <3> QED
            BY phase = "checking", <1>2, <2>1, <2>5, <2>6, <3>1, <3>2, <3>3 DEF TypeOK
<1> QED
    BY <1>5, <1>6, <1>14, <1>15 DEF Invariant

LEMMA CheckKeeps ==
    ASSUME Invariant, Check
    PROVE  Invariant'
<1>1. /\ phase = "checking" /\ todo # <<>>
      /\ UNCHANGED <<wiring, phase, trigger, pushed, loop, cancelled>>
    BY Check DEF Check
<1> DEFINE check == Head(todo)
<1>2. todo' = Tail(todo)
    BY Check DEF Check, Fails
<1>3. \/ Quiet
      \/ check.kind = "route" /\ \E tenths \in Tenths : RouteRead(check.slot, tenths)
      \/ check.kind = "queue" /\ \E length \in QueueLength : QueueRead(check.slot, length)
      \/ check.kind = "weather" /\ \E condition \in Weather : WeatherRead(condition)
    BY Check DEF Check, Fails, BookingRead
<1>4. \/ check.kind = "route" /\ check = CheckOf("route", check.slot)
      \/ check.kind = "queue" /\ check = CheckOf("queue", check.slot)
      \/ check.kind = "weather" /\ check = CheckOf("weather", 0)
      \/ check.kind = "booking"
    <2> DEFINE k == Len(Plan) - Len(todo) + 1
    <2>1. k \in 1 .. Len(Plan) /\ check = Plan[k]
        BY Invariant, <1>1, NextCheck
    <2> HIDE DEF check, k
    <2>2. Planned
        BY Invariant DEF Invariant
    <2>3. \/ \E i : check = CheckOf("route", i)
          \/ \E i : check = CheckOf("queue", i)
          \/ check = CheckOf("weather", 0)
          \/ check.kind = "booking"
        BY <2>1, <2>2, PlanIs DEF PlannedAt
    <2> QED
        BY <2>3 DEF CheckOf
<1> HIDE DEF check
<1>5. CASE Quiet
    BY Invariant, <1>1, <1>2, <1>5, QuietKeeps
<1>6. ASSUME check.kind = "route", NEW tenths \in Tenths, RouteRead(check.slot, tenths), ~Quiet
      PROVE  Invariant'
    <2>1. Reports(check, "warning", SlotsOf(check), "partial_replan")
        BY <1>4, <1>6 DEF RouteRead, SlotsOf
    <2> QED
        BY Invariant, <1>1, <1>2, <1>6, <2>1, ReportsKeeps DEF check, Severity
<1>7. ASSUME check.kind = "queue", NEW length \in QueueLength, QueueRead(check.slot, length), ~Quiet
      PROVE  Invariant'
    <2>1. PICK severity \in Severity : Reports(check, severity, SlotsOf(check), "partial_replan")
        BY <1>4, <1>7 DEF QueueRead, SlotsOf, Severity
    <2> QED
        BY Invariant, <1>1, <1>2, <1>7, <2>1, ReportsKeeps DEF check
<1>8. ASSUME check.kind = "weather", NEW condition \in Weather, WeatherRead(condition), ~Quiet
      PROVE  Invariant'
    <2>1. PICK severity \in Severity : Reports(check, severity, SlotsOf(check), "full_replan")
        BY <1>4, <1>8 DEF WeatherRead, SlotsOf, Severity
    <2> QED
        BY Invariant, <1>1, <1>2, <1>8, <2>1, ReportsKeeps DEF check
<1> QED
    BY <1>3, <1>5, <1>6, <1>7, <1>8

LEMMA NodeStartsKeeps ==
    ASSUME Invariant, NodeStarts
    PROVE  Invariant'
<1>1. /\ phase = "idle" /\ phase' = "checking" /\ todo' = (IF port THEN Plan ELSE <<>>)
      /\ alerts' = <<>> /\ trigger' = NoTrigger /\ crossed' = {}
      /\ draft' = draft /\ port' = port /\ sink' = sink
      /\ pushed' = pushed /\ loop' = loop /\ cancelled' = cancelled
    BY NodeStarts DEF NodeStarts, Begin, wiring, Plan
<1>2. Planned /\ TypeOK /\ PushedInOrder /\ Timely
    BY Invariant DEF Invariant
<1>3. Plan' = Plan
    BY <1>1, Unmoved
<1>4. /\ Plan \in Seq(ToSet(Plan)) /\ Len(Plan) \in Nat /\ DOMAIN Plan = 1 .. Len(Plan)
    BY <1>2, PlanIs
<1>5. Planned' /\ PushedInOrder' /\ Timely' /\ AtRest'
    BY <1>1, <1>2 DEF Planned, PushedInOrder, Timely, AtRest
<1>6. /\ todo' \in Seq(ToSet(Plan)) /\ Len(todo') \in Nat /\ Len(todo') <= Len(Plan)
      /\ \A i \in 1 .. Len(todo') : todo'[i] = Plan[Len(Plan) - Len(todo') + i]
    <2> HIDE DEF Plan
    <2>1. CASE port
        BY <1>1, <1>4, <2>1
    <2>2. CASE ~port
        BY <1>1, <1>4, <2>2
    <2> QED
        BY <2>1, <2>2
<1>7. Ahead'
    BY <1>3, <1>6 DEF Ahead, ToSet
<1>8. Reported'
    BY <1>1 DEF Reported
<1>9. TypeOK'
    <2>1. ToSet(todo)' \subseteq ToSet(Checks(draft))
        BY <1>6 DEF ToSet, Plan
    <2>2. ToSet(alerts)' = {} /\ ToSet(pushed)' = ToSet(pushed)
        BY <1>1 DEF ToSet
    <2>3. trigger' \in [scope : {"none", "partial", "full"}, slots : SUBSET DOMAIN draft, auto : BOOLEAN]
        BY <1>1 DEF NoTrigger
    <2> QED
        BY <1>1, <1>2, <2>1, <2>2, <2>3 DEF TypeOK
<1> QED
    BY <1>5, <1>7, <1>8, <1>9 DEF Invariant

\* What _build_replan_trigger makes of the alerts.
LEMMA TriggerTyped ==
    ASSUME TypeOK, Reported
    PROVE  TriggerOf(alerts) \in [scope : {"none", "partial", "full"}, slots : SUBSET DOMAIN draft, auto : BOOLEAN]
<1>1. \A a \in ToSet(alerts) : a.slots \subseteq DOMAIN draft /\ a.check.kind # "booking"
    BY Reported DEF Reported, Checked, ToSet
<1>2. UNION {a.slots : a \in ToSet(alerts)} \in SUBSET DOMAIN draft
    BY <1>1
<1> QED
    BY <1>1, <1>2 DEF TriggerOf, NoTrigger

LEMMA ConcludeKeeps ==
    ASSUME Invariant, Conclude
    PROVE  Invariant'
<1>1. /\ phase = "checking" /\ todo = <<>>
      /\ draft' = draft /\ port' = port /\ sink' = sink
      /\ alerts' = alerts /\ crossed' = crossed /\ pushed' = pushed /\ loop' = loop /\ cancelled' = cancelled
      /\ \/ /\ sink /\ alerts # <<>> /\ phase' = "pushing" /\ todo' = alerts /\ trigger' = trigger
         \/ /\ ~sink \/ alerts = <<>>
            /\ phase' = "returned" /\ todo' = <<>> /\ trigger' = TriggerOf(alerts)
    BY Conclude DEF Conclude, wiring
<1>2. Planned /\ TypeOK /\ PushedInOrder /\ Timely /\ Reported
    BY Invariant DEF Invariant
<1>3. Plan' = Plan /\ \A check : Position(check)' = Position(check)
    BY <1>1, Unmoved
<1>4. Planned' /\ Timely' /\ AtRest' /\ Ahead'
    BY <1>1, <1>2 DEF Planned, Timely, AtRest, Ahead
<1>5. Reported'
    BY <1>1, <1>2, <1>3 DEF Reported, Checked
<1>6. PushedInOrder'
    <2>1. alerts \in Seq(Alert) /\ <<>> \in Seq(Alert) /\ alerts = <<>> \o alerts
        BY <1>2 DEF Reported
    <2> QED
        BY <1>1, <1>2, <2>1 DEF PushedInOrder
<1>7. TypeOK'
    <2>1. ToSet(<<>>) = {}
        BY DEF ToSet
    <2> QED
        BY <1>1, <1>2, <2>1, TriggerTyped DEF TypeOK
<1> QED
    BY <1>4, <1>5, <1>6, <1>7 DEF Invariant

LEMMA PushKeeps ==
    ASSUME Invariant, Push
    PROVE  Invariant'
<1>1. /\ phase = "pushing"
      /\ draft' = draft /\ port' = port /\ sink' = sink
      /\ alerts' = alerts /\ crossed' = crossed /\ loop' = loop /\ cancelled' = cancelled
      /\ \/ /\ todo = <<>> /\ phase' = "returned" /\ trigger' = TriggerOf(alerts)
            /\ todo' = todo /\ pushed' = pushed
         \/ /\ todo # <<>> /\ phase' = "pushing" /\ trigger' = trigger
            /\ pushed' = Append(pushed, Head(todo)) /\ todo' = Tail(todo)
         \/ /\ todo # <<>> /\ phase' = "raised" /\ todo' = <<>>
            /\ pushed' = pushed /\ trigger' = trigger
    BY Push DEF Push, wiring
<1>2. Planned /\ TypeOK /\ PushedInOrder /\ Timely /\ Reported
    BY Invariant DEF Invariant
<1>3. Plan' = Plan /\ \A check : Position(check)' = Position(check)
    BY <1>1, Unmoved
<1>4. /\ sink /\ pushed \in Seq(Alert) /\ todo \in Seq(Alert) /\ alerts = pushed \o todo
    BY <1>1, <1>2 DEF PushedInOrder
<1>5. Planned' /\ Timely' /\ AtRest' /\ Ahead'
    BY <1>1, <1>2 DEF Planned, Timely, AtRest, Ahead
<1>6. Reported'
    BY <1>1, <1>2, <1>3 DEF Reported, Checked
<1>7. todo # <<>> =>
        /\ Append(pushed, Head(todo)) \in Seq(Alert) /\ Tail(todo) \in Seq(Alert)
        /\ alerts = Append(pushed, Head(todo)) \o Tail(todo)
        /\ ToSet(Append(pushed, Head(todo))) \subseteq ToSet(pushed) \cup ToSet(todo)
        /\ ToSet(Tail(todo)) \subseteq ToSet(todo)
    <2> SUFFICES ASSUME todo # <<>>
                 PROVE  /\ Append(pushed, Head(todo)) \in Seq(Alert) /\ Tail(todo) \in Seq(Alert)
                        /\ alerts = Append(pushed, Head(todo)) \o Tail(todo)
                        /\ ToSet(Append(pushed, Head(todo))) \subseteq ToSet(pushed) \cup ToSet(todo)
                        /\ ToSet(Tail(todo)) \subseteq ToSet(todo)
        OBVIOUS
    <2>1. Append(pushed, Head(todo)) \in Seq(Alert) /\ Tail(todo) \in Seq(Alert)
        BY <1>4
    <2>2. Append(pushed, Head(todo)) \o Tail(todo) = pushed \o todo
        BY <1>4
    <2>3. ToSet(Append(pushed, Head(todo))) \subseteq ToSet(pushed) \cup ToSet(todo)
        BY <1>4 DEF ToSet
    <2>4. ToSet(Tail(todo)) \subseteq ToSet(todo)
        BY <1>4 DEF ToSet
    <2> QED
        BY <1>4, <2>1, <2>2, <2>3, <2>4
<1>8. PushedInOrder'
    <2>1. todo = <<>> => alerts = pushed
        BY <1>4
    <2> QED
        BY <1>1, <1>4, <1>7, <2>1 DEF PushedInOrder
<1>9. TypeOK'
    <2>1. ToSet(todo) \subseteq ToSet(alerts)
        BY <1>1, <1>2 DEF TypeOK
    <2>2. todo' = <<>> => ToSet(todo)' = {}
        BY DEF ToSet
    <2>3. \/ /\ phase' # "pushing" /\ todo' = <<>>
          \/ /\ phase' = "pushing" /\ ToSet(todo') \subseteq ToSet(alerts)
        BY <1>1, <1>7, <2>1
    <2>4. ToSet(pushed') \subseteq ToSet(pushed) \cup ToSet(alerts)
        BY <1>1, <1>7, <2>1
    <2>5. ToSet(todo)' = ToSet(todo') /\ ToSet(alerts)' = ToSet(alerts) /\ ToSet(pushed)' = ToSet(pushed')
        BY <1>1 DEF ToSet
    <2>6. trigger' \in [scope : {"none", "partial", "full"}, slots : SUBSET DOMAIN draft, auto : BOOLEAN]
        BY <1>1, <1>2, TriggerTyped DEF TypeOK
    <2> QED
        BY <1>1, <1>2, <2>2, <2>3, <2>4, <2>5, <2>6 DEF TypeOK
<1> QED
    BY <1>5, <1>6, <1>8, <1>9 DEF Invariant

LEMMA LoopStartsKeeps ==
    ASSUME Invariant, LoopStarts
    PROVE  Invariant'
<1>1. /\ phase' = "idle" /\ todo' = <<>> /\ alerts' = <<>> /\ pushed' = <<>>
      /\ trigger' = NoTrigger /\ crossed' = {} /\ loop' = [loop EXCEPT !.phase = "round"]
      /\ draft' = draft /\ port' = port /\ sink' = sink /\ cancelled' = cancelled
    BY LoopStarts DEF LoopStarts, wiring
<1>2. Planned /\ TypeOK
    BY Invariant DEF Invariant
<1>3. /\ ToSet(todo)' = {} /\ ToSet(alerts)' = {} /\ ToSet(pushed)' = {}
    BY <1>1 DEF ToSet
<1>4. trigger' \in [scope : {"none", "partial", "full"}, slots : SUBSET DOMAIN draft, auto : BOOLEAN]
    BY <1>1 DEF NoTrigger
<1>5. /\ loop' \in [phase : {"off", "round", "sleeping", "over"},
                    interval : FirstInterval .. MaxInterval,
                    elapsed : 0 .. (MaxDuration + MaxInterval + MaxLate)]
      /\ loop'.phase # "sleeping"
    BY <1>1, <1>2 DEF TypeOK
<1>6. TypeOK'
    BY <1>1, <1>2, <1>3, <1>4, <1>5 DEF TypeOK
<1>7. Planned' /\ Ahead' /\ Reported' /\ PushedInOrder' /\ Timely' /\ AtRest'
    BY <1>1, <1>2, <1>5 DEF Planned, Ahead, Reported, PushedInOrder, Timely, AtRest
<1> QED
    BY <1>6, <1>7 DEF Invariant

\* The loop and the caller touch only the loop's variables.
LEMMA LoopKeeps ==
    ASSUME Invariant, Round \/ Sleep \/ Cancel
    PROVE  Invariant'
<1>1. UNCHANGED <<draft, port, sink, phase, todo, alerts, trigger, crossed, pushed>>
    BY Round \/ Sleep \/ Cancel DEF Round, Sleep, Cancel, wiring, checking
<1>2. Planned /\ TypeOK /\ Ahead /\ Reported /\ PushedInOrder /\ Timely /\ AtRest
    BY Invariant DEF Invariant
<1>3. Plan' = Plan /\ \A check : Position(check)' = Position(check)
    BY <1>1, Unmoved
<1>4. Planned' /\ Ahead' /\ PushedInOrder' /\ AtRest'
    BY <1>1, <1>2, <1>3 DEF Planned, Ahead, PushedInOrder, AtRest, ToSet
<1>5. Reported'
    BY <1>1, <1>2, <1>3 DEF Reported, Checked
<1> DEFINE Loops == [phase : {"off", "round", "sleeping", "over"},
                     interval : FirstInterval .. MaxInterval,
                     elapsed : 0 .. (MaxDuration + MaxInterval + MaxLate)]
<1>6. loop \in Loops
    BY <1>2 DEF TypeOK
<1>7. loop' \in Loops /\ Timely' /\ cancelled' \in BOOLEAN
    <2>1. CASE Round
        <3>1. \/ cancelled \/ loop.elapsed > MaxDuration
              \/ loop.elapsed <= MaxDuration
            BY <1>6, BoundAssumption DEF MaxDuration, MaxInterval
        <3>2. \/ loop' = [loop EXCEPT !.phase = "over"]
              \/ loop' = [loop EXCEPT !.phase = "sleeping"] /\ loop.elapsed <= MaxDuration
            BY <2>1, <3>1 DEF Round, LoopChecks
        <3> QED
            BY <1>2, <1>6, <2>1, <3>2 DEF Round, Timely, TypeOK
    <2>2. CASE Sleep
        <3>1. PICK late \in 0 .. MaxLate :
                 loop' = [phase |-> "round",
                          interval |-> IF 2 * loop.interval < MaxInterval THEN 2 * loop.interval ELSE MaxInterval,
                          elapsed |-> loop.elapsed + loop.interval + late]
            BY <2>2 DEF Sleep
        <3>2. /\ loop.elapsed \in Nat /\ loop.elapsed <= MaxDuration
              /\ loop.interval \in FirstInterval .. MaxInterval
            BY <1>2, <1>6, <2>2, BoundAssumption DEF Timely, Sleep, MaxDuration, MaxInterval
        <3>3. /\ (IF 2 * loop.interval < MaxInterval THEN 2 * loop.interval ELSE MaxInterval)
                    \in FirstInterval .. MaxInterval
              /\ loop.elapsed + loop.interval + late \in 0 .. (MaxDuration + MaxInterval + MaxLate)
            BY <3>2, BoundAssumption DEF FirstInterval, MaxInterval, MaxDuration
        <3>4. cancelled' = cancelled
            BY <2>2 DEF Sleep
        <3> QED
            BY <1>2, <3>1, <3>3, <3>4 DEF Timely, TypeOK
    <2>3. CASE Cancel
        BY <1>2, <1>6, <2>3 DEF Cancel, Timely
    <2> QED
        BY <2>1, <2>2, <2>3, Round \/ Sleep \/ Cancel
<1>8. TypeOK'
    <2>1. ToSet(todo)' = ToSet(todo) /\ ToSet(alerts)' = ToSet(alerts) /\ ToSet(pushed)' = ToSet(pushed)
        BY <1>1 DEF ToSet
    <2>2. ToSet(Checks(draft))' = ToSet(Checks(draft))
        BY <1>1 DEF ToSet
    <2> QED
        BY <1>1, <1>2, <1>7, <2>1, <2>2 DEF TypeOK
<1> QED
    BY <1>4, <1>5, <1>7, <1>8 DEF Invariant

LEMMA InvariantNext == Invariant /\ [Next]_vars => Invariant'
<1> SUFFICES ASSUME Invariant, [Next]_vars PROVE Invariant'
    OBVIOUS
<1>1. CASE NodeStarts
    BY <1>1, NodeStartsKeeps
<1>2. CASE Check
    BY <1>2, CheckKeeps
<1>3. CASE Conclude
    BY <1>3, ConcludeKeeps
<1>4. CASE Push
    BY <1>4, PushKeeps
<1>5. CASE LoopStarts
    BY <1>5, LoopStartsKeeps
<1>6. CASE Round \/ Sleep \/ Cancel
    BY <1>6, LoopKeeps
<1>7. CASE UNCHANGED vars
    <2> USE <1>7 DEF vars
    <2>1. Plan' = Plan /\ \A check : Position(check)' = Position(check)
        BY Unmoved
    <2>2. TypeOK'
        <3>1. ToSet(todo)' = ToSet(todo) /\ ToSet(alerts)' = ToSet(alerts) /\ ToSet(pushed)' = ToSet(pushed)
            BY DEF ToSet
        <3>2. ToSet(Checks(draft))' = ToSet(Checks(draft))
            BY DEF ToSet
        <3> QED
            BY <3>1, <3>2 DEF Invariant, TypeOK
    <2>3. Planned' /\ Ahead' /\ PushedInOrder' /\ AtRest' /\ Timely'
        BY <2>1 DEF Invariant, Planned, Ahead, PushedInOrder, AtRest, Timely, ToSet
    <2>4. Reported'
        BY <2>1 DEF Invariant, Reported, Checked
    <2> QED
        BY <2>2, <2>3, <2>4 DEF Invariant
<1> QED
    BY <1>1, <1>2, <1>3, <1>4, <1>5, <1>6, <1>7 DEF Next, Execute, Loop

-----------------------------------------------------------------------------
(* The theorems *)

\* The inductive invariant holds in every reachable state.
THEOREM InvariantHolds == Spec => []Invariant
<1>1. Init => Invariant
    BY InvariantInit
<1>2. Invariant /\ [Next]_vars => Invariant'
    BY InvariantNext
<1> QED
    BY <1>1, <1>2, PTL DEF Spec

\* MonitorEngine and run_monitor_loop: whatever is read, and whatever raises, alerts
\* are about slots of the draft, and the loop outlasts its two hours by no more than
\* one interval and what a sleep may be late.
THEOREM TypeCorrect == Spec => []TypeOK
<1>1. Invariant => TypeOK
    BY DEF Invariant
<1> QED
    BY <1>1, InvariantHolds, PTL

\* _check_all with its try around each check, and the pushing: when execute() returns,
\* every reading beyond its limit has its alert, in the order of the plan, the sink has
\* got them all, and the trigger covers them.
THEOREM FailedCheckHidesNoneHolds == Spec => []FailedCheckHidesNone
<1>1. ASSUME Invariant PROVE FailedCheckHidesNone
    <2> SUFFICES ASSUME phase = "returned" PROVE
            /\ {alerts[i].check : i \in DOMAIN alerts} = crossed
            /\ \A i, j \in DOMAIN alerts :
                 i < j => Position(alerts[i].check) < Position(alerts[j].check)
            /\ pushed = IF sink THEN alerts ELSE <<>>
            /\ trigger.slots = UNION {SlotsOf(c) : c \in crossed}
            /\ trigger.scope = IF crossed = {} THEN "none"
                               ELSE IF CheckOf("weather", 0) \in crossed THEN "full" ELSE "partial"
        BY DEF FailedCheckHidesNone
    <2>1. Reported /\ PushedInOrder
        BY <1>1 DEF Invariant
    <2>2. /\ {alerts[i].check : i \in DOMAIN alerts} = crossed
          /\ \A i, j \in DOMAIN alerts :
               i < j => Position(alerts[i].check) < Position(alerts[j].check)
          /\ \A i \in DOMAIN alerts :
               /\ alerts[i].slots = SlotsOf(alerts[i].check)
               /\ alerts[i].action = "full_replan" <=> alerts[i].check = CheckOf("weather", 0)
        BY <2>1 DEF Reported, Checked
    <2>3. pushed = (IF sink THEN alerts ELSE <<>>) /\ trigger = TriggerOf(alerts)
        BY <2>1 DEF PushedInOrder
    <2>4. /\ crossed = {a.check : a \in ToSet(alerts)}
          /\ \A a \in ToSet(alerts) :
               a.slots = SlotsOf(a.check) /\ (a.action = "full_replan" <=> a.check = CheckOf("weather", 0))
        BY <2>2 DEF ToSet
    <2> DEFINE all == ToSet(alerts)
    <2> HIDE DEF all
    <2>5. UNION {a.slots : a \in all} = UNION {SlotsOf(c) : c \in crossed}
        BY <2>4 DEF all
    <2>6. (\E a \in all : a.action = "full_replan") <=> CheckOf("weather", 0) \in crossed
        BY <2>4 DEF all
    <2>7. all = {} <=> crossed = {}
        BY <2>4 DEF all
    <2>8. CASE crossed = {}
        BY <2>2, <2>3, <2>5, <2>7, <2>8 DEF TriggerOf, NoTrigger, all
    <2>9. CASE crossed # {}
        BY <2>2, <2>3, <2>5, <2>6, <2>7, <2>9 DEF TriggerOf, all
    <2> QED
        BY <2>8, <2>9
<1> QED
    BY <1>1, InvariantHolds, PTL
=============================================================================
