--------------------------- MODULE Itinerary_proofs ---------------------------
(***************************************************************************)
(* Proofs about Preparation and Itinerary, for every catalogue, window,    *)
(* travel time, ranking and number of revisions.                           *)
(***************************************************************************)
EXTENDS Itinerary, FiniteSetTheorems, SequenceTheorems, WellFoundedInduction, TLAPS

-----------------------------------------------------------------------------
(* Recursion and least numbers *)

\* A set of numbers that is not empty has a least element.
LEMMA LeastNumber ==
    ASSUME NEW S, S \subseteq Nat, S # {}
    PROVE  \E m \in S : \A k \in S : m <= k
<1> DEFINE R == {ss \in Nat \X Nat : ss[1] < ss[2]}
<1>1. IsWellFoundedOn(R, Nat)
    BY NatLessThanWellFounded DEF OpToRel
<1> HIDE DEF R
<1>2. PICK m \in S : \A k \in S : ~(<<k, m>> \in R)
    BY <1>1, WFMin
<1>3. ASSUME NEW k \in S PROVE m <= k
    <2>1. m \in Nat /\ k \in Nat /\ ~(<<k, m>> \in R)
        BY <1>2, S \subseteq Nat
    <2>2. k < m => <<k, m>> \in R
        BY <2>1 DEF R
    <2> QED
        BY <2>1, <2>2
<1> QED
    BY <1>3

\* Induction up to n: P is the set of the numbers of which it is known.
LEMMA UpTo ==
    ASSUME NEW n \in Nat, NEW P, 0 \in P, \A i \in 1 .. n : i - 1 \in P => i \in P
    PROVE  \A i \in 0 .. n : i \in P
<1> DEFINE Missing == {i \in 0 .. n : i \notin P}
<1>1. ASSUME Missing # {} PROVE FALSE
    <2>1. Missing \subseteq Nat
        OBVIOUS
    <2>2. PICK m \in Missing : \A k \in Missing : m <= k
        <3> HIDE DEF Missing
        <3> QED
            BY <1>1, <2>1, LeastNumber
    <2>3. m \in 1 .. n /\ m - 1 \in 0 .. n
        BY 0 \in P
    <2> QED
        BY <2>2, <2>3, \A i \in 1 .. n : i - 1 \in P => i \in P
<1> QED
    BY <1>1

\* The functions on 0 .. n that begin with first and go on by Step.
Steps(n, V) == [(1 .. n) \X V -> V]
Solutions(n, V, first, Step) ==
    {f \in [0 .. n -> V] :
        /\ f[0] = first
        /\ \A i \in 1 .. n : f[i] = Step[<<i, f[i - 1]>>]}

\* A function defined by recursion on 0 .. n exists.
LEMMA Recursion ==
    ASSUME NEW V, NEW n \in Nat, NEW first \in V, NEW Step \in Steps(n, V)
    PROVE  Solutions(n, V, first, Step) # {}
<1> USE DEF Steps
<1> DEFINE Solves(f, m) ==
               /\ f[0] = first
               /\ \A i \in 1 .. m : f[i] = Step[<<i, f[i - 1]>>]
           Solvable(m) == \E f \in [0 .. m -> V] : Solves(f, m)
<1>1. Solvable(0)
    <2> DEFINE g == [i \in 0 .. 0 |-> first]
    <2>1. g \in [0 .. 0 -> V]
        OBVIOUS
    <2>2. Solves(g, 0)
        OBVIOUS
    <2> HIDE DEF g, Solves
    <2> QED
        BY <2>1, <2>2
<1>2. ASSUME NEW m \in 1 .. n, Solvable(m - 1) PROVE Solvable(m)
    <2>1. PICK f \in [0 .. m - 1 -> V] : Solves(f, m - 1)
        BY <1>2
    <2> DEFINE g == [i \in 0 .. m |-> IF i = m THEN Step[<<m, f[m - 1]>>] ELSE f[i]]
    <2>2. f[m - 1] \in V
        OBVIOUS
    <2>3. g \in [0 .. m -> V]
        BY <2>2
    <2>4. Solves(g, m)
        <3>1. g[0] = first
            BY <2>1
        <3>2. ASSUME NEW i \in 1 .. m PROVE g[i] = Step[<<i, g[i - 1]>>]
            <4>1. i - 1 \in 0 .. m /\ i - 1 # m /\ g[i - 1] = f[i - 1]
                OBVIOUS
            <4>2. CASE i = m
                BY <4>1, <4>2
            <4>3. CASE i # m
                <5>1. i \in 1 .. m - 1 /\ g[i] = f[i]
                    BY <4>3
                <5> QED
                    BY <2>1, <4>1, <5>1
            <4> QED
                BY <4>2, <4>3
        <3> QED
            BY <3>1, <3>2
    <2> HIDE DEF g, Solves
    <2> QED
        BY <2>3, <2>4
<1> HIDE DEF Solvable
<1>3. Solvable(n)
    <2> DEFINE P == {m \in 0 .. n : Solvable(m)}
    <2>1. 0 \in P
        BY <1>1
    <2>2. ASSUME NEW m \in 1 .. n, m - 1 \in P PROVE m \in P
        BY <1>2, <2>2
    <2> HIDE DEF P
    <2>3. \A m \in 0 .. n : m \in P
        BY <2>1, <2>2, UpTo
    <2> QED
        BY <2>3 DEF P
<1> QED
    BY <1>3 DEF Solvable, Solutions

\* What Only has kept of the first so many elements of s.
Keepings(T, s, S) ==
    {kept \in [0 .. Len(s) -> Seq(T)] :
        /\ kept[0] = <<>>
        /\ \A n \in 1 .. Len(s) :
             kept[n] = IF s[n] \in S THEN Append(kept[n - 1], s[n]) ELSE kept[n - 1]}

LEMMA OnlyStepwise ==
    ASSUME NEW T, NEW s \in Seq(T), NEW S
    PROVE  \E kept \in Keepings(T, s, S) : Only(s, S) = kept[Len(s)]
<1> DEFINE Step == [e \in (1 .. Len(s)) \X Seq(T) |->
                      IF s[e[1]] \in S THEN Append(e[2], s[e[1]]) ELSE e[2]]
           Defines(f) == f = [n \in 0 .. Len(s) |->
                                IF n = 0 THEN <<>>
                                ELSE IF s[n] \in S THEN Append(f[n - 1], s[n]) ELSE f[n - 1]]
           kept == CHOOSE f : Defines(f)
<1>0. /\ Len(s) \in Nat /\ <<>> \in Seq(T)
      /\ \A n \in 1 .. Len(s) : s[n] \in T
      /\ \A q \in Seq(T), x \in T : Append(q, x) \in Seq(T)
    OBVIOUS
<1>1. Step \in Steps(Len(s), Seq(T))
    BY DEF Steps
<1>2. PICK f \in [0 .. Len(s) -> Seq(T)] :
         /\ f[0] = <<>>
         /\ \A i \in 1 .. Len(s) : f[i] = Step[<<i, f[i - 1]>>]
    <2> HIDE DEF Step
    <2>1. Solutions(Len(s), Seq(T), <<>>, Step) # {}
        BY <1>0, <1>1, Recursion
    <2> QED
        BY <2>1 DEF Solutions
<1>3. Defines(f)
    <2>1. ASSUME NEW n \in 0 .. Len(s)
          PROVE  f[n] = IF n = 0 THEN <<>>
                        ELSE IF s[n] \in S THEN Append(f[n - 1], s[n]) ELSE f[n - 1]
        <3>1. CASE n = 0
            BY <1>2, <3>1
        <3>2. CASE n # 0
            <4>1. n \in 1 .. Len(s) /\ n - 1 \in 0 .. Len(s)
                BY <3>2
            <4>2. f[n] = Step[<<n, f[n - 1]>>] /\ f[n - 1] \in Seq(T)
                BY <1>2, <4>1
            <4> QED
                BY <3>2, <4>1, <4>2
        <3> QED
            BY <3>1, <3>2
    <2> QED
        BY <2>1
<1>4. Defines(kept)
    BY <1>3
<1>5. Only(s, S) = kept[Len(s)]
    BY DEF Only
<1> HIDE DEF kept
<1>6. \A n \in 0 .. Len(s) :
         kept[n] = IF n = 0 THEN <<>>
                   ELSE IF s[n] \in S THEN Append(kept[n - 1], s[n]) ELSE kept[n - 1]
    BY <1>4
<1>7. \A n \in 0 .. Len(s) : kept[n] \in Seq(T)
    <2> DEFINE P == {n \in 0 .. Len(s) : kept[n] \in Seq(T)}
    <2>1. 0 \in P
        <3>1. 0 \in 0 .. Len(s)
            BY <1>0
        <3>2. kept[0] = <<>>
            BY <1>6, <3>1
        <3> QED
            BY <1>0, <3>1, <3>2
    <2>2. ASSUME NEW n \in 1 .. Len(s), n - 1 \in P PROVE n \in P
        <3>1. s[n] \in T /\ kept[n - 1] \in Seq(T) /\ n \in 0 .. Len(s) /\ n # 0
            BY <1>0, <2>2
        <3>2. kept[n] \in Seq(T)
            BY <1>0, <1>6, <3>1
        <3> QED
            BY <3>1, <3>2
    <2> HIDE DEF P
    <2>3. \A n \in 0 .. Len(s) : n \in P
        BY <1>0, <2>1, <2>2, UpTo
    <2> QED
        BY <2>3 DEF P
<1>8. kept \in [0 .. Len(s) -> Seq(T)]
    BY <1>4, <1>7
<1>9. kept[0] = <<>>
    BY <1>6
<1>10. \A n \in 1 .. Len(s) :
          kept[n] = IF s[n] \in S THEN Append(kept[n - 1], s[n]) ELSE kept[n - 1]
    BY <1>6
<1>11. kept \in Keepings(T, s, S)
    BY <1>8, <1>9, <1>10 DEF Keepings
<1> QED
    BY <1>5, <1>11

\* Only keeps elements of s that are in S, and repeats none that s does not repeat.
LEMMA OnlyKeeps ==
    ASSUME NEW T, NEW s \in Seq(T), NEW S
    PROVE  /\ Only(s, S) \in Seq(T \cap S)
           /\ IsInjective(s) => IsInjective(Only(s, S))
<1> DEFINE V == Seq(T \cap S)
<1>0. /\ Len(s) \in Nat /\ <<>> \in V
      /\ \A n \in 1 .. Len(s) : s[n] \in T
      /\ \A q \in V, x \in T \cap S : Append(q, x) \in V
    OBVIOUS
<1>1. PICK kept \in [0 .. Len(s) -> Seq(T)] :
         /\ kept[0] = <<>>
         /\ \A n \in 1 .. Len(s) :
              kept[n] = IF s[n] \in S THEN Append(kept[n - 1], s[n]) ELSE kept[n - 1]
         /\ Only(s, S) = kept[Len(s)]
    <2>1. PICK kept \in Keepings(T, s, S) : Only(s, S) = kept[Len(s)]
        BY OnlyStepwise
    <2> QED
        BY <2>1 DEF Keepings
<1>2. Len(s) \in 0 .. Len(s) /\ 0 \in 0 .. Len(s) /\ DOMAIN s = 1 .. Len(s)
    BY <1>0
<1>3. Only(s, S) \in V
    <2> DEFINE P == {n \in 0 .. Len(s) : kept[n] \in V}
    <2>1. 0 \in P
        BY <1>0, <1>1, <1>2
    <2>2. ASSUME NEW n \in 1 .. Len(s), n - 1 \in P PROVE n \in P
        <3>1. s[n] \in T /\ kept[n - 1] \in V /\ n \in 0 .. Len(s)
            BY <1>0, <2>2
        <3> HIDE DEF V
        <3>2. kept[n] \in V
            BY <1>0, <1>1, <3>1
        <3> QED
            BY <3>1, <3>2
    <2> HIDE DEF P
    <2>3. \A n \in 0 .. Len(s) : n \in P
        BY <1>0, <2>1, <2>2, UpTo
    <2> QED
        BY <1>1, <1>2, <2>3 DEF P
<1>4. ASSUME IsInjective(s) PROVE IsInjective(Only(s, S))
    <2> DEFINE Earlier(q, n) == \A k \in DOMAIN q : \E j \in 1 .. n : q[k] = s[j]
               P == {n \in 0 .. Len(s) : IsInjective(kept[n]) /\ Earlier(kept[n], n)}
    <2>1. 0 \in P
        <3>1. DOMAIN kept[0] = {}
            BY <1>1
        <3> QED
            BY <1>2, <3>1 DEF IsInjective
    <2>2. ASSUME NEW n \in 1 .. Len(s), n - 1 \in P PROVE n \in P
        <3> DEFINE q == kept[n - 1]
        <3>1. n \in 0 .. Len(s) /\ n - 1 \in 0 .. Len(s) /\ q \in Seq(T) /\ s[n] \in T
            BY <1>0, <1>1
        <3>2. IsInjective(q) /\ Earlier(q, n - 1)
            BY <2>2
        <3>3. CASE s[n] \in S
            <4>1. kept[n] = Append(q, s[n])
                BY <1>1, <3>3
            <4> DEFINE r == Append(q, s[n])
            <4>2. /\ DOMAIN r = 1 .. Len(q) + 1 /\ Len(q) \in Nat /\ DOMAIN q = 1 .. Len(q)
                  /\ r[Len(q) + 1] = s[n] /\ \A k \in 1 .. Len(q) : r[k] = q[k]
                BY <3>1
            <4> HIDE DEF r, q
            <4>3. \A k \in 1 .. Len(q) : q[k] # s[n]
                <5> SUFFICES ASSUME NEW k \in 1 .. Len(q), q[k] = s[n] PROVE FALSE
                    OBVIOUS
                <5>1. PICK j \in 1 .. n - 1 : q[k] = s[j]
                    BY <3>2, <4>2
                <5>2. j \in DOMAIN s /\ n \in DOMAIN s /\ j # n
                    BY <1>2
                <5> QED
                    BY <1>4, <5>1, <5>2 DEF IsInjective
            <4>4. Earlier(r, n)
                <5> SUFFICES ASSUME NEW k \in DOMAIN r PROVE \E j \in 1 .. n : r[k] = s[j]
                    OBVIOUS
                <5>1. CASE k = Len(q) + 1
                    BY <4>2, <5>1
                <5>2. CASE k \in 1 .. Len(q)
                    BY <3>2, <4>2, <5>2
                <5> QED
                    BY <4>2, <5>1, <5>2
            <4>5. IsInjective(r)
                <5> SUFFICES ASSUME NEW k \in DOMAIN r, NEW l \in DOMAIN r, r[k] = r[l] PROVE k = l
                    BY DEF IsInjective
                <5>1. CASE k \in 1 .. Len(q) /\ l \in 1 .. Len(q)
                    BY <3>2, <4>2, <5>1 DEF IsInjective
                <5>2. CASE ~(k \in 1 .. Len(q) /\ l \in 1 .. Len(q))
                    BY <4>2, <4>3, <5>2
                <5> QED
                    BY <5>1, <5>2
            <4>6. kept[n] = r
                BY <4>1 DEF q, r
            <4> HIDE DEF Earlier
            <4> QED
                BY <3>1, <4>4, <4>5, <4>6
        <3>4. CASE s[n] \notin S
            <4>1. kept[n] = q
                BY <1>1, <3>4
            <4>2. Earlier(q, n)
                BY <3>1, <3>2
            <4> QED
                BY <3>1, <3>2, <4>1, <4>2
        <3> QED
            BY <3>3, <3>4
    <2> HIDE DEF P
    <2>3. \A n \in 0 .. Len(s) : n \in P
        BY <1>0, <2>1, <2>2, UpTo
    <2> QED
        BY <1>1, <1>2, <2>3 DEF P
<1> QED
    BY <1>3, <1>4

-----------------------------------------------------------------------------
(* The time axis *)

LEMMA Division ==
    ASSUME NEW w \in Int, NEW d \in Nat, d >= 1
    PROVE  w \div d \in Int /\ (w >= 0 => w \div d >= 0)
OBVIOUS

LEMMA MoveIsNat ==
    ASSUME NEW p \in Poi, NEW q \in Poi
    PROVE  Move(p, q) \in Nat
BY LimitsAssumption, TravelAssumption DEF Move, Greater

LEMMA CountBounds ==
    ASSUME NEW order \in Seq(Poi)
    PROVE  Count(order) \in Nat /\ Count(order) <= MaxSlots /\ Count(order) <= Len(order)
BY MaxSlotsAssumption DEF Count, Lesser

\* What is left to say of the visits once the order and the shadows are known.
Follows(t) ==
    /\ \A i \in DOMAIN t : t[i].start <= t[i].end
    /\ \A i \in DOMAIN t : i - 1 \in DOMAIN t => t[i - 1].end <= t[i].start

LEMMA TimedVisits ==
    ASSUME NEW order \in Seq(Poi), NEW shadow \in [ToSet(order) -> Poi \cup {NoPoi}], window \in Int
    PROVE  /\ Timed(order, shadow) \in [1 .. Count(order) -> Visit]
           /\ \A i \in 1 .. Count(order) :
                /\ Timed(order, shadow)[i].poi = order[i]
                /\ Timed(order, shadow)[i].shadow = shadow[order[i]]
           /\ window >= 0 => Follows(Timed(order, shadow))
<1> DEFINE n == Count(order)
           duration == Lesser(window \div Greater(Count(order), 1), SlotCap)
           At(i, start, move) ==
               [poi |-> order[i], shadow |-> shadow[order[i]],
                start |-> start + move, end |-> start + move + duration, move |-> move]
           Defines(f) == f = [i \in 1 .. Count(order) |->
                                IF i = 1
                                THEN At(1, 0, 0)
                                ELSE At(i, f[i - 1].end, Move(order[i - 1], order[i]))]
           t == CHOOSE f : Defines(f)
           Step == [e \in (1 .. n) \X Visit |->
                       IF e[1] = 1
                       THEN At(1, 0, 0)
                       ELSE At(e[1], e[2].end, Move(order[e[1] - 1], order[e[1]]))]
<1>0. n \in Nat /\ n <= Len(order) /\ Len(order) \in Nat /\ \A i \in 1 .. Len(order) : order[i] \in Poi
    BY CountBounds
<1>1. duration \in Int /\ (window >= 0 => duration >= 0)
    <2>1. Greater(n, 1) \in Nat /\ Greater(n, 1) >= 1
        BY <1>0 DEF Greater
    <2> QED
        BY <1>0, <2>1, window \in Int, Division, LimitsAssumption DEF Lesser
<1> HIDE DEF duration
<1>2. \A i \in 1 .. n : order[i] \in Poi /\ shadow[order[i]] \in Poi \cup {NoPoi}
    BY <1>0 DEF ToSet
<1>3. \A i \in 1 .. n, start \in Int, move \in Nat : At(i, start, move) \in Visit
    BY <1>1, <1>2 DEF Visit
<1>b. \A i \in 1 .. n : At(i, 0, 0) \in Visit
    BY <1>1, <1>2 DEF Visit
<1>a. \A i, start, move :
         /\ At(i, start, move).poi = order[i] /\ At(i, start, move).shadow = shadow[order[i]]
         /\ At(i, start, move).start = start + move /\ At(i, start, move).end = start + move + duration
    OBVIOUS
<1> HIDE DEF At
<1>4. \A i \in 1 .. n : i # 1 => Move(order[i - 1], order[i]) \in Nat
    <2> TAKE i \in 1 .. n
    <2> HAVE i # 1
    <2>1. i - 1 \in 1 .. n
        BY <1>0
    <2>2. order[i - 1] \in Poi /\ order[i] \in Poi
        BY <1>2, <2>1
    <2> QED
        BY <2>2, MoveIsNat
<1>5. \E f : Defines(f)
    <2>1. CASE n = 0
        <3>1. Defines([i \in 1 .. 0 |-> 0])
            BY <2>1
        <3> HIDE DEF Defines
        <3> QED
            BY <3>1
    <2>2. CASE n # 0
        <3>1. 1 \in 1 .. n /\ At(1, 0, 0) \in Visit
            BY <1>0, <1>b, <2>2
        <3>2. Step \in Steps(n, Visit)
            <4>1. ASSUME NEW i \in 1 .. n, NEW v \in Visit
                  PROVE  (IF i = 1 THEN At(1, 0, 0) ELSE At(i, v.end, Move(order[i - 1], order[i]))) \in Visit
                <5>1. v.end \in Int
                    BY DEF Visit
                <5> QED
                    BY <1>3, <1>4, <3>1, <5>1
            <4> QED
                BY <4>1 DEF Steps
        <3>3. PICK f \in [0 .. n -> Visit] : \A i \in 1 .. n : f[i] = Step[<<i, f[i - 1]>>]
            <4> HIDE DEF Step
            <4>1. Solutions(n, Visit, At(1, 0, 0), Step) # {}
                BY <1>0, <3>1, <3>2, Recursion
            <4> QED
                BY <4>1 DEF Solutions
        <3> DEFINE g == [i \in 1 .. n |-> f[i]]
        <3>4. ASSUME NEW i \in 1 .. n
              PROVE  g[i] = IF i = 1
                            THEN At(1, 0, 0)
                            ELSE At(i, g[i - 1].end, Move(order[i - 1], order[i]))
            <4>1. f[i] = Step[<<i, f[i - 1]>>] /\ f[i - 1] \in Visit
                <5> HIDE DEF Step
                <5>1. i - 1 \in 0 .. n
                    BY <1>0
                <5> QED
                    BY <3>3, <5>1
            <4>2. i # 1 => i - 1 \in 1 .. n
                BY <1>0
            <4> QED
                BY <4>1, <4>2
        <3>5. Defines(g)
            <4> QED
                BY <3>4
        <3> HIDE DEF g, Defines
        <3> QED
            BY <3>5
    <2> QED
        BY <2>1, <2>2
<1>6. Timed(order, shadow) = t
    BY DEF Timed, duration, At
<1>7. Defines(t)
    <2> HIDE DEF Defines
    <2> QED
        BY <1>5
<1> HIDE DEF t
<1>8. ASSUME NEW i \in 1 .. n
      PROVE  t[i] = IF i = 1
                    THEN At(1, 0, 0)
                    ELSE At(i, t[i - 1].end, Move(order[i - 1], order[i]))
    <2> QED
        BY <1>7
<1>9. \A i \in 1 .. n : t[i] \in Visit
    <2> DEFINE P == {i \in 0 .. n : i = 0 \/ t[i] \in Visit}
    <2>1. 0 \in P
        BY <1>0
    <2>2. ASSUME NEW i \in 1 .. n, i - 1 \in P PROVE i \in P
        <3>1. CASE i = 1
            <4>1. t[i] = At(i, 0, 0)
                BY <1>8, <3>1
            <4>2. t[i] \in Visit
                BY <1>b, <4>1
            <4> QED
                BY <1>0, <4>2
        <3>2. CASE i # 1
            <4>1. t[i - 1] \in Visit
                BY <1>0, <2>2, <3>2
            <4>2. t[i - 1].end \in Int
                BY <4>1 DEF Visit
            <4>3. t[i] = At(i, t[i - 1].end, Move(order[i - 1], order[i]))
                BY <1>8, <3>2
            <4>4. t[i] \in Visit
                BY <1>3, <1>4, <3>2, <4>2, <4>3
            <4> QED
                BY <1>0, <4>4
        <3> QED
            BY <3>1, <3>2
    <2> HIDE DEF P
    <2>3. \A i \in 0 .. n : i \in P
        BY <1>0, <2>1, <2>2, UpTo
    <2> QED
        BY <1>0, <2>3 DEF P
<1>10. t \in [1 .. n -> Visit]
    <2> QED
        BY <1>7, <1>9
<1>11. ASSUME NEW i \in 1 .. n PROVE t[i].poi = order[i] /\ t[i].shadow = shadow[order[i]]
    BY <1>8, <1>a
<1>12. ASSUME window >= 0 PROVE Follows(t)
    <2>1. duration \in Int /\ duration >= 0
        BY <1>1, <1>12
    <2>2. ASSUME NEW i \in 1 .. n PROVE t[i].start <= t[i].end
        <3>1. CASE i = 1
            BY <1>8, <1>a, <2>1, <3>1
        <3>2. CASE i # 1
            <4>1. t[i - 1].end \in Int
                <5>1. i - 1 \in 1 .. n
                    BY <1>0, <3>2
                <5>2. t[i - 1] \in Visit
                    BY <1>9, <5>1
                <5> QED
                    BY <5>2 DEF Visit
            <4>2. Move(order[i - 1], order[i]) \in Nat
                BY <1>4, <3>2
            <4>3. t[i] = At(i, t[i - 1].end, Move(order[i - 1], order[i]))
                BY <1>8, <3>2
            <4> QED
                BY <1>a, <2>1, <4>1, <4>2, <4>3
        <3> QED
            BY <3>1, <3>2
    <2>3. ASSUME NEW i \in 1 .. n, i - 1 \in 1 .. n PROVE t[i - 1].end <= t[i].start
        <3>1. t[i - 1].end \in Int
            BY <1>9, <2>3 DEF Visit
        <3>2. i # 1
            BY <1>0, <2>3
        <3>3. Move(order[i - 1], order[i]) \in Nat
            BY <1>4, <3>2
        <3>4. t[i] = At(i, t[i - 1].end, Move(order[i - 1], order[i]))
            BY <1>8, <3>2
        <3> QED
            BY <1>a, <3>1, <3>3, <3>4
    <2> QED
        BY <1>10, <2>2, <2>3 DEF Follows
<1> QED
    <2> QED
        BY <1>6, <1>10, <1>11, <1>12

\* A beginning of the time axis, as long as the window has room.
LEMMA GeneratedVisits ==
    ASSUME NEW order \in Seq(Poi), NEW shadow \in [ToSet(order) -> Poi \cup {NoPoi}], window \in Int
    PROVE  /\ Generated(order, shadow) \in Seq(Visit)
           /\ Len(Generated(order, shadow)) <= MaxSlots
           /\ Len(Generated(order, shadow)) <= Len(order)
           /\ \A i \in DOMAIN Generated(order, shadow) :
                /\ Generated(order, shadow)[i].poi = order[i]
                /\ Generated(order, shadow)[i].shadow = shadow[order[i]]
           /\ window >= 0 => Follows(Generated(order, shadow))
<1> DEFINE n == Count(order)
           t == Timed(order, shadow)
           made == {i \in DOMAIN t : \A j \in 1 .. (i - 1) : t[j].end < window}
           m == Cardinality(made)
<1>1. n \in Nat /\ n <= MaxSlots /\ n <= Len(order)
    BY CountBounds
<1>2. /\ t \in [1 .. n -> Visit]
      /\ \A i \in 1 .. n : t[i].poi = order[i] /\ t[i].shadow = shadow[order[i]]
      /\ window >= 0 => Follows(t)
    BY window \in Int, TimedVisits
<1>3. m \in Nat /\ m <= n
    <2>1. made \subseteq 1 .. n
        BY <1>2
    <2>2. IsFiniteSet(1 .. n) /\ Cardinality(1 .. n) = n
        BY <1>1, FS_Interval
    <2> HIDE DEF made
    <2>3. IsFiniteSet(made) /\ Cardinality(made) <= Cardinality(1 .. n)
        BY <2>1, <2>2, FS_Subset
    <2> QED
        BY <2>2, <2>3, FS_CardinalityType
<1>4. Generated(order, shadow) = SubSeq(t, 1, m)
    BY DEF Generated
<1> DEFINE g == SubSeq(t, 1, m)
<1> HIDE DEF n, t, m
<1>5. t \in Seq(Visit) /\ Len(t) = n
    BY <1>1, <1>2
<1>6. g \in Seq(Visit) /\ Len(g) = m /\ \A i \in 1 .. m : g[i] = t[i]
    BY <1>1, <1>3, <1>5
<1> HIDE DEF g
<1>7. DOMAIN g = 1 .. m /\ DOMAIN t = 1 .. n
    BY <1>2, <1>6
<1>8. ASSUME window >= 0 PROVE Follows(g)
    <2>1. Follows(t)
        BY <1>2, <1>8
    <2>2. ASSUME NEW i \in DOMAIN g PROVE g[i].start <= g[i].end
        <3>1. i \in DOMAIN t /\ g[i] = t[i]
            BY <1>1, <1>3, <1>6, <1>7
        <3> QED
            BY <2>1, <3>1 DEF Follows
    <2>3. ASSUME NEW i \in DOMAIN g, i - 1 \in DOMAIN g PROVE g[i - 1].end <= g[i].start
        <3>1. i \in DOMAIN t /\ i - 1 \in DOMAIN t /\ g[i] = t[i] /\ g[i - 1] = t[i - 1]
            BY <1>1, <1>3, <1>6, <1>7, <2>3
        <3> QED
            BY <2>1, <3>1 DEF Follows
    <2> QED
        BY <2>2, <2>3 DEF Follows
<1>9. \A i \in DOMAIN g : g[i].poi = order[i] /\ g[i].shadow = shadow[order[i]]
    BY <1>1, <1>2, <1>3, <1>6, <1>7
<1>10. Generated(order, shadow) = g
    BY <1>4 DEF g
<1>11. m <= MaxSlots /\ m <= Len(order)
    BY <1>1, <1>3, MaxSlotsAssumption
<1> QED
    BY <1>6, <1>8, <1>9, <1>10, <1>11

\* A shadow is none, or another POI of the order and of the same kind.
LEMMA ShadowChoicesAre ==
    ASSUME NEW order \in Seq(Poi), NEW shadow \in ShadowChoices(order)
    PROVE  /\ shadow \in [ToSet(order) -> Poi \cup {NoPoi}]
           /\ \A p \in ToSet(order) :
                shadow[p] # NoPoi => shadow[p] \in ToSet(order) \cap SameKind(p)
<1>1. ToSet(order) \subseteq Poi
    BY DEF ToSet
<1> QED
    BY <1>1 DEF ShadowChoices, ShadowChoice, ShadowsFrom, SameKind

\* The Pareto sort only rearranges, and leaves nothing twice that was there once.
LEMMA ParetoSortRearranges ==
    ASSUME NEW order \in Seq(Poi)
    PROVE  /\ ParetoSort(order) \in Seq(ToSet(order))
           /\ IsInjective(order) => IsInjective(ParetoSort(order))
<1> DEFINE T == ToSet(order)
           front == Frontier(order)
           leading == SubSeq(front, 1, Lesser(Leaders, Len(front)))
           rest == Only(order, T \ ToSet(leading))
<1>1. order \in Seq(T)
    BY DEF ToSet
<1>2. front \in Seq(T) /\ (IsInjective(order) => IsInjective(front))
    <2> DEFINE best == {p \in ToSet(order) : \A q \in ToSet(order) : q = p \/ ~Dominates(q, p)}
    <2>1. T \cap best \subseteq T
        OBVIOUS
    <2>2. Only(order, best) \in Seq(T \cap best) /\ (IsInjective(order) => IsInjective(Only(order, best)))
        <3> HIDE DEF T, best
        <3> QED
            BY <1>1, OnlyKeeps
    <2>3. front = Only(order, best)
        BY DEF Frontier
    <2> HIDE DEF T, best, front
    <2> QED
        BY <2>1, <2>2, <2>3
<1> HIDE DEF front, T
<1>3. /\ leading \in Seq(T) /\ Len(leading) <= Len(front)
      /\ \A i \in 1 .. Len(leading) : leading[i] = front[i]
    <2>1. Lesser(Leaders, Len(front)) \in 0 .. Len(front)
        BY <1>2, LimitsAssumption DEF Lesser
    <2> QED
        BY <1>2, <2>1
<1> HIDE DEF leading
<1>4. rest \in Seq(T) /\ rest \in Seq(T \ ToSet(leading)) /\ (IsInjective(order) => IsInjective(rest))
    <2>1. rest \in Seq(T \cap (T \ ToSet(leading))) /\ (IsInjective(order) => IsInjective(rest))
        BY <1>1, OnlyKeeps
    <2>2. T \cap (T \ ToSet(leading)) = T \ ToSet(leading)
        OBVIOUS
    <2> HIDE DEF rest
    <2>3. rest \in Seq(T \ ToSet(leading))
        BY <2>1, <2>2
    <2>4. rest \in Seq(T)
        BY <2>3
    <2> QED
        BY <2>1, <2>3, <2>4
<1> HIDE DEF rest
<1>5. ParetoSort(order) = IF Len(order) <= Leaders THEN order ELSE leading \o rest
    BY DEF ParetoSort, leading, front, rest, T
<1>6. leading \o rest \in Seq(T)
    BY <1>3, <1>4
<1>7. ASSUME IsInjective(order) PROVE IsInjective(leading \o rest)
    <2> DEFINE both == leading \o rest
    <2>1. /\ Len(leading) \in Nat /\ Len(rest) \in Nat /\ Len(front) \in Nat
          /\ DOMAIN front = 1 .. Len(front) /\ DOMAIN rest = 1 .. Len(rest)
          /\ DOMAIN leading = 1 .. Len(leading)
          /\ DOMAIN both = 1 .. Len(leading) + Len(rest)
          /\ \A i \in 1 .. Len(leading) : both[i] = leading[i]
          /\ \A i \in Len(leading) + 1 .. Len(leading) + Len(rest) : both[i] = rest[i - Len(leading)]
        BY <1>2, <1>3, <1>4
    <2> HIDE DEF both
    <2>2. IsInjective(front) /\ IsInjective(rest)
        BY <1>2, <1>4, <1>7
    <2>3. \A i \in 1 .. Len(rest) : rest[i] \notin ToSet(leading)
        BY <1>4
    <2>4. \A i \in 1 .. Len(leading) : leading[i] \in ToSet(leading)
        BY <2>1 DEF ToSet
    <2>5. ASSUME NEW i \in DOMAIN both, NEW j \in DOMAIN both, both[i] = both[j] PROVE i = j
        <3>1. CASE i <= Len(leading) /\ j <= Len(leading)
            <4>1. i \in DOMAIN front /\ j \in DOMAIN front /\ front[i] = front[j]
                BY <1>3, <2>1, <2>5, <3>1
            <4> QED
                BY <2>2, <4>1 DEF IsInjective
        <3>2. CASE i > Len(leading) /\ j > Len(leading)
            <4>1. /\ i - Len(leading) \in DOMAIN rest /\ j - Len(leading) \in DOMAIN rest
                  /\ rest[i - Len(leading)] = rest[j - Len(leading)]
                BY <2>1, <2>5, <3>2
            <4>2. i - Len(leading) = j - Len(leading)
                BY <2>2, <4>1 DEF IsInjective
            <4> QED
                BY <2>1, <4>2
        <3>3. CASE i <= Len(leading) /\ j > Len(leading)
            <4>1. i \in 1 .. Len(leading) /\ j - Len(leading) \in 1 .. Len(rest)
                BY <2>1, <3>3
            <4> QED
                BY <2>1, <2>3, <2>4, <2>5, <3>3, <4>1
        <3>4. CASE i > Len(leading) /\ j <= Len(leading)
            <4>1. j \in 1 .. Len(leading) /\ i - Len(leading) \in 1 .. Len(rest)
                BY <2>1, <3>4
            <4> QED
                BY <2>1, <2>3, <2>4, <2>5, <3>4, <4>1
        <3> QED
            BY <2>1, <3>1, <3>2, <3>3, <3>4
    <2> QED
        BY <2>5 DEF IsInjective, both
<1>8. ParetoSort(order) \in Seq(T)
    BY <1>1, <1>5, <1>6
<1> QED
    BY <1>5, <1>7, <1>8 DEF T

-----------------------------------------------------------------------------
(* Repairs *)

\* A visit put off, as the ripple does it after the visit before.
PutOff(visit, before) ==
    LET delay == Greater(0, before.end + before.move - visit.start)
    IN [visit EXCEPT !.start = @ + delay, !.end = @ + delay]

LEMMA PutOffVisit ==
    ASSUME NEW visit \in Visit, NEW before \in Visit
    PROVE  LET after == PutOff(visit, before) IN
           /\ after \in Visit
           /\ after.poi = visit.poi /\ after.shadow = visit.shadow /\ after.move = visit.move
           /\ after.start = Greater(visit.start, before.end + before.move)
           /\ after.end = after.start + (visit.end - visit.start)
<1> DEFINE delay == Greater(0, before.end + before.move - visit.start)
<1>1. /\ visit.start \in Int /\ visit.end \in Int /\ before.end \in Int /\ before.move \in Int
      /\ visit.poi \in Poi /\ visit.shadow \in Poi \cup {NoPoi} /\ visit.move \in Nat
    BY DEF Visit
<1>2. delay \in Int /\ visit.start + delay = Greater(visit.start, before.end + before.move)
    BY <1>1 DEF Greater
<1> HIDE DEF delay
<1>3. PutOff(visit, before) = [visit EXCEPT !.start = @ + delay, !.end = @ + delay]
    BY DEF PutOff, delay
<1>4. PutOff(visit, before) = [poi |-> visit.poi, shadow |-> visit.shadow, start |-> visit.start + delay,
                               end |-> visit.end + delay, move |-> visit.move]
    BY <1>3 DEF Visit
<1>5. PutOff(visit, before) \in Visit
    BY <1>1, <1>2, <1>4 DEF Visit
<1>6. visit.end + delay = visit.start + delay + (visit.end - visit.start)
    BY <1>1, <1>2
<1> QED
    BY <1>2, <1>4, <1>5, <1>6

\* The ripple leaves what is not after the changed visit and puts off one visit
\* after the other.
LEMMA RippledVisits ==
    ASSUME NEW s \in Seq(Visit), NEW changed \in DOMAIN s
    PROVE  /\ Rippled(s, changed) \in Seq(Visit)
           /\ DOMAIN Rippled(s, changed) = DOMAIN s
           /\ \A i \in DOMAIN s :
                Rippled(s, changed)[i] =
                    IF i <= changed THEN s[i] ELSE PutOff(s[i], Rippled(s, changed)[i - 1])
<1> DEFINE n == Len(s)
           After(i, before) == IF i <= changed THEN s[i] ELSE PutOff(s[i], before)
           Defines(f) == f = [i \in DOMAIN s |-> After(i, f[i - 1])]
           v == CHOOSE f : Defines(f)
           Step == [e \in (1 .. n) \X Visit |-> After(e[1], e[2])]
<1>0. n \in Nat /\ DOMAIN s = 1 .. n /\ changed \in 1 .. n /\ \A i \in 1 .. n : s[i] \in Visit
    OBVIOUS
<1>1. Rippled(s, changed) = [i \in DOMAIN s |-> v[i]]
    BY DEF Rippled, PutOff
<1> HIDE DEF n
<1>2. \A i \in 1 .. n, b \in Visit : After(i, b) \in Visit
    BY <1>0, PutOffVisit
<1>3. \A i \in 1 .. n : \A b, c : i = 1 => After(i, b) = After(i, c)
    BY <1>0
<1> HIDE DEF After
<1>4. \E f : Defines(f)
    <2>1. s[1] \in Visit
        BY <1>0
    <2>2. Step \in Steps(n, Visit)
        BY <1>2 DEF Steps
    <2>3. PICK f \in [0 .. n -> Visit] : \A i \in 1 .. n : f[i] = Step[<<i, f[i - 1]>>]
        <3> HIDE DEF Step
        <3>1. Solutions(n, Visit, s[1], Step) # {}
            BY <1>0, <2>1, <2>2, Recursion
        <3> QED
            BY <3>1 DEF Solutions
    <2> DEFINE g == [i \in 1 .. n |-> f[i]]
    <2>4. ASSUME NEW i \in 1 .. n PROVE g[i] = After(i, g[i - 1])
        <3>1. f[i] = Step[<<i, f[i - 1]>>] /\ f[i - 1] \in Visit
            <4> HIDE DEF Step
            <4>1. i - 1 \in 0 .. n
                BY <1>0
            <4> QED
                BY <2>3, <4>1
        <3>2. f[i] = After(i, f[i - 1])
            BY <3>1
        <3>3. i # 1 => i - 1 \in 1 .. n
            BY <1>0
        <3> QED
            BY <1>3, <3>2, <3>3
    <2>5. Defines(g)
        BY <1>0, <2>4
    <2> HIDE DEF g, Defines
    <2> QED
        BY <2>5
<1>5. Defines(v)
    <2> HIDE DEF Defines
    <2> QED
        BY <1>4
<1> HIDE DEF v
<1>6. \A i \in 1 .. n : v[i] = After(i, v[i - 1])
    BY <1>0, <1>5
<1>7. \A i \in 1 .. n : v[i] \in Visit
    <2> DEFINE P == {i \in 0 .. n : i = 0 \/ v[i] \in Visit}
    <2>1. 0 \in P
        BY <1>0
    <2>2. ASSUME NEW i \in 1 .. n, i - 1 \in P PROVE i \in P
        <3>1. CASE i = 1
            <4>1. v[i] = s[1]
                BY <1>0, <1>6, <3>1 DEF After
            <4> QED
                BY <1>0, <3>1, <4>1
        <3>2. CASE i # 1
            <4>1. v[i - 1] \in Visit
                BY <1>0, <2>2, <3>2
            <4>2. v[i] \in Visit
                BY <1>2, <1>6, <4>1
            <4> QED
                BY <1>0, <4>2
        <3> QED
            BY <3>1, <3>2
    <2> HIDE DEF P
    <2>3. \A i \in 0 .. n : i \in P
        BY <1>0, <2>1, <2>2, UpTo
    <2> QED
        BY <1>0, <2>3 DEF P
<1>8. Rippled(s, changed) = v
    BY <1>1, <1>5
<1>9. v \in [1 .. n -> Visit]
    BY <1>0, <1>5, <1>7
<1>10. v \in Seq(Visit) /\ DOMAIN v = DOMAIN s
    BY <1>0, <1>9
<1>11. \A i \in DOMAIN s : v[i] = IF i <= changed THEN s[i] ELSE PutOff(s[i], v[i - 1])
    BY <1>0, <1>6 DEF After
<1> QED
    BY <1>8, <1>10, <1>11

LEMMA RippleKeeps ==
    ASSUME NEW s \in Seq(Visit), NEW changed \in DOMAIN s, NEW i \in DOMAIN s
    PROVE  LET r == Rippled(s, changed)[i] IN
           /\ r \in Visit
           /\ r.poi = s[i].poi /\ r.shadow = s[i].shadow /\ r.move = s[i].move
           /\ i > changed => i - 1 \in DOMAIN s
<1> DEFINE t == Rippled(s, changed)
<1>1. t \in Seq(Visit) /\ DOMAIN t = DOMAIN s
    BY RippledVisits
<1>2. t[i] = IF i <= changed THEN s[i] ELSE PutOff(s[i], t[i - 1])
    BY RippledVisits
<1> HIDE DEF t
<1>3. DOMAIN s = 1 .. Len(s) /\ Len(s) \in Nat /\ s[i] \in Visit /\ t[i] \in Visit
    BY <1>1
<1>4. CASE i <= changed
    BY <1>2, <1>3, <1>4 DEF t
<1>5. CASE ~(i <= changed)
    <2>1. i - 1 \in DOMAIN s
        BY <1>3, <1>5
    <2>2. t[i - 1] \in Visit
        BY <1>1, <2>1
    <2>3. t[i] = PutOff(s[i], t[i - 1])
        BY <1>2, <1>5
    <2>4. t[i].poi = s[i].poi /\ t[i].shadow = s[i].shadow /\ t[i].move = s[i].move
        BY <1>3, <2>2, <2>3, PutOffVisit
    <2> QED
        BY <1>3, <2>1, <2>4 DEF t
<1> QED
    BY <1>4, <1>5

\* The ripple keeps visits in order.
LEMMA RippleOrders ==
    ASSUME NEW s \in Seq(Visit), NEW changed \in DOMAIN s, Follows(s)
    PROVE  Follows(Rippled(s, changed))
<1> DEFINE t == Rippled(s, changed)
<1>1. t \in Seq(Visit) /\ DOMAIN t = DOMAIN s
    BY RippledVisits
<1>2. \A i \in DOMAIN s : t[i] = IF i <= changed THEN s[i] ELSE PutOff(s[i], t[i - 1])
    BY RippledVisits
<1> HIDE DEF t
<1>3. DOMAIN s = 1 .. Len(s) /\ Len(s) \in Nat
    OBVIOUS
<1>4. ASSUME NEW i \in DOMAIN s
      PROVE  t[i].start <= t[i].end /\ (i - 1 \in DOMAIN s => t[i - 1].end <= t[i].start)
    <2>1. CASE i <= changed
        <3>1. t[i] = s[i] /\ (i - 1 \in DOMAIN s => t[i - 1] = s[i - 1])
            BY <1>2, <1>3, <2>1
        <3> QED
            BY <3>1, Follows(s) DEF Follows
    <2>2. CASE ~(i <= changed)
        <3>1. i - 1 \in DOMAIN s
            BY <1>3, <2>2
        <3>2. t[i - 1] \in Visit /\ s[i] \in Visit
            BY <1>1, <3>1
        <3>3. t[i] = PutOff(s[i], t[i - 1])
            BY <1>2, <2>2
        <3>4. /\ t[i].start = Greater(s[i].start, t[i - 1].end + t[i - 1].move)
              /\ t[i].end = t[i].start + (s[i].end - s[i].start)
            BY <3>2, <3>3, PutOffVisit
        <3>5. /\ s[i].start \in Int /\ s[i].end \in Int /\ s[i].start <= s[i].end
              /\ t[i - 1].end \in Int /\ t[i - 1].move \in Nat
            BY <3>2, Follows(s) DEF Visit, Follows
        <3>6. t[i - 1].end <= t[i - 1].end + t[i - 1].move /\ t[i - 1].end + t[i - 1].move \in Int
            BY <3>5
        <3>7. \A a, b \in Int : Greater(a, b) \in Int /\ b <= Greater(a, b)
            BY DEF Greater
        <3>8. t[i].start \in Int /\ t[i - 1].end + t[i - 1].move <= t[i].start
            BY <3>4, <3>5, <3>6, <3>7
        <3>9. t[i - 1].end <= t[i].start
            BY <3>5, <3>6, <3>8
        <3>10. t[i].start <= t[i].end
            BY <3>4, <3>5, <3>8
        <3> QED
            BY <3>9, <3>10
    <2> QED
        BY <2>1, <2>2
<1> QED
    BY <1>1, <1>4 DEF Follows, t

LEMMA SameVisit ==
    ASSUME NEW v \in Visit, NEW w \in Visit,
           v.poi = w.poi, v.shadow = w.shadow, v.start = w.start, v.end = w.end, v.move = w.move
    PROVE  v = w
BY v.poi = w.poi, v.shadow = w.shadow, v.start = w.start, v.end = w.end, v.move = w.move DEF Visit

\* Putting off again, after a visit that ends later, is putting off after that one.
LEMMA PutOffTwice ==
    ASSUME NEW v \in Visit, NEW a \in Visit, NEW b \in Visit, a.end <= b.end, a.move = b.move
    PROVE  /\ PutOff(PutOff(v, a), b) = PutOff(v, b)
           /\ PutOff(v, a).end <= PutOff(v, b).end /\ v.end <= PutOff(v, b).end
           /\ PutOff(v, a).move = PutOff(v, b).move /\ v.move = PutOff(v, b).move
<1> DEFINE x == PutOff(v, a)
           y == PutOff(x, b)
           z == PutOff(v, b)
<1>1. /\ x \in Visit /\ x.poi = v.poi /\ x.shadow = v.shadow /\ x.move = v.move
      /\ x.start = Greater(v.start, a.end + a.move) /\ x.end = x.start + (v.end - v.start)
    BY PutOffVisit
<1> HIDE DEF x
<1>2. /\ y \in Visit /\ y.poi = x.poi /\ y.shadow = x.shadow /\ y.move = x.move
      /\ y.start = Greater(x.start, b.end + b.move) /\ y.end = y.start + (x.end - x.start)
    BY <1>1, PutOffVisit
<1>3. /\ z \in Visit /\ z.poi = v.poi /\ z.shadow = v.shadow /\ z.move = v.move
      /\ z.start = Greater(v.start, b.end + b.move) /\ z.end = z.start + (v.end - v.start)
    BY PutOffVisit
<1> HIDE DEF y, z
<1>4. /\ v.start \in Int /\ v.end \in Int /\ a.end \in Int /\ b.end \in Int
      /\ a.move \in Int /\ b.move \in Int
    BY DEF Visit
<1>5. y.start = z.start /\ y.end = z.end /\ x.end <= z.end /\ v.end <= z.end
    BY <1>1, <1>2, <1>3, <1>4, a.end <= b.end, a.move = b.move DEF Greater
<1>6. y = z
    BY <1>1, <1>2, <1>3, <1>5, SameVisit
<1> QED
    BY <1>1, <1>3, <1>5, <1>6 DEF x, y, z

\* Two ripples are the one from the earlier place.
LEMMA RippledTwice ==
    ASSUME NEW s \in Seq(Visit), NEW first \in DOMAIN s, NEW second \in DOMAIN s
    PROVE  Rippled(Rippled(s, first), second) = Rippled(s, Lesser(second, first))
<1> DEFINE n == Len(s)
           r == Rippled(s, first)
           t == Rippled(r, second)
           u == Rippled(s, Lesser(second, first))
<1>0. n \in Nat /\ DOMAIN s = 1 .. n /\ \A i \in 1 .. n : s[i] \in Visit
    OBVIOUS
<1>1. Lesser(second, first) \in DOMAIN s
    BY DEF Lesser
<1>2. /\ r \in Seq(Visit) /\ DOMAIN r = DOMAIN s
      /\ \A i \in DOMAIN s : r[i] = IF i <= first THEN s[i] ELSE PutOff(s[i], r[i - 1])
    BY RippledVisits
<1> HIDE DEF r
<1>3. /\ t \in Seq(Visit) /\ DOMAIN t = DOMAIN s
      /\ \A i \in DOMAIN s : t[i] = IF i <= second THEN r[i] ELSE PutOff(r[i], t[i - 1])
    <2>1. second \in DOMAIN r
        BY <1>2
    <2> QED
        BY <1>2, <2>1, RippledVisits
<1>4. /\ u \in Seq(Visit) /\ DOMAIN u = DOMAIN s
      /\ \A i \in DOMAIN s : u[i] = IF i <= Lesser(second, first) THEN s[i] ELSE PutOff(s[i], u[i - 1])
    BY <1>1, RippledVisits
<1> HIDE DEF n, t, u
<1>5. \A i \in 1 .. n : r[i] \in Visit /\ t[i] \in Visit /\ u[i] \in Visit
    BY <1>0, <1>2, <1>3, <1>4
<1>6. first \in 1 .. n /\ second \in 1 .. n
    BY <1>0
<1> DEFINE Same(i) == t[i] = u[i] /\ r[i].end <= u[i].end /\ r[i].move = u[i].move
           P == {i \in 0 .. n : i = 0 \/ Same(i)}
<1>7. 0 \in P
    BY <1>0
<1>8. ASSUME NEW i \in 1 .. n, i - 1 \in P PROVE i \in P
    <2> DEFINE v == s[i]
    <2>0. v \in Visit /\ i \in DOMAIN s
        BY <1>0
    <2>1. CASE i <= Lesser(second, first)
        <3>1. r[i] = v /\ t[i] = v /\ u[i] = v
            BY <1>2, <1>3, <1>4, <1>6, <2>0, <2>1 DEF Lesser
        <3>2. v.end \in Int
            BY <2>0 DEF Visit
        <3> QED
            BY <3>1, <3>2
    <2>2. CASE ~(i <= Lesser(second, first))
        <3>1. i - 1 \in 1 .. n /\ Same(i - 1)
            BY <1>6, <1>8, <2>2 DEF Lesser
        <3> DEFINE b == u[i - 1]
                   a == r[i - 1]
        <3>2. b \in Visit /\ a \in Visit /\ t[i - 1] = b /\ a.end <= b.end /\ a.move = b.move
            BY <1>5, <3>1
        <3>3. u[i] = PutOff(v, b)
            BY <1>4, <2>0, <2>2
        <3>4. /\ t[i] = IF i <= second THEN r[i] ELSE PutOff(r[i], b)
              /\ r[i] = IF i <= first THEN v ELSE PutOff(v, a)
            BY <1>2, <1>3, <2>0, <3>2
        <3> HIDE DEF v, a, b
        <3>5. PutOff(v, a) \in Visit /\ PutOff(v, b) \in Visit
            BY <2>0, <3>2, PutOffVisit
        <3>6. /\ PutOff(PutOff(v, a), b) = PutOff(v, b)
              /\ PutOff(v, a).end <= PutOff(v, b).end /\ v.end <= PutOff(v, b).end
              /\ PutOff(v, a).move = PutOff(v, b).move /\ v.move = PutOff(v, b).move
            BY <2>0, <3>2, PutOffTwice
        <3>7. CASE i <= second
            <4>1. ~(i <= first) /\ i - 1 <= second
                BY <1>6, <2>2, <3>7 DEF Lesser
            <4>2. t[i - 1] = r[i - 1]
                BY <1>0, <1>3, <3>1, <4>1
            <4>3. a = b
                BY <3>2, <4>2 DEF a
            <4> QED
                BY <3>3, <3>4, <3>6, <3>7, <4>1, <4>3
        <3>8. CASE ~(i <= second)
            BY <3>3, <3>4, <3>6, <3>8
        <3> QED
            BY <3>7, <3>8
    <2> QED
        BY <2>1, <2>2
<1> HIDE DEF P
<1>9. \A i \in 0 .. n : i \in P
    BY <1>0, <1>7, <1>8, UpTo
<1>10. \A i \in 1 .. n : t[i] = u[i]
    BY <1>0, <1>9 DEF P
<1>11. t = u
    BY <1>0, <1>3, <1>4, <1>10
<1> QED
    BY <1>11 DEF t, u, r

\* Another POI at one place.
With(s, i, p) == [s EXCEPT ![i] = Replaced(@, p)]

LEMMA ReplacedVisit ==
    ASSUME NEW v \in Visit, NEW b \in Visit, NEW p \in Poi
    PROVE  /\ Replaced(v, p) \in Visit
           /\ Replaced(v, p).poi = p /\ Replaced(v, p).shadow = NoPoi
           /\ Replaced(v, p).start = v.start /\ Replaced(v, p).end = v.end /\ Replaced(v, p).move = v.move
           /\ PutOff(v, Replaced(b, p)) = PutOff(v, b)
           /\ PutOff(Replaced(v, p), b) = Replaced(PutOff(v, b), p)
<1>1. \A w \in Visit :
         /\ Replaced(w, p) \in Visit
         /\ Replaced(w, p).poi = p /\ Replaced(w, p).shadow = NoPoi
         /\ Replaced(w, p).start = w.start /\ Replaced(w, p).end = w.end /\ Replaced(w, p).move = w.move
    BY DEF Replaced, Visit
<1>2. PutOff(v, Replaced(b, p)) = PutOff(v, b)
    BY <1>1 DEF PutOff
<1> DEFINE x == PutOff(Replaced(v, p), b)
           y == PutOff(v, b)
<1>3. /\ y \in Visit /\ y.move = v.move
      /\ y.start = Greater(v.start, b.end + b.move) /\ y.end = y.start + (v.end - v.start)
    BY PutOffVisit
<1>4. /\ x \in Visit /\ x.poi = Replaced(v, p).poi /\ x.shadow = Replaced(v, p).shadow
      /\ x.move = Replaced(v, p).move
      /\ x.start = Greater(Replaced(v, p).start, b.end + b.move)
      /\ x.end = x.start + (Replaced(v, p).end - Replaced(v, p).start)
    BY <1>1, PutOffVisit
<1> HIDE DEF x, y
<1>5. x = Replaced(y, p)
    <2>1. Replaced(y, p) \in Visit
        BY <1>1, <1>3
    <2>2. x.start = y.start /\ x.end = y.end
        BY <1>1, <1>3, <1>4
    <2> QED
        BY <1>1, <1>3, <1>4, <2>1, <2>2, SameVisit
<1> QED
    BY <1>1, <1>2, <1>5 DEF x, y

LEMMA WithVisits ==
    ASSUME NEW s \in Seq(Visit), NEW i \in DOMAIN s, NEW p \in Poi
    PROVE  /\ With(s, i, p) \in Seq(Visit)
           /\ DOMAIN With(s, i, p) = DOMAIN s
           /\ \A k \in DOMAIN s : With(s, i, p)[k] = IF k = i THEN Replaced(s[i], p) ELSE s[k]
<1>1. DOMAIN s = 1 .. Len(s) /\ Len(s) \in Nat /\ \A k \in 1 .. Len(s) : s[k] \in Visit
    OBVIOUS
<1>2. Replaced(s[i], p) \in Visit
    BY <1>1, ReplacedVisit
<1> QED
    BY <1>1, <1>2 DEF With

\* Another POI makes no difference to the ripple.
LEMMA RippledWith ==
    ASSUME NEW s \in Seq(Visit), NEW first \in DOMAIN s, NEW i \in DOMAIN s, NEW p \in Poi
    PROVE  With(Rippled(s, first), i, p) = Rippled(With(s, i, p), first)
<1> DEFINE n == Len(s)
           r == Rippled(s, first)
           q == With(s, i, p)
           t == With(r, i, p)
           u == Rippled(q, first)
<1>0. n \in Nat /\ DOMAIN s = 1 .. n /\ \A k \in 1 .. n : s[k] \in Visit
    OBVIOUS
<1>1. /\ r \in Seq(Visit) /\ DOMAIN r = DOMAIN s
      /\ \A k \in DOMAIN s : r[k] = IF k <= first THEN s[k] ELSE PutOff(s[k], r[k - 1])
    BY RippledVisits
<1> HIDE DEF r
<1>2. /\ q \in Seq(Visit) /\ DOMAIN q = DOMAIN s
      /\ \A k \in DOMAIN s : q[k] = IF k = i THEN Replaced(s[i], p) ELSE s[k]
    BY WithVisits
<1>3. /\ t \in Seq(Visit) /\ DOMAIN t = DOMAIN s
      /\ \A k \in DOMAIN s : t[k] = IF k = i THEN Replaced(r[i], p) ELSE r[k]
    BY <1>1, WithVisits
<1> HIDE DEF q
<1>4. /\ u \in Seq(Visit) /\ DOMAIN u = DOMAIN s
      /\ \A k \in DOMAIN s : u[k] = IF k <= first THEN q[k] ELSE PutOff(q[k], u[k - 1])
    BY <1>2, RippledVisits
<1> HIDE DEF n, t, u
<1>5. \A k \in 1 .. n : r[k] \in Visit /\ t[k] \in Visit /\ u[k] \in Visit /\ q[k] \in Visit
    BY <1>0, <1>1, <1>2, <1>3, <1>4
<1> DEFINE P == {k \in 0 .. n : k = 0 \/ t[k] = u[k]}
<1>6. 0 \in P
    BY <1>0
<1>7. ASSUME NEW k \in 1 .. n, k - 1 \in P PROVE k \in P
    <2>0. k \in DOMAIN s /\ s[k] \in Visit
        BY <1>0
    <2>1. CASE k <= first
        <3>1. r[k] = s[k] /\ u[k] = q[k]
            BY <1>1, <1>4, <2>0, <2>1
        <3>2. t[k] = u[k]
            BY <1>2, <1>3, <2>0, <3>1
        <3> QED
            BY <1>0, <3>2
    <2>2. CASE ~(k <= first)
        <3>1. k - 1 \in 1 .. n /\ t[k - 1] = u[k - 1]
            BY <1>0, <1>7, <2>2
        <3>2. r[k - 1] \in Visit
            BY <1>5, <3>1
        <3>3. r[k] = PutOff(s[k], r[k - 1]) /\ u[k] = PutOff(q[k], t[k - 1])
            BY <1>1, <1>4, <2>0, <2>2, <3>1
        <3>4. t[k - 1] = IF k - 1 = i THEN Replaced(r[k - 1], p) ELSE r[k - 1]
            BY <1>0, <1>3, <3>1
        <3>5. u[k] = PutOff(q[k], r[k - 1])
            <4>1. q[k] \in Visit
                BY <1>5
            <4>2. PutOff(q[k], Replaced(r[k - 1], p)) = PutOff(q[k], r[k - 1])
                BY <3>2, <4>1, ReplacedVisit
            <4> QED
                BY <3>3, <3>4, <4>2
        <3>6. PutOff(Replaced(s[k], p), r[k - 1]) = Replaced(PutOff(s[k], r[k - 1]), p)
            BY <2>0, <3>2, ReplacedVisit
        <3>7. t[k] = u[k]
            <4>1. CASE k = i
                <5>1. q[k] = Replaced(s[k], p) /\ t[k] = Replaced(r[k], p)
                    BY <1>2, <1>3, <2>0, <4>1
                <5> QED
                    BY <3>3, <3>5, <3>6, <5>1
            <4>2. CASE k # i
                <5>1. q[k] = s[k] /\ t[k] = r[k]
                    BY <1>2, <1>3, <2>0, <4>2
                <5> QED
                    BY <3>3, <3>5, <5>1
            <4> QED
                BY <4>1, <4>2
        <3> QED
            BY <1>0, <3>7
    <2> QED
        BY <2>1, <2>2
<1> HIDE DEF P
<1>8. \A k \in 0 .. n : k \in P
    BY <1>0, <1>6, <1>7, UpTo
<1>9. \A k \in 1 .. n : t[k] = u[k]
    BY <1>0, <1>8 DEF P
<1>10. t = u
    BY <1>0, <1>3, <1>4, <1>9
<1> QED
    BY <1>10 DEF t, u, r, q

\* All places of R at once, and one ripple.
Replacing(s, R, alternative) ==
    [i \in DOMAIN s |-> IF i \in R THEN Replaced(s[i], alternative[i]) ELSE s[i]]
Mended(s, R, alternative) == IF R = {} THEN s ELSE Rippled(Replacing(s, R, alternative), Min(R))

LEMMA LeastIsMin ==
    ASSUME NEW S, S \subseteq Nat, S # {}
    PROVE  Min(S) \in S /\ \A k \in S : Min(S) <= k
<1>1. \E m \in S : \A k \in S : m <= k
    BY S \subseteq Nat, S # {}, LeastNumber
<1> QED
    BY <1>1 DEF Min

LEMMA ReplacingVisits ==
    ASSUME NEW s \in Seq(Visit), NEW R \in SUBSET DOMAIN s, NEW alternative,
           \A i \in R : alternative[i] \in Poi
    PROVE  /\ Replacing(s, R, alternative) \in Seq(Visit)
           /\ DOMAIN Replacing(s, R, alternative) = DOMAIN s
<1>1. DOMAIN s = 1 .. Len(s) /\ Len(s) \in Nat
    OBVIOUS
<1>2. ASSUME NEW i \in DOMAIN s
      PROVE  (IF i \in R THEN Replaced(s[i], alternative[i]) ELSE s[i]) \in Visit
    <2>1. s[i] \in Visit
        BY <1>1
    <2>2. i \in R => Replaced(s[i], alternative[i]) \in Visit
        BY <2>1, \A k \in R : alternative[k] \in Poi, ReplacedVisit
    <2> QED
        BY <2>1, <2>2
<1> QED
    BY <1>1, <1>2 DEF Replacing

LEMMA MendedVisits ==
    ASSUME NEW s \in Seq(Visit), NEW R \in SUBSET DOMAIN s, NEW alternative,
           \A i \in R : alternative[i] \in Poi
    PROVE  /\ Mended(s, R, alternative) \in Seq(Visit)
           /\ DOMAIN Mended(s, R, alternative) = DOMAIN s
           /\ R # {} => Min(R) \in DOMAIN s
<1> DEFINE q == Replacing(s, R, alternative)
<1>1. q \in Seq(Visit) /\ DOMAIN q = DOMAIN s
    BY \A i \in R : alternative[i] \in Poi, ReplacingVisits
<1> HIDE DEF q
<1>2. CASE R = {}
    BY <1>2 DEF Mended
<1>3. CASE R # {}
    <2>1. R \subseteq Nat
        OBVIOUS
    <2>2. Min(R) \in DOMAIN q
        BY <1>1, <1>3, <2>1, LeastIsMin
    <2>3. Mended(s, R, alternative) = Rippled(q, Min(R))
        BY <1>3 DEF Mended, q
    <2> QED
        BY <1>1, <2>2, <2>3, RippledVisits
<1> QED
    BY <1>2, <1>3

\* One more repair, with its own ripple, is a repair of one more place at once.
LEMMA MendedOnceMore ==
    ASSUME NEW s \in Seq(Visit), NEW R \in SUBSET DOMAIN s, NEW i \in DOMAIN s, NEW alternative,
           \A j \in R \cup {i} : alternative[j] \in Poi
    PROVE  Rippled(With(Mended(s, R, alternative), i, alternative[i]), i) = Mended(s, R \cup {i}, alternative)
<1> DEFINE p == alternative[i]
           q == Replacing(s, R, alternative)
           Q == Replacing(s, R \cup {i}, alternative)
<1>0. p \in Poi /\ (\A j \in R : alternative[j] \in Poi)
    BY \A j \in R \cup {i} : alternative[j] \in Poi
<1>1. q \in Seq(Visit) /\ DOMAIN q = DOMAIN s
    BY <1>0, ReplacingVisits
<1>2. Q \in Seq(Visit) /\ DOMAIN Q = DOMAIN s
    BY \A j \in R \cup {i} : alternative[j] \in Poi, ReplacingVisits
<1>3. With(q, i, p) = Q
    <2>1. \A k \in DOMAIN s : Q[k] = IF k \in R \cup {i} THEN Replaced(s[k], alternative[k]) ELSE s[k]
        BY DEF Replacing
    <2>2. \A k \in DOMAIN s : q[k] = IF k \in R THEN Replaced(s[k], alternative[k]) ELSE s[k]
        BY DEF Replacing
    <2>3. With(q, i, p) \in Seq(Visit) /\ DOMAIN With(q, i, p) = DOMAIN s
        BY <1>0, <1>1, WithVisits
    <2>4. ASSUME NEW k \in DOMAIN s PROVE With(q, i, p)[k] = Q[k]
        <3>1. With(q, i, p)[k] = IF k = i THEN Replaced(q[i], p) ELSE q[k]
            BY <1>0, <1>1, WithVisits
        <3>2. CASE k # i
            BY <2>1, <2>2, <3>1, <3>2
        <3>3. CASE k = i
            <4>1. Q[k] = Replaced(s[i], p)
                BY <2>1, <3>3
            <4>2. q[i] = IF i \in R THEN Replaced(s[i], p) ELSE s[i]
                BY <2>2
            <4>3. s[i] \in Visit /\ Replaced(s[i], p) \in Visit
                BY <1>0, ReplacedVisit
            <4>4. Replaced(Replaced(s[i], p), p) = Replaced(s[i], p)
                BY <4>3 DEF Replaced, Visit
            <4> QED
                BY <3>1, <3>3, <4>1, <4>2, <4>4
        <3> QED
            BY <3>2, <3>3
    <2> HIDE DEF q, Q
    <2> QED
        BY <1>2, <2>3, <2>4
<1> HIDE DEF q, Q
<1>4. Mended(s, R \cup {i}, alternative) = Rippled(Q, Min(R \cup {i}))
    BY DEF Mended, Q
<1>5. R \subseteq Nat /\ R \cup {i} \subseteq Nat /\ i \in Nat
    OBVIOUS
<1> DEFINE x == Min(R \cup {i})
<1>8. x \in R \cup {i} /\ \A k \in R \cup {i} : x <= k
    <2>1. R \cup {i} # {}
        OBVIOUS
    <2> QED
        BY <1>5, <2>1, LeastIsMin
<1>6. CASE R = {}
    <2>1. q = s
        BY <1>1, <1>6 DEF q, Replacing
    <2>2. Min(R \cup {i}) = i
        BY <1>6, <1>8
    <2>3. Mended(s, R, alternative) = s
        BY <1>6 DEF Mended
    <2> QED
        BY <1>3, <1>4, <2>1, <2>2, <2>3
<1>7. CASE R # {}
    <2> DEFINE m == Min(R)
    <2>1. m \in R /\ \A k \in R : m <= k
        BY <1>5, <1>7, LeastIsMin
    <2> HIDE DEF m
    <2>2. Min(R \cup {i}) = Lesser(i, m)
        <3>1. x \in Nat /\ m \in Nat /\ x <= i /\ x <= m
            BY <1>5, <1>8, <2>1
        <3> HIDE DEF x
        <3>2. CASE x = i
            BY <1>5, <3>1, <3>2 DEF Lesser, x
        <3>3. CASE x \in R
            <4>1. m <= x
                BY <2>1, <3>3
            <4> QED
                BY <1>5, <3>1, <4>1 DEF Lesser, x
        <3> QED
            BY <1>8, <3>2, <3>3
    <2>3. Mended(s, R, alternative) = Rippled(q, m)
        BY <1>7 DEF Mended, q, m
    <2>4. With(Rippled(q, m), i, p) = Rippled(Q, m)
        BY <1>0, <1>1, <1>3, <2>1, RippledWith
    <2>5. Rippled(Rippled(Q, m), i) = Rippled(Q, Lesser(i, m))
        BY <1>2, <2>1, RippledTwice
    <2> QED
        BY <1>4, <2>2, <2>3, <2>4, <2>5
<1> QED
    BY <1>6, <1>7

LEMMA AlternativesArePoi ==
    ASSUME NEW v \in Visit
    PROVE  Alternatives(v) \subseteq Poi
BY DEF Alternatives, SameKind, Visit

\* Repairing one failure after the other is repairing all of them at once.
LEMMA RepairedIsAtOnce ==
    ASSUME NEW draft \in Seq(Visit), NEW failed \in Seq(DOMAIN draft), NEW alternative,
           \A i \in ToSet(failed) : alternative[i] \in AlternativesAt(draft, i)
    PROVE  Repaired(draft, failed, alternative) = RepairedAtOnce(draft, ToSet(failed), alternative)
<1> DEFINE m == Len(failed)
           V == {s \in Seq(Visit) : DOMAIN s = DOMAIN draft}
           Do(n, s) == RepairedAt(draft, s, failed[n], alternative[failed[n]])
           Defines(f) == f = [n \in 0 .. Len(failed) |-> IF n = 0 THEN draft ELSE Do(n, f[n - 1])]
           after == CHOOSE f : Defines(f)
           Step == [e \in (1 .. m) \X V |-> Do(e[1], e[2])]
           Hit(S) == {i \in S : Alternatives(draft[i]) # {}}
           Done(n) == {failed[k] : k \in 1 .. n}
<1>1. /\ m \in Nat /\ draft \in V /\ \A n \in 1 .. m : failed[n] \in DOMAIN draft
      /\ ToSet(failed) = Done(m) /\ \A i \in DOMAIN draft : draft[i] \in Visit
    BY DEF ToSet
<1>2. \A i \in Hit(ToSet(failed)) : i \in DOMAIN draft /\ alternative[i] \in Poi
    <2> TAKE i \in Hit(ToSet(failed))
    <2>1. i \in DOMAIN draft /\ i \in ToSet(failed)
        BY <1>1
    <2>2. alternative[i] \in Alternatives(draft[i])
        BY <2>1, \A j \in ToSet(failed) : alternative[j] \in AlternativesAt(draft, j) DEF AlternativesAt
    <2> QED
        BY <1>1, <2>1, <2>2, AlternativesArePoi
<1>3. Repaired(draft, failed, alternative) = after[m]
    BY DEF Repaired
<1>4. ASSUME NEW n \in 1 .. m, NEW s \in V
      PROVE  Do(n, s) = IF failed[n] \in Hit(ToSet(failed))
                        THEN Rippled(With(s, failed[n], alternative[failed[n]]), failed[n])
                        ELSE s
    <2>1. failed[n] \in ToSet(failed)
        BY <1>1
    <2> QED
        BY <2>1 DEF RepairedAt, With
<1> HIDE DEF Do, m, Hit, Done
<1>5. ASSUME NEW n \in 1 .. m, NEW s \in V PROVE Do(n, s) \in V
    <2>1. CASE failed[n] \notin Hit(ToSet(failed))
        BY <1>4, <2>1
    <2>2. CASE failed[n] \in Hit(ToSet(failed))
        <3> DEFINE i == failed[n]
                   q == With(s, i, alternative[i])
        <3>1. i \in DOMAIN s /\ alternative[i] \in Poi
            BY <1>2, <2>2
        <3>2. q \in Seq(Visit) /\ DOMAIN q = DOMAIN s
            BY <3>1, WithVisits
        <3>3. Do(n, s) = Rippled(q, i)
            BY <1>4, <2>2
        <3> HIDE DEF q, i
        <3>4. Rippled(q, i) \in Seq(Visit) /\ DOMAIN Rippled(q, i) = DOMAIN q
            BY <3>1, <3>2, RippledVisits
        <3> QED
            BY <3>2, <3>3, <3>4
    <2> QED
        BY <2>1, <2>2
<1> HIDE DEF V
<1>6. \E f : Defines(f)
    <2>1. Step \in Steps(m, V)
        BY <1>5 DEF Steps
    <2>2. PICK f \in [0 .. m -> V] : f[0] = draft /\ \A n \in 1 .. m : f[n] = Step[<<n, f[n - 1]>>]
        <3> HIDE DEF Step
        <3>1. Solutions(m, V, draft, Step) # {}
            BY <1>1, <2>1, Recursion
        <3> QED
            BY <3>1 DEF Solutions
    <2>3. ASSUME NEW n \in 0 .. m PROVE f[n] = IF n = 0 THEN draft ELSE Do(n, f[n - 1])
        <3>1. CASE n = 0
            BY <2>2, <3>1
        <3>2. CASE n # 0
            <4>1. n \in 1 .. m /\ n - 1 \in 0 .. m
                BY <1>1, <3>2
            <4>2. f[n] = Step[<<n, f[n - 1]>>] /\ f[n - 1] \in V
                <5> HIDE DEF Step
                <5> QED
                    BY <2>2, <4>1
            <4> QED
                BY <3>2, <4>1, <4>2
        <3> QED
            BY <3>1, <3>2
    <2>4. Defines(f)
        BY <2>3 DEF m
    <2> HIDE DEF Defines
    <2> QED
        BY <2>4
<1>7. Defines(after)
    <2> HIDE DEF Defines
    <2> QED
        BY <1>6
<1> HIDE DEF after
<1>8. \A n \in 0 .. m : after[n] = IF n = 0 THEN draft ELSE Do(n, after[n - 1])
    BY <1>7 DEF m
<1> DEFINE P == {n \in 0 .. m : after[n] = Mended(draft, Hit(Done(n)), alternative)}
<1>9. 0 \in P
    <2>1. Hit(Done(0)) = {}
        BY DEF Hit, Done
    <2>2. 0 \in 0 .. m
        BY <1>1
    <2> QED
        BY <1>8, <2>1, <2>2 DEF Mended
<1>10. ASSUME NEW n \in 1 .. m, n - 1 \in P PROVE n \in P
    <2> DEFINE R == Hit(Done(n - 1))
               i == failed[n]
               s == after[n - 1]
    <2>0. n \in 0 .. m /\ n - 1 \in 0 .. m /\ n # 0
        BY <1>1
    <2>1. Done(n) = Done(n - 1) \cup {i} /\ Done(n) \subseteq ToSet(failed)
        BY <1>1, <2>0 DEF Done
    <2>2. R \subseteq Hit(ToSet(failed)) /\ (i \in Hit(ToSet(failed)) => Hit(Done(n)) = R \cup {i})
          /\ (i \notin Hit(ToSet(failed)) => Hit(Done(n)) = R)
        BY <2>1 DEF Hit
    <2> HIDE DEF R
    <2>3. R \in SUBSET DOMAIN draft /\ \A j \in R : alternative[j] \in Poi
        BY <1>2, <2>2
    <2>4. s = Mended(draft, R, alternative)
        BY <1>10 DEF R
    <2>5. s \in V
        <3>1. /\ Mended(draft, R, alternative) \in Seq(Visit)
              /\ DOMAIN Mended(draft, R, alternative) = DOMAIN draft
            BY <2>3, MendedVisits
        <3> QED
            BY <2>4, <3>1 DEF V
    <2>6. after[n] = Do(n, s)
        BY <1>8, <2>0
    <2> HIDE DEF s, i
    <2>7. CASE i \notin Hit(ToSet(failed))
        <3>1. after[n] = s
            BY <1>4, <2>5, <2>6, <2>7 DEF i
        <3> QED
            BY <2>0, <2>2, <2>4, <2>7, <3>1
    <2>8. CASE i \in Hit(ToSet(failed))
        <3>1. after[n] = Rippled(With(s, i, alternative[i]), i)
            BY <1>4, <2>5, <2>6, <2>8 DEF i
        <3>2. i \in DOMAIN draft /\ \A j \in R \cup {i} : alternative[j] \in Poi
            BY <1>2, <2>3, <2>8
        <3>3. Rippled(With(Mended(draft, R, alternative), i, alternative[i]), i)
                = Mended(draft, R \cup {i}, alternative)
            BY <2>3, <3>2, MendedOnceMore
        <3> QED
            BY <2>0, <2>2, <2>4, <2>8, <3>1, <3>3
    <2> QED
        BY <2>7, <2>8
<1> HIDE DEF P
<1>11. \A n \in 0 .. m : n \in P
    BY <1>1, <1>9, <1>10, UpTo
<1>12. after[m] = Mended(draft, Hit(ToSet(failed)), alternative)
    BY <1>1, <1>11 DEF P
<1>13. RepairedAtOnce(draft, ToSet(failed), alternative) = Mended(draft, Hit(ToSet(failed)), alternative)
    BY DEF RepairedAtOnce, Mended, Replacing, Hit
<1> QED
    BY <1>3, <1>12, <1>13

\* An order of a finite set names its elements, and each once.
LEMMA OrderOfSet ==
    ASSUME NEW S, IsFiniteSet(S), NEW q \in SetToSeqs(S)
    PROVE  q \in Seq(S) /\ ToSet(q) = S /\ IsInjective(q) /\ Len(q) = Cardinality(S)
<1> DEFINE n == Cardinality(S)
<1>1. n \in Nat
    BY IsFiniteSet(S), FS_CardinalityType
<1>2. q \in [1 .. n -> S] /\ \A i, j \in 1 .. n : i # j => q[i] # q[j]
    BY DEF SetToSeqs
<1> HIDE DEF n
<1>3. q \in Seq(S) /\ Len(q) = n
    BY <1>1, <1>2
<1>4. IsInjective(q)
    BY <1>2 DEF IsInjective
<1>5. ToSet(q) = S
    <2>1. q \in Injection(1 .. n, S)
        BY <1>2 DEF Injection, IsInjective
    <2>2. Cardinality(1 .. n) = n
        BY <1>1, FS_Interval
    <2>3. q \in Surjection(1 .. n, S)
        BY <2>1, <2>2, IsFiniteSet(S), FS_Injection DEF n
    <2> QED
        BY <1>2, <2>3 DEF Surjection, ToSet
<1> QED
    BY <1>3, <1>4, <1>5 DEF n

LEMMA SetToSeqIs ==
    ASSUME NEW S, IsFiniteSet(S)
    PROVE  SetToSeq(S) \in Seq(S)
<1> DEFINE n == Cardinality(S)
<1>1. n \in Nat /\ ExistsBijection(1 .. n, S)
    BY IsFiniteSet(S), FS_CardinalityType
<1> HIDE DEF n
<1>2. \E f \in [1 .. n -> S] : IsInjective(f)
    BY <1>1 DEF ExistsBijection, Bijection, Injection
<1>3. SetToSeq(S) \in [1 .. n -> S]
    BY <1>2 DEF SetToSeq, n
<1> QED
    BY <1>1, <1>3

LEMMA FlattenIsSeq ==
    ASSUME NEW T, NEW q \in Seq(Seq(T))
    PROVE  FlattenSeq(q) \in Seq(T)
<1> DEFINE n == Len(q)
           V == Seq(T)
           After(i, before) == IF i = 1 THEN q[i] ELSE before \o q[i]
           Defines(f) == f = [i \in 1 .. Len(q) |-> IF i = 1 THEN q[i] ELSE f[i - 1] \o q[i]]
           v == CHOOSE f : Defines(f)
           Step == [e \in (1 .. n) \X V |-> After(e[1], e[2])]
<1>0. n \in Nat /\ <<>> \in V /\ \A i \in 1 .. n : q[i] \in V
    OBVIOUS
<1>1. \A b \in V, c \in V : b \o c \in V
    OBVIOUS
<1>2. CASE n = 0
    BY <1>0, <1>2 DEF FlattenSeq
<1>3. CASE n # 0
    <2>1. FlattenSeq(q) = v[n]
        BY <1>3 DEF FlattenSeq
    <2> HIDE DEF n, V
    <2>2. \A i \in 1 .. n, b \in V : After(i, b) \in V
        BY <1>0, <1>1
    <2>3. Step \in Steps(n, V)
        BY <2>2 DEF Steps
    <2>4. PICK f \in [0 .. n -> V] : \A i \in 1 .. n : f[i] = Step[<<i, f[i - 1]>>]
        <3> HIDE DEF Step
        <3>1. Solutions(n, V, <<>>, Step) # {}
            BY <1>0, <2>3, Recursion
        <3> QED
            BY <3>1 DEF Solutions
    <2> DEFINE g == [i \in 1 .. n |-> f[i]]
    <2>5. ASSUME NEW i \in 1 .. n PROVE g[i] = IF i = 1 THEN q[i] ELSE g[i - 1] \o q[i]
        <3>1. f[i] = Step[<<i, f[i - 1]>>] /\ f[i - 1] \in V
            <4> HIDE DEF Step
            <4>1. i - 1 \in 0 .. n
                BY <1>0
            <4> QED
                BY <2>4, <4>1
        <3>2. f[i] = After(i, f[i - 1])
            BY <3>1
        <3>3. i # 1 => i - 1 \in 1 .. n
            BY <1>0
        <3> QED
            BY <3>2, <3>3
    <2>6. Defines(g)
        BY <2>5 DEF n
    <2>7. \E f_1 : Defines(f_1)
        <3> HIDE DEF g, Defines
        <3> QED
            BY <2>6
    <2>8. Defines(v)
        <3> HIDE DEF Defines
        <3> QED
            BY <2>7
    <2> HIDE DEF v
    <2>9. \A i \in 1 .. n : v[i] = IF i = 1 THEN q[i] ELSE v[i - 1] \o q[i]
        BY <2>8 DEF n
    <2> DEFINE P == {i \in 0 .. n : i = 0 \/ v[i] \in V}
    <2>10. 0 \in P
        BY <1>0
    <2>11. ASSUME NEW i \in 1 .. n, i - 1 \in P PROVE i \in P
        <3>1. i # 1 => v[i - 1] \in V
            BY <1>0, <2>11
        <3>2. v[i] \in V
            BY <1>0, <1>1, <2>9, <3>1
        <3> QED
            BY <1>0, <3>2
    <2> HIDE DEF P
    <2>12. \A i \in 0 .. n : i \in P
        BY <1>0, <2>10, <2>11, UpTo
    <2> QED
        BY <1>0, <1>3, <2>1, <2>12 DEF P, V
<1> QED
    BY <1>2, <1>3

-----------------------------------------------------------------------------
(* The inductive invariant *)

\* Until it is loaded there is no profile, afterwards it has the intent as it is;
\* the planner comes last, and with candidates.
Prepared ==
    /\ intent \in Seq(ToSet(intent))
    /\ IF step \in {"intent_parser", "context_loader"}
       THEN profile = NoProfile
       ELSE profile \in [intent : {intent}, loaded : {TRUE}, known : BOOLEAN]
    /\ step = "planning_engine" => pool # <<>>

\* There are visits only after the planner, which comes after the preparation.
Planned ==
    /\ version = 0 => visits = <<>>
    /\ version # 0 => step = "planning_engine"

\* Visit after visit; VisitsInOrder says it of any two.
InTurn == window >= 0 => Follows(visits)

Invariant == TypeOK /\ Prepared /\ Planned /\ InTurn /\ HardConstraintsKept

LEMMA FollowsInOrder ==
    ASSUME NEW s \in Seq(Visit), Follows(s)
    PROVE  \A i, j \in DOMAIN s : i < j => s[i].end <= s[j].start
<1> SUFFICES ASSUME NEW i \in DOMAIN s
             PROVE  \A j \in DOMAIN s : i < j => s[i].end <= s[j].start
    OBVIOUS
<1> DEFINE n == Len(s)
           P == {j \in 0 .. n : j > i => s[i].end <= s[j].start}
<1>1. n \in Nat /\ DOMAIN s = 1 .. n /\ \A j \in 1 .. n : s[j] \in Visit
    OBVIOUS
<1> HIDE DEF n
<1>2. 0 \in P
    BY <1>1
<1>3. ASSUME NEW j \in 1 .. n, j - 1 \in P PROVE j \in P
    <2>1. /\ s[i].end \in Int /\ s[j].start \in Int /\ j \in 0 .. n
          /\ j - 1 \in 1 .. n => s[j - 1].start \in Int /\ s[j - 1].end \in Int
        <3>1. s[i] \in Visit /\ s[j] \in Visit /\ j \in 0 .. n
            BY <1>1
        <3>2. j - 1 \in 1 .. n => s[j - 1] \in Visit
            BY <1>1
        <3> QED
            BY <3>1, <3>2 DEF Visit
    <2>2. CASE j <= i
        BY <1>1, <2>1, <2>2
    <2>3. CASE j - 1 = i
        <3>1. s[i].end <= s[j].start
            BY <1>1, <2>3, Follows(s) DEF Follows
        <3> QED
            BY <2>1, <3>1
    <2>4. CASE j - 1 > i
        <3>1. s[i].end <= s[j - 1].start
            BY <1>3, <2>4
        <3>2. j - 1 \in DOMAIN s /\ j \in DOMAIN s
            BY <1>1, <2>4
        <3>3. s[j - 1].start <= s[j - 1].end /\ s[j - 1].end <= s[j].start
            BY <3>2, Follows(s) DEF Follows
        <3>4. s[i].end <= s[j].start
            BY <1>1, <2>1, <3>1, <3>2, <3>3
        <3> QED
            BY <2>1, <3>4
    <2> QED
        BY <1>1, <2>2, <2>3, <2>4
<1> HIDE DEF P
<1>4. \A j \in 0 .. n : j \in P
    BY <1>1, <1>2, <1>3, UpTo
<1> QED
    BY <1>1, <1>4 DEF P

LEMMA InvariantInit == Init => Invariant
<1> SUFFICES ASSUME Init PROVE Invariant
    OBVIOUS
<1> USE DEF Init, PreparationInit
<1>1. TypeOK
    <2>1. PreparationTypeOK
        <3>1. <<>> \in Seq(Poi) /\ Len(<<>>) = 0
            OBVIOUS
        <3>2. 0 <= Greater(PoolSize, Draws)
            BY RetrievalAssumption DEF Greater
        <3> QED
            BY <3>1, <3>2 DEF PreparationTypeOK, NoProfile
    <2>2. <<>> \in Seq(Visit) /\ Len(<<>>) <= MaxSlots
        BY MaxSlotsAssumption
    <2> QED
        BY <2>1, <2>2, LimitsAssumption DEF TypeOK
<1>2. Prepared
    BY DEF Prepared, DefaultIntent
<1>3. Planned
    BY DEF Planned
<1>4. InTurn /\ HardConstraintsKept
    BY DEF InTurn, Follows, HardConstraintsKept
<1> QED
    BY <1>1, <1>2, <1>3, <1>4 DEF Invariant

\* No history holds an enriched intent.
LEMMA NothingEnriched ==
    /\ Latest(<<[intent |-> intent], [context_profile |-> profile]>>, "enriched_intent") = NoProfile
    /\ Latest(<<[intent |-> intent], [context_profile |-> profile], [context_profile |-> profile]>>,
              "enriched_intent") = NoProfile
BY DEF Latest

LEMMA KeywordTypesAreSeq ==
    ASSUME NEW mentioned
    PROVE  KeywordTypes(mentioned) \in Seq(ToSet(KeywordTypes(mentioned)))
<1> DEFINE T == {AllTypes[k] : k \in 1 .. 4}
           found == Only(AllTypes, mentioned)
<1>1. AllTypes \in Seq(T)
    BY DEF AllTypes
<1> HIDE DEF T
<1>2. found \in Seq(T \cap mentioned)
    BY <1>1, OnlyKeeps
<1> HIDE DEF found
<1>3. found \in Seq(ToSet(found))
    BY <1>2 DEF ToSet
<1> QED
    BY <1>3 DEF KeywordTypes, found

-----------------------------------------------------------------------------
(* What each operation does to the draft *)

LEMMA CandidatesAreSeq ==
    ASSUME place \in Places, NEW top \in Tops
    PROVE  Candidates(top, <<>>) \in Seq(Poi)
<1> DEFINE q == [k \in DOMAIN AllTypes |-> SetToSeq(OfType(AllTypes[k], top))]
<1>1. top \subseteq Poi
    BY place \in Places, PlacesAssumption DEF Tops
<1>2. \A type : SetToSeq(OfType(type, top)) \in Seq(Poi)
    <2> TAKE type
    <2>1. IsFiniteSet(Poi)
        BY NumPoiAssumption, FS_Interval DEF Poi
    <2>2. OfType(type, top) \subseteq Poi
        BY <1>1 DEF OfType
    <2>3. IsFiniteSet(OfType(type, top))
        BY <2>1, <2>2, FS_Subset
    <2>4. SetToSeq(OfType(type, top)) \in Seq(OfType(type, top))
        BY <2>3, SetToSeqIs
    <2> QED
        BY <2>2, <2>4
<1>3. DOMAIN AllTypes = 1 .. 4
    BY DEF AllTypes
<1>4. q \in Seq(Seq(Poi))
    <2> DEFINE T == Seq(Poi)
    <2>1. q \in [1 .. 4 -> T]
        BY <1>2, <1>3
    <2> HIDE DEF q, T
    <2>2. q \in Seq(T)
        <3>1. 4 \in Nat /\ [1 .. 4 -> T] \subseteq UNION {[1 .. n -> T] : n \in Nat}
            BY Zenon, 4 \in Nat
        <3> QED
            BY <2>1, <3>1, SeqDef, Zenon
    <2> QED
        BY <2>2 DEF T
<1>5. Candidates(top, <<>>) = FlattenSeq(q)
    BY DEF Candidates
<1> HIDE DEF q
<1> QED
    BY <1>4, <1>5, FlattenIsSeq

\* A ranking holds eligible POIs, by score each as often as the pool does.
LEMMA RankingsAreEligible ==
    ASSUME pool \in Seq(Poi), NEW ranking \in Rankings \cup LlmRankings
    PROVE  /\ ranking \in Seq(Poi)
           /\ \A p \in ToSet(ranking) : Eligible(p)
           /\ ranking \in Rankings /\ IsInjective(pool) => IsInjective(ranking)
<1> DEFINE eligible == {k \in DOMAIN pool : Eligible(pool[k])}
<1>1. /\ DOMAIN pool = 1 .. Len(pool) /\ Len(pool) \in Nat
      /\ \A k \in DOMAIN pool : pool[k] \in Poi
    BY pool \in Seq(Poi)
<1>2. \A S \in Shortlists : S \subseteq eligible /\ IsFiniteSet(S)
    <2> TAKE S \in Shortlists
    <2>1. S \subseteq eligible
        BY DEF Shortlists, kSubset
    <2>2. IsFiniteSet(DOMAIN pool)
        BY <1>1, FS_Interval
    <2> QED
        BY <2>1, <2>2, FS_Subset
<1> HIDE DEF eligible
<1>3. ASSUME ranking \in Rankings
      PROVE  /\ ranking \in Seq(Poi) /\ \A p \in ToSet(ranking) : Eligible(p)
             /\ IsInjective(pool) => IsInjective(ranking)
    <2>a. PICK S \in Shortlists : \E s \in SetToSeqs(S) : ranking = [n \in DOMAIN s |-> pool[s[n]]]
        BY <1>3 DEF Rankings
    <2>1. PICK s \in SetToSeqs(S) : ranking = [n \in DOMAIN s |-> pool[s[n]]]
        BY <2>a
    <2>2. s \in Seq(S) /\ IsInjective(s)
        BY <1>2, OrderOfSet
    <2>3. DOMAIN s = 1 .. Len(s) /\ Len(s) \in Nat /\ \A n \in DOMAIN s : s[n] \in S
        BY <2>2
    <2>4. \A n \in DOMAIN s : s[n] \in DOMAIN pool /\ Eligible(pool[s[n]])
        BY <1>2, <2>3 DEF eligible
    <2>5. ranking \in Seq(Poi)
        BY <1>1, <2>1, <2>3, <2>4
    <2>6. \A p \in ToSet(ranking) : Eligible(p)
        BY <2>1, <2>4 DEF ToSet
    <2>7. IsInjective(pool) => IsInjective(ranking)
        BY <2>1, <2>2, <2>4 DEF IsInjective
    <2> QED
        BY <2>5, <2>6, <2>7
<1>4. ASSUME ranking \in LlmRankings
      PROVE  ranking \in Seq(Poi) /\ \A p \in ToSet(ranking) : Eligible(p)
    <2>1. PICK n \in 1 .. LlmAnswer, S \in Shortlists : ranking \in [1 .. n -> {pool[k] : k \in S}]
        BY <1>4 DEF LlmRankings
    <2>2. n \in Nat
        BY LlmAssumption, LimitsAssumption
    <2>3. \A x \in {pool[k] : k \in S} : x \in Poi /\ Eligible(x)
        BY <1>1, <1>2 DEF eligible
    <2>4. ranking \in [1 .. n -> Poi]
        BY <2>1, <2>3
    <2>5. \A p \in ToSet(ranking) : Eligible(p)
        BY <2>1, <2>3 DEF ToSet
    <2> QED
        BY <2>2, <2>4, <2>5
<1>5. CASE ranking \in Rankings
    BY <1>3, <1>5
<1>6. CASE ranking \in LlmRankings /\ ranking \notin Rankings
    BY <1>4, <1>6
<1> QED
    BY <1>5, <1>6

LEMMA PlannedVisits ==
    ASSUME pool \in Seq(Poi), window \in Int,
           NEW ranking \in Rankings \cup LlmRankings,
           NEW shadow \in ShadowChoices(ParetoSort(ranking))
    PROVE  LET t == Generated(ParetoSort(ranking), shadow) IN
           /\ t \in Seq(Visit) /\ Len(t) <= MaxSlots
           /\ \A i \in DOMAIN t :
                /\ Eligible(t[i].poi)
                /\ t[i].shadow # NoPoi => Eligible(t[i].shadow) /\ t[i].shadow \in SameKind(t[i].poi)
           /\ window >= 0 => Follows(t)
           /\ ranking \in Rankings /\ IsInjective(pool) =>
                \A i, j \in DOMAIN t : t[i].poi = t[j].poi => i = j
<1> DEFINE order == ParetoSort(ranking)
           t == Generated(order, shadow)
<1>1. /\ ranking \in Seq(Poi) /\ \A p \in ToSet(ranking) : Eligible(p)
      /\ ranking \in Rankings /\ IsInjective(pool) => IsInjective(ranking)
    BY pool \in Seq(Poi), RankingsAreEligible
<1>2. /\ order \in Seq(ToSet(ranking))
      /\ IsInjective(ranking) => IsInjective(order)
    BY <1>1, ParetoSortRearranges
<1> HIDE DEF order
<1>3. /\ ToSet(ranking) \subseteq Poi /\ order \in Seq(Poi) /\ ToSet(order) \subseteq ToSet(ranking)
      /\ DOMAIN order = 1 .. Len(order) /\ Len(order) \in Nat
    <2>1. ToSet(ranking) \subseteq Poi
        BY <1>1 DEF ToSet
    <2>2. ToSet(order) \subseteq ToSet(ranking)
        <3> DEFINE T == ToSet(ranking)
        <3>1. order \in Seq(T)
            BY <1>2
        <3> HIDE DEF T
        <3>2. \A i \in DOMAIN order : order[i] \in T
            BY <3>1
        <3> QED
            BY <3>2 DEF ToSet, T
    <2>3. order \in Seq(Poi)
        BY <1>2, <2>1
    <2> QED
        BY <2>1, <2>2, <2>3
<1>4. /\ shadow \in [ToSet(order) -> Poi \cup {NoPoi}]
      /\ \A p \in ToSet(order) : shadow[p] # NoPoi => shadow[p] \in ToSet(order) \cap SameKind(p)
    BY <1>3, ShadowChoicesAre DEF order
<1>5. /\ t \in Seq(Visit) /\ Len(t) <= MaxSlots /\ Len(t) <= Len(order)
      /\ \A i \in DOMAIN t : t[i].poi = order[i] /\ t[i].shadow = shadow[order[i]]
      /\ window >= 0 => Follows(t)
    BY <1>3, <1>4, window \in Int, GeneratedVisits
<1> HIDE DEF t
<1>6. \A i \in DOMAIN t : i \in DOMAIN order /\ order[i] \in ToSet(order)
    <2>1. DOMAIN t = 1 .. Len(t) /\ Len(t) \in Nat
        BY <1>5
    <2> QED
        BY <1>3, <1>5, <2>1 DEF ToSet
<1>7. ASSUME NEW i \in DOMAIN t
      PROVE  /\ Eligible(t[i].poi)
             /\ t[i].shadow # NoPoi => Eligible(t[i].shadow) /\ t[i].shadow \in SameKind(t[i].poi)
    BY <1>1, <1>3, <1>4, <1>5, <1>6
<1>8. ASSUME ranking \in Rankings, IsInjective(pool), NEW i \in DOMAIN t, NEW j \in DOMAIN t,
             t[i].poi = t[j].poi
      PROVE  i = j
    BY <1>1, <1>2, <1>5, <1>6, <1>8 DEF IsInjective
<1> QED
    BY <1>5, <1>7, <1>8 DEF t, order

LEMMA RepairedVisits ==
    ASSUME NEW s \in Seq(Visit), NEW failed \in SUBSET DOMAIN s,
           NEW order \in SetToSeqs(failed), NEW alternative \in AlternativeChoices(s, failed)
    PROVE  LET t == Repaired(s, order, alternative) IN
           /\ t = RepairedAtOnce(s, failed, alternative)
           /\ t \in Seq(Visit) /\ DOMAIN t = DOMAIN s
           /\ \A i \in DOMAIN s :
                IF i \in failed /\ Alternatives(s[i]) # {}
                THEN t[i].poi \in Alternatives(s[i]) /\ t[i].shadow = NoPoi
                ELSE t[i].poi = s[i].poi /\ t[i].shadow = s[i].shadow
           /\ Follows(s) => Follows(t)
<1> DEFINE R == {i \in failed : Alternatives(s[i]) # {}}
           q == Replacing(s, R, alternative)
           t == Repaired(s, order, alternative)
<1>1. DOMAIN s = 1 .. Len(s) /\ Len(s) \in Nat /\ \A i \in DOMAIN s : s[i] \in Visit
    OBVIOUS
<1>2. IsFiniteSet(failed)
    <2>1. IsFiniteSet(DOMAIN s)
        BY <1>1, FS_Interval
    <2> QED
        BY <2>1, FS_Subset
<1>3. order \in Seq(DOMAIN s) /\ ToSet(order) = failed
    <2>1. order \in Seq(failed) /\ ToSet(order) = failed
        BY <1>2, OrderOfSet
    <2> QED
        BY <2>1
<1>4. \A i \in failed : alternative[i] \in AlternativesAt(s, i)
    BY DEF AlternativeChoices
<1>5. t = RepairedAtOnce(s, failed, alternative)
    BY <1>3, <1>4, RepairedIsAtOnce
<1> HIDE DEF t
<1>6. t = IF R = {} THEN s ELSE Rippled(q, Min(R))
    BY <1>5 DEF RepairedAtOnce, Replacing
<1>7. \A i \in R : alternative[i] \in Alternatives(s[i]) /\ alternative[i] \in Poi
    BY <1>1, <1>4, AlternativesArePoi DEF AlternativesAt
<1>8. R \in SUBSET DOMAIN s
    OBVIOUS
<1>9. \A i \in DOMAIN s : i \in R <=> i \in failed /\ Alternatives(s[i]) # {}
    OBVIOUS
<1>10. /\ q \in Seq(Visit) /\ DOMAIN q = DOMAIN s
       /\ \A i \in DOMAIN s : q[i] = IF i \in R THEN Replaced(s[i], alternative[i]) ELSE s[i]
    <2> HIDE DEF R
    <2>1. q \in Seq(Visit) /\ DOMAIN q = DOMAIN s
        BY <1>7, <1>8, ReplacingVisits
    <2>2. \A i \in DOMAIN s : q[i] = IF i \in R THEN Replaced(s[i], alternative[i]) ELSE s[i]
        BY DEF Replacing
    <2> QED
        BY <2>1, <2>2
<1> HIDE DEF R, q
<1>11. \A i \in DOMAIN s :
          /\ q[i].start = s[i].start /\ q[i].end = s[i].end
          /\ IF i \in R
             THEN q[i].poi \in Alternatives(s[i]) /\ q[i].shadow = NoPoi
             ELSE q[i].poi = s[i].poi /\ q[i].shadow = s[i].shadow
    <2> TAKE i \in DOMAIN s
    <2>1. CASE i \in R
        <3>1. q[i] = Replaced(s[i], alternative[i])
            BY <1>10, <2>1
        <3> QED
            BY <1>1, <1>7, <2>1, <3>1, ReplacedVisit
    <2>2. CASE i \notin R
        BY <1>10, <2>2
    <2> QED
        BY <2>1, <2>2
<1>12. CASE R = {}
    <2>1. t = s
        BY <1>6, <1>12
    <2> QED
        BY <1>5, <1>9, <1>12, <2>1 DEF t
<1>13. CASE R # {}
    <2> DEFINE m == Min(R)
    <2>1. m \in DOMAIN q
        <3>1. R \subseteq Nat
            BY <1>1, <1>8
        <3>2. m \in R
            BY <1>13, <3>1, LeastIsMin
        <3> QED
            BY <1>8, <1>10, <3>2
    <2>2. t = Rippled(q, m)
        BY <1>6, <1>13
    <2> HIDE DEF m
    <2>3. t \in Seq(Visit) /\ DOMAIN t = DOMAIN q
        BY <1>10, <2>1, <2>2, RippledVisits
    <2>4. \A i \in DOMAIN q : t[i].poi = q[i].poi /\ t[i].shadow = q[i].shadow
        BY <1>10, <2>1, <2>2, RippleKeeps
    <2>5. \A i \in DOMAIN s :
             IF i \in failed /\ Alternatives(s[i]) # {}
             THEN t[i].poi \in Alternatives(s[i]) /\ t[i].shadow = NoPoi
             ELSE t[i].poi = s[i].poi /\ t[i].shadow = s[i].shadow
        BY <1>9, <1>10, <1>11, <2>4
    <2>6. ASSUME Follows(s) PROVE Follows(t)
        <3>1. Follows(q)
            BY <1>10, <1>11, <2>6 DEF Follows
        <3> QED
            BY <1>10, <2>1, <2>2, <3>1, RippleOrders
    <2> QED
        BY <1>5, <1>10, <2>3, <2>5, <2>6 DEF t
<1> QED
    BY <1>12, <1>13

-----------------------------------------------------------------------------
(* Every step keeps the invariant *)

\* Nobody touches the draft while it is prepared: there is none.
LEMMA PrepareKeeps ==
    ASSUME Invariant, Prepare, UNCHANGED <<badWeather, window, version, visits, reviser>>
    PROVE  Invariant'
<1>1. /\ TypeOK /\ PreparationTypeOK /\ Prepared /\ Planned
      /\ place \in Places /\ pool \in Seq(Poi) /\ Len(pool) <= Greater(PoolSize, Draws)
    BY Invariant DEF Invariant, TypeOK, PreparationTypeOK
<1>2. step # "planning_engine" /\ version = 0 /\ visits = <<>>
    BY <1>1, Prepare DEF Prepare, ParseIntent, LoadContext, ManageMemory, Retrieve, Planned
<1>3. ASSUME ParseIntent PROVE PreparationTypeOK' /\ Prepared'
    <2>1. intent' \in Seq(ToSet(intent'))
        <3>1. CASE intent' \in Answers
            BY <3>1, AnswersAssumption
        <3>2. CASE \E mentioned \in Mentioned : intent' = KeywordTypes(mentioned)
            BY <3>2, KeywordTypesAreSeq
        <3> QED
            BY <1>3, <3>1, <3>2 DEF ParseIntent
    <2>2. PreparationTypeOK'
        BY <1>1, <1>3 DEF ParseIntent, PreparationTypeOK
    <2>3. intent' \in Seq(ToSet(intent))'
        BY <2>1 DEF ToSet
    <2>4. Prepared'
        BY <1>1, <1>3, <2>3 DEF ParseIntent, Prepared
    <2> QED
        BY <2>2, <2>4
<1>4. ASSUME LoadContext PROVE PreparationTypeOK' /\ Prepared'
    <2>1. profile' \in [intent : {intent}, loaded : {TRUE}, known : BOOLEAN]
        BY <1>4 DEF LoadContext
    <2>2. features' = <<>>
        BY <1>1, <1>4 DEF LoadContext, PreparationTypeOK, Prepared, NoProfile, DefaultIntent
    <2>3. intent' = intent /\ step' = "memory_manager" /\ UNCHANGED <<place, pool>>
        BY <1>4 DEF LoadContext
    <2>4. intent' \in Seq(ToSet(intent))'
        BY <1>1, <2>3 DEF Prepared, ToSet
    <2>5. Prepared'
        BY <2>1, <2>3, <2>4 DEF Prepared
    <2>6. PreparationTypeOK'
        BY <1>1, <2>1, <2>2, <2>3 DEF PreparationTypeOK
    <2> QED
        BY <2>5, <2>6
<1>5. ASSUME ManageMemory PROVE PreparationTypeOK' /\ Prepared'
    <2>1. profile' = profile
        BY <1>5, NothingEnriched DEF ManageMemory, Enhanced, Kept
    <2>2. /\ features' = profile.intent /\ step' = "retrieval_engine"
          /\ UNCHANGED <<place, intent, pool>>
        BY <1>5, <2>1 DEF ManageMemory
    <2>3. profile \in [intent : {intent}, loaded : {TRUE}, known : BOOLEAN]
        BY <1>1, <1>5 DEF ManageMemory, Prepared
    <2>4. intent' \in Seq(ToSet(intent))'
        BY <1>1, <2>2 DEF Prepared, ToSet
    <2>5. Prepared'
        BY <2>1, <2>2, <2>3, <2>4 DEF Prepared
    <2>6. PreparationTypeOK'
        BY <1>1, <2>1, <2>2, <2>3 DEF PreparationTypeOK
    <2> QED
        BY <2>5, <2>6
<1>6. ASSUME Retrieve PROVE PreparationTypeOK' /\ Prepared'
    <2>1. step' = "planning_engine" /\ UNCHANGED <<place, intent, profile, features>>
        BY <1>6 DEF Retrieve
    <2>2. pool' \in Seq(Poi) /\ Len(pool') <= Greater(PoolSize, Draws) /\ pool' # <<>>
        <3>1. PICK top \in Tops :
                 IF Candidates(top, <<>>) = <<>>
                 THEN pool' \in SeedDraws
                 ELSE pool' = SubSeq(Candidates(top, <<>>), 1, Lesser(PoolSize, Len(Candidates(top, <<>>))))
            BY <1>6, NothingEnriched DEF Retrieve, NoProfile, DefaultIntent
        <3> DEFINE c == Candidates(top, <<>>)
        <3>2. c \in Seq(Poi)
            BY <1>1, CandidatesAreSeq
        <3> HIDE DEF c
        <3>3. PoolSize \in Nat \ {0} /\ Draws \in Nat \ {0}
            BY RetrievalAssumption
        <3>4. CASE c = <<>>
            <4>1. pool' \in [1 .. Draws -> Poi]
                BY <3>1, <3>4 DEF c, SeedDraws
            <4>2. pool' \in Seq(Poi) /\ Len(pool') = Draws
                BY <3>3, <4>1
            <4> QED
                BY <3>3, <4>2 DEF Greater
        <3>5. CASE c # <<>>
            <4> DEFINE n == Lesser(PoolSize, Len(c))
            <4>1. pool' = SubSeq(c, 1, n)
                BY <3>1, <3>5 DEF c
            <4>2. Len(c) \in Nat \ {0}
                BY <3>2, <3>5
            <4>3. n \in Nat \ {0} /\ n <= Len(c) /\ n <= PoolSize
                BY <3>3, <4>2 DEF Lesser
            <4> HIDE DEF n
            <4>4. pool' \in Seq(Poi) /\ Len(pool') = n
                BY <3>2, <4>1, <4>3
            <4> QED
                BY <3>3, <4>3, <4>4 DEF Greater
        <3> QED
            BY <3>4, <3>5
    <2>3. profile \in [intent : {intent}, loaded : {TRUE}, known : BOOLEAN]
        BY <1>1, <1>6 DEF Retrieve, Prepared
    <2>4. intent' \in Seq(ToSet(intent))'
        BY <1>1, <2>1 DEF Prepared, ToSet
    <2>5. Prepared'
        BY <2>1, <2>2, <2>3, <2>4 DEF Prepared
    <2>6. PreparationTypeOK'
        BY <1>1, <2>1, <2>2 DEF PreparationTypeOK
    <2> QED
        BY <2>5, <2>6
<1>7. PreparationTypeOK' /\ Prepared'
    BY <1>3, <1>4, <1>5, <1>6, Prepare DEF Prepare
<1>8. UNCHANGED <<badWeather, window, version, visits, reviser>>
    BY UNCHANGED <<badWeather, window, version, visits, reviser>>
<1>9. Planned' /\ InTurn' /\ HardConstraintsKept'
    BY <1>2, <1>8 DEF Planned, InTurn, Follows, HardConstraintsKept
<1>10. TypeOK'
    BY <1>1, <1>7, <1>8 DEF TypeOK
<1> QED
    BY <1>7, <1>9, <1>10 DEF Invariant

\* The planner's draft.
LEMMA PlanKeeps ==
    ASSUME Invariant, NEW ranker \in {"planner", "llm"}, NEW rankings, Plan(ranker, rankings),
           rankings \subseteq Rankings \cup LlmRankings
    PROVE  /\ Invariant'
           /\ \A i \in DOMAIN visits' :
                visits'[i].shadow # NoPoi => visits'[i].shadow \in SameKind(visits'[i].poi)
           /\ rankings = Rankings /\ IsInjective(pool) =>
                \A i, j \in DOMAIN visits' : visits'[i].poi = visits'[j].poi => i = j
<1>1. /\ TypeOK /\ PreparationTypeOK /\ Prepared /\ pool \in Seq(Poi)
      /\ window \in Int /\ badWeather \in BOOLEAN
    BY Invariant, WindowsAssumption DEF Invariant, TypeOK, PreparationTypeOK
<1>2. /\ step = "planning_engine" /\ version' = 1 /\ reviser' = ranker
      /\ UNCHANGED <<place, step, intent, profile, features, pool, badWeather, window>>
    BY Plan(ranker, rankings) DEF Plan, preparation
<1>3. PICK ranking \in rankings : \E shadow \in ShadowChoices(ParetoSort(ranking)) :
         visits' = Generated(ParetoSort(ranking), shadow)
    BY Plan(ranker, rankings) DEF Plan
<1>4. PICK shadow \in ShadowChoices(ParetoSort(ranking)) :
         visits' = Generated(ParetoSort(ranking), shadow)
    BY <1>3
<1>5. ranking \in Rankings \cup LlmRankings /\ (rankings = Rankings => ranking \in Rankings)
    BY <1>3, rankings \subseteq Rankings \cup LlmRankings
<1>6. /\ visits' \in Seq(Visit) /\ Len(visits') <= MaxSlots
      /\ \A i \in DOMAIN visits' :
           /\ Eligible(visits'[i].poi)
           /\ visits'[i].shadow # NoPoi =>
                Eligible(visits'[i].shadow) /\ visits'[i].shadow \in SameKind(visits'[i].poi)
      /\ window >= 0 => Follows(visits')
      /\ ranking \in Rankings /\ IsInjective(pool) =>
           \A i, j \in DOMAIN visits' : visits'[i].poi = visits'[j].poi => i = j
    BY <1>1, <1>4, <1>5, PlannedVisits
<1>7. PreparationTypeOK' /\ Prepared'
    BY <1>1, <1>2 DEF PreparationTypeOK, Prepared, ToSet
<1>8. TypeOK'
    BY <1>1, <1>2, <1>6, <1>7, LimitsAssumption DEF TypeOK
<1>9. Planned' /\ InTurn'
    BY <1>2, <1>6 DEF Planned, InTurn, Follows
<1>10. HardConstraintsKept'
    BY <1>2, <1>6 DEF HardConstraintsKept, Eligible, Outdoor
<1> QED
    BY <1>5, <1>6, <1>7, <1>8, <1>9, <1>10 DEF Invariant

\* The fallback's repairs.
LEMMA RepairKeeps ==
    ASSUME Invariant, NEW failed \in SUBSET DOMAIN visits, Repair(failed)
    PROVE  /\ Invariant'
           /\ DOMAIN visits' = DOMAIN visits
           /\ \A i \in DOMAIN visits :
                IF i \in failed /\ Alternatives(visits[i]) # {}
                THEN visits'[i].poi \in Alternatives(visits[i]) /\ visits'[i].shadow = NoPoi
                ELSE visits'[i].poi = visits[i].poi /\ visits'[i].shadow = visits[i].shadow
<1>1. /\ TypeOK /\ PreparationTypeOK /\ Prepared /\ Planned /\ InTurn /\ HardConstraintsKept
      /\ visits \in Seq(Visit) /\ Len(visits) <= MaxSlots
    BY Invariant DEF Invariant, TypeOK
<1>2. /\ version \in 1 .. MaxRevisions /\ version' = version + 1 /\ reviser' = "fallback"
      /\ UNCHANGED <<place, step, intent, profile, features, pool, badWeather, window>>
    BY Repair(failed) DEF Repair, preparation
<1>3. PICK alternative \in AlternativeChoices(visits, failed), order \in SetToSeqs(failed) :
         visits' = Repaired(visits, order, alternative)
    BY Repair(failed) DEF Repair
<1>4. /\ visits' \in Seq(Visit) /\ DOMAIN visits' = DOMAIN visits
      /\ \A i \in DOMAIN visits :
           IF i \in failed /\ Alternatives(visits[i]) # {}
           THEN visits'[i].poi \in Alternatives(visits[i]) /\ visits'[i].shadow = NoPoi
           ELSE visits'[i].poi = visits[i].poi /\ visits'[i].shadow = visits[i].shadow
      /\ Follows(visits) => Follows(visits')
    BY <1>1, <1>3, RepairedVisits
<1>5. PreparationTypeOK' /\ Prepared'
    BY <1>1, <1>2 DEF PreparationTypeOK, Prepared, ToSet
<1>6. TypeOK'
    <2>1. version' \in 0 .. (MaxRevisions + 1) /\ version' # 0 /\ version # 0
        BY <1>2, LimitsAssumption
    <2>2. Len(visits') = Len(visits)
        BY <1>1, <1>4
    <2> QED
        BY <1>1, <1>2, <1>4, <1>5, <2>1, <2>2 DEF TypeOK
<1>7. Planned' /\ InTurn'
    <2>1. version' # 0 /\ version # 0
        BY <1>2, LimitsAssumption
    <2> QED
        BY <1>1, <1>2, <1>4, <2>1 DEF Planned, InTurn, Follows
<1>8. HardConstraintsKept'
    <2>1. version' # 1
        BY <1>2, LimitsAssumption
    <2> QED
        BY <1>1, <1>2, <1>4, <2>1 DEF HardConstraintsKept, Eligible, Outdoor
<1> QED
    BY <1>4, <1>5, <1>6, <1>7, <1>8 DEF Invariant

LEMMA FirstAlternative ==
    ASSUME NEW v \in Visit, Alternatives(v) # {}
    PROVE  FirstOf(Alternatives(v)) \in Alternatives(v)
<1> DEFINE S == Alternatives(v)
<1>1. S # {} /\ S \subseteq Nat
    BY Alternatives(v) # {}, AlternativesArePoi, NumPoiAssumption DEF Poi
<1> HIDE DEF S
<1>2. \E p \in S : \A q \in S : p <= q
    BY <1>1, LeastNumber
<1>3. FirstOf(S) \in S
    BY <1>2 DEF FirstOf
<1> QED
    BY <1>3 DEF S

\* A visit replaced, once or twice: its times stay, and a shadow is taken.
LEMMA SubstitutedVisit ==
    ASSUME NEW v \in Visit, Alternatives(v) # {}
    PROVE  /\ Substituted(v) \in Visit
           /\ Substituted(v).shadow = v.shadow
           /\ Substituted(v).start = v.start /\ Substituted(v).end = v.end
           /\ Alternatives(Substituted(v)) # {}
           /\ v.shadow # NoPoi => Substituted(v).poi = v.shadow
<1> DEFINE p == FirstOf(Alternatives(v))
<1>1. p \in Alternatives(v) /\ p \in Poi
    BY FirstAlternative, AlternativesArePoi
<1> HIDE DEF p
<1>2. Substituted(v) = [v EXCEPT !.poi = p]
    BY DEF Substituted, p
<1>3. /\ Substituted(v) \in Visit
      /\ Substituted(v).poi = p /\ Substituted(v).shadow = v.shadow
      /\ Substituted(v).start = v.start /\ Substituted(v).end = v.end
    BY <1>1, <1>2 DEF Visit
<1>4. CASE v.shadow # NoPoi
    BY <1>1, <1>2, <1>3, <1>4 DEF Alternatives
<1>5. CASE v.shadow = NoPoi
    <2>1. p \in SameKind(v.poi)
        BY <1>1, <1>5 DEF Alternatives
    <2>2. v.poi \in SameKind(p)
        BY <2>1 DEF SameKind, Visit
    <2> QED
        BY <1>2, <1>3, <1>5, <2>2 DEF Alternatives
<1> QED
    BY <1>3, <1>4, <1>5

LEMMA ReplannedVisit ==
    ASSUME NEW v \in Visit, Alternatives(v) # {}, NEW again
    PROVE  /\ ReplannedSlot(v, again) \in Visit
           /\ ReplannedSlot(v, again).shadow = v.shadow
           /\ ReplannedSlot(v, again).start = v.start /\ ReplannedSlot(v, again).end = v.end
           /\ v.shadow # NoPoi => ReplannedSlot(v, again).poi = v.shadow
<1> DEFINE w == Substituted(v)
<1>1. /\ w \in Visit /\ w.shadow = v.shadow /\ w.start = v.start /\ w.end = v.end
      /\ Alternatives(w) # {}
      /\ v.shadow # NoPoi => w.poi = v.shadow
    BY SubstitutedVisit
<1> HIDE DEF w
<1>2. /\ Substituted(w) \in Visit /\ Substituted(w).shadow = v.shadow
      /\ Substituted(w).start = v.start /\ Substituted(w).end = v.end
      /\ v.shadow # NoPoi => Substituted(w).poi = v.shadow
    BY <1>1, SubstitutedVisit
<1>3. ReplannedSlot(v, again) = IF again THEN Substituted(w) ELSE w
    BY DEF ReplannedSlot, w
<1> QED
    BY <1>1, <1>2, <1>3

\* The user's rejections.
LEMMA ConfirmationReplanKeeps ==
    ASSUME Invariant, NEW rejected \in SUBSET DOMAIN visits, NEW again,
           ConfirmationReplan(rejected, again)
    PROVE  /\ Invariant'
           /\ DOMAIN visits' = DOMAIN visits
           /\ \A i \in DOMAIN visits :
                visits'[i] = IF i \in rejected /\ Alternatives(visits[i]) # {}
                             THEN ReplannedSlot(visits[i], i \in again)
                             ELSE visits[i]
<1>1. /\ TypeOK /\ PreparationTypeOK /\ Prepared /\ Planned /\ InTurn /\ HardConstraintsKept
      /\ visits \in Seq(Visit) /\ Len(visits) <= MaxSlots
    BY Invariant DEF Invariant, TypeOK
<1>2. /\ version \in 1 .. MaxRevisions /\ version' = version + 1 /\ reviser' = "user"
      /\ UNCHANGED <<place, step, intent, profile, features, pool, badWeather, window>>
    BY ConfirmationReplan(rejected, again) DEF ConfirmationReplan, preparation
<1>3. visits' = [i \in DOMAIN visits |->
                    IF i \in rejected /\ Alternatives(visits[i]) # {}
                    THEN ReplannedSlot(visits[i], i \in again)
                    ELSE visits[i]]
    BY ConfirmationReplan(rejected, again) DEF ConfirmationReplan
<1>4. DOMAIN visits = 1 .. Len(visits) /\ Len(visits) \in Nat /\ \A i \in DOMAIN visits : visits[i] \in Visit
    BY <1>1
<1>5. ASSUME NEW i \in DOMAIN visits
      PROVE  /\ visits'[i] \in Visit
             /\ visits'[i].shadow = visits[i].shadow
             /\ visits'[i].start = visits[i].start /\ visits'[i].end = visits[i].end
             /\ \/ visits'[i].poi = visits[i].poi
                \/ visits[i].shadow # NoPoi /\ visits'[i].poi = visits[i].shadow
                \/ visits[i].shadow = NoPoi
    <2>1. CASE i \in rejected /\ Alternatives(visits[i]) # {}
        <3>1. visits'[i] = ReplannedSlot(visits[i], i \in again)
            BY <1>3, <2>1
        <3> QED
            BY <1>4, <2>1, <3>1, ReplannedVisit
    <2>2. CASE ~(i \in rejected /\ Alternatives(visits[i]) # {})
        <3>1. visits'[i] = visits[i]
            BY <1>3, <2>2
        <3> QED
            BY <1>4, <3>1
    <2> QED
        BY <2>1, <2>2
<1>6. visits' \in Seq(Visit) /\ DOMAIN visits' = DOMAIN visits /\ Len(visits') = Len(visits)
    <2>1. DOMAIN visits' = DOMAIN visits /\ visits' = [i \in DOMAIN visits |-> visits'[i]]
        BY <1>3
    <2>2. visits' \in [1 .. Len(visits) -> Visit]
        BY <1>4, <1>5, <2>1
    <2> QED
        BY <1>4, <2>1, <2>2
<1>7. PreparationTypeOK' /\ Prepared'
    BY <1>1, <1>2 DEF PreparationTypeOK, Prepared, ToSet
<1>8. version' \in 0 .. (MaxRevisions + 1) /\ version' # 0 /\ version # 0 /\ version' # 1
    BY <1>2, LimitsAssumption
<1>9. TypeOK'
    BY <1>1, <1>2, <1>6, <1>7, <1>8 DEF TypeOK
<1>10. Planned' /\ InTurn'
    <2>1. Follows(visits) => Follows(visits')
        BY <1>5, <1>6 DEF Follows
    <2> QED
        BY <1>1, <1>2, <1>8, <2>1 DEF Planned, InTurn, Follows
<1>11. HardConstraintsKept'
    BY <1>1, <1>2, <1>5, <1>6, <1>8 DEF HardConstraintsKept, Eligible, Outdoor
<1> QED
    BY <1>3, <1>6, <1>7, <1>9, <1>10, <1>11 DEF Invariant

LEMMA InvariantNext == Invariant /\ [Next]_vars => Invariant'
<1> SUFFICES ASSUME Invariant, [Next]_vars PROVE Invariant'
    OBVIOUS
<1>1. CASE Prepare /\ UNCHANGED <<badWeather, window, version, visits, reviser>>
    BY <1>1, PrepareKeeps
<1>2. CASE Plan("planner", Rankings)
    BY <1>2, PlanKeeps
<1>3. CASE Plan("llm", LlmRankings)
    BY <1>3, PlanKeeps
<1>4. ASSUME NEW failed \in SUBSET DOMAIN visits, Repair(failed) PROVE Invariant'
    BY <1>4, RepairKeeps
<1>5. ASSUME NEW rejected \in SUBSET DOMAIN visits, NEW again, ConfirmationReplan(rejected, again)
      PROVE  Invariant'
    BY <1>5, ConfirmationReplanKeeps
<1>6. CASE UNCHANGED vars
    <2> USE <1>6 DEF vars, preparation
    <2>1. TypeOK'
        BY DEF Invariant, TypeOK, PreparationTypeOK
    <2>2. Prepared' /\ Planned'
        BY DEF Invariant, Prepared, Planned, ToSet
    <2>3. InTurn' /\ HardConstraintsKept'
        BY DEF Invariant, InTurn, Follows, HardConstraintsKept, Eligible, Outdoor
    <2> QED
        BY <2>1, <2>2, <2>3 DEF Invariant
<1> QED
    BY <1>1, <1>2, <1>3, <1>4, <1>5, <1>6 DEF Next

-----------------------------------------------------------------------------
(* The theorems *)

\* The inductive invariant holds in every reachable state.
THEOREM InvariantHolds == Spec => []Invariant
<1>1. Init => Invariant
    BY InvariantInit
<1>2. Invariant /\ [Next]_vars => Invariant'
    BY InvariantNext
<1> QED
    BY <1>1, <1>2, PTL DEF Spec

\* Candidates, profile and draft hold values of their kinds whatever the LLM, the
\* repositories and the user answer, and no draft has more than MaxSlots visits.
THEOREM TypeCorrect == Spec => []TypeOK
<1>1. Invariant => TypeOK
    BY DEF Invariant
<1> QED
    BY <1>1, InvariantHolds, PTL

\* retrieval_engine, context_loader, memory_manager: the planner gets candidates and
\* a loaded profile that begins with the user's own preferences.
THEOREM PlannerIsPreparedHolds == Spec => []PlannerIsPrepared
<1>1. ASSUME Invariant PROVE PlannerIsPrepared
    <2>1. intent \in Seq(ToSet(intent)) /\ Prepared
        BY <1>1 DEF Invariant, Prepared
    <2>2. IsPrefix(intent, intent)
        BY <2>1 DEF IsPrefix
    <2> QED
        BY <2>1, <2>2 DEF Prepared, PlannerIsPrepared
<1> QED
    BY <1>1, InvariantHolds, PTL

\* _generate_slots_with_routes, _ripple_reschedule, _find_replacement_poi: through
\* any repairs and replacements, in any order, no visit begins before another that
\* comes before it is over.
THEOREM VisitsInOrderHolds == Spec => []VisitsInOrder
<1>1. ASSUME Invariant PROVE VisitsInOrder
    <2> SUFFICES ASSUME window >= 0
                 PROVE  /\ \A i \in DOMAIN visits : visits[i].start <= visits[i].end
                        /\ \A i, j \in DOMAIN visits : i < j => visits[i].end <= visits[j].start
        BY DEF VisitsInOrder
    <2>1. visits \in Seq(Visit) /\ Follows(visits)
        BY <1>1 DEF Invariant, TypeOK, InTurn
    <2>2. \A i \in DOMAIN visits : visits[i].start <= visits[i].end
        BY <2>1 DEF Follows
    <2> QED
        BY <2>1, <2>2, FollowsInOrder
<1> QED
    BY <1>1, InvariantHolds, PTL

\* _phase1_hard_filter and select_best_shadow: distance and weather are checked once,
\* and yet hold of every visit whose shadow is not spent, and of that shadow.
THEOREM HardConstraintsKeptHolds == Spec => []HardConstraintsKept
<1>1. Invariant => HardConstraintsKept
    BY DEF Invariant
<1> QED
    BY <1>1, InvariantHolds, PTL

\* FallbackEngine._repair with its ripple: the failures may be recorded in any order.
THEOREM RepairOrderIrrelevantHolds == Spec => []RepairOrderIrrelevant
<1>1. ASSUME Invariant PROVE RepairOrderIrrelevant
    <2>1. visits \in Seq(Visit)
        BY <1>1 DEF Invariant, TypeOK
    <2> QED
        BY <2>1, RepairedVisits DEF RepairOrderIrrelevant
<1> QED
    BY <1>1, InvariantHolds, PTL

LEMMA SlotsAre ==
    ASSUME NEW s \in Seq(Visit)
    PROVE  /\ SlotsOf(s) \in [0 .. (Len(s) - 1) -> Slot]
           /\ \A k \in 0 .. (Len(s) - 1) :
                /\ k + 1 \in DOMAIN s
                /\ SlotsOf(s)[k].poi = s[k + 1].poi /\ SlotsOf(s)[k].shadow = s[k + 1].shadow
                /\ Alternatives(SlotsOf(s)[k]) = Alternatives(s[k + 1])
<1>1. DOMAIN s = 1 .. Len(s) /\ Len(s) \in Nat /\ \A i \in DOMAIN s : s[i] \in Visit
    OBVIOUS
<1>2. \A k \in 0 .. (Len(s) - 1) : k + 1 \in DOMAIN s
    BY <1>1
<1>3. \A k \in 0 .. (Len(s) - 1) :
         /\ SlotsOf(s)[k] \in Slot
         /\ SlotsOf(s)[k].poi = s[k + 1].poi /\ SlotsOf(s)[k].shadow = s[k + 1].shadow
    BY <1>1, <1>2 DEF SlotsOf, Slot, Visit
<1>4. SlotsOf(s) = [k \in 0 .. (Len(s) - 1) |-> SlotsOf(s)[k]]
    BY DEF SlotsOf
<1> QED
    BY <1>2, <1>3, <1>4 DEF Alternatives

\* A visit and its slot, its times left out, are replaced alike.
LEMMA SubstitutedAlike ==
    ASSUME NEW v \in Visit, Alternatives(v) # {}, NEW s \in Slot,
           s.poi = v.poi, s.shadow = v.shadow
    PROVE  /\ Substituted(s) \in Slot
           /\ Substituted(s).poi = Substituted(v).poi /\ Substituted(s).shadow = Substituted(v).shadow
<1>1. Alternatives(s) = Alternatives(v)
    BY DEF Alternatives
<1>2. FirstOf(Alternatives(v)) \in Poi
    BY FirstAlternative, AlternativesArePoi
<1> QED
    BY <1>1, <1>2 DEF Substituted, Slot, Visit

LEMMA ReplannedAlike ==
    ASSUME NEW v \in Visit, Alternatives(v) # {}, NEW s \in Slot,
           s.poi = v.poi, s.shadow = v.shadow, NEW again
    PROVE  /\ ReplannedSlot(s, again) \in Slot
           /\ ReplannedSlot(s, again).poi = ReplannedSlot(v, again).poi
           /\ ReplannedSlot(s, again).shadow = ReplannedSlot(v, again).shadow
<1>1. Substituted(v) \in Visit /\ Alternatives(Substituted(v)) # {}
    BY SubstitutedVisit
<1> QED
    BY <1>1, SubstitutedAlike DEF ReplannedSlot

\* PlanGraph's FreshSlots, RevisedSlots and ReplannedSlots are what planner, fallback
\* and the user's rejections do here, step by step; and the planner repeats no POI
\* that is a candidate only once.
THEOREM DraftsAreAsAssumedHolds == Spec => DraftsAreAsAssumed
<1>1. ASSUME Invariant, [Next]_vars, UNCHANGED vars \/ version = 0
      PROVE  UNCHANGED vars \/ (version' = 1 =>
                /\ Fresh
                /\ IsInjective(pool) /\ reviser' = "planner" =>
                     \A i, j \in DOMAIN visits' : visits'[i].poi = visits'[j].poi => i = j)
    <2>1. CASE version' # 1 \/ UNCHANGED vars
        BY <2>1
    <2>2. ASSUME version' = 1, version = 0, NEW ranker \in {"planner", "llm"}, NEW rankings,
                 Plan(ranker, rankings), rankings \subseteq Rankings \cup LlmRankings,
                 ranker = "planner" => rankings = Rankings
          PROVE  /\ Fresh
                 /\ IsInjective(pool) /\ reviser' = "planner" =>
                      \A i, j \in DOMAIN visits' : visits'[i].poi = visits'[j].poi => i = j
        <3>1. /\ Invariant'
              /\ \A i \in DOMAIN visits' :
                   visits'[i].shadow # NoPoi => visits'[i].shadow \in SameKind(visits'[i].poi)
              /\ rankings = Rankings /\ IsInjective(pool) =>
                   \A i, j \in DOMAIN visits' : visits'[i].poi = visits'[j].poi => i = j
            BY <1>1, <2>2, PlanKeeps
        <3>2. reviser' = ranker
            BY <2>2 DEF Plan
        <3>3. visits' \in Seq(Visit)
            BY <3>1 DEF Invariant, TypeOK
        <3>4. Fresh
            BY <3>1, <3>3, SlotsAre DEF Fresh, FreshSlots
        <3> QED
            BY <2>2, <3>1, <3>2, <3>4
    <2>3. CASE version' = 1 /\ version = 0 /\ Plan("planner", Rankings)
        BY <2>2, <2>3
    <2>4. CASE version' = 1 /\ version = 0 /\ Plan("llm", LlmRankings)
        BY <2>2, <2>4
    <2>5. ASSUME version' = 1, version = 0, ~UNCHANGED vars
          PROVE  Plan("planner", Rankings) \/ Plan("llm", LlmRankings)
        BY <1>1, <2>5 DEF Next, Repair, ConfirmationReplan
    <2> QED
        BY <1>1, <2>1, <2>3, <2>4, <2>5
<1>2. ASSUME Invariant, [Next]_vars, version # 0, ~UNCHANGED vars
      PROVE  \E changed \in SUBSET DOMAIN SlotsOf(visits) :
               \E again \in SUBSET changed : Revised(changed, again)
    <2>1. visits \in Seq(Visit) /\ step = "planning_engine"
        BY <1>2 DEF Invariant, TypeOK, Planned
    <2> DEFINE n == Len(visits)
               Slots(S) == {k \in 0 .. (n - 1) : k + 1 \in S}
    <2>2. /\ n \in Nat /\ DOMAIN visits = 1 .. n
          /\ DOMAIN SlotsOf(visits) = 0 .. (n - 1)
        BY <2>1 DEF SlotsOf
    <2>3. ASSUME NEW failed \in SUBSET DOMAIN visits, Repair(failed)
          PROVE  Revised(Slots(failed), {})
        <3>1. /\ Invariant'
              /\ DOMAIN visits' = DOMAIN visits
              /\ \A i \in DOMAIN visits :
                   IF i \in failed /\ Alternatives(visits[i]) # {}
                   THEN visits'[i].poi \in Alternatives(visits[i]) /\ visits'[i].shadow = NoPoi
                   ELSE visits'[i].poi = visits[i].poi /\ visits'[i].shadow = visits[i].shadow
            BY <1>2, <2>3, RepairKeeps
        <3>2. visits' \in Seq(Visit) /\ Len(visits') = n /\ reviser' = "fallback"
            BY <2>1, <2>3, <3>1 DEF Invariant, TypeOK, Repair
        <3>3. SlotsOf(visits') \in RevisedSlots(SlotsOf(visits), Slots(failed))
            <4> DEFINE a == SlotsOf(visits)
                       b == SlotsOf(visits')
            <4>1. /\ a \in [0 .. (n - 1) -> Slot]
                  /\ \A k \in 0 .. (n - 1) :
                       /\ k + 1 \in DOMAIN visits
                       /\ a[k].poi = visits[k + 1].poi /\ a[k].shadow = visits[k + 1].shadow
                       /\ Alternatives(a[k]) = Alternatives(visits[k + 1])
                BY <2>1, SlotsAre
            <4>2. /\ b \in [0 .. (n - 1) -> Slot]
                  /\ \A k \in 0 .. (n - 1) :
                       b[k].poi = visits'[k + 1].poi /\ b[k].shadow = visits'[k + 1].shadow
                BY <3>2, SlotsAre
            <4> HIDE DEF a, b
            <4>3. ASSUME NEW k \in 0 .. (n - 1)
                  PROVE  IF k \in Slots(failed) /\ Alternatives(a[k]) # {}
                         THEN b[k].poi \in Alternatives(a[k]) /\ b[k].shadow = NoPoi
                         ELSE b[k] = a[k]
                <5>1. k \in Slots(failed) <=> k + 1 \in failed
                    OBVIOUS
                <5> HIDE DEF Slots
                <5>2. CASE k + 1 \in failed /\ Alternatives(visits[k + 1]) # {}
                    BY <3>1, <4>1, <4>2, <5>1, <5>2
                <5>3. CASE ~(k + 1 \in failed /\ Alternatives(visits[k + 1]) # {})
                    <6>1. b[k].poi = a[k].poi /\ b[k].shadow = a[k].shadow
                        BY <3>1, <4>1, <4>2, <5>3
                    <6>2. b[k] \in Slot /\ a[k] \in Slot
                        BY <4>1, <4>2
                    <6>3. b[k] = a[k]
                        BY <6>1, <6>2 DEF Slot
                    <6> QED
                        BY <4>1, <5>1, <5>3, <6>3
                <5> QED
                    BY <5>2, <5>3
            <4> HIDE DEF Slots
            <4> QED
                BY <4>1, <4>2, <4>3 DEF RevisedSlots, a, b
        <3> QED
            BY <3>2, <3>3 DEF Revised
    <2>4. ASSUME NEW rejected \in SUBSET DOMAIN visits, NEW again \in SUBSET rejected,
                 ConfirmationReplan(rejected, again)
          PROVE  Revised(Slots(rejected), Slots(again))
        <3>1. /\ Invariant'
              /\ DOMAIN visits' = DOMAIN visits
              /\ \A i \in DOMAIN visits :
                   visits'[i] = IF i \in rejected /\ Alternatives(visits[i]) # {}
                                THEN ReplannedSlot(visits[i], i \in again)
                                ELSE visits[i]
            BY <1>2, <2>4, ConfirmationReplanKeeps
        <3>2. visits' \in Seq(Visit) /\ Len(visits') = n /\ reviser' = "user"
            BY <2>1, <2>4, <3>1 DEF Invariant, TypeOK, ConfirmationReplan
        <3>3. SlotsOf(visits') = ReplannedSlots([version |-> version, slots |-> SlotsOf(visits)],
                                               Slots(rejected), Slots(again))
            <4> DEFINE a == SlotsOf(visits)
                       b == SlotsOf(visits')
            <4>1. /\ a \in [0 .. (n - 1) -> Slot]
                  /\ \A k \in 0 .. (n - 1) :
                       /\ k + 1 \in DOMAIN visits
                       /\ a[k].poi = visits[k + 1].poi /\ a[k].shadow = visits[k + 1].shadow
                       /\ Alternatives(a[k]) = Alternatives(visits[k + 1])
                BY <2>1, SlotsAre
            <4>2. /\ b \in [0 .. (n - 1) -> Slot]
                  /\ \A k \in 0 .. (n - 1) :
                       b[k].poi = visits'[k + 1].poi /\ b[k].shadow = visits'[k + 1].shadow
                BY <3>2, SlotsAre
            <4> HIDE DEF a, b
            <4>3. ASSUME NEW k \in 0 .. (n - 1)
                  PROVE  b[k] = IF k \in Slots(rejected) /\ Alternatives(a[k]) # {}
                                THEN ReplannedSlot(a[k], k \in Slots(again))
                                ELSE a[k]
                <5>1. /\ k \in Slots(rejected) <=> k + 1 \in rejected
                      /\ k \in Slots(again) <=> k + 1 \in again
                    OBVIOUS
                <5> HIDE DEF Slots
                <5>2. b[k] \in Slot /\ a[k] \in Slot /\ visits[k + 1] \in Visit
                    <6>1. b[k] \in Slot /\ a[k] \in Slot
                        BY <4>1, <4>2
                    <6>2. k + 1 \in DOMAIN visits
                        BY <4>1
                    <6>3. visits[k + 1] \in Visit
                        BY <2>1, <6>2
                    <6> QED
                        BY <6>1, <6>3
                <5>3. CASE k + 1 \in rejected /\ Alternatives(visits[k + 1]) # {}
                    <6>1. visits'[k + 1] = ReplannedSlot(visits[k + 1], k + 1 \in again)
                        BY <3>1, <4>1, <5>3
                    <6>2. /\ b[k].poi = ReplannedSlot(a[k], k + 1 \in again).poi
                          /\ b[k].shadow = ReplannedSlot(a[k], k + 1 \in again).shadow
                          /\ ReplannedSlot(a[k], k + 1 \in again) \in Slot
                        <7>1. /\ a[k] \in Slot /\ visits[k + 1] \in Visit
                              /\ a[k].poi = visits[k + 1].poi /\ a[k].shadow = visits[k + 1].shadow
                            BY <4>1, <5>2
                        <7>2. b[k].poi = visits'[k + 1].poi /\ b[k].shadow = visits'[k + 1].shadow
                            BY <4>2
                        <7> HIDE DEF n
                        <7> QED
                            BY <5>3, <6>1, <7>1, <7>2, ReplannedAlike
                    <6>3. b[k] = ReplannedSlot(a[k], k + 1 \in again)
                        BY <5>2, <6>2 DEF Slot
                    <6>4. (k \in Slots(again)) = (k + 1 \in again)
                        BY <5>1
                    <6> QED
                        BY <4>1, <5>1, <5>3, <6>3, <6>4
                <5>4. CASE ~(k + 1 \in rejected /\ Alternatives(visits[k + 1]) # {})
                    <6>1. visits'[k + 1] = visits[k + 1]
                        BY <3>1, <4>1, <5>4
                    <6>2. b[k] = a[k]
                        BY <4>1, <4>2, <5>2, <6>1 DEF Slot
                    <6> QED
                        BY <4>1, <5>1, <5>4, <6>2
                <5> QED
                    BY <5>3, <5>4
            <4>4. /\ DOMAIN a = 0 .. (n - 1)
                  /\ b = [k \in 0 .. (n - 1) |-> b[k]]
                BY <4>1, <4>2
            <4>5. \A k \in 0 .. (n - 1) :
                     k \in Replaceable([version |-> version, slots |-> a], Slots(rejected))
                         <=> k \in Slots(rejected) /\ Alternatives(a[k]) # {}
                BY <4>4 DEF Replaceable
            <4> HIDE DEF Slots
            <4>6. b = ReplannedSlots([version |-> version, slots |-> a], Slots(rejected), Slots(again))
                BY <4>3, <4>4, <4>5 DEF ReplannedSlots
            <4> QED
                BY <4>6 DEF a, b
        <3> QED
            BY <3>2, <3>3 DEF Revised
    <2>5. /\ \A S : Slots(S) \in SUBSET DOMAIN SlotsOf(visits)
          /\ \A S, T : T \subseteq S => Slots(T) \in SUBSET Slots(S)
        BY <2>2
    <2>6. \/ \E failed \in SUBSET DOMAIN visits : Repair(failed)
          \/ \E rejected \in SUBSET DOMAIN visits : \E again \in SUBSET rejected :
               ConfirmationReplan(rejected, again)
        BY <1>2, <2>1 DEF Next, Plan, Prepare, ParseIntent, LoadContext, ManageMemory, Retrieve
    <2> HIDE DEF Slots
    <2> QED
        BY <2>3, <2>4, <2>5, <2>6
<1>3. Invariant /\ [Next]_vars =>
        [IF version = 0
         THEN version' = 1 =>
              /\ Fresh
              /\ IsInjective(pool) /\ reviser' = "planner" =>
                   \A i, j \in DOMAIN visits' : visits'[i].poi = visits'[j].poi => i = j
         ELSE \E changed \in SUBSET DOMAIN SlotsOf(visits) :
                \E again \in SUBSET changed : Revised(changed, again)]_vars
    BY <1>1, <1>2
<1> QED
    BY <1>3, InvariantHolds, PTL DEF Spec, DraftsAreAsAssumed
=============================================================================
