----------------------------- MODULE Itinerary -----------------------------
(***************************************************************************)
(* Which POIs get into a draft, in which order and when: after Preparation *)
(* PlanningEngine's filter, ranking, Pareto sort and time axis, then the   *)
(* fallback's repair with its ripple, and the replacement of slots the     *)
(* user rejects.                                                           *)
(*                                                                         *)
(* A visit is a PlanSlot; its times count from the start of the window.    *)
(* Scores only order POIs, and the scores of filter and ranking, which mix *)
(* distance, mood, weather and hour, may order them in any way; of the     *)
(* Pareto sort's four dimensions two are the same for every POI.  The      *)
(* engine may have an LLM to rank with; the graph wires none in.           *)
(***************************************************************************)
EXTENDS Preparation

CONSTANTS
    LlmAnswer,      \* bound: POIs an LLM's answer names
    CostScore,      \* the two dimensions that differ,
    Experience,     \* as functions of the POI
    Travel,         \* minutes between two POIs
    MinMove,        \* the shortest move: 5
    Windows,        \* lengths an intent's time window may have
    SlotCap,        \* the longest visit: 90
    ShortlistSize,  \* POIs the filter lets through: 10
    Leaders,        \* POIs the Pareto sort may put first: 3
    MaxRevisions    \* bound: repairs and replacements of one draft

\* A longer answer of an LLM would be sorted again by its own scores.
ASSUME LlmAssumption == LlmAnswer \in 0 .. Leaders
ASSUME ScoresAssumption == CostScore \in [Poi -> Nat] /\ Experience \in [Poi -> Nat]
ASSUME TravelAssumption == Travel \in [Poi \X Poi -> Nat]
ASSUME WindowsAssumption == Windows \subseteq Int
ASSUME LimitsAssumption ==
    /\ MinMove \in Nat /\ SlotCap \in Nat
    /\ ShortlistSize \in Nat /\ Leaders \in Nat /\ MaxRevisions \in Nat

VARIABLES
    badWeather,   \* RealTimeContext: outdoor_score < 0.3
    window,       \* end_time - start_time
    version,      \* PlanDraft.version, 0 before there is a draft
    visits,       \* PlanDraft.slots
    reviser       \* history: who made the draft what it is

vars == <<preparation, badWeather, window, version, visits, reviser>>

-----------------------------------------------------------------------------
(* Which POIs *)

Outdoor(p) == Kind[p] \in {"attraction", "activity"}
Eligible(p) == p \in place.close /\ ~(badWeather /\ Outdoor(p))

\* _phase1_hard_filter: the best of the eligible candidates, by their place in the pool.
Shortlists ==
    LET eligible == {k \in DOMAIN pool : Eligible(pool[k])} IN
    kSubset(Lesser(ShortlistSize, Cardinality(eligible)), eligible)

\* _phase2_route_scoring: the score may put them in any order ...
Rankings == UNION {{[n \in DOMAIN s |-> pool[s[n]]] : s \in SetToSeqs(S)} : S \in Shortlists}

\* ... and an LLM may name any of them in any order, and one twice.
LlmRankings == UNION {[1 .. n -> {pool[k] : k \in S}] : n \in 1 .. LlmAnswer, S \in Shortlists}

Dominates(q, p) ==
    /\ CostScore[q] >= CostScore[p] /\ Experience[q] >= Experience[p]
    /\ CostScore[q] > CostScore[p] \/ Experience[q] > Experience[p]

\* extract_pareto_frontier, in the order of its argument.
Frontier(order) ==
    Only(order, {p \in ToSet(order) : \A q \in ToSet(order) : q = p \/ ~Dominates(q, p)})

\* Mutant: the leaders are merged with all candidates.
ParetoSortMergingAll(order) ==
    IF Len(order) <= Leaders
    THEN order
    ELSE SubSeq(Frontier(order), 1, Lesser(Leaders, Len(Frontier(order)))) \o order

\* _phase3_pareto_sort: sorting by score keeps the order of the ranking, which
\* is by score.
ParetoSort(order) ==
    LET front == Frontier(order)
        leading == SubSeq(front, 1, Lesser(Leaders, Len(front)))
    IN
    IF Len(order) <= Leaders
    THEN order
    ELSE leading \o Only(order, ToSet(order) \ ToSet(leading))

-----------------------------------------------------------------------------
(* When *)

Visit == [poi : Poi, shadow : Poi \cup {NoPoi}, start : Int, end : Int, move : Nat]

\* _get_travel_time
Move(p, q) == Greater(MinMove, Travel[p, q])

\* Mutant: as many visits as there are POIs.
CountUncapped(order) == Len(order)

Count(order) == Lesser(Len(order), MaxSlots)

\* The visits one after the other, if all were made.
Timed(order, shadow) ==
    LET duration == Lesser(window \div Greater(Count(order), 1), SlotCap)
        At(i, start, move) ==
            [poi |-> order[i], shadow |-> shadow[order[i]],
             start |-> start + move, end |-> start + move + duration, move |-> move]
        visit[i \in 1 .. Count(order)] ==
            IF i = 1
            THEN At(1, 0, 0)
            ELSE At(i, visit[i - 1].end, Move(order[i - 1], order[i]))
    IN visit

\* _generate_slots_with_routes: no further visit once the window is over.
Generated(order, shadow) ==
    LET timed == Timed(order, shadow)
        made == {i \in DOMAIN timed : \A j \in 1 .. (i - 1) : timed[j].end < window}
    IN SubSeq(timed, 1, Cardinality(made))

\* Mutant: the shadow comes from the whole catalogue.
ShadowsFromCatalogue(order, p) == SameKind(p)

ShadowsFrom(order, p) == ToSet(order) \cap SameKind(p)

\* select_best_shadow: one of them, for each POI
ShadowChoice(order, p) ==
    IF ShadowsFrom(order, p) = {} THEN {NoPoi} ELSE ShadowsFrom(order, p)
ShadowChoices(order) ==
    LET pois == ToSet(order) IN
    {shadow \in [pois -> UNION {ShadowChoice(order, p) : p \in pois}] :
        \A p \in pois : shadow[p] \in ShadowChoice(order, p)}

-----------------------------------------------------------------------------
(* Repairs *)

\* Mutant: only the next visit is put off.
RippledOnce(s, changed) ==
    [i \in DOMAIN s |->
        IF i = changed + 1
        THEN LET delay == Greater(0, s[i - 1].end + s[i - 1].move - s[i].start)
             IN [s[i] EXCEPT !.start = @ + delay, !.end = @ + delay]
        ELSE s[i]]

\* Mutant: a visit put off keeps its end.
RippledStartOnly(s, changed) ==
    LET visit[i \in DOMAIN s] ==
            IF i <= changed
            THEN s[i]
            ELSE LET before == visit[i - 1]
                     delay == Greater(0, before.end + before.move - s[i].start)
                 IN [s[i] EXCEPT !.start = @ + delay]
    IN [i \in DOMAIN s |-> visit[i]]

\* _ripple_reschedule, which adds the move to the visit before, not to the next.
Rippled(s, changed) ==
    LET visit[i \in DOMAIN s] ==
            IF i <= changed
            THEN s[i]
            ELSE LET before == visit[i - 1]
                     delay == Greater(0, before.end + before.move - s[i].start)
                 IN [s[i] EXCEPT !.start = @ + delay, !.end = @ + delay]
    IN [i \in DOMAIN s |-> visit[i]]

Replaced(visit, p) == [visit EXCEPT !.poi = p, !.shadow = NoPoi]

\* One round of FallbackEngine._repair: alternatives are those of the draft.
RepairedAt(draft, s, i, p) ==
    IF Alternatives(draft[i]) = {} THEN s ELSE Rippled([s EXCEPT ![i] = Replaced(@, p)], i)

\* ... and all of them, in the order in which the failures were recorded.
Repaired(draft, failed, alternative) ==
    LET after[n \in 0 .. Len(failed)] ==
            IF n = 0 THEN draft
            ELSE RepairedAt(draft, after[n - 1], failed[n], alternative[failed[n]])
    IN after[Len(failed)]

AlternativesAt(draft, i) ==
    IF Alternatives(draft[i]) = {} THEN {NoPoi} ELSE Alternatives(draft[i])

AlternativeChoices(draft, failed) ==
    {alternative \in [failed -> UNION {AlternativesAt(draft, i) : i \in failed}] :
        \A i \in failed : alternative[i] \in AlternativesAt(draft, i)}

-----------------------------------------------------------------------------
(* Actions *)

Init ==
    /\ PreparationInit
    /\ badWeather \in BOOLEAN
    /\ window \in Windows
    /\ version = 0
    /\ visits = <<>>
    /\ reviser = "nobody"

\* PlanningEngine.execute: after a ranking by score or by an LLM.
Plan(ranker, rankings) ==
    /\ step = "planning_engine"
    /\ version = 0
    /\ \E ranking \in rankings :
        LET order == ParetoSort(ranking) IN
        \E shadow \in ShadowChoices(order) :
            visits' = Generated(order, shadow)
    /\ version' = 1
    /\ reviser' = ranker
    /\ UNCHANGED <<preparation, badWeather, window>>

\* FallbackEngine.execute
Repair(failed) ==
    /\ version \in 1 .. MaxRevisions
    /\ \E alternative \in AlternativeChoices(visits, failed), order \in SetToSeqs(failed) :
        visits' = Repaired(visits, order, alternative)
    /\ version' = version + 1
    /\ reviser' = "fallback"
    /\ UNCHANGED <<preparation, badWeather, window>>

\* maybe_apply_confirmation_replan, when it changes something: times stay.
ConfirmationReplan(rejected, again) ==
    LET replaced == {i \in rejected : Alternatives(visits[i]) # {}} IN
    /\ version \in 1 .. MaxRevisions
    /\ replaced # {}
    /\ visits' = [i \in DOMAIN visits |->
                    IF i \in replaced
                    THEN ReplannedSlot(visits[i], i \in again)
                    ELSE visits[i]]
    /\ version' = version + 1
    /\ reviser' = "user"
    /\ UNCHANGED <<preparation, badWeather, window>>

Next ==
    \/ Prepare /\ UNCHANGED <<badWeather, window, version, visits, reviser>>
    \/ Plan("planner", Rankings)
    \/ Plan("llm", LlmRankings)
    \/ \E failed \in SUBSET DOMAIN visits : Repair(failed)
    \/ \E rejected \in SUBSET DOMAIN visits :
         \E again \in SUBSET rejected : ConfirmationReplan(rejected, again)

Spec == Init /\ [][Next]_vars

-----------------------------------------------------------------------------
(* Properties *)

\* Every variable holds a value of its kind, and a draft has MaxSlots visits at most.
TypeOK ==
    /\ badWeather \in BOOLEAN
    /\ window \in Windows
    /\ PreparationTypeOK
    /\ version \in 0 .. (MaxRevisions + 1)
    /\ reviser \in {"nobody", "planner", "llm", "fallback", "user"}
    /\ visits \in Seq(Visit) /\ Len(visits) <= MaxSlots

\* Whatever is repaired or replaced, in whichever order, no visit begins before
\* the one before it is over.  (The code lets a window end before it begins.)
VisitsInOrder ==
    window >= 0 =>
        /\ \A i \in DOMAIN visits : visits[i].start <= visits[i].end
        /\ \A i, j \in DOMAIN visits : i < j => visits[i].end <= visits[j].start

\* The hard constraints hold of every visit of a fresh draft; afterwards of every
\* visit that still has a shadow, and of the shadow: taking it needs no new check.
HardConstraintsKept ==
    \A i \in DOMAIN visits :
        /\ version = 1 \/ visits[i].shadow # NoPoi => Eligible(visits[i].poi)
        /\ visits[i].shadow # NoPoi => Eligible(visits[i].shadow)

SlotsOf(s) == [i \in 0 .. (Len(s) - 1) |-> [poi |-> s[i + 1].poi, shadow |-> s[i + 1].shadow]]

\* All failures repaired at once, and what follows the first put off once.
RepairedAtOnce(s, failed, alternative) ==
    LET repaired == {i \in failed : Alternatives(s[i]) # {}}
        replaced == [i \in DOMAIN s |-> IF i \in repaired THEN Replaced(s[i], alternative[i]) ELSE s[i]]
    IN IF repaired = {} THEN s ELSE Rippled(replaced, Min(repaired))

\* The order in which the failures were recorded does not matter: repaired one by
\* one, each with its ripple, the draft is the same, times included.
RepairOrderIrrelevant ==
    version \in 1 .. MaxRevisions =>
        \A failed \in SUBSET DOMAIN visits :
            \A alternative \in AlternativeChoices(visits, failed), order \in SetToSeqs(failed) :
                Repaired(visits, order, alternative)
                    = RepairedAtOnce(visits, failed, alternative)

\* PlanGraph's drafts, times left out.
Fresh == SlotsOf(visits') \in FreshSlots(Len(visits'))
Revised(changed, again) ==
    LET slots == SlotsOf(visits) IN
    IF reviser' = "fallback"
    THEN SlotsOf(visits') \in RevisedSlots(slots, changed)
    ELSE SlotsOf(visits') = ReplannedSlots([version |-> version, slots |-> slots], changed, again)

\* What the planner returns, what the fallback makes of it and what the user's
\* rejections make of it is what PlanGraph lets them; and a fresh draft visits a POI
\* twice only if it was a candidate twice or the LLM named it twice.
DraftsAreAsAssumed ==
    [][IF version = 0
       THEN version' = 1 =>
            /\ Fresh
            /\ IsInjective(pool) /\ reviser' = "planner" =>
                 \A i, j \in DOMAIN visits' : visits'[i].poi = visits'[j].poi => i = j
       ELSE \E changed \in SUBSET DOMAIN SlotsOf(visits) :
              \E again \in SUBSET changed : Revised(changed, again)]_vars
=============================================================================
