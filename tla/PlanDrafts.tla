----------------------------- MODULE PlanDrafts -----------------------------
(***************************************************************************)
(* The draft of a plan, and what the planner, the user's rejections and    *)
(* the fallback may make of it.                                            *)
(*                                                                         *)
(* A POI is a number, its place in SEED_POIS; a slot keeps its POI and its *)
(* shadow; a draft keeps its version and its slots, numbered from 0.  Time *)
(* ranges (see Itinerary), prices and texts are left out.                  *)
(***************************************************************************)
EXTENDS Integers

CONSTANTS
    NumPoi,            \* how many points of interest SEED_POIS holds
    Kind,              \* POI.type of each of them
    MaxSlots           \* the longest draft the planner makes

Poi == 1 .. NumPoi
NoPoi == 0
Kinds == {"restaurant", "cafe", "attraction", "activity"}

ASSUME NumPoiAssumption == NumPoi \in Nat
ASSUME KindAssumption == Kind \in [Poi -> Kinds]
ASSUME MaxSlotsAssumption == MaxSlots \in Nat

-----------------------------------------------------------------------------

Slot == [poi : Poi, shadow : Poi \cup {NoPoi}]
SlotIndex == 0 .. (MaxSlots - 1)
Draft == [version : Nat, slots : UNION {[0 .. (n - 1) -> Slot] : n \in 0 .. MaxSlots}]
NoDraft == [version |-> 0, slots |-> [i \in {} |-> NoPoi]]

SameKind(p) == {q \in Poi : Kind[q] = Kind[p] /\ q # p}

\* The tools with physical impact: book_table for a restaurant and book_ticket
\* for an activity. "arrive" falls back to search_poi.
Physical(p) == Kind[p] \in {"restaurant", "activity"}

\* What PlanningEngine returns: POIs, one perhaps twice (see Itinerary), each with a
\* shadow of its kind from the ranked pool, or none.
FreshSlots(n) ==
    {s \in [0 .. (n - 1) -> Slot] :
        \A i \in 0 .. (n - 1) : s[i].shadow \in SameKind(s[i].poi) \cup {NoPoi}}
FreshDrafts ==
    {[version |-> 1, slots |-> s] : s \in UNION {FreshSlots(n) : n \in 0 .. MaxSlots}}

\* Mutant: the shadow is taken even where there is none.
AlternativesUnchecked(slot) == {slot.shadow}

\* The POIs that can take a slot's place: its shadow, or one of its kind.
Alternatives(slot) == IF slot.shadow # NoPoi THEN {slot.shadow} ELSE SameKind(slot.poi)

\* _find_replacement_poi takes the first alternative in the order of SEED_POIS.
FirstOf(S) == CHOOSE p \in S : \A q \in S : p <= q
Replaceable(d, rejected) == {i \in DOMAIN d.slots \cap rejected : Alternatives(d.slots[i]) # {}}

\* A slot with another POI; it keeps its shadow.
Substituted(slot) == [slot EXCEPT !.poi = FirstOf(Alternatives(slot))]

\* A list that names a slot twice has it replaced twice, the second time for what
\* the first put there: perhaps by the POI that was rejected.  A third time does
\* what the first did, so that odd or even is all that counts.
ReplannedSlot(slot, again) ==
    IF again THEN Substituted(Substituted(slot)) ELSE Substituted(slot)

\* The slots of a draft after the user's rejections; `again` are those named an even
\* number of times.
ReplannedSlots(d, rejected, again) ==
    [i \in DOMAIN d.slots |->
        IF i \in Replaceable(d, rejected)
        THEN ReplannedSlot(d.slots[i], i \in again)
        ELSE d.slots[i]]

Replanned(d, rejected, again) ==
    [version |-> d.version + 1, slots |-> ReplannedSlots(d, rejected, again)]

\* What FallbackEngine may make of the slots: each failed slot takes an
\* alternative and loses its shadow, the others stay.
RevisedSlots(slots, failed) ==
    {t \in [DOMAIN slots -> Slot] :
        \A i \in DOMAIN slots :
            IF i \in failed /\ Alternatives(slots[i]) # {}
            THEN t[i].poi \in Alternatives(slots[i]) /\ t[i].shadow = NoPoi
            ELSE t[i] = slots[i]}

FallbackRevisions(d, failed) ==
    {[version |-> d.version + 1, slots |-> s] : s \in RevisedSlots(d.slots, failed)}
=============================================================================
