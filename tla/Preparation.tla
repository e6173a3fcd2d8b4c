---------------------------- MODULE Preparation ----------------------------
(***************************************************************************)
(* What the graph does before it plans: IntentParser, ContextLoader,       *)
(* MemoryManager and RetrievalEngine, one after the other, each in a node  *)
(* of its own or all in planner_node.  An engine learns what the others    *)
(* found from its context's history, by the key of the datum; the nodes    *)
(* write that history anew for each engine.                                *)
(*                                                                         *)
(* An intent is its type preferences; the rest of it takes the same way.   *)
(* LLM and repositories are external: they answer or fail.                 *)
(***************************************************************************)
EXTENDS PlanDrafts, FiniteSets, SequencesExt

CONSTANTS
    Answers,        \* the type preferences an LLM may find in the user's words
    Mentioned,      \* the sets of types the words may hold keywords of
    Past,           \* the types the user's history may hold
    Places,         \* where the user may be: the POIs in reach, and those close
    PerType,        \* candidates of one type: 5
    PoolSize,       \* candidates in all: 20
    Draws           \* seeds drawn when there is no candidate: 5

ASSUME AnswersAssumption == \A answer \in Answers : answer \in Seq(ToSet(answer))
ASSUME MentionedAssumption == Mentioned \subseteq SUBSET Kinds
\* Within 15 km, and within 20 km.
ASSUME PlacesAssumption ==
    \A p \in Places : p.reach \subseteq p.close /\ p.close \subseteq Poi
ASSUME RetrievalAssumption == PerType \in Nat /\ PoolSize \in Nat \ {0} /\ Draws \in Nat \ {0}

VARIABLES
    place,      \* lat and lng of the request
    step,       \* the engine to run next
    intent,     \* PlanState.intent
    profile,    \* PlanState.context_profile: the enriched intent
    features,   \* PlanState.memory_features.boosted_type_prefs
    pool        \* PlanState.candidate_pool

preparation == <<place, step, intent, profile, features, pool>>

AllTypes == <<"restaurant", "cafe", "attraction", "activity">>
DefaultIntent == <<>>
NoProfile == [intent |-> DefaultIntent, loaded |-> FALSE, known |-> FALSE]

PreparationInit ==
    /\ place \in Places
    /\ step = "intent_parser"
    /\ intent = DefaultIntent
    /\ profile = NoProfile
    /\ features = <<>>
    /\ pool = <<>>

Lesser(a, b) == IF a < b THEN a ELSE b
Greater(a, b) == IF a > b THEN a ELSE b

\* [x for x in s if x in S], as a recursive function: the provers know no SelectSeq.
Only(s, S) ==
    LET kept[n \in 0 .. Len(s)] ==
            IF n = 0 THEN <<>>
            ELSE IF s[n] \in S THEN Append(kept[n - 1], s[n]) ELSE kept[n - 1]
    IN kept[Len(s)]

\* for h in reversed(context.history): if key in h.data
Latest(history, key) ==
    LET holding == {k \in DOMAIN history : key \in DOMAIN history[k]}
    IN IF holding = {} THEN NoProfile ELSE history[Max(holding)][key]

-----------------------------------------------------------------------------
(* Intent, profile and memory *)

\* _parse_via_keywords: the types in the order of the table.
KeywordTypes(mentioned) == Only(AllTypes, mentioned)

\* IntentParser: the LLM's answer; if there is none in time, or it makes no intent,
\* the keywords'.
ParseIntent ==
    /\ step = "intent_parser"
    /\ intent' \in Answers \cup {KeywordTypes(mentioned) : mentioned \in Mentioned}
    /\ step' = "context_loader"
    /\ UNCHANGED <<place, profile, features, pool>>

\* ContextLoader: the stored profile of a known user; the default one if there is
\* no repository, no such user or an error.
LoadContext ==
    /\ step = "context_loader"
    /\ profile' \in [intent : {intent}, loaded : {TRUE}, known : BOOLEAN]
    /\ step' = "memory_manager"
    /\ UNCHANGED <<place, intent, features, pool>>

\* _merge_prefs
Merged(current, past) == current \o Only(past, ToSet(past) \ ToSet(current))

\* MemoryManager.execute: no data without an enriched intent in the history; past is
\* empty where the repository is missing or fails.
Enhanced(history, past) ==
    LET given == Latest(history, "enriched_intent")
    IN IF given = NoProfile THEN NoProfile ELSE [given EXCEPT !.intent = Merged(@, past)]

\* memory_manager_node: the profile stays when the engine returned none.
Kept(enhanced) == IF enhanced = NoProfile THEN profile ELSE enhanced

\* memory_manager_node hands over the profile as "context_profile".
ManageMemory ==
    /\ step = "memory_manager"
    /\ \E past \in Past \cup {<<>>} :
        profile' = Kept(Enhanced(<<[intent |-> intent], [context_profile |-> profile]>>, past))
    /\ features' = profile'.intent
    /\ step' = "retrieval_engine"
    /\ UNCHANGED <<place, intent, pool>>

-----------------------------------------------------------------------------
(* Candidates *)

OfType(type, S) == {p \in S : Kind[p] = type}

\* The candidates there may be: of each type the first PerType in reach.  The catalogue
\* is the seeds: _search_pois asks its port for the intent's "query", which no intent
\* has, and takes the seeds when that raises.
Tops ==
    {top \in SUBSET place.reach : \A type \in Kinds :
        Cardinality(OfType(type, top)) = Lesser(PerType, Cardinality(OfType(type, place.reach)))}

\* _build_candidates: type by type as preferred, none for an unknown type.
Candidates(top, prefs) ==
    LET types == IF prefs = <<>> THEN AllTypes ELSE prefs
    IN FlattenSeq([k \in DOMAIN types |-> SetToSeq(OfType(types[k], top))])

\* Mutant: no candidates, no seeds.
NoSeeds == {<<>>}

\* _fallback_seeds draws with repetition, and from any city; the order is left out.
SeedDraws == {draw \in [1 .. Draws -> Poi] : \A k \in 2 .. Draws : draw[k - 1] <= draw[k]}

\* retrieval_engine_node hands over the profile as "context_profile" as well, twice;
\* the engine looks for an "enriched_intent" and goes on with the default intent.
Retrieve ==
    LET history == <<[intent |-> intent], [context_profile |-> profile], [context_profile |-> profile]>>
        prefs == Latest(history, "enriched_intent").intent
    IN
    /\ step = "retrieval_engine"
    /\ \E top \in Tops :
        IF Candidates(top, prefs) = <<>>
        THEN pool' \in SeedDraws
        ELSE pool' = SubSeq(Candidates(top, prefs), 1, Lesser(PoolSize, Len(Candidates(top, prefs))))
    /\ step' = "planning_engine"
    /\ UNCHANGED <<place, intent, profile, features>>

Prepare == ParseIntent \/ LoadContext \/ ManageMemory \/ Retrieve

-----------------------------------------------------------------------------
(* Properties *)

PreparationTypeOK ==
    /\ place \in Places
    /\ step \in {"intent_parser", "context_loader", "memory_manager",
                 "retrieval_engine", "planning_engine"}
    /\ profile.loaded \in BOOLEAN /\ profile.known \in BOOLEAN
    /\ features = <<>> \/ features = profile.intent
    /\ pool \in Seq(Poi) /\ Len(pool) <= Greater(PoolSize, Draws)

\* Whatever fails on the way, the planner gets candidates, and a profile with what the
\* user asked for, first things first: nodes that pass results on under changing keys
\* have lost neither.
PlannerIsPrepared ==
    step = "planning_engine" =>
        /\ pool # <<>>
        /\ profile.loaded /\ IsPrefix(intent, profile.intent)

\* agent/engines/retrieval_engine.py:4 says that the retrieval reads the enriched
\* intent for the city, the type preferences and the search keywords: where POIs of
\* a preferred type are in reach, the candidates are of preferred types.
PreferencesReachRetrieval ==
    /\ step = "planning_engine"
    /\ \E type \in ToSet(intent) : OfType(type, place.reach) # {}
    => \A k \in DOMAIN pool : Kind[pool[k]] \in ToSet(intent)
=============================================================================
