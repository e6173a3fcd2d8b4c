\* Five candidates of a type, twenty in all, ten shortlisted, three leaders and four slots, all scaled down.
SPECIFICATION Spec
CONSTANTS
    NumPoi = 7
    Kind <- MCKind
    MaxSlots = 3
    Places <- MCPlaces
    Answers <- MCAnswers
    Mentioned <- MCMentioned
    Past <- MCPast
    PerType = 2
    PoolSize = 5
    Draws = 3
    LlmAnswer = 2
    CostScore <- MCCost
    Experience <- MCExperience
    Travel <- MCTravel
    MinMove = 2
    Windows <- MCWindows
    SlotCap = 6
    ShortlistSize = 4
    Leaders = 2
    MaxRevisions = 2
INVARIANTS
    PreferencesReachRetrieval
CHECK_DEADLOCK FALSE
