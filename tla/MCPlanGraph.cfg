\* Both graphs, with and without the saga; drafts of up to two slots.
CONSTANTS
    NumPoi = 3
    Kind <- MCKind
    MaxSlots = 2
    FallbackMaxRetry = 2
    MaxReplans = 2
SPECIFICATION Spec
INVARIANTS
    TypeOK
    ShownIsCurrent
    EndIsJustified
PROPERTIES
    OnlyApprovedIsBooked
    AnsweredRunEnds
    ContractSpec
CHECK_DEADLOCK FALSE
