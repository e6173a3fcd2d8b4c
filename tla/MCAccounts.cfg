SPECIFICATION Spec
CONSTANTS
    q1 = q1
    q2 = q2
    q3 = q3
    q4 = q4
    Request = {q1, q2, q3, q4}
    Email = {"e1"}
    Preference = {"none", "lively"}
    NoWishes = "none"
    MaxTokens = 5
    MaxPlans = 3
    PageSize = 1
SYMMETRY MCSymmetry
INVARIANTS
    TypeOK
    ExchangedTokensAreGone
    ChangedPreferencesAnnounced
    PagingMissesNothing
PROPERTIES
    EndedSessionsStayEnded
CHECK_DEADLOCK FALSE
