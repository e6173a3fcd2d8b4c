\* A slot booked again by the second attempt, without the saga.
CONSTANTS
    NumPoi = 3
    Kind <- MCKind
    MaxSlots = 2
    FallbackMaxRetry = 2
    MaxReplans = 2
SPECIFICATION Spec
INVARIANT
    NoDoubleBooking
CHECK_DEADLOCK FALSE
