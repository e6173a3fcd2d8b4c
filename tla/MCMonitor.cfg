SPECIFICATION Spec
CONSTANTS
    Moves = {16, 31}
    Tenths = {0, 5, 10}
    QueueLength = {10, 11, 21}
    Weather = {"sunny", "rainy", "stormy"}
    MaxSlots = 2
    MaxLate = 1
INVARIANTS
    TypeOK
    FailedCheckHidesNone
PROPERTIES
    LoopEnds
CHECK_DEADLOCK FALSE
