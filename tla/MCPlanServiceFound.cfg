SPECIFICATION Spec
CONSTANTS
    w1 = w1
    Worker = {w1}
    MaxConfirms = 2
    MaxFaults = 1
    MaxEvents = 2
INVARIANT
    WaitingPlanIsFound
CHECK_DEADLOCK FALSE
