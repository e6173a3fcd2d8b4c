SPECIFICATION Spec
CONSTANTS
    r1 = r1
    r2 = r2
    w1 = w1
    w2 = w2
    s1 = s1
    s2 = s2
    s3 = s3
    Run = {r1}
    Worker = {w1}
    Session = {s1}
    UserOf <- MCUserOf
    Plans <- MCPlans
    RedisMayFail = TRUE
    SagaMayHang = TRUE
    MaxCrashes = 1
PROPERTIES
    EveryRunEnds
    LocksComeFree
CHECK_DEADLOCK FALSE
