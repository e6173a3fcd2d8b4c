SPECIFICATION Spec
CONSTANTS
    r1 = r1
    r2 = r2
    w1 = w1
    w2 = w2
    s1 = s1
    s2 = s2
    s3 = s3
    Run = {r1, r2}
    Worker = {w1, w2}
    Session = {s1, s2, s3}
    UserOf <- MCUserOf
    Plans <- MCTwice
    RedisMayFail = FALSE
    SagaMayHang = FALSE
    MaxCrashes = 0
SYMMETRY MCSymmetry
INVARIANTS
    TypeOK
    LocksExclude
    KeysMatchUse
    FailedRunIsUndone
CHECK_DEADLOCK FALSE
