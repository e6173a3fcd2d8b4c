SPECIFICATION Spec
CONSTANT Plans <- MCPlans
INVARIANTS
    TypeOK
    FullSuccessIsBooked
    RecordsAgree
CHECK_DEADLOCK FALSE
