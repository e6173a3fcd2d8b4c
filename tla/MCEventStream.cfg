SPECIFICATION Spec
CONSTANTS
    c1 = c1
    Stream = {c1}
    Length = 5
INVARIANTS
    TypeOK
    OrderedStream
    MissedAtHandoverOnly
    CompletionCloses
PROPERTIES
    CompletionEndsStream
CHECK_DEADLOCK FALSE
