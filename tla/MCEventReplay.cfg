SPECIFICATION FairSpec
CONSTANTS
    w1 = w1
    w2 = w2
    Writers = {w1, w2}
    BatchSize = 2
    MaxSeq = 3
    MaxConns = 3
    MaxCancels = 1
    MaxFailures = 1
INVARIANTS
    TypeOK
    CursorConfirmsDelivered
    HandoverLosesNothing
PROPERTIES
    ImplementsOrderedDelivery
    EventuallyDelivered
CHECK_DEADLOCK FALSE
