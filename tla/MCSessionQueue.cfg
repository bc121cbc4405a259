SPECIFICATION Spec
CONSTANTS
    MaxMessages = 3
    MaxTurns = 1
    MaxSteers = 2
    MaxRetries = 1
    MaxStops = 1
    MaxFailures = 1
    MaxCrashes = 0
INVARIANTS
    TypeOK
    NothingLost
    StopKeepsMessagesUnlessItRaises
    DeliveredOncePerConfirmation
    DeliveredInOrder
    NothingStrandedUndisturbed
CHECK_DEADLOCK FALSE
