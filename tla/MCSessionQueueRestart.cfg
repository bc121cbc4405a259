SPECIFICATION FairSpec
CONSTANTS
    MaxMessages = 2
    MaxTurns = 1
    MaxSteers = 1
    MaxRetries = 0
    MaxStops = 1
    MaxFailures = 1
    MaxCrashes = 1
INVARIANTS
    DeliveredOncePerConfirmation
    DispatchingIsOwnedUndisturbed
PROPERTIES
    QueueDrainsUndisturbed
    StopEnds
CHECK_DEADLOCK FALSE
