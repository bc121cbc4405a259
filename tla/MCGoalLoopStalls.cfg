\* Three automatic turns, the default of the code, and nobody who interferes.
CONSTANTS
    Criteria = {"tests"}
    Budget = 3
    Least = 1
    Most = 2
    MaxAutoTurns = 3
    MaxWaits = 2
    MaxGoals = 1
    MaxRuns = 3
    MaxActs = 0
    MaxOutside = 0
    MaxCrashes = 0
SPECIFICATION Spec
CHECK_DEADLOCK FALSE
PROPERTIES
    AllowedTurnFollows
