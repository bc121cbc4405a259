\* One goal, two automatic turns a consent, a budget of one call and a half.
CONSTANTS
    Criteria = {"tests"}
    Budget = 3
    Least = 1
    Most = 2
    MaxAutoTurns = 2
    MaxWaits = 2
    MaxGoals = 1
    MaxRuns = 4
    MaxActs = 2
    MaxOutside = 1
    MaxCrashes = 1
SPECIFICATION Spec
CHECK_DEADLOCK FALSE
INVARIANTS
    TypeOK
    BudgetHolds
    LeasesAreLive
    RunIsOwned
    Consented
PROPERTIES
    ContinuationEnds
