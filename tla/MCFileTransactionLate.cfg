\* One call whose second journal, or a clean-up after it, fails.
SPECIFICATION SpecLate
CONSTANTS
    Paths = {a, b}
    Contents = {c1, c2}
    NoFile = NoFile
    Unknown = Unknown
    MaxFiles = 2
    MaxCalls = 1
    MaxFaults = 1
SYMMETRY Symmetry
INVARIANTS
    FailedMeansUnchanged
CHECK_DEADLOCK FALSE
