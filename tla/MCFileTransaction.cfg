\* Two files that may exist or not, two calls, and among their steps
\* two crashes, failing file operations or edits by another program.
SPECIFICATION Spec
CONSTANTS
    Paths = {a, b}
    Contents = {c1, c2}
    NoFile = NoFile
    Unknown = Unknown
    MaxFiles = 2
    MaxCalls = 2
    MaxFaults = 2
SYMMETRY Symmetry
INVARIANTS
    TypeOK
    UndoReachesStart
    BackupsAreJournalled
PROPERTIES
    ImplementsAtomicWorkspace
CHECK_DEADLOCK FALSE
