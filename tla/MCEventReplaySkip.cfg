SPECIFICATION Spec
CONSTANTS
    w1 = w1
    w2 = w2
    Writers = {w1, w2}
    BatchSize = 2
    MaxSeq = 3
    MaxConns = 2
    MaxCancels = 1
    MaxFailures = 0
INVARIANTS
    CursorNeverSkips
CHECK_DEADLOCK FALSE
