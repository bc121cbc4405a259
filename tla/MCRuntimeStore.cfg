SPECIFICATION Spec
CONSTANTS
    t1 = t1
    t2 = t2
    r1 = r1
    r2 = r2
    k1 = k1
    l1 = l1
    Threads = {t1, t2}
    Turns = {r1, r2}
    Keys = {k1}
    LedgerSeqs = {l1}
    NoThread = NoThread
    NoTurn = NoTurn
    MaxEvents = 3
    MaxBoot = 2
SYMMETRY StoreSymmetry
INVARIANTS
    TypeOK
    ToolCallsPaired
    NoStaleActive
    TerminalEventsAgree
    UsageBilledOnce
    RowsLinked
    DenseLog
PROPERTIES
    EndedTurnsAreFinal
    LogOnlyGrows
