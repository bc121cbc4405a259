SPECIFICATION Spec
CONSTANTS
    root = root
    both = both
    again = again
    ask = ask
    gate = gate
    write = write
    review = review
    choose = choose
    yes = yes
    no = no
    goal = goal
    Workers <- TreeWorkers
    Nodes <- TreeNodes
    Root = root
    Goal = goal
    Kind <- TreeKind
    Kids <- TreeKids
    Source <- AskedNode
    Limit <- AtMost2
    Answers <- TreeAnswers
    Cost <- TreeCost
    Slots = 1
    WorkerAttempts = 2
    TokenBudget = 4
    Concurrency = 2
    Backoff = TRUE
    MaxRuns = 2
INVARIANTS
    TypeOK
CHECK_DEADLOCK FALSE
INVARIANTS
    ProcessesBelong
    CompletedWithinBudget
PROPERTIES
    AcceptedResultsStand
    GraphPromise
    Settles
