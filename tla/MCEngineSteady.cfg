SPECIFICATION FairSpec
CONSTANTS
    Peers = {a, b}
    Texts = {"m1"}
    RelayUsers = {a, b}
    FixedPorts = {a, b}
    MaxProbes = 2
    Budgets <- SteadyBudgets
    a = a
    b = b
CHECK_DEADLOCK FALSE
INVARIANTS
    PendingIsAwaited
    PendingIsAnswerable
    RecordedOnce
    CountersInStep
PROPERTIES
    AcceptArrives
    PathsConverge
