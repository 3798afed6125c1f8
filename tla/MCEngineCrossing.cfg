SPECIFICATION Spec
CONSTANTS
    Peers = {a, b}
    Texts = {"m1"}
    RelayUsers = {}
    FixedPorts = {a, b}
    MaxProbes = 2
    Budgets <- CrossingBudgets
    a = a
    b = b
CHECK_DEADLOCK FALSE
SYMMETRY Symmetry
INVARIANTS
    AskedIsAnswerable
