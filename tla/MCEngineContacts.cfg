SPECIFICATION SavingSpec
CONSTANTS
    Peers = {a, b}
    Texts = {"m1"}
    RelayUsers = {}
    FixedPorts = {a, b}
    MaxProbes = 2
    Budgets <- ContactBudgets
    a = a
    b = b
CHECK_DEADLOCK FALSE
SYMMETRY Symmetry
INVARIANTS
    SurfacedOnce
    SurfacedIsAnswerable
    ShownIsRecorded
