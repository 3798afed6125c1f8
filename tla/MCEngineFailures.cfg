SPECIFICATION Spec
CONSTANTS
    Peers = {a, b, c}
    Texts = {"m1"}
    RelayUsers = {a, b}
    FixedPorts = {}
    MaxProbes = 2
    Budgets <- FailureBudgets
    a = a
    b = b
    c = c
CHECK_DEADLOCK FALSE
SYMMETRY Symmetry
INVARIANTS
    ConsentInv
    AcceptedByBoth
    ReceivedWithConsent
    ConfirmedIsMutual
PROPERTIES
    DirectPathIsPeers
