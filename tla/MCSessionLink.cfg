SPECIFICATION Spec
CONSTANTS
    Peers = {p1, p2}
    Types = {"Message", "ContactRequest"}
    Texts = {t1}
    MaxCounter = 2
    MaxDamaged = 1
    p1 = p1
    p2 = p2
    t1 = t1
CHECK_DEADLOCK FALSE
INVARIANTS
    StrictlyIncreasing
    Authentic
PROPERTY
    ImplementsChannel
