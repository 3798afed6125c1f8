SPECIFICATION RendezvousSpec
CONSTANTS
    Peers = {p1, p2, p3}
    Addresses = {"x", "y"}
    PeerTtl = 1
    ChallengeTtl = 1
    PollWindow = 1
    MaxClock = 0
    MaxChallenges = 8
    MaxRestarts = 1
    self = p1
    SelfAddress = "x"
    Attempts = 3
    MaxCalls = 2
    MaxFaults = 2
    MaxForeign = 1
    p1 = p1
    p2 = p2
    p3 = p3
SYMMETRY Symmetry
INVARIANTS
    TrueMeansProven
    LossTolerated
    FoundIsExplained
