SPECIFICATION Spec
CONSTANTS
    Peers = {p, q}
    Addresses = {x, y}
    PeerTtl = 1
    ChallengeTtl = 1
    PollWindow = 1
    MaxClock = 5
    MaxChallenges = 2
    MaxRestarts = 1
    p = p
    q = q
    x = x
    y = y
CHECK_DEADLOCK FALSE
SYMMETRY Symmetry
INVARIANTS
    EntryIsFresh
    ProofIsSound
    ChallengeUsedOnce
    OnlineIsProven
