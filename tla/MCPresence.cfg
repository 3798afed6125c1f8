SPECIFICATION Spec
CONSTANTS
    Period <- MCPeriod
    Ttl <- MCTtl
    MaxLosses <- MCMaxLosses
    Round = 1
    Delay = 1
    Window = 1
INVARIANTS
    NeverExpires
    RouteComesBack
