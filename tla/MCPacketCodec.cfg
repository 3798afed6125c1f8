SPECIFICATION Spec
CONSTANTS
    Base = 2
    U16 = 2
    U32 = 2
    U64 = 2
    kMagic = 2
    kProtocolVersion = 1
    Types = {1}
    Flags = {1}
    Counters = {0, 3}
    Ids <- MCIds
    Payloads <- MCPayloads
    MaxHarm = 3
CHECK_DEADLOCK FALSE
INVARIANTS
    RoundTrip
    CanonicalWire
    NoPrefixAccepted
    EnvelopeBound
