SPECIFICATION Spec
CONSTANTS
    Base = 4
    U16 = 2
    U32 = 2
    U64 = 2
    Passphrases = {"right", "wrong"}
    Identities <- MCIdentities
    Contacts <- MCContacts
    Messages <- MCMessages
    Requests <- MCRequests
    PublicKeyBytes = 1
    SecretKeyBytes = 2
    MaxMessages = 1
    MaxSalts = 3
    MaxFaults = 1
    MaxHarm = 1
CHECK_DEADLOCK FALSE
INVARIANTS
    FileHoldsSaved
    MutationsAreSaved
    OpensOnlyWritten
    OneEntryPerKey
PROPERTY
    HistoryOnlyGrows
