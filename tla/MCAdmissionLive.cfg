SPECIFICATION FairSpec

CONSTANTS
    Clients = {c1, c2}
    Conns = {k1}
    MaxConnections = 1
    Tarpit = TRUE
    Burst = 1
    TarpitFor = 3
    MaxDelay = 1
    DelayStep = 1
    ExpiresAfter = 3
    MaxDebt = 1
    CleanupAfter = 1
    NftTimeout = 0
    MaxRequests = 0
    None = None

PROPERTIES
    DelayKeptInTarpit
    DelayedServed
    EntryReclaimed
