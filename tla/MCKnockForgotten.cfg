SPECIFICATION Spec

CONSTANTS
    Clients = {c1, c2}
    Conns = {k1}
    MaxConnections = 1
    Tarpit = TRUE
    Burst = 10
    TarpitFor = 1
    MaxDelay = 2
    DelayStep = 1
    ExpiresAfter = 5
    MaxDebt = 1
    CleanupAfter = 1
    NftTimeout = 5
    MaxRequests = 1
    None = None

PROPERTIES
    KnockResetOnlyOverLimit
