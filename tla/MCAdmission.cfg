SPECIFICATION Spec

CONSTANTS
    Clients = {c1, c2}
    Conns = {k1, k2}
    MaxConnections = 1
    Tarpit = TRUE
    Burst = 1
    TarpitFor = 1
    MaxDelay = 2
    DelayStep = 1
    ExpiresAfter = 2
    MaxDebt = 1
    CleanupAfter = 1
    NftTimeout = 0
    MaxRequests = 1
    None = None

SYMMETRY Symmetry

INVARIANTS
    TypeOK
    NoDangling
    ConnectionLimit
    TarpitOutlived
    CleanupArmed
    QuietAfterShutdown

PROPERTIES
    AdmissionControl
