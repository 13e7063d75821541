SPECIFICATION FairSpec

CONSTANTS
    Conns = {k1, k2}
    Jobs = {j1, j2}
    NoJob = NoJob
    Full = 2

CHECK_DEADLOCK FALSE

INVARIANTS
    TypeOK
    CallbackTargetAlive
    GaugesExact
    CountedAsBilled
    HandlerAssumptions

PROPERTIES
    GateImplemented
    HandshakeEnds
