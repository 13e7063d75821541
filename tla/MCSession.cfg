SPECIFICATION FairSpec

CONSTANTS
    Addresses = {a1, a2}
    Names = {n1, n2}
    Ports = {80, 65536}
    Exporter = Null
    Null = Null
    MaxLines = 2
    MaxIndex = 1
    MaxUnits = 5

CHECK_DEADLOCK FALSE

INVARIANTS
    TypeOK
    ParsedAsWritten
    UpstreamExact
    DownstreamExact
    RightServer
    ConformingNotDropped

PROPERTIES
    HandshakeServed
