SPECIFICATION Spec

CONSTANTS
    Conns = {k1, k2}
    Pipes = {p1, p2, p3, p4}
    NoPipe = NoPipe
    PipeSize = 2
    MaxIdle = 1
    Window = 1
    MaxBytes = 3

SYMMETRY Symmetry
CHECK_DEADLOCK FALSE

INVARIANTS
    TypeOK
    NoCrossTalk
    PipesExclusive
    ReadOnlyWhenEmpty

PROPERTIES
    ChannelImplemented
