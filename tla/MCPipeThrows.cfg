SPECIFICATION Spec

CONSTANTS
    Conns = {k1}
    Pipes = {p1, p2}
    NoPipe = NoPipe
    PipeSize = 2
    MaxIdle = 1
    Window = 1
    MaxBytes = 3

CHECK_DEADLOCK FALSE

INVARIANTS
    HandlersDoNotThrow
