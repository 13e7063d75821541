SPECIFICATION Spec

CONSTANTS
    Jobs = {j1}
    Handles = {h1, h2}
    Null = Null
    FirstMtime = 1
    MaxClock = 3
    MaxVersion = 3
    MaxSize = 2

SYMMETRY Symmetry
CHECK_DEADLOCK FALSE

INVARIANTS
    KnockDoesNotThrow
