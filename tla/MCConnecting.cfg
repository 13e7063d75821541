SPECIFICATION Spec

CONSTANTS
    Conns = {k1}
    Jobs = {j1}
    NoJob = NoJob
    Full = 2

CHECK_DEADLOCK FALSE

INVARIANTS
    NotReadableWhileConnecting
