\* Two keys, each of which either of two operators may be given, and a rotation.
SPECIFICATION Spec
CONSTANTS
    Operators = {alice, bob}
    Keys = {k1, k2}
    Approvals = {a1}
    Procs = {p1, p2}
    NULL = NULL
    ABSENT = ABSENT
    MaxGeneration = 2
    MaxCrashes = 1
SYMMETRY TrustSymmetry
INVARIANTS
    HistoryVerifies
    StuckOnlyKnown
PROPERTIES
    UnsignedOnlyRaced
CHECK_DEADLOCK FALSE
