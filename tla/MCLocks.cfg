SPECIFICATION Spec
CONSTANTS
    Procs = {p1, p2, p3}
    Names = {main, other}
    NULL = NULL
    MaxDepth = 2
    MaxWrites = 3
    MaxLeaks = 1
    MaxCrashes = 1
SYMMETRY LockSymmetry
CONSTRAINT TwoWrite
INVARIANTS
    AuthorityExclusive
    NoLostUpdate
    BusyOnlyIfOwned
CHECK_DEADLOCK FALSE
