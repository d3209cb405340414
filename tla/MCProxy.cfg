SPECIFICATION Spec
CONSTANTS
    Proxies = {p1, p2}
    Params = {write}
    NULL = NULL
    MaxApprovals = 3
    MaxCrashes = 1
SYMMETRY ProxySymmetry
INVARIANTS
    ApprovalRunsOnce
    DuplicatesOnlyRaced
    UnsafeOnlyNamed
CHECK_DEADLOCK FALSE
