\* A plain configuration, one with runtime artifacts and a launch envelope, and
\* one that requires a publication witness.
SPECIFICATION Spec
CONSTANTS
    Configs = {plain, bundled, guarded}
    HasOptional = {bundled}
    NeedsWitness = {guarded}
    NULL = NULL
    MaxClock = 7
    MaxGeneration = 3
    MaxStops = 1
    MaxRestores = 1
INVARIANTS AuditExplains HistoryDoesNotFork StuckOnlyKnown
PROPERTIES ReplayExact
CHECK_DEADLOCK FALSE
