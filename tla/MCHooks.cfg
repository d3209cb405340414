SPECIFICATION Spec
CONSTANTS
    Calls = {c1, c2, c3}
    Keys = {read, write, mcp, shell}
    Allowed = {read}
    Held = {write}
    Delegated = {mcp}
    NULL = NULL
    MaxActions = 3
    MaxFailures = 1
    MaxRepeats = 1
SYMMETRY CallSymmetry
INVARIANTS
    AllowedCanComplete
    SealedForItsCall
    StuckNameOnlyKnown
CHECK_DEADLOCK FALSE
