\* A stop between the two writes of a completion, with a witness required.
SPECIFICATION Spec
CONSTANTS
    Configs = {plain, guarded}
    HasOptional = {}
    NeedsWitness = {guarded}
    NULL = NULL
    MaxClock = 7
    MaxGeneration = 3
    MaxStops = 1
    MaxRestores = 0
INVARIANT AlwaysStartable
CHECK_DEADLOCK FALSE
