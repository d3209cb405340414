SPECIFICATION FairSessionSpec
CONSTANTS
    MaxCalls = 3
    MaxReplies = 2
    MaxOthers = 2
    StdinSize = 1
    StdoutSize = 1
    CLIENT = CLIENT
    BAD = BAD
    NONE = NONE
INVARIANTS
    PrivateRepliesKept
PROPERTIES
    NobodyWaitsForEver
CHECK_DEADLOCK FALSE
