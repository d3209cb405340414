\* The fair loop and its abstraction: no symmetry, because it is not sound for
\* liveness.
SPECIFICATION FairSpec
CONSTANTS
    Actions = {a1}
    Operators = {op1}
    NULL = NULL
    StartingBalance = 3
    Estimates = {0, 2}
    Costs = {0, 5}
    ApprovalOwners = {"local", "hook"}
    MaxCrashes = 1
PROPERTIES ImplementsLifecycle JournalDrains ExpiryCompletes
