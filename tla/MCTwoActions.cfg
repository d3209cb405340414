\* Two actions that compete for one balance, one journal slot and one lock: a
\* balance of 3 holds one reservation of 2 and not two.
SPECIFICATION Spec
CONSTANTS
    Actions = {a1, a2}
    Operators = {op1}
    NULL = NULL
    StartingBalance = 3
    Estimates = {2}
    Costs = {0, 5}
    ApprovalOwners = {"local", "hook"}
    MaxCrashes = 1
SYMMETRY Symmetry
INVARIANTS NegativeOnlyKnown UnsafeOnlyKnown RecoveryRefusedOnlyKnown
