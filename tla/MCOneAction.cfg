\* One action through every path, two operators, two crashes: a call that crashes,
\* and the recovery that crashes again.
SPECIFICATION Spec
CONSTANTS
    Actions = {a1}
    Operators = {op1, op2}
    NULL = NULL
    StartingBalance = 3
    Estimates = {0, 2}
    Costs = {0, 1, 5}
    ApprovalOwners = {"local", "mcp", "hook"}
    MaxCrashes = 2
INVARIANTS
    TypeOK GateBeforeEffect EffectAtMostOnce RefusedNeverRuns OneTerminal
    ChargeMatchesEvidence ClosedHoldsNothing AssertionAgrees
PROPERTIES DecisionStands
