\* Two actions and every kind of call; four ledger entries in all are enough for
\* a reservation, its settlement, release or reconciliation, and a second actor
\* or a wrong or repeated call between them.
SPECIFICATION BudgetSpec
CONSTANTS
    Actions = {a1, a2}
    Operators = {op1}
    NULL = NULL
    StartingBalance = 2
    Amounts = {0, 1, 2}
    Records = {1}
    MaxEntries = 4
    MaxGrants = 1
SYMMETRY Symmetry
INVARIANTS FundsConserved EstimateAccounted SettledOnce
CHECK_DEADLOCK FALSE
