--------------------------- MODULE MCBudgetLedger ---------------------------
EXTENDS BudgetLedgerSpec, TLC

\* Nothing tells one action from another.
Symmetry == Permutations(Actions)
=============================================================================
