-------------------------- MODULE BudgetLedgerSpec --------------------------
(***************************************************************************)
(* The ledger on its own: any caller, any order.  Every public operation   *)
(* of BudgetLedger may be called for any action at any moment, repeated    *)
(* after a crash, or called with another caller's arguments.               *)
(***************************************************************************)
EXTENDS BudgetLedger

CONSTANTS
    Amounts,      \* the amounts callers pass
    Records,      \* the completion record ids callers pass
    MaxEntries,   \* bound: entries of all actions together
    MaxGrants     \* bound: grants

\* A ledger is one file: it holds rows of finitely many actions.
ASSUME BoundsAssumption ==
    /\ IsFiniteSet(Actions)
    /\ Amounts \subseteq Nat
    /\ Records \subseteq Nat \ {NoRecord}
    /\ MaxEntries \in Nat
    /\ MaxGrants \in Nat

VARIABLES
    granted,      \* the sum of all grants (their ledger entries)
    grants        \* how many there were

budgetVars == <<ledgerVars, granted, grants>>

BudgetInit == LedgerInit /\ granted = 0 /\ grants = 0

Grant(amount) ==
    /\ grants < MaxGrants
    /\ amount > 0
    /\ balance' = balance + amount
    /\ granted' = granted + amount
    /\ grants' = grants + 1
    /\ UNCHANGED <<totalSpent, totalEstimated, reservations, held, entries,
                   reconciliations>>

\* One call on behalf of a.  A caller that settles or reconciles passes any
\* expectation, right or wrong.
Call(a) ==
    /\ UNCHANGED <<granted, grants>>
    /\ \/ \E amount \in Amounts :
            \/ Reserve(a, amount)
            \/ EnsureReservation(a, amount)
            \/ Settle(a, amount)
            \/ EnsureRelease(a, amount)
       \/ Release(a)
       \/ \E expected, actual \in Amounts, record \in Records :
            EnsureSettlement(a, expected, actual, record)
       \/ \E expected \in Amounts, outcome \in Outcomes, by \in Operators,
             authority \in Records \cup {NoRecord} :
            ReconcileReservation(a, expected, outcome, by, authority)
    /\ SumFunction([b \in Actions |-> Len(entries'[b])]) <= MaxEntries

BudgetNext ==
    \/ \E a \in Actions : Call(a)
    \/ \E amount \in Amounts : Grant(amount)

BudgetSpec == BudgetInit /\ [][BudgetNext]_budgetVars

-----------------------------------------------------------------------------
(* Properties *)

\* The ledger's rows have the shape that _validate accepts.
BudgetTypeOK == LedgerTypeOK /\ granted \in Nat /\ grants \in 0..MaxGrants

\* No operation, in any order, creates or destroys money: what was started
\* with and granted is what is left plus what every debit and every charging
\* reconciliation took (balance_usd against entries and reconciliations).
FundsConserved ==
    /\ totalSpent = SumFunction([a \in Actions |-> Charged(a)])
    /\ balance + totalSpent = StartingBalance + granted
    /\ held = SumFunction(reservations)

\* The estimate total that drift() reports counts exactly the reservations
\* that were not given back: live, settled or charged.
EstimateAccounted ==
    totalEstimated =
        SumFunction([a \in Actions |->
            MapThenSumSet(LAMBDA i : entries[a][i].amount,
                          EntriesOf(a, {"reserve"}))
            - MapThenSumSet(LAMBDA i : entries[a][i].amount,
                            EntriesOf(a, {"release"}))
            - IF reconciliations[a] = NULL THEN 0
              ELSE reconciliations[a].released])

\* A known result is paid for once, however often its settlement is repeated
\* and whatever else was called in between (ensure_settlement).
SettledOnce ==
    \A a \in Actions : \A i, j \in EntriesOf(a, {"debit"}) :
        (entries[a][i].record # NoRecord /\ entries[a][i].record = entries[a][j].record)
            => i = j

=============================================================================
