---------------------------- MODULE BudgetLedger ----------------------------
(***************************************************************************)
(* budgets/ledger.py: the durable budget.  Every operation reads the       *)
(* ledger, checks it, and replaces the file atomically while it holds the  *)
(* file's lock, so one operation is one step and a crash leaves the ledger *)
(* before it or after it.                                                  *)
(*                                                                         *)
(* Op(args) is the operation that succeeds; CanOp(args) is the condition   *)
(* under which the code does not raise BudgetError.  The ensure_*          *)
(* operations also succeed, changing nothing, when they recognise their    *)
(* own earlier effect.                                                     *)
(***************************************************************************)
EXTENDS Contracts, FiniteSetsExt

CONSTANT StartingBalance

ASSUME BalanceAssumption == StartingBalance \in Nat

VARIABLES
    balance,          \* balance_usd; an overrun can make it negative
    totalSpent,       \* total_spent_usd
    totalEstimated,   \* total_estimated_usd
    reservations,     \* action -> amount held, 0 when there is none
    held,             \* the sum of reservations, which the code adds up anew
    entries,          \* action -> its ledger entries, oldest first
    reconciliations   \* action -> its reconciliation marker, or NULL

ledgerVars ==
    <<balance, totalSpent, totalEstimated, reservations, held, entries,
      reconciliations>>

\* No completion_record_id: only the settlement of a known result names the
\* evidence record it pays for.
NoRecord == 0

EntryKinds == {"reserve", "debit", "release", "reconcile"}

Entry ==
    [kind : EntryKinds, amount : Nat, reserved : Nat, after : Int,
     record : Nat]

Marker ==
    [outcome : Outcomes, by : Operators, expected : Nat, charged : Nat,
     released : Nat, authority : Nat]

ASSUME MarkerAssumption == NULL \notin Marker

LedgerTypeOK ==
    /\ balance \in Int
    /\ totalSpent \in Nat
    /\ totalEstimated \in Int
    /\ reservations \in [Actions -> Nat]
    /\ held \in Int
    /\ entries \in [Actions -> Seq(Entry)]
    /\ reconciliations \in [Actions -> Marker \cup {NULL}]

LedgerInit ==
    /\ balance = StartingBalance
    /\ totalSpent = 0
    /\ totalEstimated = 0
    /\ reservations = [a \in Actions |-> 0]
    /\ held = 0
    /\ entries = [a \in Actions |-> << >>]
    /\ reconciliations = [a \in Actions |-> NULL]

-----------------------------------------------------------------------------
(* Reading the ledger *)

\* Mutant of Available: forgets what is reserved.
AvailableUnheld == balance

\* _available, the balance_usd that callers see.
Available == balance - held

\* Positions of a's entries of the given kinds.
EntriesOf(a, kinds) == {i \in DOMAIN entries[a] : entries[a][i].kind \in kinds}

\* A prior budget disposition of a: whatever resolved a reservation.
Dispositions(a) == EntriesOf(a, {"debit", "release", "reconcile"})

\* The latest debit or release of a; reconcile entries do not count.
LatestDisposition(a) ==
    LET P == EntriesOf(a, {"debit", "release"})
    IN  IF P = {} THEN "" ELSE entries[a][Latest(P)].kind

ReservationFor(a) == reservations[a]

\* The durable worst-case estimate: the live reservation, or the last one made.
ExposureFor(a) ==
    LET R == EntriesOf(a, {"reserve"})
    IN  CASE reservations[a] > 0 -> reservations[a]
          [] reservations[a] = 0 /\ R # {} -> entries[a][Latest(R)].amount
          [] OTHER -> 0

HasPriorDebit(a) == EntriesOf(a, {"debit"}) # {}
PriorDebit(a) == entries[a][Latest(EntriesOf(a, {"debit"}))].amount

\* balance_after_usd is kept only for the entries that are later compared
\* with evidence: the settlements of known results.
Record(a, kind, amount) ==
    entries' = [entries EXCEPT ![a] =
        Append(@, [kind |-> kind, amount |-> amount, reserved |-> 0,
                   after |-> 0, record |-> NoRecord])]

-----------------------------------------------------------------------------
(* Operations *)

\* What reserve and ensure_reservation write.
AddReservation(a, amount) ==
    /\ reservations' = [reservations EXCEPT ![a] = amount]
    /\ held' = held + amount
    /\ totalEstimated' = totalEstimated + amount
    /\ Record(a, "reserve", amount)
    /\ UNCHANGED <<balance, totalSpent, reconciliations>>

CanReserve(a, amount) ==
    amount > 0 /\ reservations[a] = 0 /\ amount <= Available

Reserve(a, amount) == CanReserve(a, amount) /\ AddReservation(a, amount)

CanEnsureReservation(a, amount) ==
    amount > 0 /\ (reservations[a] = amount \/ CanReserve(a, amount))

EnsureReservation(a, amount) ==
    /\ CanEnsureReservation(a, amount)
    /\ \/ reservations[a] = amount /\ UNCHANGED ledgerVars
       \/ reservations[a] # amount /\ AddReservation(a, amount)

\* Mutant of DropReservation: keeps the estimate in the total.
DropReservationOnly(a) ==
    /\ reservations' = [reservations EXCEPT ![a] = 0]
    /\ held' = held - reservations[a]
    /\ Record(a, "release", reservations[a])
    /\ UNCHANGED <<balance, totalSpent, totalEstimated, reconciliations>>

\* What release and ensure_release write.
DropReservation(a) ==
    /\ reservations' = [reservations EXCEPT ![a] = 0]
    /\ held' = held - reservations[a]
    /\ totalEstimated' = totalEstimated - reservations[a]
    /\ Record(a, "release", reservations[a])
    /\ UNCHANGED <<balance, totalSpent, reconciliations>>

CanRelease(a) == reservations[a] > 0

Release(a) == CanRelease(a) /\ DropReservation(a)

HasRelease(a, expected) ==
    \E i \in EntriesOf(a, {"release"}) : entries[a][i].amount = expected
\* Mutant of CanEnsureRelease: does not recognise its own earlier release.
CanEnsureReleaseOnce(a, expected) == expected > 0 /\ reservations[a] = expected


CanEnsureRelease(a, expected) ==
    IF reservations[a] = 0 THEN HasRelease(a, expected)
                           ELSE reservations[a] = expected

EnsureRelease(a, expected) ==
    /\ CanEnsureRelease(a, expected)
    /\ \/ reservations[a] = 0 /\ UNCHANGED ledgerVars
       \/ reservations[a] > 0 /\ DropReservation(a)

\* What settle and ensure_settlement write: the reservation goes, and the
\* actual cost leaves the balance even when it exceeds the reservation.
Debit(a, actual, record) ==
    LET left == Available + reservations[a] - actual
    IN  /\ reservations' = [reservations EXCEPT ![a] = 0]
        /\ held' = held - reservations[a]
        /\ balance' = balance - actual
        /\ totalSpent' = totalSpent + actual
        /\ entries' = [entries EXCEPT ![a] =
               Append(@, [kind |-> "debit", amount |-> actual,
                          reserved |-> reservations[a],
                          after |-> IF record = NoRecord THEN 0 ELSE left,
                          record |-> record])]
        /\ UNCHANGED <<totalEstimated, reconciliations>>

Settle(a, actual) == reservations[a] > 0 /\ Debit(a, actual, NoRecord)

\* preview_settlement: the same checks before anything is journaled.
CanPreviewSettlement(a, expected) ==
    Dispositions(a) = {} /\ reservations[a] = expected

PreviewSettlement(a, expected, actual) == Available + expected - actual

\* The debit that this very settlement wrote before a crash.
IsSettledBy(a, expected, actual, record) ==
    \E i \in Dispositions(a) :
        /\ Dispositions(a) = {i}
        /\ entries[a][i].kind = "debit"
        /\ entries[a][i].amount = actual
        /\ entries[a][i].reserved = expected
        /\ entries[a][i].record = record

CanEnsureSettlement(a, expected, actual, record) ==
    \/ reservations[a] = 0 /\ IsSettledBy(a, expected, actual, record)
    \/ Dispositions(a) = {} /\ reservations[a] = expected

\* Mutant of EnsureSettlement: repeats the debit that it recognises.
EnsureSettlementAgain(a, expected, actual, record) ==
    /\ CanEnsureSettlement(a, expected, actual, record)
    /\ Debit(a, actual, record)

EnsureSettlement(a, expected, actual, record) ==
    /\ CanEnsureSettlement(a, expected, actual, record)
    /\ \/ Dispositions(a) # {} /\ UNCHANGED ledgerVars
       \/ Dispositions(a) = {} /\ Debit(a, actual, record)

\* The input of a reconciliation, which an exact retry must repeat.
SameInput(marker, outcome, by, expected, authority) ==
    /\ marker.outcome = outcome
    /\ marker.by = by
    /\ marker.expected = expected
    /\ authority # NoRecord => marker.authority = authority

\* An asserted execution is charged its live reservation, or the durable
\* estimate when neither a reservation nor a debit is left.
ReconcileCharge(a, expected, outcome) ==
    IF outcome # "not_executed"
        /\ (reservations[a] > 0 \/ LatestDisposition(a) # "debit")
      THEN expected ELSE 0

CanReconcile(a, expected, outcome, by, authority) ==
    IF reconciliations[a] # NULL
      THEN SameInput(reconciliations[a], outcome, by, expected, authority)
      ELSE reservations[a] > 0 =>
             reservations[a] = expected /\ LatestDisposition(a) = ""

\* What the first reconciliation of a writes.
AddReconciliation(a, expected, outcome, by, authority) ==
    LET charged == ReconcileCharge(a, expected, outcome)
        released == IF outcome = "not_executed" THEN reservations[a] ELSE 0
    IN  /\ reservations' = [reservations EXCEPT ![a] = 0]
        /\ held' = held - reservations[a]
        /\ balance' = balance - charged
        /\ totalSpent' = totalSpent + charged
        /\ totalEstimated' = totalEstimated - released
        /\ reconciliations' = [reconciliations EXCEPT ![a] =
               [outcome |-> outcome, by |-> by, expected |-> expected,
                charged |-> charged, released |-> released,
                authority |-> authority]]
        /\ Record(a, "reconcile", charged + released)
\* Mutant of ReconcileReservation: an exact retry is carried out again.
ReconcileAgain(a, expected, outcome, by, authority) ==
    /\ CanReconcile(a, expected, outcome, by, authority)
    /\ AddReconciliation(a, expected, outcome, by, authority)


ReconcileReservation(a, expected, outcome, by, authority) ==
    /\ CanReconcile(a, expected, outcome, by, authority)
    /\ \/ reconciliations[a] # NULL /\ UNCHANGED ledgerVars
       \/ /\ reconciliations[a] = NULL
          /\ AddReconciliation(a, expected, outcome, by, authority)

\* Everything that has left the balance on account of a.
Charged(a) ==
    MapThenSumSet(LAMBDA i : entries[a][i].amount, EntriesOf(a, {"debit"}))
    + IF reconciliations[a] = NULL THEN 0 ELSE reconciliations[a].charged

=============================================================================
