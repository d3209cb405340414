--------------------------- MODULE StateIntegrity ---------------------------
(***************************************************************************)
(* state_integrity.py, the part of the audit that compares the stores with *)
(* each other (_audit_cross_store).  Safe is "no critical issue": every    *)
(* authority entry point refuses to go on (require_safe) without it.  An   *)
(* active journal operation excuses the half-written states it explains.   *)
(***************************************************************************)
EXTENDS OperationJournal

JournalIs(kinds, a) ==
    journal # NULL /\ journal.kind \in kinds /\ journal.act = a

\* Mutant of JournalExpectsUnboundReservation: an approval under creation does
\* not explain its reservation.
NoUnboundReservation(a) == JournalIs({}, a)

\* _journal_expects_unbound_reservation: the approval is not written yet.
JournalExpectsUnboundReservation(a) ==
    /\ JournalIs({"approval_create"}, a)
    /\ journal.reserved = reservations[a]

\* _journal_expects_terminal_reservation: the release is not written yet.
JournalExpectsTerminalReservation(a) ==
    /\ JournalIs({"approval_reject", "approval_expire"}, a)
    /\ HasApproval(a)
    /\ journal.reserved = reservations[a]
    /\ journal.reserved = approvals[a].reserved

\* orphan_reservation, reservation_binding_mismatch
ReservationOwned(a) ==
    reservations[a] > 0 =>
        IF Is(a, ActiveApprovals) THEN approvals[a].reserved = reservations[a]
        ELSE \/ IsOpen(a)
             \/ JournalExpectsUnboundReservation(a)
             \/ JournalExpectsTerminalReservation(a)

\* active_reservation_missing
ReservationPresent(a) ==
    Is(a, {"pending", "approved"}) /\ approvals[a].reserved > 0
        => reservations[a] > 0

\* executing_budget_unaccounted
ExecutingAccounted(a) ==
    Is(a, {"executing"}) /\ approvals[a].reserved > 0 =>
        \/ reservations[a] > 0
        \/ reconciliations[a] # NULL
        \/ Dispositions(a) # {}
        \/ IsClosed(a)

\* terminal_approval_has_reservation
ReservationGone(a) ==
    Is(a, TerminalApprovals) /\ reservations[a] > 0
        => JournalExpectsTerminalReservation(a)

\* approval_authorization_missing
OpenAuthorizationKnown(a) ==
    IsOpen(a) /\ ~HasApproval(a)
        => \/ Authorization(a).decision = "allow"
           \/ JournalIs({"execution_complete"}, a)

\* consumed_evidence_not_found, consumed_evidence_mismatch
ConsumedByEvidence(a) ==
    Is(a, {"consumed"}) /\ approvals[a].record # 0 =>
        /\ HasRecord(a, approvals[a].record)
        /\ RecordById(a, approvals[a].record).status \in TerminalResults

\* reconciliation_budget_missing (a warning until the approval is consumed),
\* authorization_reconciliation_budget_missing
AssertedIsMarked(a) ==
    reconciliations[a] = NULL =>
        /\ Is(a, {"consumed"}) => approvals[a].outcome = ""
        /\ ~HasApproval(a)
             => \A i \in DOMAIN evidence[a] : evidence[a][i].outcome = ""

LastReserve(a) ==
    LET R == EntriesOf(a, {"reserve"})
    IN  IF R = {} THEN 0 ELSE entries[a][Latest(R)].amount

\* _audit_authorization_reconciliation_marker: a marker without an approval
\* agrees with its authorization, the last reservation and the terminal record.
AuthorizationMarked(a, marker) ==
    /\ marker.authority # NoRecord /\ HasRecord(a, marker.authority)
    /\ RecordById(a, marker.authority).status = "skipped"
    /\ marker.expected = LastReserve(a)
    /\ IF IsClosed(a)
         THEN /\ Terminal(a).status = marker.outcome
              /\ Terminal(a).outcome = marker.outcome
              /\ Terminal(a).reconciledBy = marker.by
              /\ Terminal(a).cost =
                   IF HasPriorDebit(a) THEN PriorDebit(a)
                   ELSE IF marker.outcome = "not_executed" THEN 0
                   ELSE marker.expected
         ELSE /\ JournalIs({"authorization_reconcile"}, a)
              /\ journal.authority = marker.authority

\* reconciliation_reservation_conflict, reconciliation_binding_mismatch,
\* orphan_budget_reconciliation
MarkerBound(a) ==
    reconciliations[a] # NULL =>
        /\ reservations[a] = 0
        /\ IF HasApproval(a) /\ approvals[a].outcome # ""
             THEN /\ reconciliations[a].outcome = approvals[a].outcome
                  /\ reconciliations[a].by = approvals[a].reconciledBy
                  /\ reconciliations[a].expected = approvals[a].reserved
             ELSE AuthorizationMarked(a, reconciliations[a])

\* The two amounts are equal money; money() raises on a negative one, and the
\* audit with it.
SameMoney(x, y) == x >= 0 /\ x = y

\* _audit_known_result_settlements: the debit of a known result names a sealed
\* record that says the same, or the record the journal is about to append.
SettlementEvidenced(a, entry) ==
    IF HasRecord(a, entry.record)
      THEN LET record == RecordById(a, entry.record)
           IN  /\ record.status \in {"succeeded", "failed"}
               /\ record.cost = entry.amount
               /\ SameMoney(record.remaining, entry.after)
      ELSE /\ JournalIs({"execution_complete"}, a)
           /\ journal.record.id = entry.record
           /\ journal.record.cost = entry.amount
           /\ SameMoney(journal.record.remaining, entry.after)

SettlementsEvidenced(a) ==
    \A i \in EntriesOf(a, {"debit"}) :
        entries[a][i].record # NoRecord => SettlementEvidenced(a, entries[a][i])

\* known_result_settlement_duplicate
OneDebitPerResult(a) ==
    \A i, j \in EntriesOf(a, {"debit"}) :
        i # j /\ entries[a][i].record # NoRecord
          => entries[a][i].record # entries[a][j].record

SafeFor(a) ==
    /\ ReservationOwned(a)
    /\ ReservationPresent(a)
    /\ ExecutingAccounted(a)
    /\ ReservationGone(a)
    /\ OpenAuthorizationKnown(a)
    /\ ConsumedByEvidence(a)
    /\ AssertedIsMarked(a)
    /\ MarkerBound(a)
    /\ SettlementsEvidenced(a)
    /\ OneDebitPerResult(a)

Safe == \A a \in Actions : SafeFor(a)

=============================================================================
