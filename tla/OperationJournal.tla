-------------------------- MODULE OperationJournal --------------------------
(***************************************************************************)
(* operation_journal.py: one durable slot that names the operation whose   *)
(* writes to several stores are under way.  It is filled before the first  *)
(* of those writes and emptied after the last; a process that finds it     *)
(* full repeats every write of the operation, in the operation's order.    *)
(***************************************************************************)
EXTENDS BudgetLedger, ApprovalStore, EvidenceLog

VARIABLE journal      \* the active operation, or NULL

OperationKinds ==
    {"approval_create", "approval_reject", "approval_expire",
     "authorization_reconcile", "execution_complete"}

\* The payload: the prepared evidence record carries the decider, the actual
\* cost and the operator's outcome, which the other stores must repeat.
Operation ==
    [kind : OperationKinds, act : Actions, record : EvidenceRecord,
     reserved : Nat,                \* reserved_usd or expected_usd
     owner : Owners,                \* of the approval to create
     authority : Nat,               \* authority_record_id, 0 for none
     approved : BOOLEAN]            \* approval_id is not empty

ASSUME OperationAssumption == NULL \notin Operation

JournalTypeOK == journal \in Operation \cup {NULL}

JournalInit == journal = NULL

\* What prepare writes.  It refuses a second operation.
Prepare(kind, a, record, reserved, owner, authority, approved) ==
    /\ journal = NULL
    /\ journal' = [kind |-> kind, act |-> a, record |-> record,
                   reserved |-> reserved, owner |-> owner,
                   authority |-> authority, approved |-> approved]

\* The order in which each kind of operation writes to the stores.
Route ==
    [approval_create         |-> <<"budget", "approval", "evidence", "finish">>,
     approval_reject         |-> <<"approval", "budget", "evidence", "finish">>,
     approval_expire         |-> <<"approval", "budget", "evidence", "finish">>,
     authorization_reconcile |-> <<"budget", "evidence", "finish">>,
     execution_complete      |-> <<"budget", "evidence", "approval", "finish">>]

Stages == {"budget", "approval", "evidence", "finish"}
StagesOf(op) == {Route[op.kind][i] : i \in DOMAIN Route[op.kind]}
FirstStage(kind) == Route[kind][1]
StageAfter(kind, stage) ==
    Route[kind][CHOOSE i \in DOMAIN Route[kind] :
                    i > 1 /\ Route[kind][i - 1] = stage]

-----------------------------------------------------------------------------
(* What _recover_operation checks before each write *)

Settles(op) == op.reserved > 0 \/ op.record.cost > 0

\* A terminal record of the authorization other than the prepared one.
ConflictingTerminal(op) ==
    IsClosed(op.act) /\ Terminal(op.act).id # op.record.id

\* The approval a completion belongs to is still waiting for it, or was
\* consumed by this very completion.
CompletionBound(op) ==
    IF op.approved
      THEN CanEnsureConsumed(op.act, op.record.id) /\ approvals[op.act].outcome = ""
      ELSE ~HasApproval(op.act)

\* _validate_journaled_approval
ApprovalBound(op) ==
    HasApproval(op.act) /\ approvals[op.act].reserved = op.reserved

CanWriteBudget(op) ==
    CASE op.kind = "approval_create" ->
           op.reserved > 0 => CanEnsureReservation(op.act, op.reserved)
      [] op.kind \in {"approval_reject", "approval_expire"} ->
           op.reserved > 0 => CanEnsureRelease(op.act, op.reserved)
      [] op.kind = "authorization_reconcile" ->
           /\ ~HasApproval(op.act)
           /\ ~ConflictingTerminal(op)
           /\ CanReconcile(op.act, op.reserved, op.record.outcome,
                           op.record.reconciledBy, op.authority)
      [] op.kind = "execution_complete" ->
           /\ CompletionBound(op)
           /\ ~ConflictingTerminal(op)
           /\ IF Settles(op)
                THEN CanEnsureSettlement(op.act, op.reserved, op.record.cost,
                                         op.record.id)
                ELSE ReservationFor(op.act) = 0

CanWriteApproval(op) ==
    CASE op.kind = "approval_create" ->
           CanCreate(op.act, Prepared(op.owner, op.reserved))
      [] op.kind = "approval_reject" ->
           ApprovalBound(op) /\ CanEnsureRejected(op.act, op.record.by)
      [] op.kind = "approval_expire" -> ApprovalBound(op) /\ CanExpire(op.act)
      [] op.kind = "execution_complete" ->
           op.approved => CanEnsureConsumed(op.act, op.record.id)
      [] OTHER -> TRUE

CanWriteEvidence(op) == CanAppendOnce(op.act, op.record)

CanWrite(op, stage) ==
    CASE stage = "budget"   -> CanWriteBudget(op)
      [] stage = "approval" -> CanWriteApproval(op)
      [] stage = "evidence" -> CanWriteEvidence(op)
      [] stage = "finish"   -> TRUE

\* Recovery from the beginning gets through: no check on the way refuses.
Recoverable(op) == \A stage \in StagesOf(op) : CanWrite(op, stage)

-----------------------------------------------------------------------------
(* The writes *)

WriteBudget(op) ==
    CASE op.kind = "approval_create" ->
           IF op.reserved > 0 THEN EnsureReservation(op.act, op.reserved)
                              ELSE UNCHANGED ledgerVars
      [] op.kind \in {"approval_reject", "approval_expire"} ->
           IF op.reserved > 0 THEN EnsureRelease(op.act, op.reserved)
                              ELSE UNCHANGED ledgerVars
      [] op.kind = "authorization_reconcile" ->
           ReconcileReservation(op.act, op.reserved, op.record.outcome,
                                op.record.reconciledBy, op.authority)
      [] op.kind = "execution_complete" ->
           IF Settles(op)
             THEN EnsureSettlement(op.act, op.reserved, op.record.cost,
                                   op.record.id)
             ELSE UNCHANGED ledgerVars

WriteApproval(op) ==
    CASE op.kind = "approval_create" ->
           CreatePrepared(op.act, Prepared(op.owner, op.reserved))
      [] op.kind = "approval_reject" -> EnsureRejected(op.act, op.record.by)
      [] op.kind = "approval_expire" -> ExpireOne(op.act)
      [] op.kind = "execution_complete" ->
           IF op.approved THEN EnsureConsumed(op.act, op.record.id)
                          ELSE UNCHANGED approvalVars
      [] op.kind = "authorization_reconcile" -> UNCHANGED approvalVars

\* complete() empties the slot.
Finish == journal' = NULL

=============================================================================
