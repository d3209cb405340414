--------------------------- MODULE ApprovalStore ---------------------------
(***************************************************************************)
(* approvals/store.py: the durable approvals.  As in the ledger, one       *)
(* operation reads, checks and atomically replaces the file, so it is one  *)
(* step; CanOp is the condition under which the code does not raise        *)
(* ApprovalError and Op is the operation that succeeds.                    *)
(*                                                                         *)
(* An action has at most one approval: action ids are fresh, and only the  *)
(* first handling of an action, which finds no evidence of it, creates one.*)
(***************************************************************************)
EXTENDS Contracts

VARIABLES
    approvals,    \* action -> its approval, or NULL
    overdue       \* action -> its approval's expires_at has passed

approvalVars == <<approvals, overdue>>

ApprovalStatuses ==
    {"pending", "approved", "rejected", "expired", "executing", "consumed"}
ActiveApprovals == {"pending", "approved", "executing"}
TerminalApprovals == {"rejected", "expired", "consumed"}

\* execution_owner: the harness itself, an MCP proxy, or a native agent hook.
Owners == {"local", "mcp", "hook"}

Approval ==
    [status : ApprovalStatuses, owner : Owners, reserved : Nat,
     decidedBy : Operators \cup {NULL},
     outcome : Outcomes \cup {""},          \* reconciliation_outcome
     reconciledBy : Operators \cup {NULL},
     record : Nat]                          \* execution_record_id, 0 for none

ASSUME ApprovalAssumption == NULL \notin Approval

ApprovalTypeOK ==
    /\ approvals \in [Actions -> Approval \cup {NULL}]
    /\ overdue \in [Actions -> BOOLEAN]

ApprovalInit ==
    /\ approvals = [a \in Actions |-> NULL]
    /\ overdue = [a \in Actions |-> FALSE]

\* What prepare builds, without touching the store.
Prepared(owner, reserved) ==
    [status |-> "pending", owner |-> owner, reserved |-> reserved,
     decidedBy |-> NULL, outcome |-> "", reconciledBy |-> NULL, record |-> 0]

-----------------------------------------------------------------------------
(* Reading the store *)

HasApproval(a) == approvals[a] # NULL
Is(a, statuses) == HasApproval(a) /\ approvals[a].status \in statuses

\* due(): what the next expiry pass will expire.
Due(a) == Is(a, {"pending", "approved"}) /\ overdue[a]

\* Time passes an approval's expires_at, which matters only to an approval
\* that can still expire.
TtlRunsOut(a) ==
    /\ Is(a, {"pending", "approved"})
    /\ ~overdue[a]
    /\ overdue' = [overdue EXCEPT ![a] = TRUE]
    /\ UNCHANGED approvals

-----------------------------------------------------------------------------
(* Operations *)

Put(a, approval) ==
    approvals' = [approvals EXCEPT ![a] = approval] /\ UNCHANGED overdue

CanCreate(a, approval) == approvals[a] \in {NULL, approval}

CreatePrepared(a, approval) ==
    CanCreate(a, approval) /\ Put(a, approval)

\* Mutants of CanDecide: a decision can be taken again; a call that is already
\* executing can be decided.
CanDecideAgain(a) == Is(a, {"pending", "approved"}) /\ ~overdue[a]
CanDecideActive(a) == Is(a, ActiveApprovals) /\ ~overdue[a]

\* decide and validate_decision refuse an approval whose time is over.
CanDecide(a) == Is(a, {"pending"}) /\ ~overdue[a]

Decide(a, approved, by) ==
    /\ CanDecide(a)
    /\ Put(a, [approvals[a] EXCEPT
                 !.status = IF approved THEN "approved" ELSE "rejected",
                 !.decidedBy = by])

\* The rejection that this very operation wrote before a crash.
IsRejectedBy(a, by) == Is(a, {"rejected"}) /\ approvals[a].decidedBy = by

CanEnsureRejected(a, by) == CanDecide(a) \/ IsRejectedBy(a, by)

EnsureRejected(a, by) ==
    \/ Decide(a, FALSE, by)
    \/ IsRejectedBy(a, by) /\ UNCHANGED approvalVars

CanExpire(a) == Due(a) \/ Is(a, {"expired"})

ExpireOne(a) ==
    /\ CanExpire(a)
    /\ Put(a, [approvals[a] EXCEPT !.status = "expired"])

CanBegin(a) == Is(a, {"approved"}) /\ ~overdue[a]

\* Mutant of BeginExecution: the approval is checked and not spent.
BeginUnspent(a) == CanBegin(a) /\ UNCHANGED approvalVars

\* begin_execution spends the approval before anything runs.
BeginExecution(a) ==
    /\ CanBegin(a)
    /\ Put(a, [approvals[a] EXCEPT !.status = "executing"])

\* Its other branch: the approval ran out since it was last looked at, so it
\* is marked expired here and the call fails.
BeginExecutionTooLate(a) ==
    /\ Is(a, {"approved"}) /\ overdue[a]
    /\ Put(a, [approvals[a] EXCEPT !.status = "expired"])

CanConsume(a) == Is(a, {"executing"}) /\ approvals[a].outcome = ""

MarkConsumed(a, record) ==
    /\ CanConsume(a)
    /\ Put(a, [approvals[a] EXCEPT !.status = "consumed", !.record = record])

IsConsumedBy(a, record) == Is(a, {"consumed"}) /\ approvals[a].record = record

CanEnsureConsumed(a, record) == CanConsume(a) \/ IsConsumedBy(a, record)

EnsureConsumed(a, record) ==
    \/ MarkConsumed(a, record)
    \/ IsConsumedBy(a, record) /\ UNCHANGED approvalVars

\* The operator's assertion is stored before any other store is touched; a
\* retry must repeat it exactly.
IsReconciledWith(a, outcome, by) ==
    /\ Is(a, {"executing", "consumed"})
    /\ approvals[a].outcome = outcome
    /\ approvals[a].reconciledBy = by

CanBeginReconciliation(a, outcome, by) ==
    CanConsume(a) \/ IsReconciledWith(a, outcome, by)

BeginReconciliation(a, outcome, by) ==
    \/ /\ CanConsume(a)
       /\ Put(a, [approvals[a] EXCEPT !.outcome = outcome, !.reconciledBy = by])
    \/ IsReconciledWith(a, outcome, by) /\ UNCHANGED approvalVars

CanMarkReconciled(a, record) ==
    /\ HasApproval(a) /\ approvals[a].outcome # ""
    /\ \/ Is(a, {"executing"})
       \/ IsConsumedBy(a, record)

MarkReconciled(a, record) ==
    /\ CanMarkReconciled(a, record)
    /\ Put(a, [approvals[a] EXCEPT !.status = "consumed", !.record = record])

=============================================================================
