---------------------------- MODULE ControlLoop ----------------------------
(***************************************************************************)
(* orchestrator/harness.py over its four stores: ledger, approvals,        *)
(* evidence and operation journal.                                         *)
(*                                                                         *)
(* Any number of processes (CLI, proxy, hook) call the harness; the        *)
(* authority lock lets one of them at a time into an entry point, and that *)
(* one is the worker.  One step is one durable write.  Between two writes  *)
(* the worker may die, which frees the lock and loses what it held in      *)
(* memory; time may pass an approval's deadline; an operator may approve   *)
(* a proxied call, which the CLI does without the lock; and a tool that    *)
(* another runtime executes may run.                                       *)
(***************************************************************************)
EXTENDS StateIntegrity

CONSTANTS
    Estimates,     \* estimates of a call's cost
    Costs,         \* costs that tools report
    ApprovalOwners,\* the executors that hold calls for approval
    MaxCrashes     \* bound: crashes

ASSUME LoopAssumption ==
    /\ Estimates \subseteq Nat
    /\ Costs \subseteq Nat
    /\ ApprovalOwners \subseteq Owners
    /\ MaxCrashes \in Nat

VARIABLES
    worker,        \* the entry point that holds the authority lock
    runner,        \* action -> what its external executor knows and did
    executed,      \* action -> how often its side effect happened
    crashes        \* how many crashes there were

vars == <<ledgerVars, approvalVars, evidence, journal, worker, runner,
          executed, crashes>>

stores == <<ledgerVars, approvalVars, evidence, journal>>

Locations ==
    {"idle", "entry", "ready", "begin", "unreserve", "blocked", "consume",
     "authorize", "answer", "execute", "complete", "charge", "assert", "close"}
    \cup Stages

\* full: the entry point also expires due approvals.  back: where a journaled
\* operation returns to.  by: approved_by of the records to come.  external:
\* another runtime executes the tool.
Worker ==
    [pc : Locations, full : BOOLEAN, back : {"idle", "entry"},
     act : Actions \cup {NULL}, by : Operators \cup {NULL},
     external : BOOLEAN]

Idle ==
    [pc |-> "idle", full |-> FALSE, back |-> "idle", act |-> NULL,
     by |-> NULL, external |-> FALSE]

RunnerStates == {"unknown", "allowed", "ran"}

TypeOK ==
    /\ LedgerTypeOK /\ ApprovalTypeOK /\ EvidenceTypeOK /\ JournalTypeOK
    /\ worker \in Worker
    /\ runner \in [Actions -> RunnerStates]
    /\ executed \in [Actions -> Nat]
    /\ crashes \in 0..MaxCrashes

Init ==
    /\ LedgerInit /\ ApprovalInit /\ EvidenceInit /\ JournalInit
    /\ worker = Idle
    /\ runner = [a \in Actions |-> "unknown"]
    /\ executed = [a \in Actions |-> 0]
    /\ crashes = 0

GoTo(pc) == worker' = [worker EXCEPT !.pc = pc]
Return == worker' = Idle

At(pc) == worker.pc = pc

world == <<runner, executed, crashes>>

-----------------------------------------------------------------------------
(* Entering: recover_operation, reconcile_expired_approvals, require_safe *)

\* A call takes the authority lock.
Enter(full) ==
    /\ At("idle")
    /\ worker' = [Idle EXCEPT !.pc = "entry", !.full = full]
    /\ UNCHANGED <<stores, world>>

\* recover_operation finds an active operation and repeats it from the start.
Recover ==
    /\ At("entry") /\ journal # NULL
    /\ worker' = [worker EXCEPT !.pc = FirstStage(journal.kind),
                                !.back = "entry", !.act = journal.act]
    /\ UNCHANGED <<stores, world>>

\* An operation that has just been prepared is applied in the same call.
Apply(kind, a, back) ==
    worker' = [worker EXCEPT !.pc = FirstStage(kind), !.back = back, !.act = a]

\* require_safe: StateIntegrityError, whatever was called.
RefuseUnsafe ==
    /\ At("entry") /\ journal = NULL /\ ~Safe
    /\ Return
    /\ UNCHANGED <<stores, world>>

\* reconcile_expired_approvals, for one due approval.
Expire(a) ==
    /\ At("entry") /\ worker.full /\ journal = NULL /\ Safe
    /\ Due(a)
    /\ Prepare("approval_expire", a,
               Make(a, "expired", "approval_required", NULL),
               approvals[a].reserved, "local", 0, TRUE)
    /\ Apply("approval_expire", a, "entry")
    /\ UNCHANGED <<ledgerVars, approvalVars, evidence, world>>

\* Mutant of Admit: the call goes on before the due approvals have expired.
AdmitUnexpired ==
    /\ At("entry") /\ journal = NULL /\ Safe
    /\ GoTo("ready")
    /\ UNCHANGED <<stores, world>>

\* Nothing to recover, nothing critical, nothing due: the call goes on.
Admit ==
    /\ At("entry") /\ journal = NULL /\ Safe
    /\ worker.full => \A a \in Actions : ~Due(a)
    /\ GoTo("ready")
    /\ UNCHANGED <<stores, world>>

\* The call was only for the above, or is refused before it writes anything.
Leave ==
    /\ At("ready")
    /\ Return
    /\ UNCHANGED <<stores, world>>

-----------------------------------------------------------------------------
(* _recover_operation *)

\* What one stage of the active operation does to the stores.
WriteStage(stage) ==
    /\ IF stage = "budget" THEN WriteBudget(journal) ELSE UNCHANGED ledgerVars
    /\ IF stage = "approval" THEN WriteApproval(journal)
                             ELSE UNCHANGED approvalVars
    /\ IF stage = "evidence" THEN AppendOnce(journal.act, journal.record)
                             ELSE UNCHANGED evidence
    /\ IF stage = "finish" THEN Finish ELSE UNCHANGED journal

Advance ==
    /\ worker.pc \in Stages
    /\ CanWrite(journal, worker.pc)
    /\ WriteStage(worker.pc)
    /\ CASE worker.pc # "finish" -> GoTo(StageAfter(journal.kind, worker.pc))
         [] worker.pc = "finish" /\ worker.back = "idle" -> Return
         [] worker.pc = "finish" /\ worker.back = "entry" ->
              worker' = [Idle EXCEPT !.pc = "entry", !.full = worker.full]
    /\ UNCHANGED world

\* A check refuses: the call raises and the operation stays active.
RefuseRecovery ==
    /\ worker.pc \in Stages
    /\ ~CanWrite(journal, worker.pc)
    /\ Return
    /\ UNCHANGED <<stores, world>>

-----------------------------------------------------------------------------
(* _handle: a new call.  Its action id is fresh (AgentAdapter.to_action) and *)
(* stays so while nothing durable mentions it.                               *)

Fresh(a) == evidence[a] = << >> /\ entries[a] = << >> /\ ~HasApproval(a)

\* A check, the policy or the budget preflight blocks the call.
HandleBlocked(a) ==
    /\ At("ready") /\ worker.full /\ Fresh(a)
    /\ AppendRecord(a, Make(a, "blocked", "block", NULL))
    /\ Return
    /\ UNCHANGED <<ledgerVars, approvalVars, journal, world>>

\* budget.preflight
Affordable(estimate) == estimate <= Available

\* The policy wants a human's approval: the call is held.
HandleHold(a, estimate, owner) ==
    /\ At("ready") /\ worker.full /\ Fresh(a)
    /\ estimate > 0 => Affordable(estimate)
    /\ Prepare("approval_create", a,
               Make(a, "pending_approval", "approval_required", NULL),
               estimate, owner, 0, TRUE)
    /\ Apply("approval_create", a, "idle")
    /\ UNCHANGED <<ledgerVars, approvalVars, evidence, world>>

\* Mutant of HandleAllow: the tool runs before its authorization is sealed.
HandleUnsealed(a, estimate, external) ==
    /\ At("ready") /\ worker.full /\ Fresh(a)
    /\ IF estimate > 0 THEN Affordable(estimate) /\ Reserve(a, estimate)
                       ELSE UNCHANGED ledgerVars
    /\ worker' = [worker EXCEPT !.pc = "execute", !.act = a]
    /\ UNCHANGED <<approvalVars, evidence, journal, world>>

\* The policy allows the call: the estimate is reserved.
HandleAllow(a, estimate, external) ==
    /\ At("ready") /\ worker.full /\ Fresh(a)
    /\ IF estimate > 0 THEN Affordable(estimate) /\ Reserve(a, estimate)
                       ELSE UNCHANGED ledgerVars
    /\ worker' = [worker EXCEPT !.pc = "authorize", !.act = a,
                                !.external = external]
    /\ UNCHANGED <<approvalVars, evidence, journal, world>>

\* decision.decision of the records that a call leaves.
DecisionFor(a) == IF HasApproval(a) THEN "approval_required" ELSE "allow"

\* The sealed SKIPPED record: _execute and _authorize_external start with it.
Authorize ==
    /\ At("authorize")
    /\ AppendRecord(worker.act,
                    Make(worker.act, "skipped", DecisionFor(worker.act),
                         worker.by))
    /\ GoTo(IF worker.external THEN "answer" ELSE "execute")
    /\ UNCHANGED <<ledgerVars, approvalVars, journal, world>>

\* The caller tells the other runtime that it may run the tool.
Answer ==
    /\ At("answer")
    /\ runner' = [runner EXCEPT ![worker.act] = "allowed"]
    /\ Return
    /\ UNCHANGED <<stores, executed, crashes>>

-----------------------------------------------------------------------------
(* _execute and _complete_known_result *)

\* ToolRegistry.execute runs the handler.
Execute ==
    /\ At("execute")
    /\ executed' = [executed EXCEPT ![worker.act] = @ + 1]
    /\ GoTo("complete")
    /\ UNCHANGED <<stores, runner, crashes>>

\* The tool raises, before or after its effect, or its result is not valid.
ToolRaises ==
    /\ worker.pc \in {"execute", "complete"}
    /\ Return
    /\ UNCHANGED <<stores, world>>

\* The known result of a's authorization is journaled.
CompleteKnownResult(a, status, cost, by) ==
    LET reserved  == ReservationFor(a)
        settles   == reserved > 0 \/ cost > 0
        remaining == IF settles THEN PreviewSettlement(a, reserved, cost)
                                ELSE Available
    IN  /\ settles => CanPreviewSettlement(a, reserved)
        /\ Prepare("execution_complete", a,
                   [Make(a, status, DecisionFor(a), by) EXCEPT
                        !.cost = cost, !.remaining = remaining],
                   reserved, "local", Authorization(a).id, HasApproval(a))
        /\ Apply("execution_complete", a, "idle")

\* Mutant of ActualCost: the difference to the estimate.
CostDifference(a, cost, dryRun) ==
    IF dryRun THEN 0 ELSE cost - ReservationFor(a)

\* A dry run costs nothing; a result that reports no cost costs the estimate.
ActualCost(a, cost, dryRun) ==
    IF dryRun THEN 0 ELSE IF cost > 0 THEN cost ELSE ReservationFor(a)

Complete(status, cost, dryRun) ==
    /\ At("complete")
    /\ CompleteKnownResult(worker.act, status,
                           ActualCost(worker.act, cost, dryRun), worker.by)
    /\ UNCHANGED <<ledgerVars, approvalVars, evidence, world>>

\* complete_external_call: the post-tool hook reports success.  Its set of
\* terminal statuses is not the one of _authorization_terminal.
CompleteExternal(a) ==
    /\ At("ready") /\ ~worker.full
    /\ runner[a] = "ran"
    /\ With(a, {"skipped"}) # {}
    /\ With(a, TerminalResults \ {"not_executed"}) = {}
    /\ HasApproval(a) => CanConsume(a)
    /\ CompleteKnownResult(a, "succeeded", ActualCost(a, 0, FALSE),
                           IF HasApproval(a) THEN approvals[a].decidedBy
                                             ELSE NULL)
    /\ UNCHANGED <<ledgerVars, approvalVars, evidence, world>>

-----------------------------------------------------------------------------
(* resume, resume_external: an approval is decided or spent *)

\* An operator approves a call that this harness executes: decided and resumed
\* in one call.
ResumePending(a, by) ==
    /\ At("ready") /\ worker.full
    /\ Is(a, {"pending"}) /\ approvals[a].owner = "local"
    /\ Decide(a, TRUE, by)
    /\ worker' = [worker EXCEPT !.pc = "begin", !.act = a, !.by = by]
    /\ UNCHANGED <<ledgerVars, evidence, journal, world>>

\* An approval that is already decided is resumed: by any operator, on whom
\* resume does not check anything; by the proxy, which names the decider; or
\* by the hook, whose runtime executes the call.
ResumeApproved(a, by) ==
    /\ At("ready") /\ worker.full
    /\ Is(a, {"approved"})
    /\ approvals[a].owner # "local" => by = approvals[a].decidedBy
    /\ worker' = [worker EXCEPT !.pc = "begin", !.act = a, !.by = by,
                                !.external = approvals[a].owner = "hook"]
    /\ UNCHANGED <<stores, world>>

\* begin_execution, then the verdict of the policy as it is now.
Begin(allowed) ==
    /\ At("begin")
    /\ BeginExecution(worker.act)
    /\ GoTo(IF allowed THEN "authorize" ELSE "unreserve")
    /\ UNCHANGED <<ledgerVars, evidence, journal, world>>

BeginTooLate ==
    /\ At("begin")
    /\ BeginExecutionTooLate(worker.act)
    /\ Return
    /\ UNCHANGED <<ledgerVars, evidence, journal, world>>

\* Mutant of Unreserve: the reservation of a call that is refused late is kept.
UnreserveNothing ==
    /\ At("unreserve")
    /\ GoTo("blocked")
    /\ UNCHANGED <<stores, world>>

\* The policy has become stricter: _release_reservation, a BLOCKED record,
\* mark_consumed.
Unreserve ==
    /\ At("unreserve")
    /\ IF ReservationFor(worker.act) > 0 THEN Release(worker.act)
                                         ELSE UNCHANGED ledgerVars
    /\ GoTo("blocked")
    /\ UNCHANGED <<approvalVars, evidence, journal, world>>

RecordBlocked ==
    /\ At("blocked")
    /\ AppendRecord(worker.act, Make(worker.act, "blocked", "block", worker.by))
    /\ GoTo("consume")
    /\ UNCHANGED <<ledgerVars, approvalVars, journal, world>>

Consume ==
    /\ At("consume")
    /\ MarkConsumed(worker.act, Terminal(worker.act).id)
    /\ Return
    /\ UNCHANGED <<ledgerVars, evidence, journal, world>>

\* An operator rejects the call.
Reject(a, by) ==
    /\ At("ready") /\ worker.full
    /\ CanDecide(a)
    /\ Prepare("approval_reject", a,
               Make(a, "rejected", "approval_required", by),
               approvals[a].reserved, "local", 0, TRUE)
    /\ Apply("approval_reject", a, "idle")
    /\ UNCHANGED <<ledgerVars, approvalVars, evidence, world>>

-----------------------------------------------------------------------------
(* reconcile_execution, reconcile_authorization: an operator asserts what    *)
(* happened to an execution whose outcome was lost                           *)

\* What a terminal record says about the execution.
Observed(record) ==
    IF record.status \in {"succeeded", "failed"} THEN record.status
                                                 ELSE "not_executed"

\* Mutant of ReconcileExecution: does not look at the evidence first.
ReconcileBlindly(a, outcome, by) ==
    /\ At("ready") /\ ~worker.full
    /\ HasApproval(a)
    /\ BeginReconciliation(a, outcome, by)
    /\ worker' = [worker EXCEPT !.pc = "charge", !.act = a]
    /\ UNCHANGED <<ledgerVars, evidence, journal, world>>

\* The assertion is stored first; ledger, evidence and approval follow, each
\* write idempotent, outside the journal.
ReconcileExecution(a, outcome, by) ==
    /\ At("ready") /\ ~worker.full
    /\ HasApproval(a)
    /\ IsClosed(a) => Observed(Terminal(a)) = outcome
    /\ BeginReconciliation(a, outcome, by)
    /\ worker' = [worker EXCEPT !.pc = "charge", !.act = a]
    /\ UNCHANGED <<ledgerVars, evidence, journal, world>>

ChargeAsserted ==
    /\ At("charge")
    /\ LET approval == approvals[worker.act]
       IN  ReconcileReservation(worker.act, approval.reserved,
                                approval.outcome, approval.reconciledBy,
                                NoRecord)
    /\ GoTo(IF IsClosed(worker.act) THEN "close" ELSE "assert")
    /\ UNCHANGED <<approvalVars, evidence, journal, world>>

RecordAsserted ==
    /\ At("assert")
    /\ LET approval == approvals[worker.act]
       IN  AppendRecord(worker.act,
             [Make(worker.act, approval.outcome, "approval_required",
                   approval.decidedBy) EXCEPT
                !.cost = reconciliations[worker.act].charged,
                !.outcome = approval.outcome,
                !.reconciledBy = approval.reconciledBy])
    /\ GoTo("close")
    /\ UNCHANGED <<ledgerVars, approvalVars, journal, world>>

CloseAsserted ==
    /\ At("close")
    /\ MarkReconciled(worker.act, Terminal(worker.act).id)
    /\ Return
    /\ UNCHANGED <<ledgerVars, evidence, journal, world>>

\* An open authorization that belongs to no approval.
ReconcileAuthorization(a, outcome, by) ==
    LET cost == CASE HasPriorDebit(a) -> PriorDebit(a)
                  [] ~HasPriorDebit(a) /\ outcome = "not_executed" -> 0
                  [] OTHER -> ExposureFor(a)
    IN  /\ At("ready") /\ ~worker.full
        /\ IsOpen(a) /\ ~HasApproval(a)
        /\ Prepare("authorization_reconcile", a,
                   [Make(a, outcome, "allow", NULL) EXCEPT
                        !.cost = cost, !.outcome = outcome,
                        !.reconciledBy = by],
                   ExposureFor(a), "local", Authorization(a).id, FALSE)
        /\ Apply("authorization_reconcile", a, "idle")
        /\ UNCHANGED <<ledgerVars, approvalVars, evidence, world>>

-----------------------------------------------------------------------------
(* Outside the authority lock *)

\* cmd_decide approves a proxied or hooked call in the store itself.
ExternalApprove(a, by) ==
    /\ HasApproval(a) /\ approvals[a].owner \in {"mcp", "hook"}
    /\ Decide(a, TRUE, by)
    /\ UNCHANGED <<ledgerVars, evidence, journal, worker, world>>

\* The other runtime runs a tool that it was allowed to run.
RunnerRuns(a) ==
    /\ runner[a] = "allowed"
    /\ runner' = [runner EXCEPT ![a] = "ran"]
    /\ executed' = [executed EXCEPT ![a] = @ + 1]
    /\ UNCHANGED <<stores, worker, crashes>>

TimePasses(a) ==
    /\ TtlRunsOut(a)
    /\ UNCHANGED <<ledgerVars, evidence, journal, worker, world>>

\* The worker dies with the lock; what it wrote stays.
Crash ==
    /\ ~At("idle") /\ crashes < MaxCrashes
    /\ Return
    /\ crashes' = crashes + 1
    /\ UNCHANGED <<stores, runner, executed>>

-----------------------------------------------------------------------------
Entering ==
    \/ \E full \in BOOLEAN : Enter(full)
    \/ Recover
    \/ RefuseUnsafe
    \/ \E a \in Actions : Expire(a)
    \/ Admit
    \/ Leave

Applying == Advance \/ RefuseRecovery

Handling ==
    \/ \E a \in Actions : HandleBlocked(a)
    \/ \E a \in Actions, estimate \in Estimates, owner \in ApprovalOwners :
         HandleHold(a, estimate, owner)
    \/ \E a \in Actions, estimate \in Estimates, external \in BOOLEAN :
         HandleAllow(a, estimate, external)
    \/ Authorize
    \/ Answer

Completing ==
    \/ Execute
    \/ ToolRaises
    \/ \E status \in {"succeeded", "failed"}, cost \in Costs, dryRun \in BOOLEAN :
         Complete(status, cost, dryRun)
    \/ \E a \in Actions : CompleteExternal(a)

Resuming ==
    \/ \E a \in Actions, by \in Operators :
         ResumePending(a, by) \/ ResumeApproved(a, by) \/ Reject(a, by)
    \/ \E allowed \in BOOLEAN : Begin(allowed)
    \/ BeginTooLate
    \/ Unreserve
    \/ RecordBlocked
    \/ Consume

Reconciling ==
    \/ \E a \in Actions, outcome \in Outcomes, by \in Operators :
         \/ ReconcileExecution(a, outcome, by)
         \/ ReconcileAuthorization(a, outcome, by)
    \/ ChargeAsserted
    \/ RecordAsserted
    \/ CloseAsserted

Outside ==
    \/ \E a \in Actions, by \in Operators : ExternalApprove(a, by)
    \/ \E a \in Actions : RunnerRuns(a) \/ TimePasses(a)

Next ==
    \/ Entering \/ Applying \/ Handling \/ Completing \/ Resuming
    \/ Reconciling \/ Outside \/ Crash

Spec == Init /\ [][Next]_vars

=============================================================================
