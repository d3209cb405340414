----------------------- MODULE ControlLoopProperties -----------------------
(***************************************************************************)
(* What the control loop must keep, whoever calls, crashes or is late.     *)
(***************************************************************************)
EXTENDS ControlLoop

(* The execution gate *)

\* No side effect, by the harness or by another runtime, without a sealed
\* authorization record that precedes it; and none on an approval that was not
\* granted by someone and spent before (_execute, resume_external, Answer).
GateBeforeEffect ==
    \A a \in Actions : executed[a] > 0 =>
        /\ With(a, {"skipped"}) # {}
        /\ HasApproval(a) =>
             /\ Is(a, {"executing", "consumed"})
             /\ approvals[a].decidedBy # NULL

\* An authorization is spent by one execution: no crash, retry, recovery or
\* late answer runs the tool again.
EffectAtMostOnce == \A a \in Actions : executed[a] <= 1

\* A call whose evidence says blocked, rejected or expired never ran.
RefusedNeverRuns ==
    \A a \in Actions :
        With(a, {"blocked", "rejected", "expired"}) # {} => executed[a] = 0

-----------------------------------------------------------------------------
(* The stores agree with each other *)

\* The evidence of an action ends once: replayed journal stages, late
\* completions and operators' assertions never add a second terminal record.
OneTerminal == \A a \in Actions : Cardinality(Terminals(a)) <= 1

\* What the terminal record says an action cost is what the ledger took for it,
\* on every path to a terminal record: completion, refusal, reconciliation
\* after a crash anywhere on those paths.
ChargeMatchesEvidence ==
    \A a \in Actions : IsClosed(a) => Charged(a) = Terminal(a).cost

\* A closed action holds no money back.
ClosedHoldsNothing ==
    \A a \in Actions : IsClosed(a) => reservations[a] = 0

\* An operator's stored assertion and the terminal evidence never contradict
\* each other, although the assertion is made outside the journal.
AssertionAgrees ==
    \A a \in Actions :
        reconciliations[a] # NULL /\ IsClosed(a)
            => Observed(Terminal(a)) = reconciliations[a].outcome

\* An approval that has been rejected, has expired or is consumed stays so, and
\* who decided it is never replaced (decide, begin_execution, mark_*).
DecisionStands ==
    [][\A a \in Actions : HasApproval(a) =>
         /\ approvals'[a] # NULL
         /\ Is(a, TerminalApprovals)
              => approvals'[a].status = approvals[a].status
         /\ approvals[a].decidedBy # NULL
              => approvals'[a].decidedBy = approvals[a].decidedBy]_vars

\* The ledger goes below zero for one of two reasons only: a tool cost more than
\* was reserved for it, or an operator asserted that a call ran after its
\* reservation had been given back.  Two actions together never spend what
\* neither could spend alone (preflight, reserve and settle are separate writes).
NegativeOnlyKnown ==
    Available < 0 =>
        \E a \in Actions :
            \/ \E i \in EntriesOf(a, {"debit"}) :
                 entries[a][i].amount > entries[a][i].reserved
            \/ /\ reconciliations[a] # NULL /\ reconciliations[a].charged > 0
               /\ EntriesOf(a, {"release"}) # {}

-----------------------------------------------------------------------------
(* The audit *)

\* budget.reserve precedes the SKIPPED record and is not journaled.
ReservedUnsealed(a) ==
    /\ reservations[a] > 0
    /\ evidence[a] = << >> /\ ~HasApproval(a)
    /\ ~JournalIs(OperationKinds, a)

\* begin_execution found the approval too old and expired it by itself.
ExpiredUnjournaled(a) ==
    Is(a, {"expired"}) /\ reservations[a] > 0 /\ ~JournalIs(OperationKinds, a)

\* A cost above everything that was available.
Overrun(a) ==
    \E i \in EntriesOf(a, {"debit"}) : entries[a][i].after < 0

\* Whatever the moment, a crash included, the audit calls the state critical
\* only for one of three reasons; every other half-written state is one that
\* it explains by the active operation or reports as recoverable.
UnsafeOnlyKnown ==
    \A a \in Actions :
        ~SafeFor(a) => ReservedUnsealed(a) \/ ExpiredUnjournaled(a) \/ Overrun(a)

-----------------------------------------------------------------------------
(* Recovery *)

\* The approval was approved by the CLI while its creation was under way.
ApprovedWhileCreated ==
    journal.kind = "approval_create" /\ Is(journal.act, {"approved"})

\* The approval was approved or ran out while its rejection was under way.
OvertakenRejection ==
    /\ journal.kind = "approval_reject"
    /\ Is(journal.act, {"approved"}) \/ Due(journal.act)

\* The authorization was reconciled as not executed, and then completed.
CompletedAfterReconciliation ==
    /\ journal.kind = "execution_complete"
    /\ With(journal.act, {"not_executed"}) # {}

Overtaken ==
    ApprovedWhileCreated \/ OvertakenRejection \/ CompletedAfterReconciliation

\* Wherever an operation stopped, repeating it from the start gets through,
\* unless another actor overtook it in one of three ways.
RecoveryRefusedOnlyKnown ==
    journal # NULL => Recoverable(journal) \/ Overtaken

-----------------------------------------------------------------------------
(* The abstract lifecycle *)

\* How a's evidence ends: a terminal record that names no reconciling operator
\* reports what the harness itself knows.
EndingOf(a) ==
    IF ~IsClosed(a) THEN "open"
    ELSE IF Terminal(a).reconciledBy # NULL THEN "asserted"
    ELSE Terminal(a).status

Lifecycle == INSTANCE ActionLifecycle WITH
    authorized <- [a \in Actions |-> With(a, {"skipped"}) # {}],
    ran <- executed,
    ending <- [a \in Actions |-> EndingOf(a)]

\* The control loop, with its crashes, retries and recoveries, is an
\* implementation of the lifecycle.
ImplementsLifecycle == Lifecycle!Spec

-----------------------------------------------------------------------------
(* Progress *)

\* The worker goes on until it leaves or dies: an entry point is straight-line
\* code that never waits for another process.
WorkerStep ==
    /\ ~At("idle")
    /\ Entering \/ Applying \/ Handling \/ Completing \/ Resuming \/ Reconciling

\* The harness stays in use: some call that begins with recovery and the expiry
\* pass gets the authority lock again and again.  Nothing runs in the
\* background, so without such calls nothing is recovered and nothing expires.
FairSpec ==
    Spec /\ WF_vars(WorkerStep) /\ SF_vars(Enter(TRUE))

\* A prepared operation is finished by the following calls, however often they
\* crash, unless it was overtaken.
JournalDrains == journal # NULL ~> (journal = NULL \/ Overtaken)

Stuck == ~Safe \/ (journal # NULL /\ Overtaken)

\* An approval that is out of time is expired by the following calls, and its
\* reservation is given back, unless the harness is stuck.
ExpiryCompletes ==
    \A a \in Actions :
        Due(a) ~> \/ Is(a, {"expired"}) /\ reservations[a] = 0
                 \/ Stuck

=============================================================================
