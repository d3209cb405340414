---------------------------- MODULE OperatorTrust ----------------------------
(***************************************************************************)
(* operator_trust_state.py and operator_identity.py: which operator keys a *)
(* state directory trusts, and what the approvals, the journal and the     *)
(* staged profile rotation rest on them.                                   *)
(*                                                                         *)
(* A runtime resolves trust under the authority lock and keeps the policy  *)
(* it resolved; `dah approve` and `dah operator-trust-rotate` take only    *)
(* the lock of the file they write.  A signature is the pin it was made    *)
(* with, a missing attestation is NULL, a hash of bindings the bindings.   *)
(***************************************************************************)
EXTENDS Naturals, Sequences, FiniteSets

CONSTANTS
    Operators,      \* operator identities
    Keys,           \* public keys
    Approvals,      \* approvals that are held
    Procs,          \* processes on the state directory
    NULL,           \* no policy, no attestation
    ABSENT,         \* nothing is staged or reconciled
    MaxGeneration,  \* bound: generations of trust
    MaxCrashes      \* bound: processes killed

ASSUME TrustAssumption ==
    /\ MaxGeneration \in Nat \ {0} /\ MaxCrashes \in Nat
    /\ NULL \notin Procs \cup Approvals

Pins == [operator : Operators, key : Keys]

VARIABLES
    trust,      \* operator_trust.json
    approvals,  \* approvals.json
    profile,    \* authority_profile.json: who signed its rotations
    journal,    \* a journaled rejection
    lock,       \* the process that owns the authority lock
    procs,      \* process -> what it is doing
    crashes     \* how many processes were killed

vars == <<trust, approvals, profile, journal, lock, procs, crashes>>

-----------------------------------------------------------------------------
(* Operator trust policies and the durable chain *)

\* A key is assigned to one operator only.
Policies ==
    {B \in SUBSET Pins :
        /\ B # {}
        /\ \A p, q \in B : p.key = q.key => p.operator = q.operator}

\* What trusted keys a process can be configured with.
Configured == Policies \cup {NULL}

Attestation ==
    [from_generation : 1..MaxGeneration, from : Policies, to : Policies,
     signer : Pins]

TrustState ==
    [initial : Policies,
     transitions : UNION {[1..n -> Attestation] : n \in 0..(MaxGeneration - 1)}]

Generation(state) == Len(state.transitions) + 1

BindingsAt(state, n) ==
    IF n = 1 THEN state.initial ELSE state.transitions[n - 1].to

Bindings(state) == BindingsAt(state, Generation(state))

\* Mutant of IsAdditive: any other mapping is a successor.
IsReplaced(current, candidate) == current # candidate

IsAdditive(current, candidate) ==
    current # candidate /\ current \subseteq candidate

TransitionHolds(state, n, attestation) ==
    /\ attestation.from_generation = n
    /\ attestation.from = BindingsAt(state, n)
    /\ attestation.signer \in BindingsAt(state, n)

Verifies(state, policy) ==
    /\ policy = Bindings(state)
    /\ \A n \in DOMAIN state.transitions :
          TransitionHolds(state, n, state.transitions[n])

-----------------------------------------------------------------------------
(* Approvals and who decided them *)

Statuses ==
    {"pending", "approved", "executing", "consumed", "rejected", "expired"}

Signers == Pins \cup {NULL}

Approval ==
    [status : Statuses, due : BOOLEAN, signer : Signers,
     reconciled : Signers \cup {ABSENT}]

ASSUME SentinelAssumption ==
    /\ ABSENT \notin Signers /\ NULL \notin Pins \cup TrustState
    /\ \A policy \in Policies : policy # NULL

\* An attestation must be trusted when there is a policy, absent when there is none.
Accepts(policy, signer) ==
    IF policy = NULL THEN signer = NULL ELSE signer \in policy

\* _require_decision_identity: a process without a policy does not look.
DecisionIdentity(policy, a) == policy # NULL => approvals[a].signer \in policy

LegacySigned ==
    \E a \in Approvals :
        approvals[a].signer # NULL \/ approvals[a].reconciled \in Pins

\* Mutant of AuditedStatuses: every approval that is no longer pending.
AuditedAll == Statuses \ {"pending"}

AuditedStatuses == {"approved", "executing", "consumed", "rejected"}

ApprovalsVerify(policy) ==
    policy # NULL =>
        \A a \in Approvals :
            /\ approvals[a].status \in AuditedStatuses
                  => approvals[a].signer \in policy
            /\ approvals[a].reconciled # ABSENT
                  => approvals[a].reconciled \in policy

\* pending: who signed the rotation that is staged; transitions: the signatures
\* of the rotations that were activated.
Profile == [pending : Signers \cup {ABSENT}, transitions : SUBSET Pins]

\* AuthorityProfileState.verify: an unsigned rotation stays readable.
ProfileVerifies(policy) ==
    \A signer \in profile.transitions \cup ({profile.pending} \cap Pins) :
        policy # NULL /\ signer \in policy

-----------------------------------------------------------------------------
(* The audit of a process that was given `policy` *)

\* Mutant of TrustVerified: keys are compared when there are some.
TrustVerifiedIfGiven(policy) ==
    (trust # NULL /\ policy # NULL) => Verifies(trust, policy)

TrustVerified(policy) ==
    trust # NULL => policy # NULL /\ Verifies(trust, policy)

\* Signed records and neither enrolment nor keys.
MigrationRequired(policy) == trust = NULL /\ policy = NULL /\ LegacySigned

Safe(policy) ==
    /\ TrustVerified(policy)
    /\ ~MigrationRequired(policy)
    /\ ApprovalsVerify(policy)
    /\ policy # NULL => ProfileVerifies(policy)

-----------------------------------------------------------------------------
(* Processes *)

\* starting: the steps of build_harness that are left; ready: between two calls;
\* entering: a call before its audit; inside: after it; deciding: `dah approve`
\* has resolved its trust; signing: a rotation has read the trust.
Locations ==
    {"idle", "starting", "ready", "entering", "inside", "deciding", "signing"}

\* What a rotation has read of the trust.
Reading == [from_generation : 1..MaxGeneration, from : Policies]

\* target: it is configured for the profile of the pending rotation;
\* enrolled: its last look at operator_trust.json found an enrolment.
Process ==
    [pc : Locations, policy : Configured,
     todo : {<<>>, <<"profile">>, <<"resolve">>, <<"profile", "resolve">>,
             <<"resolve", "profile">>},
     target : BOOLEAN, enrolled : BOOLEAN,
     read : Reading \cup {NULL}]

Idle ==
    [pc |-> "idle", policy |-> NULL, todo |-> <<>>, target |-> FALSE,
     enrolled |-> FALSE, read |-> NULL]

Init ==
    /\ trust = NULL
    /\ approvals = [a \in Approvals |->
                      [status |-> "pending", due |-> FALSE, signer |-> NULL,
                       reconciled |-> ABSENT]]
    /\ profile = [pending |-> ABSENT, transitions |-> {}]
    /\ journal = NULL
    /\ lock = NULL
    /\ procs = [p \in Procs |-> Idle]
    /\ crashes = 0

-----------------------------------------------------------------------------
(* Resolving trust *)

\* preview_for_authority: a policy that is not enrolled yet is returned as it is.
Previews(policy) ==
    /\ TrustVerified(policy)
    /\ ~MigrationRequired(policy)

\* resolve_for_authority: the first policy that arrives is enrolled.
ResolveForAuthority(policy) ==
    /\ Previews(policy)
    /\ trust' = IF trust = NULL /\ policy # NULL
                 THEN [initial |-> policy, transitions |-> <<>>] ELSE trust

\* The rest of a start when trust is not enrolled yet, and when it is: signed
\* mode is enrolled before the first write of the profile.
StartSteps(policy) ==
    IF trust = NULL /\ policy # NULL
    THEN <<"resolve", "profile">> ELSE <<"profile", "resolve">>

Begin(p, policy, target) ==
    /\ procs[p].pc = "idle"
    /\ lock = NULL
    /\ Previews(policy)
    /\ lock' = p
    /\ procs' = [procs EXCEPT ![p] =
                   [Idle EXCEPT !.pc = "starting", !.policy = policy,
                    !.todo = StartSteps(policy), !.target = target,
                    !.enrolled = trust # NULL]]
    /\ UNCHANGED <<trust, approvals, profile, journal, crashes>>

Resolve(p) ==
    /\ procs[p].todo # <<>> /\ Head(procs[p].todo) = "resolve"
    /\ ResolveForAuthority(procs[p].policy)
    /\ procs' = [procs EXCEPT ![p].todo = Tail(@),
                              ![p].enrolled = trust' # NULL]
    /\ UNCHANGED <<approvals, profile, journal, lock, crashes>>

\* The profile of this process is the active one, or the pending one; under
\* enrolled trust the pending rotation must be signed.
Activates(policy, target) ==
    target =>
        /\ profile.pending # ABSENT
        /\ policy # NULL => profile.pending # NULL

ResolveProfile(p) ==
    LET policy == procs[p].policy
        target == procs[p].target
    IN  /\ procs[p].todo # <<>> /\ Head(procs[p].todo) = "profile"
        /\ TrustVerified(policy)
        /\ ProfileVerifies(policy)
        /\ Activates(policy, target)
        /\ profile' =
              IF target
              THEN [pending |-> ABSENT,
                    transitions |-> profile.transitions \cup
                                       ({profile.pending} \ {NULL})]
              ELSE profile
        /\ procs' = [procs EXCEPT ![p].todo = Tail(@), ![p].target = FALSE,
                                  ![p].enrolled = trust # NULL]
        /\ UNCHANGED <<trust, approvals, journal, lock, crashes>>

-----------------------------------------------------------------------------
(* Calls of a runtime, under the authority lock *)

Enter(p) ==
    /\ procs[p].pc = "ready"
    /\ lock = NULL
    /\ lock' = p
    /\ procs' = [procs EXCEPT ![p].pc = "entering"]
    /\ UNCHANGED <<trust, approvals, profile, journal, crashes>>

Checking(p) ==
    procs[p].pc \in {"starting", "entering"} /\ procs[p].todo = <<>>

\* ensure_rejected: apply or recognise the journaled rejection.
EnsureRejected(policy) ==
    LET a == journal.approval
    IN  \/ /\ approvals[a].status = "pending" /\ ~approvals[a].due
           /\ Accepts(policy, journal.signer)
           /\ approvals' = [approvals EXCEPT ![a].status = "rejected",
                                             ![a].signer = journal.signer]
        \/ /\ approvals[a].status = "rejected"
           /\ approvals[a].signer = journal.signer
           /\ DecisionIdentity(policy, a)
           /\ UNCHANGED approvals

\* recover_operation, at a start and before every call.
Recover(p) ==
    /\ Checking(p) \/ procs[p].pc = "inside"
    /\ lock = p
    /\ journal # NULL
    /\ EnsureRejected(procs[p].policy)
    /\ journal' = NULL
    /\ UNCHANGED <<trust, profile, lock, procs, crashes>>

\* require_safe and the expiry of what is due; a start then gives up the lock.
Audit(p) ==
    LET start == procs[p].pc = "starting"
    IN  /\ Checking(p)
        /\ journal = NULL
        /\ Safe(procs[p].policy)
        /\ approvals' = [a \in Approvals |->
              IF approvals[a].due /\ approvals[a].status \in {"pending", "approved"}
              THEN [approvals[a] EXCEPT !.status = "expired"] ELSE approvals[a]]
        /\ lock' = IF start THEN NULL ELSE p
        /\ procs' = [procs EXCEPT ![p].pc = IF start THEN "ready" ELSE "inside",
                                  ![p].enrolled = trust # NULL]
        /\ UNCHANGED <<trust, profile, journal, crashes>>

Inside(p) == procs[p].pc = "inside" /\ journal = NULL

\* ApprovalStore.decide with approved = True.
Decides(policy, a, signer) ==
    /\ approvals[a].status = "pending" /\ ~approvals[a].due
    /\ Accepts(policy, signer)
    /\ approvals' = [approvals EXCEPT ![a].status = "approved",
                                      ![a].signer = signer]

Approve(p, a, signer) ==
    /\ Inside(p)
    /\ Decides(procs[p].policy, a, signer)
    /\ UNCHANGED <<trust, profile, journal, lock, procs, crashes>>

PrepareReject(p, a, signer) ==
    /\ Inside(p)
    /\ approvals[a].status = "pending" /\ ~approvals[a].due
    /\ Accepts(procs[p].policy, signer)
    /\ journal' = [approval |-> a, signer |-> signer]
    /\ UNCHANGED <<trust, approvals, profile, lock, procs, crashes>>

\* A due approval is expired by the attempt, whoever decided it.
BeginExecution(p, a) ==
    /\ Inside(p)
    /\ approvals[a].status = "approved"
    /\ \/ /\ approvals[a].due
          /\ approvals' = [approvals EXCEPT ![a].status = "expired"]
       \/ /\ ~approvals[a].due
          /\ DecisionIdentity(procs[p].policy, a)
          /\ approvals' = [approvals EXCEPT ![a].status = "executing"]
    /\ UNCHANGED <<trust, profile, journal, lock, procs, crashes>>

Complete(p, a) ==
    /\ Inside(p)
    /\ approvals[a].status = "executing"
    /\ DecisionIdentity(procs[p].policy, a)
    /\ approvals' = [approvals EXCEPT ![a].status = "consumed"]
    /\ UNCHANGED <<trust, profile, journal, lock, procs, crashes>>

ReconcileExecution(p, a, signer) ==
    /\ Inside(p)
    /\ approvals[a].status = "executing"
    /\ Accepts(procs[p].policy, signer)
    /\ approvals' = [approvals EXCEPT ![a].status = "consumed",
                                      ![a].reconciled = signer]
    /\ UNCHANGED <<trust, profile, journal, lock, procs, crashes>>

Leave(p) ==
    /\ Inside(p)
    /\ lock' = NULL
    /\ procs' = [procs EXCEPT ![p].pc = "ready"]
    /\ UNCHANGED <<trust, approvals, profile, journal, crashes>>

-----------------------------------------------------------------------------
(* Commands *)

\* `dah approve` of a call another runtime executes: no authority lock.
ResolveToDecide(p, policy) ==
    /\ procs[p].pc = "idle"
    /\ ResolveForAuthority(policy)
    /\ procs' = [procs EXCEPT ![p] = [Idle EXCEPT !.pc = "deciding",
                                 !.policy = policy, !.enrolled = trust' # NULL]]
    /\ UNCHANGED <<approvals, profile, journal, lock, crashes>>

Decide(p, a, signer) ==
    /\ procs[p].pc = "deciding"
    /\ Decides(procs[p].policy, a, signer)
    /\ procs' = [procs EXCEPT ![p] = Idle]
    /\ UNCHANGED <<trust, profile, journal, lock, crashes>>

\* `dah authority-profile-rotate`, under the authority lock: trust is previewed,
\* not enrolled.  A repeated request leaves the pending one as it is.
RotateProfile(p, policy, signer) ==
    /\ procs[p].pc = "idle"
    /\ lock = NULL
    /\ Previews(policy) /\ ProfileVerifies(policy)
    /\ Accepts(policy, signer)
    /\ profile.pending = ABSENT
    /\ profile' = [profile EXCEPT !.pending = signer]
    /\ UNCHANGED <<trust, approvals, journal, lock, procs, crashes>>

\* `dah operator-trust-rotate` reads the state it signs a transition from.
ReadTrust(p) ==
    /\ procs[p].pc = "idle"
    /\ trust # NULL /\ Generation(trust) < MaxGeneration
    /\ procs' = [procs EXCEPT ![p] =
                   [Idle EXCEPT !.pc = "signing",
                    !.read = [from_generation |-> Generation(trust),
                              from |-> Bindings(trust)]]]
    /\ UNCHANGED <<trust, approvals, profile, journal, lock, crashes>>

SignTransition(read, candidate, signer) ==
    [from_generation |-> read.from_generation, from |-> read.from,
     to |-> candidate, signer |-> signer]

\* What was rotated already is recognised.
Rotated(attestation) ==
    /\ trust.transitions # <<>>
    /\ trust.transitions[Len(trust.transitions)] = attestation

\* current and candidate are the mappings the command was given.
Rotate(p, current, candidate, signer) ==
    LET attestation == SignTransition(procs[p].read, candidate, signer)
    IN  /\ procs[p].pc = "signing"
        /\ \/ /\ Rotated(attestation)
              /\ UNCHANGED trust
           \/ /\ Verifies(trust, current)
              /\ IsAdditive(current, candidate)
              /\ TransitionHolds(trust, Generation(trust), attestation)
              /\ trust' = [trust EXCEPT !.transitions = Append(@, attestation)]
        /\ procs' = [procs EXCEPT ![p] = Idle]
        /\ UNCHANGED <<approvals, profile, journal, lock, crashes>>

-----------------------------------------------------------------------------
(* Environment *)

TimePasses(a) ==
    /\ ~approvals[a].due
    /\ approvals[a].status \in {"pending", "approved"}
    /\ approvals' = [approvals EXCEPT ![a].due = TRUE]
    /\ UNCHANGED <<trust, profile, journal, lock, procs, crashes>>

\* A process ends between two calls, or a step of it was refused: a refusal
\* raises and leaves the lock.
Stop(p) ==
    /\ procs[p].pc \in {"ready", "starting", "entering", "deciding", "signing"}
    /\ lock' = IF lock = p THEN NULL ELSE lock
    /\ procs' = [procs EXCEPT ![p] =
                   IF procs[p].pc = "entering" THEN [@ EXCEPT !.pc = "ready"]
                   ELSE Idle]
    /\ UNCHANGED <<trust, approvals, profile, journal, crashes>>

Crash(p) ==
    /\ procs[p].pc = "inside"
    /\ crashes < MaxCrashes
    /\ lock' = NULL
    /\ procs' = [procs EXCEPT ![p] = Idle]
    /\ crashes' = crashes + 1
    /\ UNCHANGED <<trust, approvals, profile, journal>>

Command(p) ==
    \/ \E policy \in Configured :
          \/ \E target \in BOOLEAN : Begin(p, policy, target)
          \/ ResolveToDecide(p, policy)
          \/ \E signer \in Signers : RotateProfile(p, policy, signer)
    \/ \E a \in Approvals, signer \in Signers : Decide(p, a, signer)
    \/ ReadTrust(p)
    \/ \E current, candidate \in Policies, signer \in Pins :
          Rotate(p, current, candidate, signer)

Runtime(p) ==
    \/ Resolve(p) \/ ResolveProfile(p) \/ Enter(p) \/ Recover(p) \/ Audit(p)
    \/ \E a \in Approvals :
          \/ BeginExecution(p, a) \/ Complete(p, a)
          \/ \E signer \in Signers :
                \/ Approve(p, a, signer) \/ PrepareReject(p, a, signer)
                \/ ReconcileExecution(p, a, signer)
    \/ Leave(p)

Next ==
    \/ \E p \in Procs : Command(p) \/ Runtime(p) \/ Stop(p) \/ Crash(p)
    \/ \E a \in Approvals : TimePasses(a)

Spec == Init /\ [][Next]_vars

=============================================================================
