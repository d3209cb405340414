------------------------ MODULE OperatorTrustProofs ------------------------
(***************************************************************************)
(* What enrolled operator trust promises, for any operators, keys,         *)
(* approvals, processes and generations of trust.                          *)
(***************************************************************************)
EXTENDS OperatorTrustProperties, TLAPS, SequenceTheorems

\* A start step of the process that resolves its trust is left.
Unresolved(todo) ==
    todo \in {<<"resolve">>, <<"profile", "resolve">>, <<"resolve", "profile">>}

\* The keys were enrolled, or a rotation added them later.
Trusted(keys, state) == state # NULL /\ keys \subseteq Bindings(state)

\* Every key was added by one that was trusted before it.
ChainHolds ==
    trust # NULL =>
        \A n \in DOMAIN trust.transitions :
            TransitionHolds(trust, n, trust.transitions[n])

\* A signature that was accepted is one of a trusted key.
SignedIn(approval, state) ==
    /\ approval.signer \in Pins => Trusted({approval.signer}, state)
    /\ approval.reconciled \in Pins => Trusted({approval.reconciled}, state)

AllSigned == \A a \in Approvals : SignedIn(approvals[a], trust)

Journaled(rejection, state) ==
    rejection # NULL /\ rejection.signer \in Pins => Trusted({rejection.signer}, state)

JournalSigned == Journaled(journal, trust)

Locked == {"starting", "entering", "inside"}

\* What a process that resolved its trust may rely on, what a rotation has read,
\* and that calls and starts work under the authority lock.
Resolved(p, process, state, holder) ==
    /\ process.policy # NULL /\ ~Unresolved(process.todo) =>
          Trusted(process.policy, state)
    /\ process.enrolled => process.policy # NULL
    /\ process.pc = "signing" =>
          /\ state # NULL /\ process.read \in Reading
          /\ process.read.from_generation < MaxGeneration
    /\ process.pc \in Locked => holder = p
    /\ process.pc # "starting" => process.todo = <<>>

AllResolved == \A p \in Procs : Resolved(p, procs[p], trust, lock)

\* A call that has passed its audit finds every execution decided by its keys.
Vouched(process, approval) ==
    process.pc = "inside" /\ process.policy # NULL /\ approval.status = "executing"
        => approval.signer \in process.policy

AllVouched ==
    \A p \in Procs, a \in Approvals : Vouched(procs[p], approvals[a])

IInv ==
    /\ TypeOK /\ ChainHolds /\ AllSigned /\ JournalSigned /\ AllResolved
    /\ AllVouched

-----------------------------------------------------------------------------
(* Types *)

LEMMA Sentinels ==
    /\ NULL \notin Pins /\ ABSENT \notin Pins /\ NULL # ABSENT
    /\ NULL \notin TrustState /\ NULL \notin Procs
    /\ \A policy \in Policies : policy # NULL /\ policy \subseteq Pins /\ NULL \notin policy
  BY SentinelAssumption, TrustAssumption DEF Signers, Policies

LEMMA Types ==
    ASSUME IInv
    PROVE  /\ \A a \in Approvals : approvals[a] \in Approval
           /\ \A p \in Procs : procs[p] \in Process
           /\ trust # NULL => trust \in TrustState
           /\ MaxGeneration \in Nat \ {0} /\ MaxCrashes \in Nat
  BY TrustAssumption DEF IInv, TypeOK

\* The transitions of a trust are a sequence one shorter than its generations.
LEMMA Histories ==
    ASSUME NEW t
    PROVE  t \in UNION {[1..n -> Attestation] : n \in 0..(MaxGeneration - 1)}
             <=> t \in Seq(Attestation) /\ Len(t) <= MaxGeneration - 1
  <1>1. MaxGeneration - 1 \in Nat
    BY TrustAssumption
  <1>2. ASSUME NEW n \in 0..(MaxGeneration - 1), t \in [1..n -> Attestation]
        PROVE  t \in Seq(Attestation) /\ Len(t) <= MaxGeneration - 1
    <2>1. n \in Nat /\ n <= MaxGeneration - 1
      BY <1>1
    <2>2. t \in Seq(Attestation)
      BY <1>2, <2>1, SeqDef
    <2>3. Len(t) = n
      BY <1>2, <2>1, <2>2, SMTT(40)
    <2> QED
      BY <2>1, <2>2, <2>3
  <1>3. ASSUME t \in Seq(Attestation), Len(t) <= MaxGeneration - 1
        PROVE  \E n \in 0..(MaxGeneration - 1) : t \in [1..n -> Attestation]
    <2>1. Len(t) \in 0..(MaxGeneration - 1) /\ t \in [1..Len(t) -> Attestation]
      BY <1>1, <1>3
    <2> QED
      BY <2>1
  <1> QED
    BY <1>2, <1>3

LEMMA BindingsTypes ==
    ASSUME NEW state \in TrustState
    PROVE  /\ state.initial \in Policies
           /\ state.transitions \in Seq(Attestation)
           /\ Generation(state) \in 1..MaxGeneration
           /\ Bindings(state) \in Policies
           /\ state = [initial |-> state.initial, transitions |-> state.transitions]
  <1>1. /\ state.initial \in Policies
        /\ state.transitions \in Seq(Attestation)
        /\ Len(state.transitions) <= MaxGeneration - 1
        /\ state = [initial |-> state.initial, transitions |-> state.transitions]
    BY Histories DEF TrustState
  <1>2. Generation(state) \in 1..MaxGeneration
    BY <1>1, TrustAssumption DEF Generation
  <1>3. Generation(state) # 1 => state.transitions[Generation(state) - 1] \in Attestation
    BY <1>1 DEF Generation
  <1>4. Bindings(state) \in Policies
    BY <1>1, <1>3 DEF Bindings, BindingsAt, Attestation
  <1> QED
    BY <1>1, <1>2, <1>4

LEMMA TodoSteps ==
    ASSUME NEW x \in Process, x.todo # <<>>
    PROVE  /\ Tail(x.todo) \in {<<>>, <<"profile">>, <<"resolve">>}
           /\ Head(x.todo) = "profile" => (Unresolved(x.todo) <=> Unresolved(Tail(x.todo)))
  <1>1. x.todo \in {<<"profile">>, <<"resolve">>, <<"profile", "resolve">>,
                    <<"resolve", "profile">>}
    BY DEF Process
  <1>2. CASE x.todo = <<"profile">>
    BY <1>2 DEF Unresolved
  <1>3. CASE x.todo = <<"resolve">>
    BY <1>3 DEF Unresolved
  <1>4. CASE x.todo = <<"profile", "resolve">>
    BY <1>4 DEF Unresolved
  <1>5. CASE x.todo = <<"resolve", "profile">>
    BY <1>5 DEF Unresolved
  <1> QED
    BY <1>1, <1>2, <1>3, <1>4, <1>5

LEMMA IdleProcess ==
    /\ Idle \in Process /\ Idle.pc = "idle" /\ Idle.policy = NULL /\ Idle.todo = <<>>
    /\ Idle.enrolled = FALSE /\ Idle.read = NULL /\ Idle.target = FALSE
  BY DEF Idle, Process, Locations, Configured

-----------------------------------------------------------------------------
(* What the invariant gives *)

LEMMA InvImplies == IInv => HistoryVerifies /\ StuckOnlyKnown
  <1> SUFFICES ASSUME IInv PROVE HistoryVerifies /\ StuckOnlyKnown
    OBVIOUS
  <1>1. HistoryVerifies
    BY DEF IInv, ChainHolds, AllSigned, SignedIn, Trusted, HistoryVerifies, Verifies
  <1>2. ASSUME ~UnsignedHistory, ~ForeignRotation
        PROVE  \E policy \in Configured : Startable(policy)
    <2>1. \A a \in Approvals :
            /\ approvals[a] \in Approval
            /\ approvals[a].status \in Decided => approvals[a].signer \in Pins
            /\ approvals[a].reconciled # ABSENT => approvals[a].reconciled \in Pins
            /\ SignedIn(approvals[a], trust)
      BY <1>2, Types DEF UnsignedHistory, Approval, Signers, IInv, AllSigned
    <2>2. journal # NULL =>
            /\ journal.approval \in Approvals /\ journal.signer \in Pins
            /\ Trusted({journal.signer}, trust)
      BY <1>2 DEF UnsignedHistory, Signers, IInv, TypeOK, JournalSigned, Journaled
    <2>3. CASE trust # NULL
      <3> DEFINE policy == Bindings(trust)
      <3>1. policy \in Policies /\ policy # NULL
        BY <2>3, BindingsTypes, Types, Sentinels
      <3>2. Previews(policy)
        BY <1>1, <2>3, <3>1 DEF Previews, TrustVerified, MigrationRequired, HistoryVerifies
      <3>3. ProfileVerifies(policy)
        BY <1>2, <2>3, <3>1 DEF ProfileVerifies, ForeignRotation
      <3>4. ApprovalsVerify(policy)
        BY <2>1, <2>3 DEF ApprovalsVerify, AuditedStatuses, Decided, SignedIn, Trusted
      <3>5. ASSUME journal # NULL
            PROVE  IF approvals[journal.approval].status = "rejected"
                   THEN DecisionIdentity(policy, journal.approval)
                   ELSE Accepts(policy, journal.signer)
        BY <2>1, <2>2, <3>1, <3>5
           DEF DecisionIdentity, Accepts, Decided, SignedIn, Trusted
      <3>6. Startable(policy)
        BY <3>2, <3>3, <3>4, <3>5 DEF Startable
      <3> QED
        BY <3>1, <3>6 DEF Configured
    <2>4. CASE trust = NULL
      <3>1. journal = NULL
        BY <2>2, <2>4 DEF Trusted
      <3>2. ~LegacySigned
        <4>1. \A a \in Approvals : approvals[a].signer \notin Pins
                                    /\ approvals[a].reconciled \notin Pins
          BY <2>1, <2>4 DEF SignedIn, Trusted
        <4> QED
          BY <2>1, <4>1 DEF LegacySigned, Approval, Signers
      <3>3. Previews(NULL)
        BY <2>4, <3>2 DEF Previews, TrustVerified, MigrationRequired
      <3>4. ProfileVerifies(NULL) /\ ApprovalsVerify(NULL)
        BY <1>2, <2>4 DEF ProfileVerifies, ForeignRotation, ApprovalsVerify
      <3>5. Startable(NULL)
        BY <3>1, <3>3, <3>4 DEF Startable
      <3> QED
        BY <3>5 DEF Configured
    <2> QED
      BY <2>3, <2>4
  <1> QED
    BY <1>1, <1>2 DEF StuckOnlyKnown

LEMMA InitHolds == Init => IInv
  <1> SUFFICES ASSUME Init PROVE IInv
    OBVIOUS
  <1>1. TypeOK
    BY IdleProcess, TrustAssumption
       DEF Init, TypeOK, Approval, Statuses, Signers, Profile
  <1>2. ChainHolds /\ JournalSigned
    BY DEF Init, ChainHolds, JournalSigned, Journaled
  <1>3. AllSigned
    BY Sentinels DEF Init, AllSigned, SignedIn
  <1>4. AllResolved /\ AllVouched
    BY IdleProcess DEF Init, AllResolved, Resolved, Locked, AllVouched, Vouched
  <1> QED
    BY <1>1, <1>2, <1>3, <1>4 DEF IInv

-----------------------------------------------------------------------------
(* A process moves, an approval moves, trust grows *)

LEMMA ProcessMoves ==
    ASSUME IInv, NEW p \in Procs, NEW x \in Process,
           procs' = [procs EXCEPT ![p] = x],
           UNCHANGED <<trust, approvals>>, profile' \in Profile,
           journal' = journal, lock' \in Procs \cup {NULL}, crashes' \in 0..MaxCrashes,
           Resolved(p, x, trust, lock'),
           lock' = lock \/ lock = NULL \/ lock = p,
           \A a \in Approvals : Vouched(x, approvals[a])
    PROVE  IInv'
  <1>1. \A q \in Procs : procs'[q] = IF q = p THEN x ELSE procs[q]
    BY DEF IInv, TypeOK
  <1>2. TypeOK'
    BY DEF IInv, TypeOK
  <1>3. ChainHolds' /\ AllSigned' /\ JournalSigned'
    BY DEF IInv, ChainHolds, AllSigned, JournalSigned
  <1>4. AllResolved'
    <2> SUFFICES ASSUME NEW q \in Procs PROVE Resolved(q, procs'[q], trust, lock')
      BY DEF AllResolved
    <2>1. CASE q = p
      BY <1>1, <2>1
    <2>2. CASE q # p
      <3>1. procs'[q] = procs[q] /\ Resolved(q, procs[q], trust, lock)
        BY <1>1, <2>2 DEF IInv, AllResolved
      <3> QED
        BY <2>2, <3>1, Sentinels DEF Resolved
    <2> QED
      BY <2>1, <2>2
  <1>5. AllVouched'
    BY <1>1 DEF IInv, AllVouched
  <1> QED
    BY <1>2, <1>3, <1>4, <1>5 DEF IInv

LEMMA ApprovalMoves ==
    ASSUME IInv, NEW a \in Approvals, NEW r \in Approval,
           approvals' = [approvals EXCEPT ![a] = r],
           UNCHANGED <<trust, profile, lock, crashes, procs>>, journal' \in {journal, NULL},
           SignedIn(r, trust),
           \A p \in Procs : Vouched(procs[p], r)
    PROVE  IInv'
  <1>1. \A b \in Approvals : approvals'[b] = IF b = a THEN r ELSE approvals[b]
    BY DEF IInv, TypeOK
  <1>2. TypeOK'
    BY DEF IInv, TypeOK
  <1>3. ChainHolds' /\ AllResolved'
    BY DEF IInv, ChainHolds, AllResolved
  <1>4. AllSigned' /\ AllVouched'
    BY <1>1 DEF IInv, AllSigned, AllVouched
  <1>5. JournalSigned'
    BY DEF IInv, JournalSigned, Journaled
  <1> QED
    BY <1>2, <1>3, <1>4, <1>5 DEF IInv

LEMMA TrustGrows ==
    ASSUME IInv, NEW p \in Procs, NEW x \in Process, trust' \in TrustState,
           procs' = [procs EXCEPT ![p] = x],
           UNCHANGED <<approvals, profile, journal, lock, crashes>>,
           trust # NULL => Bindings(trust) \subseteq Bindings(trust'),
           ChainHolds', Resolved(p, x, trust', lock), x.pc # "inside"
    PROVE  IInv'
  <1>1. \A q \in Procs : procs'[q] = IF q = p THEN x ELSE procs[q]
    BY DEF IInv, TypeOK
  <1>2. TypeOK'
    BY DEF IInv, TypeOK
  <1>3. ASSUME NEW K, Trusted(K, trust) PROVE Trusted(K, trust')
    BY <1>3, Sentinels DEF Trusted
  <1>4. AllSigned' /\ JournalSigned'
    BY <1>3 DEF IInv, AllSigned, JournalSigned, SignedIn, Journaled
  <1>5. AllResolved'
    <2> SUFFICES ASSUME NEW q \in Procs PROVE Resolved(q, procs'[q], trust', lock)
      BY DEF AllResolved
    <2>1. CASE q = p
      BY <1>1, <2>1
    <2>2. CASE q # p
      <3>1. procs'[q] = procs[q] /\ Resolved(q, procs[q], trust, lock)
        BY <1>1, <2>2 DEF IInv, AllResolved
      <3> QED
        BY <1>3, <3>1, Sentinels DEF Resolved
    <2> QED
      BY <2>1, <2>2
  <1>6. AllVouched'
    BY <1>1 DEF IInv, AllVouched, Vouched
  <1> QED
    BY <1>2, <1>4, <1>5, <1>6 DEF IInv

\* What the identity that a policy accepts rests on.
LEMMA AcceptedSigner ==
    ASSUME IInv, NEW p \in Procs, ~Unresolved(procs[p].todo),
           NEW signer \in Signers, Accepts(procs[p].policy, signer)
    PROVE  /\ signer \in Pins => Trusted({signer}, trust)
           /\ signer = NULL => procs[p].policy = NULL /\ ~procs[p].enrolled
  <1>1. procs[p] \in Process /\ Resolved(p, procs[p], trust, lock)
    BY Types DEF IInv, AllResolved
  <1>2. procs[p].policy = NULL \/ procs[p].policy \in Policies
    BY <1>1 DEF Process, Configured
  <1>3. signer \in Pins => Trusted({signer}, trust)
    BY <1>1, Sentinels DEF Resolved, Accepts, Trusted
  <1>4. signer = NULL => procs[p].policy = NULL /\ ~procs[p].enrolled
    BY <1>1, <1>2, Sentinels DEF Resolved, Accepts
  <1> QED
    BY <1>3, <1>4

\* A call works under the lock with its trust resolved.
LEMMA InsideLocked ==
    ASSUME IInv, NEW p \in Procs, procs[p].pc = "inside"
    PROVE  /\ lock = p /\ ~Unresolved(procs[p].todo)
           /\ \A q \in Procs : procs[q].pc = "inside" => q = p
  BY DEF IInv, AllResolved, Resolved, Locked, Unresolved

-----------------------------------------------------------------------------
(* Resolving trust *)

LEMMA BeginStep ==
    ASSUME IInv, NEW p \in Procs, NEW policy \in Configured, NEW target \in BOOLEAN,
           Begin(p, policy, target)
    PROVE  IInv'
  <1> DEFINE x == [Idle EXCEPT !.pc = "starting", !.policy = policy,
                    !.todo = StartSteps(policy), !.target = target,
                    !.enrolled = (trust # NULL)]
  <1>1. /\ lock = NULL /\ lock' = p /\ Previews(policy)
        /\ procs' = [procs EXCEPT ![p] = x]
        /\ UNCHANGED <<trust, approvals, profile, journal, crashes>>
    BY DEF Begin
  <1>2. /\ StartSteps(policy) \in {<<"profile", "resolve">>, <<"resolve", "profile">>}
        /\ Unresolved(StartSteps(policy))
    BY DEF StartSteps, Unresolved
  <1>3. /\ x \in Process /\ x.pc = "starting" /\ x.policy = policy
        /\ x.todo = StartSteps(policy) /\ x.enrolled = (trust # NULL)
    BY <1>2 DEF Idle, Process, Locations
  <1> HIDE DEF x
  <1>4. trust # NULL => policy # NULL
    BY <1>1 DEF Previews, TrustVerified
  <1>5. Resolved(p, x, trust, lock')
    BY <1>1, <1>2, <1>3, <1>4 DEF Resolved
  <1>6. \A a \in Approvals : Vouched(x, approvals[a])
    BY <1>3 DEF Vouched
  <1>7. profile' \in Profile /\ crashes' \in 0..MaxCrashes
    BY <1>1 DEF IInv, TypeOK
  <1> QED
    BY <1>1, <1>3, <1>5, <1>6, <1>7, ProcessMoves

\* The first keys that arrive are enrolled; a policy that is resolved is trusted.
LEMMA ResolveStep ==
    ASSUME IInv, NEW p \in Procs, NEW policy \in Configured, NEW x \in Process,
           ResolveForAuthority(policy), procs' = [procs EXCEPT ![p] = x],
           UNCHANGED <<approvals, profile, journal, lock, crashes>>,
           x.policy = policy, x.enrolled = (trust' # NULL),
           x.pc \in {"starting", "deciding"}, x.pc = "starting" => lock = p,
           x.pc = "deciding" => x.todo = <<>>
    PROVE  IInv'
  <1>1. TrustVerified(policy)
    BY DEF ResolveForAuthority, Previews
  <1>2. \A a \in Approvals : Vouched(x, approvals[a])
    BY DEF Vouched
  <1>3. profile' \in Profile /\ crashes' \in 0..MaxCrashes /\ lock' \in Procs \cup {NULL}
    BY DEF IInv, TypeOK
  <1> DEFINE enrolment == [initial |-> policy, transitions |-> <<>>]
  <1>4. policy # NULL => enrolment \in TrustState
    <2>1. <<>> \in Seq(Attestation) /\ Len(<<>>) <= MaxGeneration - 1
      BY TrustAssumption
    <2> QED
      BY <2>1, Histories DEF TrustState, Configured
  <1>5. CASE trust' = trust
    <2>1. policy # NULL => Trusted(policy, trust)
      <3>1. policy # NULL => trust # NULL
        BY <1>4, <1>5, Sentinels DEF ResolveForAuthority
      <3> QED
        BY <1>1, <3>1 DEF TrustVerified, Verifies, Trusted
    <2>2. trust # NULL => policy # NULL
      BY <1>1 DEF TrustVerified
    <2>3. Resolved(p, x, trust, lock')
      BY <1>5, <2>1, <2>2 DEF Resolved, Locked
    <2> QED
      BY <1>2, <1>3, <1>5, <2>3, ProcessMoves
  <1>6. CASE trust' # trust
    <2>1. trust = NULL /\ policy \in Policies /\ policy # NULL /\ trust' = enrolment
      BY <1>6 DEF ResolveForAuthority, Configured
    <2>3. enrolment \in TrustState
      BY <1>4, <2>1
    <2>4. Bindings(enrolment) = policy
      BY DEF Bindings, BindingsAt, Generation
    <2>5. ChainHolds'
      BY <2>1 DEF ChainHolds
    <2>6. Resolved(p, x, trust', lock)
      BY <2>1, <2>3, <2>4, Sentinels DEF Resolved, Trusted, Locked
    <2> QED
      BY <2>1, <2>3, <2>5, <2>6, TrustGrows
  <1> QED
    BY <1>5, <1>6

LEMMA StartResolves ==
    ASSUME IInv, NEW p \in Procs, Resolve(p)
    PROVE  IInv'
  <1> DEFINE x == [procs[p] EXCEPT !.todo = Tail(@), !.enrolled = (trust' # NULL)]
  <1>1. /\ procs[p].todo # <<>> /\ ResolveForAuthority(procs[p].policy)
        /\ procs' = [procs EXCEPT ![p] = x]
        /\ UNCHANGED <<approvals, profile, journal, lock, crashes>>
    BY DEF Resolve, IInv, TypeOK
  <1>2. procs[p] \in Process /\ procs[p].pc = "starting" /\ lock = p
    BY <1>1, Types DEF IInv, AllResolved, Resolved, Locked
  <1>3. Tail(procs[p].todo) \in {<<>>, <<"profile">>, <<"resolve">>}
    BY <1>1, <1>2, TodoSteps
  <1>4. /\ x \in Process /\ x.pc = "starting" /\ x.policy = procs[p].policy
        /\ x.enrolled = (trust' # NULL)
    BY <1>2, <1>3 DEF Process
  <1>5. procs[p].policy \in Configured
    BY <1>2 DEF Process
  <1> HIDE DEF x
  <1> QED
    BY <1>1, <1>2, <1>4, <1>5, ResolveStep

LEMMA CommandResolves ==
    ASSUME IInv, NEW p \in Procs, NEW policy \in Configured, ResolveToDecide(p, policy)
    PROVE  IInv'
  <1> DEFINE x == [Idle EXCEPT !.pc = "deciding", !.policy = policy,
                               !.enrolled = (trust' # NULL)]
  <1>1. /\ ResolveForAuthority(policy) /\ procs' = [procs EXCEPT ![p] = x]
        /\ UNCHANGED <<approvals, profile, journal, lock, crashes>>
    BY DEF ResolveToDecide
  <1>2. /\ x \in Process /\ x.pc = "deciding" /\ x.policy = policy /\ x.todo = <<>>
        /\ x.enrolled = (trust' # NULL)
    BY DEF Idle, Process, Locations
  <1> HIDE DEF x
  <1> QED
    BY <1>1, <1>2, ResolveStep

LEMMA ResolveProfileStep ==
    ASSUME IInv, NEW p \in Procs, ResolveProfile(p)
    PROVE  IInv'
  <1> DEFINE x == [procs[p] EXCEPT !.todo = Tail(@), !.target = FALSE,
                                   !.enrolled = (trust # NULL)]
             activated == [pending |-> ABSENT,
                           transitions |-> profile.transitions \cup
                                              ({profile.pending} \ {NULL})]
  <1>1. /\ procs[p].todo # <<>> /\ Head(procs[p].todo) = "profile"
        /\ TrustVerified(procs[p].policy) /\ Activates(procs[p].policy, procs[p].target)
        /\ profile' = IF procs[p].target THEN activated ELSE profile
        /\ UNCHANGED <<trust, approvals, journal, lock, crashes>>
    BY DEF ResolveProfile
  <1>2. procs' = [procs EXCEPT ![p] = x]
    BY DEF ResolveProfile, IInv, TypeOK
  <1>3. procs[p] \in Process /\ procs[p].pc = "starting" /\ lock = p
    BY <1>1, Types DEF IInv, AllResolved, Resolved, Locked
  <1>4. /\ Tail(procs[p].todo) \in {<<>>, <<"profile">>, <<"resolve">>}
        /\ Unresolved(procs[p].todo) <=> Unresolved(Tail(procs[p].todo))
    BY <1>1, <1>3, TodoSteps
  <1>5. /\ x \in Process /\ x.pc = "starting" /\ x.policy = procs[p].policy
        /\ x.todo = Tail(procs[p].todo) /\ x.enrolled = (trust # NULL)
    BY <1>3, <1>4 DEF Process
  <1>6. profile' \in Profile
    <2>1. profile \in Profile
      BY DEF IInv, TypeOK
    <2>2. procs[p].target => activated \in Profile
      <3>1. procs[p].target => profile.pending \in Signers
        BY <1>1, <2>1 DEF Activates, Profile
      <3> QED
        BY <2>1, <3>1 DEF Profile, Signers
    <2> QED
      BY <1>1, <2>1, <2>2
  <1> HIDE DEF x
  <1>7. Resolved(p, x, trust, lock')
    <2>1. Resolved(p, procs[p], trust, lock)
      BY DEF IInv, AllResolved
    <2> QED
      BY <1>1, <1>3, <1>4, <1>5, <2>1 DEF Resolved, TrustVerified
  <1>8. \A a \in Approvals : Vouched(x, approvals[a])
    BY <1>5 DEF Vouched
  <1>9. lock' \in Procs \cup {NULL} /\ crashes' \in 0..MaxCrashes
    BY <1>1 DEF IInv, TypeOK
  <1> QED
    BY <1>1, <1>2, <1>5, <1>6, <1>7, <1>8, <1>9, ProcessMoves

-----------------------------------------------------------------------------
(* Calls and commands *)

\* The process changes its place, and nothing else of it matters.
LEMMA Goes ==
    ASSUME IInv, NEW p \in Procs, NEW pc \in Locations \ {"inside", "signing", "starting"},
           NEW x, x = Idle \/ (x = [procs[p] EXCEPT !.pc = pc] /\ procs[p].pc # "starting"),
           procs' = [procs EXCEPT ![p] = x],
           UNCHANGED <<trust, approvals, profile, journal>>,
           lock' \in Procs \cup {NULL}, crashes' \in 0..MaxCrashes,
           pc \in Locked => lock' = p,
           lock' = lock \/ lock = NULL \/ lock = p
    PROVE  IInv'
  <1>1. procs[p] \in Process /\ Resolved(p, procs[p], trust, lock)
    BY Types DEF IInv, AllResolved
  <1>2. profile' \in Profile
    BY DEF IInv, TypeOK
  <1>3. CASE x = Idle
    <2>1. Resolved(p, x, trust, lock') /\ x \in Process
      BY <1>3, IdleProcess DEF Resolved, Locked
    <2>2. \A a \in Approvals : Vouched(x, approvals[a])
      BY <1>3, IdleProcess DEF Vouched
    <2> QED
      BY <1>2, <2>1, <2>2, ProcessMoves
  <1>4. CASE x = [procs[p] EXCEPT !.pc = pc] /\ procs[p].pc # "starting"
    <2>1. /\ x \in Process /\ x.pc = pc /\ x.policy = procs[p].policy
          /\ x.todo = procs[p].todo /\ x.enrolled = procs[p].enrolled
      BY <1>1, <1>4 DEF Process
    <2>2. Resolved(p, x, trust, lock')
      BY <1>1, <1>4, <2>1 DEF Resolved
    <2>3. \A a \in Approvals : Vouched(x, approvals[a])
      BY <2>1 DEF Vouched
    <2> QED
      BY <1>2, <2>1, <2>2, <2>3, ProcessMoves
  <1> QED
    BY <1>3, <1>4

LEMMA EnterStep ==
    ASSUME IInv, NEW p \in Procs, Enter(p)
    PROVE  IInv'
  <1> DEFINE x == [procs[p] EXCEPT !.pc = "entering"]
  <1>1. /\ procs[p].pc = "ready" /\ lock = NULL /\ lock' = p
        /\ procs' = [procs EXCEPT ![p] = x]
        /\ UNCHANGED <<trust, approvals, profile, journal, crashes>>
    BY DEF Enter, IInv, TypeOK
  <1>2. crashes' \in 0..MaxCrashes /\ "entering" \in Locations
    BY <1>1 DEF IInv, TypeOK, Locations
  <1> QED
    BY <1>1, <1>2, Goes

LEMMA LeaveStep ==
    ASSUME IInv, NEW p \in Procs, Leave(p)
    PROVE  IInv'
  <1> DEFINE x == [procs[p] EXCEPT !.pc = "ready"]
  <1>1. /\ procs[p].pc = "inside" /\ lock' = NULL
        /\ procs' = [procs EXCEPT ![p] = x]
        /\ UNCHANGED <<trust, approvals, profile, journal, crashes>>
    BY DEF Leave, Inside, IInv, TypeOK
  <1>2. crashes' \in 0..MaxCrashes /\ lock = p
    BY <1>1, InsideLocked DEF IInv, TypeOK
  <1>3. "ready" \in Locations \ {"inside", "signing", "starting"} /\ "ready" \notin Locked
    BY DEF Locations, Locked
  <1> QED
    BY <1>1, <1>2, <1>3, Goes

LEMMA CrashStep ==
    ASSUME IInv, NEW p \in Procs, Crash(p)
    PROVE  IInv'
  <1>1. /\ procs[p].pc = "inside" /\ lock' = NULL
        /\ procs' = [procs EXCEPT ![p] = Idle]
        /\ UNCHANGED <<trust, approvals, profile, journal>>
    BY DEF Crash
  <1>2. crashes' \in 0..MaxCrashes
    BY TrustAssumption DEF Crash, IInv, TypeOK
  <1>3. lock = p
    BY <1>1, InsideLocked
  <1>4. "idle" \in Locations \ {"inside", "signing", "starting"} /\ "idle" \notin Locked
    BY DEF Locations, Locked
  <1> QED
    BY <1>1, <1>2, <1>3, <1>4, Goes

LEMMA StopStep ==
    ASSUME IInv, NEW p \in Procs, Stop(p)
    PROVE  IInv'
  <1> DEFINE x == IF procs[p].pc = "entering" THEN [procs[p] EXCEPT !.pc = "ready"] ELSE Idle
  <1>1. /\ lock' = IF lock = p THEN NULL ELSE lock
        /\ procs' = [procs EXCEPT ![p] = x]
        /\ UNCHANGED <<trust, approvals, profile, journal, crashes>>
    BY DEF Stop, IInv, TypeOK
  <1>2. crashes' \in 0..MaxCrashes /\ lock' \in Procs \cup {NULL}
    BY <1>1 DEF IInv, TypeOK
  <1>3. x = Idle \/ (x = [procs[p] EXCEPT !.pc = "ready"] /\ procs[p].pc # "starting")
    OBVIOUS
  <1>4. "ready" \in Locations \ {"inside", "signing", "starting"} /\ "ready" \notin Locked
    BY DEF Locations, Locked
  <1> HIDE DEF x
  <1> QED
    BY <1>1, <1>2, <1>3, <1>4, Goes

LEMMA RotateProfileStep ==
    ASSUME IInv, NEW p \in Procs, NEW policy \in Configured, NEW signer \in Signers,
           RotateProfile(p, policy, signer)
    PROVE  IInv'
  <1>1. /\ profile' = [profile EXCEPT !.pending = signer]
        /\ UNCHANGED <<trust, approvals, journal, lock, procs, crashes>>
    BY DEF RotateProfile
  <1>2. profile' \in Profile
    BY <1>1 DEF IInv, TypeOK, Profile
  <1>3. TypeOK'
    BY <1>1, <1>2 DEF IInv, TypeOK
  <1> QED
    BY <1>1, <1>3 DEF IInv, ChainHolds, AllSigned, JournalSigned, AllResolved, AllVouched

LEMMA AuditStep ==
    ASSUME IInv, NEW p \in Procs, Audit(p)
    PROVE  IInv'
  <1> DEFINE pc == IF procs[p].pc = "starting" THEN "ready" ELSE "inside"
             x == [procs[p] EXCEPT !.pc = pc, !.enrolled = (trust # NULL)]
  <1>1. /\ procs[p].pc \in {"starting", "entering"} /\ procs[p].todo = <<>>
        /\ Safe(procs[p].policy)
        /\ lock' = IF procs[p].pc = "starting" THEN NULL ELSE p
        /\ procs' = [procs EXCEPT ![p] = x]
        /\ UNCHANGED <<trust, profile, journal, crashes>>
    BY DEF Audit, Checking, IInv, TypeOK
  <1>2. procs[p] \in Process /\ Resolved(p, procs[p], trust, lock) /\ lock = p
    BY <1>1, Types DEF IInv, AllResolved, Resolved, Locked
  <1>3. /\ x \in Process /\ x.pc = pc /\ x.policy = procs[p].policy /\ x.todo = <<>>
        /\ x.enrolled = (trust # NULL) /\ pc \in {"ready", "inside"}
        /\ pc = "inside" => lock' = p
    BY <1>1, <1>2 DEF Process, Locations
  <1> HIDE DEF x, pc
  <1>4. \A a \in Approvals :
          /\ approvals'[a] \in Approval /\ SignedIn(approvals'[a], trust)
          /\ approvals'[a].signer = approvals[a].signer
          /\ approvals'[a].status = "executing" => approvals[a].status = "executing"
    <2> SUFFICES ASSUME NEW a \in Approvals
                 PROVE  /\ approvals'[a] \in Approval /\ SignedIn(approvals'[a], trust)
                        /\ approvals'[a].signer = approvals[a].signer
                        /\ approvals'[a].status = "executing"
                             => approvals[a].status = "executing"
      OBVIOUS
    <2>1. approvals[a] \in Approval /\ SignedIn(approvals[a], trust)
      BY Types DEF IInv, AllSigned
    <2>2. approvals'[a] = approvals[a] \/ approvals'[a] = [approvals[a] EXCEPT !.status = "expired"]
      BY DEF Audit
    <2>3. CASE approvals'[a] = [approvals[a] EXCEPT !.status = "expired"]
      <3>1. /\ approvals'[a] \in Approval /\ approvals'[a].status = "expired"
            /\ approvals'[a].signer = approvals[a].signer
            /\ approvals'[a].reconciled = approvals[a].reconciled
        BY <2>1, <2>3 DEF Approval, Statuses
      <3> QED
        BY <2>1, <3>1 DEF SignedIn
    <2> QED
      BY <2>1, <2>2, <2>3
  <1>5. \A q \in Procs : procs'[q] = IF q = p THEN x ELSE procs[q]
    BY <1>1 DEF IInv, TypeOK
  <1>6. TypeOK'
    <2>1. approvals' \in [Approvals -> Approval]
      <3>1. approvals' = [a \in Approvals |-> approvals'[a]]
        BY DEF Audit
      <3> QED
        BY <1>4, <3>1
    <2> QED
      BY <1>1, <1>3, <2>1 DEF IInv, TypeOK
  <1>7. ChainHolds' /\ AllSigned' /\ JournalSigned'
    BY <1>1, <1>4 DEF IInv, ChainHolds, AllSigned, JournalSigned
  <1>8. AllResolved'
    <2> SUFFICES ASSUME NEW q \in Procs PROVE Resolved(q, procs'[q], trust, lock')
      BY <1>1 DEF AllResolved
    <2>1. CASE q = p
      <3>1. trust # NULL => procs[p].policy # NULL
        BY <1>1 DEF Safe, TrustVerified
      <3> QED
        BY <1>1, <1>2, <1>3, <1>5, <2>1, <3>1 DEF Resolved, Locked
    <2>2. CASE q # p
      <3>1. procs'[q] = procs[q] /\ Resolved(q, procs[q], trust, lock)
        BY <1>5, <2>2 DEF IInv, AllResolved
      <3> QED
        BY <1>2, <2>2, <3>1 DEF Resolved
    <2> QED
      BY <2>1, <2>2
  <1>9. AllVouched'
    <2> SUFFICES ASSUME NEW q \in Procs, NEW a \in Approvals,
                        approvals'[a].status = "executing",
                        procs'[q].pc = "inside", procs'[q].policy # NULL
                 PROVE  approvals'[a].signer \in procs'[q].policy
      BY DEF AllVouched, Vouched
    <2>1. CASE q = p
      BY <1>1, <1>3, <1>4, <1>5, <2>1 DEF Safe, ApprovalsVerify, AuditedStatuses
    <2>2. CASE q # p
      BY <1>4, <1>5, <2>2 DEF IInv, AllVouched, Vouched
    <2> QED
      BY <2>1, <2>2
  <1> QED
    BY <1>6, <1>7, <1>8, <1>9 DEF IInv

\* An approval keeps its signatures, or gets one that its process accepts.
LEMMA DecisionSigned ==
    ASSUME IInv, NEW p \in Procs, NEW a \in Approvals, NEW signer \in Signers,
           ~Unresolved(procs[p].todo), Accepts(procs[p].policy, signer),
           NEW status \in {"approved", "rejected"}
    PROVE  LET r == [approvals[a] EXCEPT !.status = status, !.signer = signer] IN
             /\ r \in Approval /\ SignedIn(r, trust)
             /\ \A q \in Procs : Vouched(procs[q], r)
  <1> DEFINE r == [approvals[a] EXCEPT !.status = status, !.signer = signer]
  <1>1. approvals[a] \in Approval /\ SignedIn(approvals[a], trust)
    BY Types DEF IInv, AllSigned
  <1>2. /\ r \in Approval /\ r.status = status /\ r.signer = signer
        /\ r.reconciled = approvals[a].reconciled
    BY <1>1 DEF Approval, Statuses
  <1> HIDE DEF r
  <1>3. SignedIn(r, trust)
    BY <1>1, <1>2, AcceptedSigner DEF SignedIn
  <1>4. \A q \in Procs : Vouched(procs[q], r)
    BY <1>2 DEF Vouched
  <1> QED
    BY <1>2, <1>3, <1>4 DEF r

LEMMA RecoverStep ==
    ASSUME IInv, NEW p \in Procs, Recover(p)
    PROVE  IInv'
  <1> DEFINE a == journal.approval
             r == [approvals[a] EXCEPT !.status = "rejected", !.signer = journal.signer]
  <1>1. /\ procs[p].todo = <<>> /\ journal # NULL /\ journal' = NULL
        /\ EnsureRejected(procs[p].policy)
        /\ UNCHANGED <<trust, profile, lock, procs, crashes>>
    BY DEF Recover, Checking, IInv, AllResolved, Resolved
  <1>2. a \in Approvals /\ journal.signer \in Signers /\ ~Unresolved(procs[p].todo)
    BY <1>1 DEF IInv, TypeOK, Unresolved
  <1>3. CASE Accepts(procs[p].policy, journal.signer) /\ approvals' = [approvals EXCEPT ![a] = r]
    <2>1. r \in Approval /\ SignedIn(r, trust) /\ \A q \in Procs : Vouched(procs[q], r)
      BY <1>2, <1>3, DecisionSigned
    <2> HIDE DEF r
    <2> QED
      BY <1>1, <1>2, <1>3, <2>1, ApprovalMoves
  <1>4. CASE UNCHANGED approvals
    <2>1. TypeOK'
      BY <1>1, <1>4 DEF IInv, TypeOK
    <2> QED
      BY <1>1, <1>4, <2>1
         DEF IInv, ChainHolds, AllSigned, JournalSigned, Journaled, AllResolved, AllVouched
  <1> QED
    BY <1>1, <1>3, <1>4 DEF EnsureRejected, IInv, TypeOK

LEMMA ApproveStep ==
    ASSUME IInv, NEW p \in Procs, NEW a \in Approvals, NEW signer \in Signers,
           Approve(p, a, signer)
    PROVE  IInv'
  <1> DEFINE r == [approvals[a] EXCEPT !.status = "approved", !.signer = signer]
  <1>1. /\ procs[p].pc = "inside" /\ Accepts(procs[p].policy, signer)
        /\ approvals' = [approvals EXCEPT ![a] = r]
        /\ UNCHANGED <<trust, profile, journal, lock, procs, crashes>>
    BY DEF Approve, Inside, Decides, IInv, TypeOK
  <1>2. r \in Approval /\ SignedIn(r, trust) /\ \A q \in Procs : Vouched(procs[q], r)
    BY <1>1, InsideLocked, DecisionSigned
  <1> HIDE DEF r
  <1> QED
    BY <1>1, <1>2, ApprovalMoves

LEMMA DecideStep ==
    ASSUME IInv, NEW p \in Procs, NEW a \in Approvals, NEW signer \in Signers,
           Decide(p, a, signer)
    PROVE  IInv'
  <1> DEFINE r == [approvals[a] EXCEPT !.status = "approved", !.signer = signer]
  <1>1. /\ procs[p].pc = "deciding" /\ Accepts(procs[p].policy, signer)
        /\ approvals' = [approvals EXCEPT ![a] = r]
        /\ procs' = [procs EXCEPT ![p] = Idle]
        /\ UNCHANGED <<trust, profile, journal, lock, crashes>>
    BY DEF Decide, Decides, IInv, TypeOK
  <1>2. ~Unresolved(procs[p].todo)
    BY <1>1 DEF IInv, AllResolved, Resolved, Unresolved
  <1>3. r \in Approval /\ SignedIn(r, trust) /\ r.status = "approved"
    BY <1>1, <1>2, Types, DecisionSigned DEF Approval
  <1> HIDE DEF r
  <1>4. \A b \in Approvals : approvals'[b] = IF b = a THEN r ELSE approvals[b]
    BY <1>1 DEF IInv, TypeOK
  <1>5. \A q \in Procs : procs'[q] = IF q = p THEN Idle ELSE procs[q]
    BY <1>1 DEF IInv, TypeOK
  <1>6. TypeOK'
    BY <1>1, <1>3, IdleProcess DEF IInv, TypeOK
  <1>7. ChainHolds' /\ AllSigned' /\ JournalSigned'
    BY <1>1, <1>3, <1>4 DEF IInv, ChainHolds, AllSigned, JournalSigned
  <1>8. AllResolved'
    BY <1>1, <1>5, IdleProcess DEF IInv, AllResolved, Resolved, Locked
  <1>9. AllVouched'
    BY <1>3, <1>4, <1>5, IdleProcess DEF IInv, AllVouched, Vouched
  <1> QED
    BY <1>6, <1>7, <1>8, <1>9 DEF IInv

LEMMA PrepareRejectStep ==
    ASSUME IInv, NEW p \in Procs, NEW a \in Approvals, NEW signer \in Signers,
           PrepareReject(p, a, signer)
    PROVE  IInv'
  <1>1. /\ procs[p].pc = "inside" /\ Accepts(procs[p].policy, signer)
        /\ journal' = [approval |-> a, signer |-> signer]
        /\ UNCHANGED <<trust, approvals, profile, lock, procs, crashes>>
    BY DEF PrepareReject, Inside
  <1>2. TypeOK'
    BY <1>1 DEF IInv, TypeOK
  <1>3. JournalSigned'
    BY <1>1, InsideLocked, AcceptedSigner DEF JournalSigned, Journaled
  <1> QED
    BY <1>1, <1>2, <1>3 DEF IInv, ChainHolds, AllSigned, AllResolved, AllVouched

\* An approval moves on without a new decision.
LEMMA StatusMoves ==
    ASSUME IInv, NEW a \in Approvals, NEW status \in Statuses, NEW due \in BOOLEAN,
           approvals' = [approvals EXCEPT ![a] = [approvals[a] EXCEPT !.status = status,
                                                                      !.due = due]],
           UNCHANGED <<trust, profile, lock, crashes, procs, journal>>,
           status = "executing" /\ approvals[a].status # "executing" =>
             \E p \in Procs : procs[p].pc = "inside" /\ DecisionIdentity(procs[p].policy, a)
    PROVE  IInv'
  <1> DEFINE r == [approvals[a] EXCEPT !.status = status, !.due = due]
  <1>1. approvals[a] \in Approval /\ SignedIn(approvals[a], trust)
    BY Types DEF IInv, AllSigned
  <1>2. /\ r \in Approval /\ r.status = status /\ r.signer = approvals[a].signer
        /\ r.reconciled = approvals[a].reconciled
        /\ approvals' = [approvals EXCEPT ![a] = r]
    BY <1>1 DEF Approval
  <1> HIDE DEF r
  <1>3. SignedIn(r, trust)
    BY <1>1, <1>2 DEF SignedIn
  <1>4. \A q \in Procs : Vouched(procs[q], r)
    <2> SUFFICES ASSUME NEW q \in Procs, procs[q].pc = "inside", procs[q].policy # NULL,
                        status = "executing"
                 PROVE  approvals[a].signer \in procs[q].policy
      BY <1>2 DEF Vouched
    <2>1. CASE approvals[a].status = "executing"
      BY <2>1 DEF IInv, AllVouched, Vouched
    <2>2. CASE approvals[a].status # "executing"
      BY <2>2, InsideLocked DEF DecisionIdentity
    <2> QED
      BY <2>1, <2>2
  <1> QED
    BY <1>2, <1>3, <1>4, ApprovalMoves

LEMMA BeginExecutionStep ==
    ASSUME IInv, NEW p \in Procs, NEW a \in Approvals, BeginExecution(p, a)
    PROVE  IInv'
  <1>1. /\ procs[p].pc = "inside"
        /\ UNCHANGED <<trust, profile, journal, lock, procs, crashes>>
    BY DEF BeginExecution, Inside
  <1>2. approvals[a] \in Approval /\ approvals[a].due \in BOOLEAN
    BY Types DEF Approval
  <1>3. PICK status \in {"expired", "executing"} :
          /\ approvals' = [approvals EXCEPT ![a] = [approvals[a] EXCEPT !.status = status,
                                                             !.due = approvals[a].due]]
          /\ status = "executing" => DecisionIdentity(procs[p].policy, a)
    BY <1>2 DEF BeginExecution, IInv, TypeOK, Approval
  <1> QED
    BY <1>1, <1>2, <1>3, StatusMoves DEF Statuses

LEMMA CompleteStep ==
    ASSUME IInv, NEW p \in Procs, NEW a \in Approvals, Complete(p, a)
    PROVE  IInv'
  <1>1. UNCHANGED <<trust, profile, journal, lock, procs, crashes>>
    BY DEF Complete
  <1>2. approvals[a] \in Approval /\ approvals[a].due \in BOOLEAN
    BY Types DEF Approval
  <1>3. approvals' = [approvals EXCEPT ![a] = [approvals[a] EXCEPT !.status = "consumed",
                                                      !.due = approvals[a].due]]
    BY <1>2 DEF Complete, IInv, TypeOK, Approval
  <1> QED
    BY <1>1, <1>2, <1>3, StatusMoves DEF Statuses

LEMMA TimePassesStep ==
    ASSUME IInv, NEW a \in Approvals, TimePasses(a)
    PROVE  IInv'
  <1>1. UNCHANGED <<trust, profile, journal, lock, procs, crashes>>
    BY DEF TimePasses
  <1>2. approvals[a] \in Approval /\ approvals[a].status \in Statuses
    BY Types DEF Approval
  <1>3. approvals' = [approvals EXCEPT ![a] = [approvals[a] EXCEPT
                                                      !.status = approvals[a].status,
                                                      !.due = TRUE]]
    BY <1>2 DEF TimePasses, IInv, TypeOK, Approval
  <1> QED
    BY <1>1, <1>2, <1>3, StatusMoves

LEMMA ReconcileStep ==
    ASSUME IInv, NEW p \in Procs, NEW a \in Approvals, NEW signer \in Signers,
           ReconcileExecution(p, a, signer)
    PROVE  IInv'
  <1> DEFINE r == [approvals[a] EXCEPT !.status = "consumed", !.reconciled = signer]
  <1>1. /\ procs[p].pc = "inside" /\ Accepts(procs[p].policy, signer)
        /\ approvals' = [approvals EXCEPT ![a] = r]
        /\ UNCHANGED <<trust, profile, journal, lock, procs, crashes>>
    BY DEF ReconcileExecution, Inside, IInv, TypeOK
  <1>2. approvals[a] \in Approval /\ SignedIn(approvals[a], trust)
    BY Types DEF IInv, AllSigned
  <1>3. /\ r \in Approval /\ r.status = "consumed" /\ r.signer = approvals[a].signer
        /\ r.reconciled = signer
    BY <1>2 DEF Approval, Statuses
  <1> HIDE DEF r
  <1>4. SignedIn(r, trust)
    BY <1>1, <1>2, <1>3, InsideLocked, AcceptedSigner DEF SignedIn
  <1>5. \A q \in Procs : Vouched(procs[q], r)
    BY <1>3 DEF Vouched
  <1> QED
    BY <1>1, <1>3, <1>4, <1>5, ApprovalMoves

-----------------------------------------------------------------------------
(* Rotations of trust *)

LEMMA ReadTrustStep ==
    ASSUME IInv, NEW p \in Procs, ReadTrust(p)
    PROVE  IInv'
  <1> DEFINE reading == [from_generation |-> Generation(trust), from |-> Bindings(trust)]
             x == [Idle EXCEPT !.pc = "signing", !.read = reading]
  <1>1. /\ trust # NULL /\ Generation(trust) < MaxGeneration
        /\ procs' = [procs EXCEPT ![p] = x]
        /\ UNCHANGED <<trust, approvals, profile, journal, lock, crashes>>
    BY DEF ReadTrust
  <1>2. reading \in Reading /\ reading.from_generation < MaxGeneration
    BY <1>1, Types, BindingsTypes DEF Reading
  <1> HIDE DEF reading
  <1>3. /\ x \in Process /\ x.pc = "signing" /\ x.policy = NULL /\ x.todo = <<>>
        /\ x.enrolled = FALSE /\ x.read = reading
    BY <1>2 DEF Idle, Process, Locations, Configured
  <1> HIDE DEF x
  <1>4. Resolved(p, x, trust, lock')
    BY <1>1, <1>2, <1>3 DEF Resolved, Locked
  <1>5. \A a \in Approvals : Vouched(x, approvals[a])
    BY <1>3 DEF Vouched
  <1>6. profile' \in Profile /\ crashes' \in 0..MaxCrashes /\ lock' \in Procs \cup {NULL}
    BY <1>1 DEF IInv, TypeOK
  <1> QED
    BY <1>1, <1>3, <1>4, <1>5, <1>6, ProcessMoves

\* A transition is added after the others: it is the new generation, and those
\* before it keep theirs.
LEMMA Appended ==
    ASSUME NEW state \in TrustState, NEW attestation \in Attestation,
           Generation(state) < MaxGeneration,
           NEW next, next = [state EXCEPT !.transitions = Append(@, attestation)]
    PROVE  /\ next \in TrustState /\ Bindings(next) = attestation.to
           /\ DOMAIN next.transitions = 1..Generation(state)
           /\ next.transitions[Generation(state)] = attestation
           /\ \A n \in 1..Len(state.transitions) : next.transitions[n] = state.transitions[n]
           /\ \A n \in 1..Generation(state) : BindingsAt(next, n) = BindingsAt(state, n)
  <1> DEFINE t == state.transitions
             k == Len(t)
  <1>1. t \in Seq(Attestation) /\ k \in Nat /\ Generation(state) = k + 1 /\ state.initial \in Policies
    BY BindingsTypes DEF Generation
  <1>2. next = [initial |-> state.initial, transitions |-> Append(t, attestation)]
    BY DEF TrustState
  <1>3. /\ Append(t, attestation) \in Seq(Attestation) /\ Len(Append(t, attestation)) = k + 1
        /\ Append(t, attestation)[k + 1] = attestation
        /\ \A n \in 1..k : Append(t, attestation)[n] = t[n]
    BY <1>1
  <1>4. next \in TrustState
    <2>1. Len(Append(t, attestation)) <= MaxGeneration - 1
      BY <1>1, <1>3, TrustAssumption
    <2> HIDE DEF t
    <2>2. Append(t, attestation) \in
            UNION {[1..n -> Attestation] : n \in 0..(MaxGeneration - 1)}
      BY <1>3, <2>1, Histories
    <2> DEFINE extended == Append(t, attestation)
               histories == UNION {[1..n -> Attestation] : n \in 0..(MaxGeneration - 1)}
    <2>3. TrustState = [initial : Policies, transitions : histories]
      BY DEF TrustState
    <2>4. next = [initial |-> state.initial, transitions |-> extended]
      BY <1>2
    <2>5. extended \in histories /\ state.initial \in Policies
      BY <1>1, <2>2
    <2> HIDE DEF extended, histories
    <2> QED
      BY <2>3, <2>4, <2>5
  <1>5. DOMAIN next.transitions = 1..Generation(state)
    BY <1>1, <1>2, <1>3
  <1>6. Bindings(next) = attestation.to
    BY <1>1, <1>2, <1>3 DEF Bindings, BindingsAt, Generation
  <1>7. \A n \in 1..Generation(state) : BindingsAt(next, n) = BindingsAt(state, n)
    BY <1>1, <1>2, <1>3 DEF BindingsAt
  <1> QED
    BY <1>1, <1>2, <1>3, <1>4, <1>5, <1>6, <1>7

LEMMA RotateStep ==
    ASSUME IInv, NEW p \in Procs, NEW current \in Policies, NEW candidate \in Policies,
           NEW signer \in Pins, Rotate(p, current, candidate, signer)
    PROVE  IInv'
  <1> DEFINE attestation == SignTransition(procs[p].read, candidate, signer)
  <1>1. /\ procs[p].pc = "signing" /\ procs' = [procs EXCEPT ![p] = Idle]
        /\ UNCHANGED <<approvals, profile, journal, lock, crashes>>
    BY DEF Rotate
  <1>2. /\ trust \in TrustState /\ trust # NULL /\ procs[p].read \in Reading
        /\ procs[p].read.from_generation < MaxGeneration
    BY <1>1, Types DEF IInv, AllResolved, Resolved
  <1>3. CASE UNCHANGED trust
    <2>1. crashes' \in 0..MaxCrashes /\ lock' \in Procs \cup {NULL}
      BY <1>1 DEF IInv, TypeOK
    <2>2. "idle" \in Locations \ {"inside", "signing", "starting"} /\ "idle" \notin Locked
      BY DEF Locations, Locked
    <2> QED
      BY <1>1, <1>3, <2>1, <2>2, Goes
  <1>4. CASE /\ Verifies(trust, current) /\ IsAdditive(current, candidate)
             /\ TransitionHolds(trust, Generation(trust), attestation)
             /\ trust' = [trust EXCEPT !.transitions = Append(@, attestation)]
    <2>1. /\ attestation \in Attestation /\ attestation.to = candidate
          /\ attestation.from_generation = procs[p].read.from_generation
      BY <1>2 DEF SignTransition, Attestation, Reading
    <2> HIDE DEF attestation
    <2>2. Generation(trust) < MaxGeneration
      BY <1>2, <1>4, <2>1 DEF TransitionHolds
    <2>3. /\ trust' \in TrustState /\ Bindings(trust') = candidate
          /\ DOMAIN trust'.transitions = 1..Generation(trust)
          /\ trust'.transitions[Generation(trust)] = attestation
          /\ \A n \in 1..Len(trust.transitions) :
               trust'.transitions[n] = trust.transitions[n]
          /\ \A n \in 1..Generation(trust) : BindingsAt(trust', n) = BindingsAt(trust, n)
      <3> DEFINE next == [trust EXCEPT !.transitions = Append(@, attestation)]
      <3>1. /\ next \in TrustState /\ Bindings(next) = attestation.to
            /\ DOMAIN next.transitions = 1..Generation(trust)
            /\ next.transitions[Generation(trust)] = attestation
            /\ \A n \in 1..Len(trust.transitions) :
                 next.transitions[n] = trust.transitions[n]
            /\ \A n \in 1..Generation(trust) : BindingsAt(next, n) = BindingsAt(trust, n)
        BY <1>2, <2>1, <2>2, Appended
      <3> HIDE DEF next
      <3>2. trust' = next
        BY <1>4 DEF next
      <3> QED
        BY <2>1, <3>1, <3>2
    <2>4. Bindings(trust) \subseteq Bindings(trust')
      BY <1>4, <2>3 DEF Verifies, IsAdditive
    <2>5. ChainHolds'
      <3> SUFFICES ASSUME NEW n \in 1..Generation(trust)
                   PROVE  TransitionHolds(trust', n, trust'.transitions[n])
        BY <2>3 DEF ChainHolds
      <3>1. CASE n = Generation(trust)
        BY <1>4, <2>3, <3>1 DEF TransitionHolds
      <3>2. CASE n # Generation(trust)
        <4>1. trust.transitions \in Seq(Attestation)
          BY <1>2, BindingsTypes
        <4>2. n \in 1..Len(trust.transitions)
          BY <3>2, <4>1 DEF Generation
        <4>3. TransitionHolds(trust, n, trust.transitions[n])
          BY <1>2, <4>1, <4>2 DEF IInv, ChainHolds
        <4> QED
          BY <2>3, <4>2, <4>3 DEF TransitionHolds
      <3> QED
        BY <3>1, <3>2
    <2>6. Resolved(p, Idle, trust', lock)
      BY IdleProcess DEF Resolved, Locked
    <2> QED
      BY <1>1, <2>3, <2>4, <2>5, <2>6, IdleProcess, TrustGrows
  <1> QED
    BY <1>3, <1>4 DEF Rotate

-----------------------------------------------------------------------------
(* The theorems *)

LEMMA NextHolds == IInv /\ [Next]_vars => IInv'
  <1> SUFFICES ASSUME IInv, [Next]_vars PROVE IInv'
    OBVIOUS
  <1>1. CASE UNCHANGED vars
    BY <1>1
       DEF vars, IInv, TypeOK, ChainHolds, AllSigned, JournalSigned, AllResolved, AllVouched
  <1>2. ASSUME NEW p \in Procs, Command(p) PROVE IInv'
    BY <1>2, BeginStep, CommandResolves, RotateProfileStep, DecideStep, ReadTrustStep,
       RotateStep DEF Command
  <1>3. ASSUME NEW p \in Procs, Runtime(p) PROVE IInv'
    BY <1>3, StartResolves, ResolveProfileStep, EnterStep, RecoverStep, AuditStep,
       BeginExecutionStep, CompleteStep, ApproveStep, PrepareRejectStep, ReconcileStep,
       LeaveStep DEF Runtime
  <1>4. ASSUME NEW p \in Procs, Stop(p) \/ Crash(p) PROVE IInv'
    BY <1>4, StopStep, CrashStep
  <1>5. ASSUME NEW a \in Approvals, TimePasses(a) PROVE IInv'
    BY <1>5, TimePassesStep
  <1> QED
    BY <1>1, <1>2, <1>3, <1>4, <1>5 DEF Next

LEMMA Invariant == Spec => []IInv
  <1>1. Init => IInv
    BY InitHolds
  <1>2. IInv /\ [Next]_vars => IInv'
    BY NextHolds
  <1> QED
    BY <1>1, <1>2, PTL DEF Spec

\* Every signature that was accepted under enrolled trust verifies with the keys
\* that are trusted now, and each of these was added by one trusted before it,
\* however rotations, `dah approve` and runtimes interleave and wherever a
\* process is killed (OperatorTrustStateStore.rotate, is_additive_successor).
THEOREM HistoryStaysVerifiable == Spec => []HistoryVerifies
  <1>1. IInv => HistoryVerifies
    BY InvImplies
  <1> QED
    BY <1>1, Invariant, PTL

\* Some configured keys pass the trust check, the profile check, the recovery of
\* a journaled rejection and the audit of approvals, unless trust was enrolled
\* over an unsigned decision or a rotation that another key signed
\* (resolve_for_authority, ensure_rejected, AuthorityProfileState.verify).
THEOREM StartsUnlessKnown == Spec => []StuckOnlyKnown
  <1>1. IInv => StuckOnlyKnown
    BY InvImplies
  <1> QED
    BY <1>1, Invariant, PTL

\* In enrolled trust an approval is never decided, executed or completed on an
\* unsigned decision, but by a process whose last look at operator_trust.json
\* came before the enrolment (ApprovalStore.decide, begin_execution,
\* complete_execution, reconcile_execution).
THEOREM UnsignedIsRaced == Spec => UnsignedOnlyRaced
  <1> DEFINE Raced == \E p \in Procs : /\ lock = p \/ procs[p].pc = "deciding"
                                       /\ ~procs[p].enrolled
  <1>1. ASSUME IInv, [Next]_vars, NEW a \in Approvals, Acted(a),
               approvals'[a].signer = NULL
        PROVE  Raced
    <2>1. approvals[a] \in Approval
      BY <1>1, Types
    <2>2. ASSUME NEW p \in Procs, NEW signer \in Signers, ~Unresolved(procs[p].todo),
                 Accepts(procs[p].policy, signer), approvals'[a].signer = signer,
                 lock = p \/ procs[p].pc = "deciding"
          PROVE  Raced
      BY <1>1, <2>2, AcceptedSigner
    <2>3. ASSUME NEW p \in Procs, lock = p, approvals[a].signer = NULL,
                 procs[p].policy # NULL => approvals[a].signer \in procs[p].policy
          PROVE  Raced
      <3>1. procs[p].policy \in Configured
        BY <1>1, Types DEF Process
      <3>2. procs[p].policy = NULL
        BY <2>3, <3>1, Sentinels DEF Configured
      <3>3. ~procs[p].enrolled
        BY <1>1, <3>2 DEF IInv, AllResolved, Resolved
      <3> QED
        BY <2>3, <3>3
    <2>4. ASSUME NEW p \in Procs, NEW b \in Approvals, NEW signer \in Signers,
                 Decide(p, b, signer)
          PROVE  Raced
      <3>1. /\ procs[p].pc = "deciding" /\ Accepts(procs[p].policy, signer) /\ b = a
            /\ approvals'[a].signer = signer
        BY <1>1, <2>1, <2>4 DEF Decide, Decides, IInv, TypeOK, Acted, Approval
      <3>2. Resolved(p, procs[p], trust, lock)
        BY <1>1 DEF IInv, AllResolved
      <3>3. procs[p].todo = <<>>
        BY <3>1, <3>2 DEF Resolved
      <3>4. ~Unresolved(procs[p].todo)
        BY <3>3 DEF Unresolved
      <3> QED
        BY <2>2, <3>1, <3>4
    <2>5. ASSUME NEW p \in Procs, NEW b \in Approvals, NEW signer \in Signers,
                 Approve(p, b, signer)
          PROVE  Raced
      <3>1. /\ procs[p].pc = "inside" /\ Accepts(procs[p].policy, signer) /\ b = a
            /\ approvals'[a].signer = signer
        BY <1>1, <2>1, <2>5 DEF Approve, Inside, Decides, IInv, TypeOK, Acted, Approval
      <3> QED
        BY <1>1, <2>2, <3>1, InsideLocked
    <2>6. ASSUME NEW p \in Procs, Recover(p)
          PROVE  Raced
      <3>0. Resolved(p, procs[p], trust, lock)
        BY <1>1 DEF IInv, AllResolved
      <3>1. /\ lock = p /\ procs[p].todo = <<>> /\ journal # NULL
            /\ EnsureRejected(procs[p].policy)
        BY <2>6, <3>0 DEF Recover, Checking, Resolved
      <3>2. journal.signer \in Signers /\ ~Unresolved(procs[p].todo)
        BY <1>1, <3>1 DEF IInv, TypeOK, Unresolved
      <3>3. Accepts(procs[p].policy, journal.signer) /\ approvals'[a].signer = journal.signer
        BY <1>1, <2>1, <3>1 DEF EnsureRejected, Acted, IInv, TypeOK, Approval
      <3> QED
        BY <2>2, <3>1, <3>2, <3>3
    <2>7. ASSUME NEW p \in Procs, NEW b \in Approvals, BeginExecution(p, b)
          PROVE  Raced
      <3>1. /\ procs[p].pc = "inside" /\ b = a /\ DecisionIdentity(procs[p].policy, a)
            /\ approvals'[a].signer = approvals[a].signer
        BY <1>1, <2>1, <2>7 DEF BeginExecution, Inside, Acted, Decided, IInv, TypeOK, Approval
      <3> QED
        BY <1>1, <2>3, <3>1, InsideLocked DEF DecisionIdentity
    <2>8. ASSUME NEW p \in Procs, NEW b \in Approvals, Complete(p, b)
          PROVE  Raced
      <3>1. /\ procs[p].pc = "inside" /\ b = a /\ DecisionIdentity(procs[p].policy, a)
            /\ approvals'[a].signer = approvals[a].signer
        BY <1>1, <2>1, <2>8 DEF Complete, Inside, Acted, IInv, TypeOK, Approval
      <3> QED
        BY <1>1, <2>3, <3>1, InsideLocked DEF DecisionIdentity
    <2>9. ASSUME NEW p \in Procs, NEW b \in Approvals, NEW signer \in Signers,
                 ReconcileExecution(p, b, signer)
          PROVE  Raced
      <3>1. /\ procs[p].pc = "inside" /\ b = a /\ approvals[a].status = "executing"
            /\ approvals'[a].signer = approvals[a].signer
        BY <1>1, <2>1, <2>9 DEF ReconcileExecution, Inside, Acted, IInv, TypeOK, Approval
      <3>2. procs[p].policy # NULL => approvals[a].signer \in procs[p].policy
        BY <1>1, <3>1 DEF IInv, AllVouched, Vouched
      <3> QED
        BY <1>1, <2>3, <3>1, <3>2, InsideLocked
    <2>10. ASSUME NEW p \in Procs, Audit(p)
           PROVE  Raced
      <3>1. approvals'[a] = approvals[a] \/ approvals'[a] = [approvals[a] EXCEPT !.status = "expired"]
        BY <2>10 DEF Audit
      <3> QED
        BY <1>1, <2>1, <3>1 DEF Acted, Decided, Approval
    <2>11. ASSUME NEW b \in Approvals, TimePasses(b)
           PROVE  Raced
      BY <1>1, <2>1, <2>11 DEF TimePasses, Acted, IInv, TypeOK, Approval
    <2>12. ASSUME UNCHANGED approvals
           PROVE  Raced
      BY <1>1, <2>12, SMTT(40) DEF Acted
    <2> HIDE DEF Raced
    <2>13. ASSUME NEW p \in Procs, Command(p) PROVE Raced
      BY <2>4, <2>12, <2>13
         DEF Command, Begin, ResolveToDecide, RotateProfile, ReadTrust, Rotate
    <2>14. ASSUME NEW p \in Procs, Runtime(p) PROVE Raced
      BY <2>5, <2>6, <2>7, <2>8, <2>9, <2>10, <2>12, <2>14
         DEF Runtime, Resolve, ResolveProfile, Enter, Leave, PrepareReject
    <2>15. ASSUME NEW p \in Procs, Stop(p) \/ Crash(p) PROVE Raced
      BY <2>12, <2>15 DEF Stop, Crash
    <2>16. ASSUME UNCHANGED vars PROVE Raced
      BY <2>12, <2>16 DEF vars
    <2> QED
      BY <1>1, <2>11, <2>13, <2>14, <2>15, <2>16 DEF Next
  <1>2. IInv /\ [Next]_vars =>
          [trust # NULL =>
             \A a \in Approvals :
               Acted(a) /\ approvals'[a].signer = NULL => Raced]_vars
    BY <1>1
  <1> QED
    BY <1>2, Invariant, PTL DEF Spec, UnsignedOnlyRaced

=============================================================================
