----------------------- MODULE OperatorTrustProperties -----------------------
(***************************************************************************)
(* What signed operator trust promises once it is enrolled.                *)
(***************************************************************************)
EXTENDS OperatorTrust

TypeOK ==
    /\ trust \in TrustState \cup {NULL}
    /\ approvals \in [Approvals -> Approval]
    /\ profile \in Profile
    /\ journal \in [approval : Approvals, signer : Signers] \cup {NULL}
    /\ lock \in Procs \cup {NULL}
    /\ procs \in [Procs -> Process]
    /\ crashes \in 0..MaxCrashes

Decided == {"approved", "executing", "consumed", "rejected"}

\* Approval a is decided, executed, completed or rejected by this step.
Acted(a) ==
    /\ approvals'[a].status # approvals[a].status
    /\ approvals'[a].status \in Decided

\* Once trust is enrolled no step of an approval rests on an unsigned decision,
\* unless the process looked at operator_trust.json before the enrolment: `dah
\* approve` enrols without the authority lock, between another process's check
\* and its write (resolve_for_authority, require_safe, begin_execution).
UnsignedOnlyRaced ==
    [][trust # NULL =>
          \A a \in Approvals :
              Acted(a) /\ approvals'[a].signer = NULL
                  => \E p \in Procs : /\ lock = p \/ procs[p].pc = "deciding"
                                      /\ ~procs[p].enrolled]_vars

\* However rotations, decisions and restarts interleave, every signature that was
\* accepted under enrolled trust stays verifiable with the keys that are trusted
\* now, and every key was added by one that was trusted before it (rotate,
\* is_additive_successor, OperatorTrustState.verify).
HistoryVerifies ==
    trust # NULL =>
        /\ Verifies(trust, Bindings(trust))
        /\ \A a \in Approvals :
              {approvals[a].signer, approvals[a].reconciled} \cap Pins
                  \subseteq Bindings(trust)

\* A start with these keys gets through its trust, profile, recovery and audit.
Startable(policy) ==
    /\ Previews(policy)
    /\ ProfileVerifies(policy)
    /\ journal # NULL =>
          LET a == journal.approval
          IN  IF approvals[a].status = "rejected" THEN DecisionIdentity(policy, a)
              ELSE Accepts(policy, journal.signer)
    /\ ApprovalsVerify(policy)

\* What is known to keep every process out for good: a decision or a journaled
\* rejection without a signature in a directory that enrols trust, and a profile
\* rotation that was signed before enrolment with a key that was not enrolled.
UnsignedHistory ==
    \/ \E a \in Approvals :
          \/ approvals[a].status \in Decided /\ approvals[a].signer = NULL
          \/ approvals[a].reconciled = NULL
    \/ journal # NULL /\ journal.signer = NULL
ForeignRotation ==
    \E signer \in profile.transitions \cup ({profile.pending} \cap Pins) :
        trust # NULL => signer \notin Bindings(trust)

\* Some keys start the system again, unless trust was enrolled over unsigned
\* history or over a rotation signed by another key (_audit_approval_shape,
\* ensure_rejected, AuthorityProfileState.verify).
StuckOnlyKnown ==
    (\A policy \in Configured : ~Startable(policy))
        => UnsignedHistory \/ ForeignRotation

=============================================================================
