-------------------------- MODULE AuthorityStores -------------------------
(***************************************************************************)
(* The observation stores an authority publication writes: state_storage,  *)
(* control_plane_isolation, workspace_integrity, the two witness policies, *)
(* runtime_artifacts, launch_envelope and the profile evidence_head.json   *)
(* is bound to.  Each keeps the profile it was recorded for; what it       *)
(* observed is a function of that profile, whose hash binds it.            *)
(***************************************************************************)
EXTENDS AuthorityProfile, AuthorityPublication

VARIABLE stores       \* store -> the profile it is recorded for, or NULL

OptionalStores == {"runtime_artifacts", "launch_envelope"}
\* authority_manifest_commitments_from_state calls these required.
RequiredStores ==
    {"state_storage", "control_plane_isolation", "workspace_integrity",
     "evidence_witness_policy", "evidence_head"}
PolicyStore == "authority_publication_witness_policy"
Stores == RequiredStores \cup OptionalStores \cup {PolicyStore}

StoresTypeOK == stores \in [Stores -> Configs \cup {NULL}]

Recorded == {s \in Stores : stores[s] # NULL}

\* Store.record: the profile's own record is returned as it is, any other one
\* is overwritten.
Record(s, c) == stores' = [stores EXCEPT ![s] = c]

\* authority_manifest_commitments_from_state raises unless this holds; what it
\* then computes is what authority_manifest_commitments_for computes for the
\* profile when the optional stores and the witness policy agree with it.
DependenciesBound(c) ==
    /\ RequiredStores \subseteq Recorded
    /\ \A s \in Recorded : stores[s] = c
ManifestMatches(c) ==
    /\ DependenciesBound(c)
    /\ \A s \in OptionalStores : s \in Recorded <=> c \in HasOptional
    /\ c \in NeedsWitness => PolicyStore \in Recorded

\* _require_completed_authority_publication_intact.
CompletedIntact(c) ==
    /\ \A s \in Stores \ OptionalStores : stores[s] = c
    /\ \A s \in OptionalStores :
          stores[s] = IF c \in HasOptional THEN c ELSE NULL

-----------------------------------------------------------------------------
(* state_integrity.py: the critical issues of an audit of these files.      *)

\* The per-store audits: a recorded store must be bound to the active profile.
Unbound(s) == Enrolled /\ s \in Recorded /\ stores[s] # ActiveProfile
StateStorageMismatch == Unbound("state_storage")
WorkspaceMismatch == Unbound("workspace_integrity")
IsolationMismatch == Unbound("control_plane_isolation")
RuntimeArtifactsMismatch == Unbound("runtime_artifacts")
LaunchEnvelopeMismatch == Unbound("launch_envelope")
EvidenceHeadMismatch == Unbound("evidence_head")
\* The witness policies are not even allowed to exist without a profile.
EvidenceWitnessMismatch ==
    \/ Unbound("evidence_witness_policy")
    \/ ~Enrolled /\ "evidence_witness_policy" \in Recorded

\* _audit_publication_witness reads its policy the same way.
PublicationWitnessMismatch ==
    \/ Unbound(PolicyStore)
    \/ ~Enrolled /\ PolicyStore \in Recorded

ProfileMismatches ==
    {s \in Stores :
        CASE s = "state_storage" -> StateStorageMismatch
          [] s = "workspace_integrity" -> WorkspaceMismatch
          [] s = "control_plane_isolation" -> IsolationMismatch
          [] s = "runtime_artifacts" -> RuntimeArtifactsMismatch
          [] s = "launch_envelope" -> LaunchEnvelopeMismatch
          [] s = "evidence_head" -> EvidenceHeadMismatch
          [] s = "evidence_witness_policy" -> EvidenceWitnessMismatch
          [] s = PolicyStore -> PublicationWitnessMismatch}

\* _verify_active_target_dependencies: the stores may be the old checkpoint's
\* or the new intent's.  Its store commitments follow from the profiles.
\* An unrecorded evidence witness policy reads as not configured.
ReplayCompatible ==
    LET done == pub.completed IN
    /\ \A s \in Recorded \ {PolicyStore} :
          \/ stores[s] = pub.active.profile
          \/ done # NULL /\ stores[s] = done.profile
    /\ done # NULL =>
          RequiredStores \ {"evidence_witness_policy"} \subseteq Recorded

\* The optional stores an unfinished publication would leave behind show in
\* no store commitment: they keep the old profile.
TargetPhase ==
    LET head == stores["evidence_head"]
        done == pub.completed
    IN  IF ~ReplayCompatible THEN "dependency_invalid"
        ELSE IF head = NULL THEN "applying"
        ELSE IF head # pub.active.profile /\ done # NULL /\ head = done.profile
             THEN "applying"
        ELSE IF ManifestMatches(pub.active.profile) THEN "ready_to_complete"
        ELSE "dependency_invalid"

\* _verify_active_authority_publication.
ActivePhase ==
    LET done == pub.completed IN
    CASE ~Enrolled ->
            IF done = NULL /\ pub.active.generation = 1 THEN "prepared"
            ELSE "profile_mismatch"
      [] Enrolled /\ Matches(pub.active, ActiveProfile, Generation) ->
            TargetPhase
      [] OTHER ->
            IF done = NULL \/ ~Matches(done, ActiveProfile, Generation)
            THEN "profile_mismatch"
            ELSE IF \/ pub.active.generation # done.generation + 1
                    \/ profile.pending # pub.active.profile
            THEN "profile_mismatch"
            ELSE IF ManifestMatches(done.profile) THEN "prepared"
            ELSE "dependency_invalid"

\* The completed branch of _audit_authority_publication.
CompletedPhase ==
    CASE ~Enrolled -> "profile_missing"
      [] Enrolled /\ ~Matches(pub.completed, ActiveProfile, Generation) ->
            "profile_mismatch"
      [] OTHER -> IF ManifestMatches(pub.completed.profile) THEN "verified"
                  ELSE "dependency_invalid"

\* _audit_authority_publication.
PublicationPhase ==
    IF pub = NULL
    THEN IF cont = NULL THEN "not_recorded" ELSE "orphaned"
    ELSE IF pub.active # NULL THEN ActivePhase ELSE CompletedPhase

PublicationCritical ==
    \/ PublicationPhase \notin {"not_recorded", "prepared", "applying",
                                "ready_to_complete", "verified"}
    \/ pub # NULL /\ Continuity \in {"rollback", "missing", "diverged"}

\* Mutant of Downgraded: the audit does not know of publications.
NothingDowngraded == {}

\* _downgrade_expected_publication_profile_mismatches: while a publication is
\* applied, a store that still has the prior profile is expected.
Downgraded ==
    IF /\ Publishing
       /\ PublicationPhase = "applying"
       /\ stores["evidence_head"] # NULL
    THEN {s \in Stores : stores[s] = pub.completed.profile}
    ELSE {}

StoresCritical == PublicationCritical \/ ProfileMismatches \ Downgraded # {}

===========================================================================
