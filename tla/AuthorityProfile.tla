------------------------- MODULE AuthorityProfile -------------------------
(***************************************************************************)
(* authority_profile.py: the durable enrolment of one authority profile.   *)
(* A configuration stands for the ruleset hash build_harness computes from *)
(* it, so two configurations are equal exactly when their hashes are.      *)
(***************************************************************************)
EXTENDS AuthorityConfig

VARIABLE profile
\* profile.history[g] is the profile of generation g; the last one is active.
\* pending is the target of the staged rotation, or NULL.

ProfileTypeOK ==
    profile \in [history : Seq(Configs), pending : Configs \cup {NULL}]

\* profile_store.get() is None.
ProfileInit == profile = [history |-> << >>, pending |-> NULL]

Enrolled == profile.history # << >>
Generation == Len(profile.history)
ActiveProfile == profile.history[Generation]

\* from_dict, which every read and every activation goes through: the
\* transitions are contiguous and each of them, the pending one included,
\* leads away from the profile it starts from.
Contiguous(p) ==
    /\ \A g \in 1..Len(p.history) - 1 : p.history[g] # p.history[g + 1]
    /\ p.pending # NULL =>
          p.history # << >> /\ p.pending # p.history[Len(p.history)]

\* _candidate_for_authority: enrol, keep, or activate the staged rotation.
\* Every other configuration is refused.
Candidates(c) ==
    {p \in {[history |-> <<c>>, pending |-> NULL], profile,
            [history |-> Append(profile.history, c), pending |-> NULL]} :
        /\ Contiguous(profile) /\ Contiguous(p)
        /\ IF Enrolled /\ ActiveProfile = c THEN p = profile
           ELSE /\ ~Enrolled \/ profile.pending = c
                /\ p.history = Append(profile.history, c)}

\* preview_for_authority writes nothing; its result is a candidate's
\* generation.
Previews(c) == {Len(p.history) : p \in Candidates(c)}

\* resolve_for_authority writes the candidate.
ResolveForAuthority(c) == profile' \in Candidates(c)

\* request_rotation stages one next generation and does not activate it.
\* Asking again for the pending target returns the state as it is; asking for
\* another one is refused.
RequestRotation(target) ==
    /\ Enrolled
    /\ target # ActiveProfile
    /\ profile.pending = NULL
    /\ profile' = [profile EXCEPT !.pending = target]

===========================================================================
