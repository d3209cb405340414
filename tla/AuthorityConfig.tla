-------------------------- MODULE AuthorityConfig -------------------------
(***************************************************************************)
(* What a start of the owning runtime is configured with.  A configuration *)
(* is everything the ruleset hash binds (policy packs, tool registry,      *)
(* workspace, storage root, witness policies, runtime artifacts, launch    *)
(* envelope) and is identified with that hash.                             *)
(***************************************************************************)
EXTENDS Naturals, Sequences

CONSTANTS
    Configs,
    HasOptional,    \* those with runtime artifacts and a launch envelope
    NeedsWitness,   \* those with a publication witness and its trusted keys
    NULL

ASSUME ConfigAssumption ==
    /\ HasOptional \subseteq Configs
    /\ NeedsWitness \subseteq Configs
    /\ NULL \notin Configs
    /\ NULL \notin Nat

===========================================================================
