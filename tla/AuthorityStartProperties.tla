--------------------- MODULE AuthorityStartProperties ---------------------
(***************************************************************************)
(* What makes the publication of authority correct.                        *)
(***************************************************************************)
EXTENDS AuthorityStart

\* The rotation that drops the optional stores: the intent is prepared and the
\* profile activated, but nothing removes the old runtime_artifacts.json and
\* launch_envelope.json, and the final comparison refuses them.
OptionalLeftBehind ==
    /\ Publishing
    /\ pub.active.profile \notin HasOptional
    /\ OptionalStores \cap Recorded # {}

\* A required witness after complete's first write: the preflight wants the
\* anchor to be exact, and only prepare, behind the preflight, makes it so.
WitnessWindow ==
    /\ Continuity = "forward_recovery"
    /\ stores[PolicyStore] \in NeedsWitness

\* Wherever a start stops, the read-only audit finds files it can explain: a
\* publication that is prepared, applying, ready to complete or complete, and
\* no store of another profile.  (It is also what an audit sees while a start
\* runs.)  The one exception is the dropped optional store.
AuditExplains ==
    restored = {} /\ StoresCritical => OptionalLeftBehind

\* While an intent is active the profile and the stores move to the intent's
\* profile and nowhere else, and only that intent is completed, when all the
\* stores are its own and the profile has it as its generation.
ReplayExact ==
    [][restored' = restored =>
        /\ Publishing =>
              \A s \in Stores :
                 stores'[s] \in {stores[s], pub.active.profile}
        /\ ~Publishing => stores' = stores
        /\ profile'.history # profile.history =>
              /\ Publishing
              /\ profile'.history = Append(profile.history, pub.active.profile)
              /\ pub.active.generation = Len(profile'.history)
        /\ pub' # pub /\ Publishing =>
              /\ pub'.active = NULL
              /\ Matches(pub'.completed, pub.active.profile,
                         pub.active.generation)
              /\ CompletedIntact(pub.active.profile)
              /\ profile.history[pub.active.generation] = pub.active.profile
      ]_vars

\* Published history never forks: two checkpoints have the same predecessor
\* only after an older publication state was put back together with its
\* anchor.  A checkpoint that was witnessed is not even then replaced by a
\* runtime that requires a witness, unless the restored state was witnessed
\* anew.
HistoryDoesNotFork ==
    \A old, new \in lineage :
        old.prior = new.prior /\ old.stamp < new.stamp =>
            /\ {"publication", "continuity"} \subseteq restored
            /\ new.profile \in NeedsWitness /\ old.stamp \in witnessed =>
                  "witness" \in restored

\* Some configuration can be started and come to its checkpoint, once the
\* sentinels are removed and the witness is refreshed where that is possible.
Startable ==
    \E c \in Configs :
        /\ stores[PolicyStore] \in NeedsWitness => c \in NeedsWitness
        /\ c \in NeedsWitness => WitnessCurrent \/ Witnessable
        /\ \E g \in Previews(c) :
              /\ PublicationAdmits(c, g)
              /\ Publishing \/ WellFormed(WithIntent(c, g))
        /\ Continuity \in {"verified", "legacy_unavailable", "forward_recovery"}
        /\ c \notin HasOptional => OptionalStores \cap Recorded = {}

\* A start that stopped can be repeated, except in the two known windows.
StuckOnlyKnown ==
    restored = {} /\ starter.pc = "idle" /\ ~Startable =>
        WitnessWindow \/ OptionalLeftBehind

\* docs/authority_publication_continuity.md: the owning runtime advances the
\* anchor before preparing another publication, so a stop between the two
\* writes of a completion costs a repeated start and nothing else.
AlwaysStartable == restored = {} /\ starter.pc = "idle" => Startable

===========================================================================
