--------------------------- MODULE AuthorityStart -------------------------
(***************************************************************************)
(* build_harness as an owning runtime starts: preflight, write-ahead       *)
(* intent, profile activation, one store after the other, checkpoint and   *)
(* continuity anchor.  The whole start holds the authority lock, as do the *)
(* operator's rotation and witness commands, so these never interleave;    *)
(* the process can stop between any two durable writes, and an operator    *)
(* can put an older copy of files back while nothing runs.                 *)
(***************************************************************************)
EXTENDS AuthorityStores, FiniteSets

CONSTANTS
    MaxClock,       \* bound on the publication records ever written
    MaxGeneration,  \* bound on the profile generations
    MaxStops,       \* bound on the starts that end early
    MaxRestores     \* bound on the copies that are put back

VARIABLES
    witness,    \* the newest external publication witness, or NULL
    sentinels,  \* files whose .lock sentinel outlived its writer
    starter,    \* the start in progress
    stops,
    backup,     \* a copy of the state directory, or NULL
    restored,   \* the parts put back so far, and whether the witness is newer
    witnessed,  \* the checkpoints witnessed before that (a history variable)
    lineage     \* every checkpoint ever anchored (a history variable)

vars == <<profile, pub, cont, clock, stores, witness, sentinels, starter,
          stops, backup, restored, witnessed, lineage>>

\* What a start leaves alone.
outside == <<witness, stops, backup, restored, witnessed>>

PUB == "authority_publication"
CONT == "authority_publication_continuity"
PROFILE == "authority_profile"
Files == Stores \cup {PUB, CONT, PROFILE}

\* The stores in the order in which build_harness records them.
StoreOrder ==
    <<"state_storage", "control_plane_isolation", "workspace_integrity",
      "evidence_witness_policy", PolicyStore, "runtime_artifacts",
      "launch_envelope", "evidence_head">>

\* What an operator may put back from a copy of the state directory.
Parts == {"publication", "continuity", "rest"}

Witnesses ==
    [generation : Nat \ {0}, profile : Configs, sequence : Nat, stamp : Nat]

\* The copies an operator may keep of the state directory.
Backups ==
    [pub : PublicationStates, cont : Anchors,
     profile : [history : Seq(Configs), pending : Configs \cup {NULL}],
     stores : [Stores -> Configs \cup {NULL}]]

ASSUME OutsideAssumption == NULL \notin Witnesses \cup Backups

\* A witness vouches for a publication, so the first start of all is made with
\* a configuration that does without one.
ASSUME FirstStartAssumption == Configs \ NeedsWitness # {}

Idle == [pc |-> "idle", cfg |-> NULL, intent |-> NULL, next |-> 0,
         rebind |-> FALSE]

Starters ==
    [pc : {"idle", "preparing", "enrolling", "resolving", "recording",
           "completing", "anchoring"},
     cfg : Configs \cup {NULL}, intent : Intents \cup {NULL}, next : Nat,
     rebind : BOOLEAN]

TypeOK ==
    /\ ProfileTypeOK
    /\ PublicationTypeOK
    /\ StoresTypeOK
    /\ witness \in Witnesses \cup {NULL}
    /\ sentinels \subseteq Files
    /\ starter \in Starters
    /\ stops \in Nat
    /\ backup \in Backups \cup {NULL}
    /\ restored \subseteq Parts \cup {"witness"}
    /\ witnessed \subseteq Nat
    /\ lineage \subseteq Checkpoints

-----------------------------------------------------------------------------
\* A fresh state directory, or one an older version has published: its
\* checkpoint has no prior link, or it has one but no continuity sequence.
LegacyPublication(c, prior) ==
    /\ profile = [history |-> <<c>>, pending |-> NULL]
    /\ stores = [s \in Stores |->
                    IF s \in OptionalStores /\ c \notin HasOptional
                    THEN NULL ELSE c]
    /\ clock = 1
    /\ pub = [active |-> NULL, sequence |-> NULL,
              completed |-> [profile |-> c, generation |-> 1, stamp |-> 1,
                             prior |-> prior]]

Init ==
    /\ \/ /\ ProfileInit
          /\ stores = [s \in Stores |-> NULL]
          /\ clock = GENESIS
          /\ pub = NULL
       \/ \E c \in Configs \ NeedsWitness, prior \in {NULL, GENESIS} :
             LegacyPublication(c, prior)
    /\ cont = NULL
    /\ witness = NULL
    /\ sentinels = {}
    /\ starter = Idle
    /\ stops = 0
    /\ backup = NULL
    /\ restored = {}
    /\ witnessed = {}
    /\ lineage = {}

-----------------------------------------------------------------------------
(* The publication witness, an Ed25519 statement kept outside the state     *)
(* directory.                                                               *)

\* assess_witness.
WitnessAssessment ==
    IF \/ witness.generation > Generation
       \/ profile.history[witness.generation] # witness.profile
    THEN "invalid"
    ELSE IF Continuity # "verified" THEN "invalid"
    ELSE IF witness.sequence > cont.sequence THEN "invalid"
    ELSE IF witness.sequence = cont.sequence THEN
        IF witness.stamp = cont.checkpoint THEN "verified" ELSE "invalid"
    ELSE IF witness.sequence + 1 = cont.sequence THEN
        IF witness.stamp = cont.prior THEN "forward" ELSE "invalid"
    ELSE "invalid"

\* _preflight_publication_witness with require_current.
WitnessCurrent ==
    /\ Enrolled /\ witness # NULL /\ pub # NULL /\ cont # NULL
    /\ WitnessAssessment = "verified"

\* build_witness_payload refuses unless this holds.
Witnessable ==
    /\ Enrolled /\ pub # NULL /\ cont # NULL
    /\ stores["state_storage"] = ActiveProfile
    /\ pub.active = NULL /\ pub.completed # NULL
    /\ Matches(pub.completed, ActiveProfile, Generation)
    /\ Continuity = "verified"
    /\ ManifestMatches(ActiveProfile)

\* create_current_witness, under the authority lock.
CreateWitness ==
    /\ starter.pc = "idle"
    /\ Witnessable
    /\ witness' = [generation |-> Generation, profile |-> ActiveProfile,
                   sequence |-> cont.sequence, stamp |-> cont.checkpoint]
    /\ IF restored = {}
       THEN /\ witnessed' = witnessed \cup {cont.checkpoint}
            /\ UNCHANGED restored
       ELSE restored' = restored \cup {"witness"} /\ UNCHANGED witnessed
    /\ UNCHANGED <<profile, pub, cont, clock, stores, sentinels, starter, stops,
                   backup, lineage>>

-----------------------------------------------------------------------------
(* The start.                                                               *)

\* The policy that is recorded decides whether a witness must be supplied, and
\* the configuration whether it is checked.
WitnessAdmits(c) ==
    /\ stores[PolicyStore] \in NeedsWitness => c \in NeedsWitness
    /\ c \in NeedsWitness => WitnessCurrent

\* Mutant of PublicationAdmits: an active intent of another configuration is
\* ignored.
PublicationAdmitsAny(c, g) ==
    pub # NULL /\ pub.active = NULL => ManifestMatches(pub.completed.profile)

\* Mutant of PublicationAdmits: a replay, too, wants the last checkpoint intact.
PublicationAdmitsIntact(c, g) ==
    pub # NULL =>
        /\ pub.completed # NULL => ManifestMatches(pub.completed.profile)
        /\ pub.active # NULL => Matches(pub.active, c, g)

\* What build_harness asks of the publication state before it prepares.
PublicationAdmits(c, g) ==
    pub # NULL =>
        IF pub.active # NULL THEN Matches(pub.active, c, g)
        ELSE /\ ManifestMatches(pub.completed.profile)
             /\ Matches(pub.completed, c, g) => CompletedIntact(c)

Admits(c) ==
    /\ WitnessAdmits(c)
    /\ \E g \in Previews(c) : PublicationAdmits(c, g)

\* The file the starter writes next.
NextFile ==
    CASE starter.pc = "preparing" -> IF Continuity = "forward_recovery"
                                     THEN CONT ELSE PUB
      [] starter.pc \in {"enrolling", "anchoring"} -> CONT
      [] starter.pc = "resolving" -> PROFILE
      [] starter.pc = "recording" -> StoreOrder[starter.next]
      [] OTHER -> PUB
\* The sentinels around that write: the anchor is written inside the
\* publication file's lock.
NextLocks == {NextFile} \cup (IF NextFile = CONT THEN {PUB} ELSE {})
\* exclusive_file_lock gives up on a sentinel that is there already.
Free(files) == files \cap sentinels = {}

\* Up to prepare: everything that is read and checked.
Begin(c) ==
    /\ starter.pc = "idle"
    /\ clock + 2 <= MaxClock
    /\ Admits(c)
    /\ Free({PUB})
    /\ starter' = [pc |-> "preparing", cfg |-> c, next |-> 1,
                   intent |-> IF Publishing THEN pub.active ELSE NULL,
                   rebind |-> \/ Publishing
                              \/ Enrolled /\ ActiveProfile # c]
    /\ UNCHANGED <<outside, profile, pub, cont, clock, stores, sentinels, lineage>>

\* prepare, first: the anchor is brought up to the state it lags behind.
PrepareRecover ==
    /\ starter.pc = "preparing"
    /\ Free({CONT})
    /\ RecoverContinuity
    /\ lineage' = lineage \cup {pub.completed}
    /\ UNCHANGED <<outside, profile, stores, sentinels, starter>>

\* prepare, an intent that is already there.
PrepareAgain ==
    /\ starter.pc = "preparing"
    /\ Publishing
    /\ ContinuityUsable
    /\ starter' = [starter EXCEPT !.pc = "resolving"]
    /\ UNCHANGED <<outside, profile, pub, cont, clock, stores, sentinels, lineage>>

\* prepare, a new intent.
PrepareNew ==
    /\ starter.pc = "preparing"
    /\ ~Publishing
    /\ \E g \in Previews(starter.cfg) : WriteIntent(starter.cfg, g)
    /\ starter' = [starter EXCEPT
                      !.intent = pub'.active,
                      !.pc = IF Stored.sequence = NULL /\ pub'.sequence = 1
                             THEN "enrolling" ELSE "resolving"]
    /\ UNCHANGED <<outside, profile, stores, sentinels, lineage>>

\* prepare, the anchor of a checkpoint that predates continuity.
PrepareEnroll ==
    /\ starter.pc = "enrolling"
    /\ Free({CONT})
    /\ Advance(pub.sequence, pub.completed)
    /\ starter' = [starter EXCEPT !.pc = "resolving"]
    /\ lineage' = lineage \cup {pub.completed}
    /\ UNCHANGED <<outside, profile, stores, sentinels>>

\* profile_store.resolve_for_authority.
Resolve ==
    /\ starter.pc = "resolving"
    /\ Free({PROFILE})
    /\ ResolveForAuthority(starter.cfg)
    /\ starter' = [starter EXCEPT !.pc = "recording"]
    /\ UNCHANGED <<outside, pub, cont, clock, stores, sentinels, lineage>>

\* One store.record of the start; the last store is the evidence head.
RecordStore(s) ==
    /\ starter.pc = "recording"
    /\ starter.next <= Len(StoreOrder)
    /\ StoreOrder[starter.next] = s
    /\ IF s \in OptionalStores /\ starter.cfg \notin HasOptional
       THEN UNCHANGED stores
       ELSE Free({s}) /\ Record(s, starter.cfg)
    /\ starter' = [starter EXCEPT
                      !.next = @ + 1,
                      !.pc = IF s = "evidence_head" THEN "completing" ELSE @]
    /\ UNCHANGED <<outside, profile, pub, cont, clock, sentinels, lineage>>

RecordStateStorage == RecordStore("state_storage")
RecordIsolation == RecordStore("control_plane_isolation")
RecordWorkspace == RecordStore("workspace_integrity")
RecordEvidencePolicy == RecordStore("evidence_witness_policy")
RecordPublicationPolicy == RecordStore(PolicyStore)
RecordRuntimeArtifacts == RecordStore("runtime_artifacts")
RecordLaunchEnvelope == RecordStore("launch_envelope")
\* The evidence store rebinds its head only for a replay or a transition.
RecordEvidenceHead ==
    /\ stores["evidence_head"] \in {NULL, starter.cfg} \/ starter.rebind
    /\ RecordStore("evidence_head")

\* The final comparison and complete's own write.
Complete ==
    /\ starter.pc = "completing"
    /\ Free({PUB})
    /\ CompletedIntact(starter.cfg)
    /\ WriteCheckpoint(starter.intent)
    /\ starter' = [starter EXCEPT !.pc = "anchoring"]
    /\ UNCHANGED <<outside, profile, stores, sentinels, lineage>>

\* complete's second write, and the end of the start.
Anchor ==
    /\ starter.pc = "anchoring"
    /\ Free({CONT})
    /\ Advance(pub.sequence, pub.completed)
    /\ starter' = Idle
    /\ lineage' = lineage \cup {pub.completed}
    /\ UNCHANGED <<outside, profile, stores, sentinels>>

-----------------------------------------------------------------------------
(* What else happens.                                                       *)

\* The start cannot go on: a sentinel, an unusable anchor, or a final
\* comparison that fails.  It raises, releases its locks and leaves what it
\* has written.
CannotGoOn ==
    \/ /\ starter.pc = "preparing"
       /\ \/ Continuity \notin {"verified", "legacy_unavailable",
                                "forward_recovery"}
          \/ NextFile = CONT /\ ~Free({CONT})
          \/ ~Publishing /\ \A g \in Previews(starter.cfg) :
                ~WellFormed(WithIntent(starter.cfg, g))
    \/ starter.pc \in {"enrolling", "anchoring"} /\
          ~(Free({CONT}) /\ CanAdvance(pub.sequence, pub.completed))
    \/ starter.pc = "resolving" /\ ~Free({PROFILE})
    \/ /\ starter.pc = "recording"
       /\ \/ /\ ~Free({NextFile})
             /\ NextFile \in OptionalStores => starter.cfg \in HasOptional
          \/ /\ NextFile = "evidence_head" /\ ~starter.rebind
             /\ stores["evidence_head"] \notin {NULL, starter.cfg}
    \/ /\ starter.pc = "completing"
       /\ \/ ~Free({PUB}) \/ ~CompletedIntact(starter.cfg)
          \/ ~ContinuityUsable \/ pub.active # starter.intent

Raise ==
    /\ CannotGoOn
    /\ starter' = Idle
    /\ UNCHANGED <<outside, profile, pub, cont, clock, stores, sentinels, lineage>>

\* The start ends early: by an exception of the file system or of the audit,
\* which leaves no sentinel, or because the process dies inside a write or
\* between the two writes one sentinel covers.
Stop ==
    /\ starter.pc # "idle"
    /\ stops < MaxStops
    /\ stops' = stops + 1
    /\ \E left \in {{}, NextLocks \cap {PUB}, NextLocks} :
          sentinels' = sentinels \cup left
    /\ starter' = Idle
    /\ UNCHANGED <<profile, pub, cont, clock, stores, witness, backup, restored,
                   witnessed, lineage>>

\* The operator removes a sentinel after making sure that no writer is left.
RemoveSentinel(f) ==
    /\ starter.pc = "idle"
    /\ f \in sentinels
    /\ sentinels' = sentinels \ {f}
    /\ UNCHANGED <<outside, profile, pub, cont, clock, stores, starter, lineage>>

\* authority-profile rotate, under the authority lock.
Rotate(target) ==
    /\ starter.pc = "idle"
    /\ Generation < MaxGeneration
    /\ Free({PROFILE})
    /\ RequestRotation(target)
    /\ UNCHANGED <<outside, pub, cont, clock, stores, sentinels, starter, lineage>>

\* Somebody keeps a copy of the state directory between two starts ...
TakeBackup ==
    /\ MaxRestores > 0
    /\ starter.pc = "idle"
    /\ backup = NULL
    /\ pub # NULL /\ pub.active = NULL /\ Continuity = "verified"
    /\ backup' = [pub |-> pub, cont |-> cont, profile |-> profile,
                  stores |-> stores]
    /\ UNCHANGED <<profile, pub, cont, clock, stores, witness, sentinels, starter,
                   stops, restored, witnessed, lineage>>

\* ... and puts some of its files back.
Restore(parts) ==
    /\ starter.pc = "idle"
    /\ backup # NULL
    /\ restored = {}
    /\ pub # backup.pub
    /\ restored' = parts
    /\ pub' = IF "publication" \in parts THEN backup.pub ELSE pub
    /\ cont' = IF "continuity" \in parts THEN backup.cont ELSE cont
    /\ IF "rest" \in parts
       THEN profile' = backup.profile /\ stores' = backup.stores
       ELSE UNCHANGED <<profile, stores>>
    /\ UNCHANGED <<clock, witness, sentinels, starter, stops, backup, witnessed,
                   lineage>>

Next ==
    \/ \E c \in Configs : Begin(c)
    \/ PrepareRecover \/ PrepareAgain \/ PrepareNew \/ PrepareEnroll
    \/ Resolve
    \/ RecordStateStorage \/ RecordIsolation \/ RecordWorkspace
    \/ RecordEvidencePolicy \/ RecordPublicationPolicy
    \/ RecordRuntimeArtifacts \/ RecordLaunchEnvelope \/ RecordEvidenceHead
    \/ Complete \/ Anchor
    \/ Raise \/ Stop
    \/ \E f \in Files : RemoveSentinel(f)
    \/ \E c \in Configs : Rotate(c)
    \/ CreateWitness
    \/ TakeBackup
    \/ \E parts \in (SUBSET Parts) \ {{}} : Restore(parts)

Spec == Init /\ [][Next]_vars

===========================================================================
