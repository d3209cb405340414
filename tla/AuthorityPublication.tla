----------------------- MODULE AuthorityPublication -----------------------
(***************************************************************************)
(* authority_publication.py and authority_publication_continuity.py: the   *)
(* write-ahead intent of an authority publication, the checkpoint of the   *)
(* last completed one, and the continuity anchor kept in a file of its own.*)
(* A record hash is the stamp of the record: prepared_at and completed_at  *)
(* make every record new, and clock counts them.  The manifest hash is a   *)
(* function of profile and generation, which stand for it.                 *)
(***************************************************************************)
EXTENDS AuthorityConfig

VARIABLES pub,     \* authority_publication.json, or NULL
          cont,    \* authority_publication_continuity.json, or NULL
          clock    \* the stamp of the newest record

GENESIS == 0

Intents ==
    [profile : Configs, generation : Nat \ {0}, stamp : Nat, prior : Nat]
\* prior is NULL in a checkpoint that predates the transition links.
Checkpoints ==
    [profile : Configs, generation : Nat \ {0}, stamp : Nat,
     prior : Nat \cup {NULL}]
\* sequence is NULL in a state that predates continuity.
PublicationStates ==
    [active : Intents \cup {NULL}, completed : Checkpoints \cup {NULL},
     sequence : Nat \cup {NULL}]
Anchors == [sequence : Nat \ {0}, checkpoint : Nat, prior : Nat]

\* What is absent is no record.
ASSUME AbsentAssumption ==
    NULL \notin Intents \cup Checkpoints \cup PublicationStates \cup Anchors

PublicationTypeOK ==
    /\ pub \in PublicationStates \cup {NULL}
    /\ cont \in Anchors \cup {NULL}
    /\ clock \in Nat

\* from_dict refuses a state that does not satisfy this.
WellFormed(s) ==
    /\ s.active # NULL \/ s.completed # NULL
    /\ s.active # NULL /\ s.sequence # NULL =>
          s.active.prior = IF s.completed = NULL THEN GENESIS
                                                 ELSE s.completed.stamp
    /\ s.active # NULL /\ s.completed # NULL =>
          /\ s.active.generation - s.completed.generation \in {0, 1}
          /\ s.active.generation = s.completed.generation =>
                s.active.profile = s.completed.profile
    /\ s.sequence # NULL =>
          /\ s.sequence > 0 => s.completed # NULL
          /\ s.sequence = 0 /\ s.completed # NULL => s.completed.prior = NULL

\* AuthorityPublicationStore.get: no file reads as the empty state.
Stored ==
    IF pub = NULL THEN [active |-> NULL, completed |-> NULL, sequence |-> 0]
                  ELSE pub

Publishing == pub # NULL /\ pub.active # NULL

\* Intent.matches, without its stamp and its prior link.
Matches(record, c, g) == record.profile = c /\ record.generation = g

\* assess_authority_publication_continuity.
AssessContinuity(s, anchor) ==
    LET done == s.completed IN
    CASE s.sequence = NULL ->
            IF anchor = NULL THEN "legacy_unavailable" ELSE "diverged"
      [] s.sequence = 0 ->
            IF anchor # NULL THEN "diverged"
            ELSE IF done = NULL THEN "verified" ELSE "legacy_unavailable"
      [] OTHER ->
            IF done = NULL \/ done.prior = NULL THEN "diverged"
            ELSE IF anchor = NULL THEN
                IF s.sequence = 1 THEN "forward_recovery" ELSE "missing"
            ELSE IF s.sequence = anchor.sequence THEN
                IF done.stamp = anchor.checkpoint /\ done.prior = anchor.prior
                THEN "verified" ELSE "diverged"
            ELSE IF /\ s.sequence = anchor.sequence + 1
                    /\ done.prior = anchor.checkpoint THEN "forward_recovery"
            ELSE IF s.sequence < anchor.sequence THEN "rollback"
            ELSE "diverged"

Continuity == AssessContinuity(Stored, cont)

\* ContinuityStore.advance accepts the current anchor again, its direct
\* successor, or the first anchor of all.
CanAdvance(sequence, done) ==
    IF cont = NULL THEN sequence = 1
    ELSE \/ /\ cont.sequence = sequence
            /\ cont.checkpoint = done.stamp
            /\ cont.prior = done.prior
         \/ /\ sequence = cont.sequence + 1
            /\ done.prior = cont.checkpoint

\* _advance_continuity.
Advance(sequence, done) ==
    /\ CanAdvance(sequence, done)
    /\ cont' = [sequence |-> sequence, checkpoint |-> done.stamp,
                prior |-> done.prior]
    /\ UNCHANGED <<pub, clock>>

\* _recover_continuity_if_required writes only for "forward_recovery" and lets
\* prepare and complete go on only from these.
ContinuityUsable == Continuity \in {"verified", "legacy_unavailable"}
\* Mutant of RecoverContinuity: the anchor takes whatever the state says.
TrustPublication ==
    /\ Continuity \in {"forward_recovery", "rollback"}
    /\ cont' = [sequence |-> pub.sequence, checkpoint |-> pub.completed.stamp,
                prior |-> pub.completed.prior]
    /\ UNCHANGED <<pub, clock>>

RecoverContinuity ==
    /\ Continuity = "forward_recovery"
    /\ Advance(pub.sequence, pub.completed)

\* The sequence prepare gives to a state that has none: a linked checkpoint is
\* publication one, and its anchor is written after the intent.
SequenceOf(s) ==
    IF s.sequence # NULL THEN s.sequence
    ELSE IF s.completed.prior # NULL THEN 1 ELSE 0

\* The state prepare writes.
WithIntent(c, g) ==
    [active    |-> [profile |-> c, generation |-> g, stamp |-> clock + 1,
                    prior |-> IF Stored.completed = NULL THEN GENESIS
                              ELSE Stored.completed.stamp],
     completed |-> Stored.completed,
     sequence  |-> SequenceOf(Stored)]

\* prepare, when no publication is active.  A matching active intent is
\* returned as it is; a different one is refused.  _write validates what it
\* is about to write as a reader would.
WriteIntent(c, g) ==
    /\ ContinuityUsable
    /\ Stored.active = NULL
    /\ WellFormed(WithIntent(c, g))
    /\ pub' = WithIntent(c, g)
    /\ clock' = clock + 1
    /\ UNCHANGED cont

\* complete: the very intent that was prepared becomes the checkpoint.
WriteCheckpoint(intent) ==
    /\ Publishing
    /\ ContinuityUsable
    /\ pub.active = intent
    /\ clock' = clock + 1
    /\ pub' = [active    |-> NULL,
               completed |-> [intent EXCEPT !.stamp = clock'],
               sequence  |-> pub.sequence + 1]
    /\ UNCHANGED cont

===========================================================================
