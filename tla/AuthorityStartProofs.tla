----------------------- MODULE AuthorityStartProofs -----------------------
(***************************************************************************)
(* A start that stops can be explained, replayed and repeated, and         *)
(* published history does not fork, for any configurations and any number  *)
(* of publications, stops, rotations and restored copies.                  *)
(***************************************************************************)
EXTENDS AuthorityStartProperties, TLAPS

-----------------------------------------------------------------------------
(* The inductive invariant: the publication records *)

\* What holds of any publication state that prepare, complete or an older
\* version has written, and of every copy of one.
Linked(s) ==
    /\ WellFormed(s)
    /\ s.active # NULL => s.sequence # NULL
    /\ s.sequence # NULL /\ s.sequence > 0 => s.completed.prior # NULL
    /\ s.completed # NULL =>
         /\ s.completed.stamp <= clock
         /\ s.completed.prior # NULL => s.completed.prior < s.completed.stamp
         /\ s.completed.profile \in NeedsWitness =>
              s.sequence # NULL /\ s.sequence > 0

RecordsLinked ==
    /\ pub # NULL => Linked(pub)
    /\ cont # NULL => cont.checkpoint <= clock
    /\ \A l \in lineage : l.prior # NULL /\ l.prior < l.stamp /\ l.stamp <= clock

\* A copy is one of a completed and anchored publication.
BackupSound ==
    /\ backup = NULL => restored = {}
    /\ backup # NULL =>
         /\ Linked(backup.pub)
         /\ backup.pub.active = NULL
         /\ backup.pub.completed \in lineage
         /\ backup.cont.checkpoint <= clock

-----------------------------------------------------------------------------
(* ... the start in progress *)

\* The stores a configuration has, and that such a store is its own.
Has(c, s) == s \in OptionalStores => c \in HasOptional

Written(s, c) == Has(c, s) => stores[s] = c

InStart == {"preparing", "enrolling", "resolving", "recording", "completing"}
Resolved == {"recording", "completing"}

\* A start goes on under the intent it found or prepared, whose generation is
\* the one its configuration has, or gets.
StarterSound ==
    LET c == starter.cfg
        pc == starter.pc
    IN
    /\ pc \in InStart =>
         /\ c \in Configs
         /\ WitnessAdmits(c)
         /\ Publishing => /\ pub.active.profile = c
                          /\ starter.intent = pub.active
    /\ pc \in InStart \ {"preparing"} => Publishing
    /\ pc \in InStart \ Resolved /\ Publishing =>
         pub.active.generation \in Previews(c)
    /\ pc \in Resolved =>
         Enrolled /\ ActiveProfile = c /\ Generation = pub.active.generation
    /\ pc = "enrolling" => pub.sequence = 1
    /\ pc = "anchoring" => /\ pub # NULL /\ pub.active = NULL
                           /\ pub.sequence # NULL /\ pub.sequence > 0

\* The stores are recorded in their order.
RecordedSoFar ==
    /\ starter.pc \in InStart \ Resolved => starter.next = 1
    /\ starter.pc = "recording" =>
         /\ starter.next \in 1..Len(StoreOrder)
         /\ \A j \in 1..starter.next - 1 : Written(StoreOrder[j], starter.cfg)
    /\ starter.pc = "completing" => \A s \in Stores : Written(s, starter.cfg)

-----------------------------------------------------------------------------
(* ... the history of checkpoints *)

\* The anchor is the newest of the checkpoints, as long as no older one was
\* put back.
AnchorNewest ==
    "continuity" \notin restored =>
      /\ cont = NULL => lineage = {}
      /\ \A l \in lineage :
           /\ l.stamp <= cont.checkpoint
           /\ l.stamp < cont.checkpoint => l.prior < cont.prior

\* So is the checkpoint of the publication state.
PublicationNewest ==
    "publication" \notin restored /\ lineage # {} =>
      /\ pub # NULL /\ pub.completed # NULL /\ pub.completed.prior # NULL
      /\ \A l \in lineage :
           /\ l.stamp <= pub.completed.stamp
           /\ l.stamp < pub.completed.stamp => l.prior < pub.completed.prior

\* What is anchored belongs to the history.
AnchoredKnown ==
    /\ restored = {} /\ pub # NULL /\ cont # NULL /\ pub.completed # NULL
    /\ pub.completed.stamp = cont.checkpoint
    => pub.completed \in lineage

\* The newest witness is the witness of the newest checkpoint witnessed.
WitnessNewest ==
    /\ restored = {} =>
         \A w \in witnessed : cont # NULL /\ w <= cont.checkpoint
    /\ "witness" \notin restored =>
         \A w \in witnessed : witness # NULL /\ w <= witness.stamp

\* With publication and anchor put back: a checkpoint that is not anchored yet
\* is newer than the others and, if it needs a witness, no sibling of a
\* witnessed one.
NoSibling ==
    /\ {"publication", "continuity"} \subseteq restored
    /\ "witness" \notin restored
    => /\ pub # NULL /\ pub.completed # NULL
       /\ \/ pub.completed \in lineage
          \/ \A l \in lineage :
               /\ l.stamp < pub.completed.stamp
               /\ pub.completed.profile \in NeedsWitness /\ l.stamp \in witnessed
                    => l.prior # pub.completed.prior

History ==
    /\ AnchorNewest /\ PublicationNewest /\ AnchoredKnown /\ WitnessNewest
    /\ NoSibling /\ HistoryDoesNotFork

-----------------------------------------------------------------------------
(* ... the files, as long as nothing was put back *)

\* What a store holds before the intent is applied to it.
Before(s) ==
    IF pub.completed = NULL THEN NULL
    ELSE IF Has(pub.completed.profile, s) THEN pub.completed.profile ELSE NULL

\* The intent is there, and the profile is not the intent's yet.
Prepared ==
    /\ \A s \in Stores : stores[s] = Before(s)
    /\ IF pub.completed = NULL THEN ~Enrolled /\ pub.active.generation = 1
       ELSE /\ Enrolled
            /\ Matches(pub.completed, ActiveProfile, Generation)
            /\ pub.active.generation = pub.completed.generation + 1
            /\ profile.pending = pub.active.profile

\* The profile is the intent's, and the stores are, one after the other.
Applying ==
    LET c == pub.active.profile IN
    /\ Enrolled
    /\ Matches(pub.active, ActiveProfile, Generation)
    /\ \A s \in Stores :
         stores[s] = Before(s) \/ (Has(c, s) /\ stores[s] = c)
    /\ stores["evidence_head"] = c => \A s \in Stores : Written(s, c)

Unpublished == pub = NULL /\ ~Enrolled /\ cont = NULL /\ \A s \in Stores : stores[s] = NULL

Completed ==
    /\ pub # NULL /\ pub.active = NULL
    /\ Enrolled
    /\ Matches(pub.completed, ActiveProfile, Generation)
    /\ CompletedIntact(ActiveProfile)

\* An intent under a witness keeps the witness it was prepared with.
StillWitnessed ==
    Publishing =>
      /\ stores[PolicyStore] \in NeedsWitness =>
           pub.active.profile \in NeedsWitness
      /\ pub.active.profile \in NeedsWitness => WitnessCurrent

FilesSound ==
    restored = {} =>
      /\ Contiguous(profile)
      /\ Continuity \in {"verified", "legacy_unavailable", "forward_recovery"}
      /\ StillWitnessed
      /\ Unpublished \/ Completed \/ (Publishing /\ (Prepared \/ Applying))

IInv ==
    /\ TypeOK /\ RecordsLinked /\ BackupSound
    /\ StarterSound /\ RecordedSoFar /\ History /\ FilesSound


-----------------------------------------------------------------------------
(* The records and the anchor *)

\* The ways in which a publication state and its anchor can belong together.
Numbered(s) == s.sequence # NULL /\ s.sequence > 0

AnchorAt(s, anchor) ==
    /\ anchor # NULL
    /\ s.sequence = anchor.sequence
    /\ s.completed.stamp = anchor.checkpoint
    /\ s.completed.prior = anchor.prior

AnchorBehind(s, anchor) ==
    IF anchor = NULL THEN s.sequence = 1
    ELSE s.sequence = anchor.sequence + 1 /\ s.completed.prior = anchor.checkpoint

AnchorMissing(s, anchor) == ~Numbered(s) /\ anchor = NULL

LEMMA StateFields ==
    ASSUME NEW s \in PublicationStates
    PROVE  /\ s.sequence \in Nat \cup {NULL}
           /\ s.active \in Intents \cup {NULL}
           /\ s.completed \in Checkpoints \cup {NULL}
  BY DEF PublicationStates

LEMMA CheckpointFields ==
    ASSUME NEW d \in Checkpoints
    PROVE  /\ d.profile \in Configs /\ d.generation \in Nat \ {0}
           /\ d.stamp \in Nat /\ d.prior \in Nat \cup {NULL}
  BY DEF Checkpoints

LEMMA ContinuityIs ==
    ASSUME NEW s \in PublicationStates, NEW anchor \in Anchors \cup {NULL},
           WellFormed(s), Numbered(s) => s.completed.prior # NULL
    PROVE  /\ AssessContinuity(s, anchor) = "verified"
                <=> \/ Numbered(s) /\ AnchorAt(s, anchor)
                    \/ /\ AnchorMissing(s, anchor)
                       /\ s.sequence # NULL /\ s.completed = NULL
           /\ AssessContinuity(s, anchor) = "forward_recovery"
                <=> Numbered(s) /\ AnchorBehind(s, anchor)
           /\ AssessContinuity(s, anchor) = "legacy_unavailable"
                <=> /\ AnchorMissing(s, anchor)
                    /\ s.sequence = NULL \/ s.completed # NULL
<1>1. /\ s.sequence \in Nat \cup {NULL}
      /\ s.completed \in Checkpoints \cup {NULL}
  BY StateFields
<1>2. anchor # NULL => anchor.sequence \in Nat
  BY DEF Anchors
<1>3. Numbered(s) => s.completed # NULL
  BY <1>1 DEF WellFormed, Numbered
<1>4. CASE s.sequence = NULL
  BY <1>4, ConfigAssumption DEF AssessContinuity, Numbered, AnchorMissing
<1>5. CASE s.sequence = 0
  BY <1>5, ConfigAssumption DEF AssessContinuity, Numbered, AnchorMissing
<1>6. CASE s.sequence # NULL /\ s.sequence # 0
  <2>1. Numbered(s)
    BY <1>1, <1>6 DEF Numbered
  <2>2. ~AnchorMissing(s, anchor)
    BY <2>1 DEF AnchorMissing
  <2>3. AssessContinuity(s, anchor) =
          IF anchor = NULL THEN
              IF s.sequence = 1 THEN "forward_recovery" ELSE "missing"
          ELSE IF s.sequence = anchor.sequence THEN
              IF AnchorAt(s, anchor) THEN "verified" ELSE "diverged"
          ELSE IF AnchorBehind(s, anchor) THEN "forward_recovery"
          ELSE IF s.sequence < anchor.sequence THEN "rollback"
          ELSE "diverged"
    BY <1>3, <1>6, <2>1 DEF AssessContinuity, AnchorAt, AnchorBehind
  <2>4. anchor # NULL /\ s.sequence = anchor.sequence => ~AnchorBehind(s, anchor)
    BY <1>1, <1>2, <1>6 DEF AnchorBehind
  <2> QED
    BY <2>1, <2>2, <2>3, <2>4 DEF AnchorAt, AnchorBehind
<1> QED
  BY <1>4, <1>5, <1>6

\* The same of the files: no file is the empty state.
LEMMA ContinuityOfFiles ==
    ASSUME PublicationTypeOK, pub # NULL, Linked(pub)
    PROVE  /\ Continuity = "verified"
                <=> \/ Numbered(pub) /\ AnchorAt(pub, cont)
                    \/ /\ AnchorMissing(pub, cont)
                       /\ pub.sequence # NULL /\ pub.completed = NULL
           /\ Continuity = "forward_recovery"
                <=> Numbered(pub) /\ AnchorBehind(pub, cont)
           /\ Continuity = "legacy_unavailable"
                <=> /\ AnchorMissing(pub, cont)
                    /\ pub.sequence = NULL \/ pub.completed # NULL
<1>1. /\ pub \in PublicationStates /\ cont \in Anchors \cup {NULL}
      /\ WellFormed(pub) /\ (Numbered(pub) => pub.completed.prior # NULL)
  BY DEF PublicationTypeOK, Linked, Numbered
<1>2. Continuity = AssessContinuity(pub, cont)
  BY DEF Continuity, Stored
<1> QED
  BY <1>1, <1>2, ContinuityIs

LEMMA NoFileNoAnchor ==
    ASSUME pub = NULL
    PROVE  /\ Continuity \in {"verified", "diverged"}
           /\ Continuity = "verified" <=> cont = NULL
<1>1. /\ Stored.sequence = 0 /\ Stored.completed = NULL
  BY DEF Stored
<1> QED
  BY <1>1, ConfigAssumption DEF Continuity, AssessContinuity

LEMMA NumberedCompleted ==
    ASSUME PublicationTypeOK, pub # NULL, Linked(pub), Numbered(pub)
    PROVE  /\ pub.completed # NULL /\ pub.completed \in Checkpoints
           /\ pub.sequence \in Nat \ {0}
           /\ pub.completed.profile \in Configs
           /\ pub.completed.stamp \in Nat /\ pub.completed.prior \in Nat
           /\ pub.completed.prior < pub.completed.stamp
           /\ pub.completed.stamp <= clock
<1>1. /\ pub.sequence \in Nat \cup {NULL}
      /\ pub.completed \in Checkpoints \cup {NULL}
  BY StateFields DEF PublicationTypeOK
<1>2. /\ pub.sequence # NULL /\ pub.sequence > 0 /\ pub.completed # NULL
      /\ pub.completed.prior # NULL
  BY DEF Linked, WellFormed, Numbered
<1>3. pub.completed.prior < pub.completed.stamp /\ pub.completed.stamp <= clock
  BY <1>2 DEF Linked
<1> QED
  BY <1>1, <1>2, <1>3, CheckpointFields

-----------------------------------------------------------------------------
(* A checkpoint is anchored *)

LEMMA AnchoredHistory ==
    ASSUME TypeOK, RecordsLinked, History,
           pub # NULL, Numbered(pub), CanAdvance(pub.sequence, pub.completed),
           cont' = [sequence |-> pub.sequence, checkpoint |-> pub.completed.stamp,
                    prior |-> pub.completed.prior],
           lineage' = lineage \cup {pub.completed},
           UNCHANGED <<pub, restored, witness, witnessed>>
    PROVE  History'
<1> DEFINE d == pub.completed
<1>1. /\ PublicationTypeOK /\ Linked(pub)
      /\ lineage \subseteq Checkpoints /\ witnessed \subseteq Nat
  BY DEF TypeOK, RecordsLinked
<1>2. /\ d # NULL /\ d.stamp \in Nat /\ d.prior \in Nat /\ d.prior < d.stamp
  BY <1>1, NumberedCompleted
<1>3. /\ \A l \in lineage : l.stamp \in Nat /\ l.prior \in Nat /\ l.prior < l.stamp
  BY <1>1, CheckpointFields DEF RecordsLinked
<1>4. /\ cont' # NULL /\ cont'.checkpoint = d.stamp /\ cont'.prior = d.prior
      /\ pub' = pub /\ restored' = restored /\ witnessed' = witnessed
      /\ witness' = witness /\ lineage' = lineage \cup {d}
  <2>1. cont' \in Anchors
    BY <1>1, <1>2, NumberedCompleted DEF Anchors
  <2> QED
    BY <2>1, AbsentAssumption
<1>5. cont # NULL =>
         /\ cont.checkpoint \in Nat /\ cont.prior \in Nat
         /\ \/ cont.checkpoint = d.stamp /\ cont.prior = d.prior
            \/ d.prior = cont.checkpoint
  BY <1>1 DEF CanAdvance, PublicationTypeOK, Anchors
<1> HIDE DEF d
<1>6. AnchorNewest'
  <2> SUFFICES ASSUME "continuity" \notin restored, NEW l \in lineage \cup {d}
               PROVE  /\ l.stamp <= d.stamp
                      /\ l.stamp < d.stamp => l.prior < d.prior
    BY <1>4 DEF AnchorNewest
  <2>1. CASE l = d
    BY <2>1, <1>2
  <2>2. CASE l \in lineage
    <3>1. /\ cont # NULL /\ l.stamp <= cont.checkpoint
          /\ l.stamp < cont.checkpoint => l.prior < cont.prior
      BY <2>2 DEF History, AnchorNewest
    <3> QED
      BY <3>1, <2>2, <1>2, <1>3, <1>5
  <2> QED
    BY <2>1, <2>2
<1>7. PublicationNewest'
  <2> SUFFICES ASSUME "publication" \notin restored, NEW l \in lineage \cup {d}
               PROVE  /\ l.stamp <= d.stamp
                      /\ l.stamp < d.stamp => l.prior < d.prior
    BY <1>2, <1>4, ConfigAssumption DEF PublicationNewest, d
  <2> QED
    BY <1>2 DEF History, PublicationNewest, d
<1>8. AnchoredKnown' /\ NoSibling'
  BY <1>2, <1>4 DEF AnchoredKnown, NoSibling, d
<1>9. WitnessNewest'
  <2> SUFFICES ASSUME restored = {}, NEW w \in witnessed
               PROVE  w <= d.stamp
    BY <1>4 DEF History, WitnessNewest
  <2>1. cont # NULL /\ w <= cont.checkpoint /\ w \in Nat
    BY <1>1 DEF History, WitnessNewest
  <2> QED
    BY <2>1, <1>2, <1>5
<1>10. HistoryDoesNotFork'
  <2> SUFFICES ASSUME NEW old \in lineage \cup {d}, NEW new \in lineage \cup {d},
                      old.prior = new.prior, old.stamp < new.stamp,
                      old = d \/ new = d
               PROVE  /\ {"publication", "continuity"} \subseteq restored
                      /\ new.profile \in NeedsWitness /\ old.stamp \in witnessed =>
                           "witness" \in restored
    BY <1>4 DEF History, HistoryDoesNotFork
  <2>1. old.stamp \in Nat /\ new.stamp \in Nat /\ d.stamp \in Nat /\ d.prior \in Nat
    BY <1>2, <1>3
  <2>2. ~(/\ \A l \in lineage \cup {d} : l.stamp <= d.stamp
          /\ \A l \in lineage \cup {d} : l.stamp < d.stamp => l.prior < d.prior)
    BY <2>1
  <2>3. "continuity" \in restored
    BY <2>2, <1>4, <1>6 DEF AnchorNewest
  <2>4. "publication" \in restored
    BY <2>2, <1>4, <1>7 DEF PublicationNewest, d
  <2>5. ASSUME new.profile \in NeedsWitness, old.stamp \in witnessed,
               "witness" \notin restored
        PROVE  FALSE
    <3>1. \/ d \in lineage
          \/ \A l \in lineage :
               /\ l.stamp < d.stamp
               /\ d.profile \in NeedsWitness /\ l.stamp \in witnessed
                    => l.prior # d.prior
      BY <2>3, <2>4, <2>5 DEF History, NoSibling, d
    <3>2. CASE d \in lineage
      <4>1. old \in lineage /\ new \in lineage
        BY <3>2
      <4> QED
        BY <4>1, <2>5 DEF History, HistoryDoesNotFork
    <3>3. CASE d \notin lineage
      <4>1. old # new
        BY <2>1
      <4>2. CASE new = d
        BY <4>1, <4>2, <3>1, <3>3, <2>5
      <4>3. CASE old = d
        BY <4>1, <4>3, <3>1, <3>3, <2>1
      <4> QED
        BY <4>2, <4>3
    <3> QED
      BY <3>2, <3>3
  <2> QED
    BY <2>3, <2>4, <2>5
<1> QED
  BY <1>6, <1>7, <1>8, <1>9, <1>10 DEF History

\* Under a current witness the anchor is written as it is.
LEMMA WitnessedAnchorStays ==
    ASSUME PublicationTypeOK, pub # NULL, Linked(pub), WitnessCurrent,
           cont' = [sequence |-> pub.sequence, checkpoint |-> pub.completed.stamp,
                    prior |-> pub.completed.prior],
           UNCHANGED <<pub, profile, witness>>
    PROVE  WitnessCurrent'
<1>1. Continuity = "verified" /\ cont # NULL
  BY DEF WitnessCurrent, WitnessAssessment
<1>2. AnchorAt(pub, cont) /\ cont \in Anchors
  BY <1>1, ContinuityOfFiles DEF AnchorMissing, PublicationTypeOK
<1>3. cont' = cont
  BY <1>2 DEF AnchorAt, Anchors
<1> QED
  BY <1>3 DEF WitnessCurrent, WitnessAssessment, Continuity, Stored, Enrolled,
     Generation

\* What does not look at the anchor.
LEMMA AnchoredFiles ==
    ASSUME TypeOK, RecordsLinked, FilesSound,
           pub # NULL, Numbered(pub), CanAdvance(pub.sequence, pub.completed),
           cont' = [sequence |-> pub.sequence, checkpoint |-> pub.completed.stamp,
                    prior |-> pub.completed.prior],
           UNCHANGED <<pub, profile, stores, restored, witness>>
    PROVE  FilesSound'
<1>1. /\ PublicationTypeOK /\ Linked(pub)
  BY DEF TypeOK, RecordsLinked
<1>2. cont' \in Anchors /\ cont' # NULL
  BY <1>1, NumberedCompleted, AbsentAssumption DEF Anchors
<1>3. AnchorAt(pub, cont)'
  BY <1>2 DEF AnchorAt
<1>4. Continuity' = "verified"
  <2>1. /\ pub' \in PublicationStates /\ cont' \in Anchors \cup {NULL}
        /\ WellFormed(pub') /\ (Numbered(pub') => pub'.completed.prior # NULL)
    BY <1>1, <1>2 DEF PublicationTypeOK, Linked, Numbered
  <2>2. Continuity' = AssessContinuity(pub', cont')
    BY DEF Continuity, Stored
  <2> QED
    BY <2>1, <2>2, <1>3, ContinuityIs DEF Numbered, AnchorAt
<1> SUFFICES ASSUME restored = {}
             PROVE  /\ Contiguous(profile)'
                    /\ StillWitnessed'
                    /\ (Unpublished \/ Completed
                        \/ (Publishing /\ (Prepared \/ Applying)))'
  BY <1>4 DEF FilesSound
<1>5. Contiguous(profile)'
  BY DEF FilesSound, Contiguous
<1>6. StillWitnessed'
  <2> SUFFICES ASSUME Publishing, pub.active.profile \in NeedsWitness
               PROVE  WitnessCurrent'
    BY DEF FilesSound, StillWitnessed, Publishing
  <2>1. WitnessCurrent
    BY DEF FilesSound, StillWitnessed
  <2> QED
    BY <1>1, <2>1, WitnessedAnchorStays
<1>7. Completed \/ (Publishing /\ (Prepared \/ Applying))
  BY DEF FilesSound, Unpublished
<1>8. Completed => Completed'
  BY DEF Completed, Enrolled, ActiveProfile, Generation, CompletedIntact, Matches
<1>9. Publishing /\ Prepared => (Publishing /\ Prepared)'
  BY DEF Publishing, Prepared, Before, Has, Enrolled, ActiveProfile,
     Generation, Matches
<1>10. Publishing /\ Applying => (Publishing /\ Applying)'
  BY DEF Publishing, Applying, Before, Has, Written, Enrolled, ActiveProfile,
     Generation, Matches
<1> QED
  BY <1>5, <1>6, <1>7, <1>8, <1>9, <1>10

\* The records and the copy.
LEMMA AnchoredRecords ==
    ASSUME TypeOK, RecordsLinked, BackupSound,
           pub # NULL, Numbered(pub),
           cont' = [sequence |-> pub.sequence, checkpoint |-> pub.completed.stamp,
                    prior |-> pub.completed.prior],
           lineage' = lineage \cup {pub.completed},
           UNCHANGED <<pub, clock, backup, restored>>
    PROVE  /\ RecordsLinked' /\ BackupSound'
           /\ cont' \in Anchors /\ lineage' \subseteq Checkpoints
<1>1. /\ PublicationTypeOK /\ Linked(pub) /\ lineage \subseteq Checkpoints
  BY DEF TypeOK, RecordsLinked
<1>2. cont' \in Anchors /\ cont'.checkpoint = pub.completed.stamp
  BY <1>1, NumberedCompleted DEF Anchors
<1>3. Linked(pub)'
  BY <1>1 DEF Linked, WellFormed
<1>4. \A l \in lineage' : l.prior # NULL /\ l.prior < l.stamp /\ l.stamp <= clock'
  BY <1>1, NumberedCompleted, ConfigAssumption DEF RecordsLinked
<1>5. RecordsLinked'
  BY <1>1, <1>2, <1>3, <1>4, NumberedCompleted DEF RecordsLinked
<1>6. BackupSound'
  BY DEF BackupSound, Linked, WellFormed
<1> QED
  BY <1>1, <1>2, <1>5, <1>6, NumberedCompleted

-----------------------------------------------------------------------------
(* What a step leaves alone *)

LEMMA RecordsKept ==
    ASSUME RecordsLinked, BackupSound,
           UNCHANGED <<pub, cont, clock, lineage, backup, restored>>
    PROVE  RecordsLinked' /\ BackupSound'
BY DEF RecordsLinked, BackupSound, Linked, WellFormed

LEMMA HistoryKept ==
    ASSUME History, UNCHANGED <<pub, cont, lineage, restored, witness, witnessed>>
    PROVE  History'
BY DEF History, AnchorNewest, PublicationNewest, AnchoredKnown, WitnessNewest,
   NoSibling, HistoryDoesNotFork

LEMMA WitnessKept ==
    ASSUME WitnessCurrent, UNCHANGED <<pub, cont, profile, witness>>
    PROVE  WitnessCurrent'
BY DEF WitnessCurrent, WitnessAssessment, Continuity, Stored, Enrolled, Generation

LEMMA FilesKept ==
    ASSUME FilesSound, UNCHANGED <<pub, cont, profile, stores, restored, witness>>
    PROVE  FilesSound'
<1> SUFFICES ASSUME restored = {}
             PROVE  /\ Contiguous(profile)'
                    /\ Continuity' \in {"verified", "legacy_unavailable",
                                        "forward_recovery"}
                    /\ StillWitnessed'
                    /\ (Unpublished \/ Completed
                        \/ (Publishing /\ (Prepared \/ Applying)))'
  BY DEF FilesSound
<1>1. Contiguous(profile)'
  BY DEF FilesSound, Contiguous
<1>2. Continuity' = Continuity
  BY DEF Continuity, Stored
<1>3. StillWitnessed'
  BY WitnessKept DEF FilesSound, StillWitnessed, Publishing
<1>4. /\ Unpublished => Unpublished'
      /\ Completed => Completed'
  BY DEF Unpublished, Completed, Enrolled, ActiveProfile, Generation,
     CompletedIntact, Matches
<1>5. Publishing /\ Prepared => (Publishing /\ Prepared)'
  BY DEF Publishing, Prepared, Before, Has, Enrolled, ActiveProfile, Generation,
     Matches
<1>6. Publishing /\ Applying => (Publishing /\ Applying)'
  BY DEF Publishing, Applying, Before, Has, Written, Enrolled, ActiveProfile,
     Generation, Matches
<1> QED
  BY <1>1, <1>2, <1>3, <1>4, <1>5, <1>6 DEF FilesSound

LEMMA IdleSound ==
    ASSUME starter'.pc = "idle"
    PROVE  StarterSound' /\ RecordedSoFar'
BY DEF StarterSound, RecordedSoFar, InStart, Resolved

LEMMA IdleTyped == Idle.pc = "idle" /\ Idle \in Starters
BY DEF Idle, Starters

\* The start ends, or the files of the sentinels change.
LEMMA EndStep ==
    ASSUME IInv, Raise \/ Stop \/ \E f \in Files : RemoveSentinel(f)
    PROVE  IInv'
<1>1. /\ UNCHANGED <<pub, cont, clock, lineage, backup, restored, witness,
                     witnessed, profile, stores>>
      /\ starter'.pc = "idle"
      /\ starter' = Idle \/ starter' = starter
  BY IdleTyped DEF Raise, Stop, RemoveSentinel, outside
<1>2. stops' \in Nat /\ sentinels' \subseteq Files
  <2>1. CASE Raise
    BY <2>1 DEF Raise, outside, IInv, TypeOK
  <2>2. CASE Stop
    <3>1. PICK left \in {{}, NextLocks \cap {PUB}, NextLocks} :
             sentinels' = sentinels \cup left
      BY <2>2 DEF Stop
    <3>2. starter.pc = "recording" => NextFile \in Files
      <4>1. starter.pc = "recording" => /\ NextFile = StoreOrder[starter.next]
                                        /\ starter.next \in 1..8
        BY DEF NextFile, IInv, RecordedSoFar, StoreOrder
      <4> QED
        BY <4>1 DEF StoreOrder, Files, Stores, RequiredStores, OptionalStores,
           PolicyStore
    <3>3. starter.pc # "recording" => NextFile \in Files
      BY DEF NextFile, Files
    <3>4. left \subseteq Files
      BY <3>1, <3>2, <3>3 DEF NextLocks, Files
    <3> QED
      BY <2>2, <3>1, <3>4 DEF Stop, IInv, TypeOK
  <2>3. CASE \E f \in Files : RemoveSentinel(f)
    BY <2>3 DEF RemoveSentinel, outside, IInv, TypeOK
  <2> QED
    BY <2>1, <2>2, <2>3
<1>3. TypeOK'
  <2>1. TypeOK /\ starter' \in Starters
    BY <1>1, IdleTyped DEF IInv, TypeOK
  <2> QED
    BY <1>1, <1>2, <2>1 DEF TypeOK, ProfileTypeOK, PublicationTypeOK, StoresTypeOK
<1> QED
  BY <1>1, <1>3, RecordsKept, HistoryKept, FilesKept, IdleSound DEF IInv

LEMMA StutterStep == ASSUME IInv, UNCHANGED vars PROVE IInv'
<1>1. TypeOK'
  BY DEF vars, IInv, TypeOK, ProfileTypeOK, PublicationTypeOK, StoresTypeOK
<1>2. StarterSound'
  BY WitnessKept DEF vars, IInv, StarterSound, InStart, Resolved, WitnessAdmits,
     Publishing, Previews, Candidates, Contiguous, Enrolled, ActiveProfile,
     Generation
<1>3. RecordedSoFar'
  BY DEF vars, IInv, RecordedSoFar, InStart, Resolved, Written, Has
<1> QED
  BY <1>1, <1>2, <1>3, RecordsKept, HistoryKept, FilesKept DEF IInv, vars

-----------------------------------------------------------------------------
(* The initial states *)

LEMMA InitInv == Init => IInv
<1> SUFFICES ASSUME Init PROVE IInv
  OBVIOUS
<1>1. /\ cont = NULL /\ witness = NULL /\ sentinels = {} /\ starter = Idle
      /\ stops = 0 /\ backup = NULL /\ restored = {} /\ witnessed = {}
      /\ lineage = {}
  BY DEF Init
<1>2. starter.pc = "idle" /\ starter \in Starters
  BY <1>1, IdleTyped
<1>3. StarterSound /\ RecordedSoFar
  BY <1>2 DEF StarterSound, RecordedSoFar, InStart, Resolved
<1>4. History
  BY <1>1 DEF History, AnchorNewest, PublicationNewest, AnchoredKnown,
     WitnessNewest, NoSibling, HistoryDoesNotFork
<1>5. BackupSound
  BY <1>1 DEF BackupSound
<1>6. CASE /\ ProfileInit /\ stores = [s \in Stores |-> NULL]
           /\ clock = GENESIS /\ pub = NULL
  <2>1. profile = [history |-> <<>>, pending |-> NULL] /\ ~Enrolled
    BY <1>6 DEF ProfileInit, Enrolled
  <2>2. TypeOK
    BY <1>1, <1>2, <1>6, <2>1 DEF TypeOK, ProfileTypeOK, PublicationTypeOK,
       StoresTypeOK, GENESIS
  <2>3. FilesSound
    <3>1. Continuity = "verified"
      BY <1>1, <1>6, NoFileNoAnchor
    <3>2. Unpublished
      BY <1>1, <1>6, <2>1 DEF Unpublished
    <3>3. Contiguous(profile)
      BY <2>1 DEF Contiguous
    <3> QED
      BY <1>6, <3>1, <3>2, <3>3 DEF FilesSound, StillWitnessed, Publishing
  <2> QED
    BY <1>1, <1>3, <1>4, <1>5, <1>6, <2>2, <2>3 DEF IInv, RecordsLinked
<1>7. ASSUME NEW c \in Configs \ NeedsWitness, NEW prior \in {NULL, GENESIS},
             LegacyPublication(c, prior)
      PROVE  IInv
  <2> DEFINE d == [profile |-> c, generation |-> 1, stamp |-> 1, prior |-> prior]
  <2>1. /\ profile = [history |-> <<c>>, pending |-> NULL] /\ clock = 1
        /\ pub = [active |-> NULL, sequence |-> NULL, completed |-> d]
        /\ stores = [s \in Stores |-> IF s \in OptionalStores /\ c \notin HasOptional
                                      THEN NULL ELSE c]
    BY <1>7 DEF LegacyPublication
  <2>2. d \in Checkpoints /\ d # NULL
    BY AbsentAssumption DEF Checkpoints, GENESIS
  <2>3. d.profile = c /\ d.stamp = 1 /\ d.prior = prior /\ d.generation = 1
    OBVIOUS
  <2> HIDE DEF d
  <2>4. pub \in PublicationStates /\ pub # NULL
    BY <2>1, <2>2, AbsentAssumption DEF PublicationStates
  <2>5. TypeOK
    <3>1. stores \in [Stores -> Configs \cup {NULL}]
      BY <2>1
    <3>2. profile \in [history : Seq(Configs), pending : Configs \cup {NULL}]
      BY <2>1
    <3> QED
      BY <1>1, <1>2, <2>1, <2>4, <3>1, <3>2 DEF TypeOK, ProfileTypeOK,
         PublicationTypeOK, StoresTypeOK
  <2>6. Linked(pub)
    BY <2>1, <2>2, <2>3 DEF Linked, WellFormed, GENESIS
  <2>7. FilesSound
    <3>1. Continuity = "legacy_unavailable"
      BY <1>1, <2>1, <2>4, <2>5, <2>6, ContinuityOfFiles
         DEF TypeOK, AnchorMissing, Numbered
    <3>2. Enrolled /\ ActiveProfile = c /\ Generation = 1
      BY <2>1 DEF Enrolled, ActiveProfile, Generation
    <3>3. Contiguous(profile)
      BY <2>1 DEF Contiguous
    <3>4. CompletedIntact(c)
      BY <2>1 DEF CompletedIntact, Stores, OptionalStores
    <3>5. Completed
      BY <2>1, <2>3, <2>4, <3>2, <3>4 DEF Completed, Matches
    <3> QED
      BY <2>1, <3>1, <3>3, <3>5 DEF FilesSound, StillWitnessed, Publishing
  <2> QED
    BY <1>1, <1>3, <1>4, <1>5, <2>5, <2>6, <2>7 DEF IInv, RecordsLinked
<1> QED
  BY <1>6, <1>7 DEF Init

-----------------------------------------------------------------------------
(* Up to the intent *)

LEMMA BeginStep == ASSUME IInv, NEW c \in Configs, Begin(c) PROVE IInv'
<1>1. /\ Admits(c)
      /\ starter' = [pc |-> "preparing", cfg |-> c, next |-> 1,
                     intent |-> IF Publishing THEN pub.active ELSE NULL,
                     rebind |-> Publishing \/ (Enrolled /\ ActiveProfile # c)]
      /\ UNCHANGED <<witness, stops, backup, restored, witnessed, profile, pub,
                     cont, clock, stores, sentinels, lineage>>
  BY DEF Begin, outside
<1>2. /\ starter'.pc = "preparing" /\ starter'.cfg = c /\ starter'.next = 1
      /\ starter'.intent = IF Publishing THEN pub.active ELSE NULL
  BY <1>1
<1>3. Publishing => pub.active \in Intents
  BY StateFields DEF IInv, TypeOK, PublicationTypeOK, Publishing
<1>4. starter' \in Starters
  BY <1>1, <1>3 DEF Starters
<1>5. TypeOK'
  BY <1>1, <1>4 DEF IInv, TypeOK, ProfileTypeOK, PublicationTypeOK, StoresTypeOK
<1>6. StarterSound'
  <2>1. PICK g \in Previews(c) : PublicationAdmits(c, g)
    BY <1>1 DEF Admits
  <2>2. Publishing => pub.active.profile = c /\ pub.active.generation = g
    BY <2>1 DEF PublicationAdmits, Matches, Publishing
  <2>3. WitnessAdmits(c)'
    BY <1>1, WitnessKept DEF Admits, WitnessAdmits
  <2>4. Previews(c)' = Previews(c) /\ Publishing' = Publishing
    BY <1>1 DEF Previews, Candidates, Contiguous, Enrolled, ActiveProfile,
       Generation, Publishing
  <2> QED
    BY <1>1, <1>2, <2>1, <2>2, <2>3, <2>4 DEF StarterSound, InStart, Resolved
<1>7. RecordedSoFar'
  BY <1>2 DEF RecordedSoFar
<1> QED
  BY <1>1, <1>5, <1>6, <1>7, RecordsKept, HistoryKept, FilesKept DEF IInv

LEMMA PrepareAgainStep == ASSUME IInv, PrepareAgain PROVE IInv'
<1>1. /\ starter.pc = "preparing" /\ Publishing
      /\ starter' = [starter EXCEPT !.pc = "resolving"]
      /\ UNCHANGED <<witness, stops, backup, restored, witnessed, profile, pub,
                     cont, clock, stores, sentinels, lineage>>
  BY DEF PrepareAgain, outside
<1>2. /\ starter \in Starters /\ starter' \in Starters
      /\ starter'.pc = "resolving" /\ starter'.cfg = starter.cfg
      /\ starter'.intent = starter.intent /\ starter'.next = starter.next
  BY <1>1 DEF IInv, TypeOK, Starters
<1>3. TypeOK'
  BY <1>1, <1>2 DEF IInv, TypeOK, ProfileTypeOK, PublicationTypeOK, StoresTypeOK
<1>4. StarterSound'
  <2>1. WitnessAdmits(starter.cfg) => WitnessAdmits(starter.cfg)'
    BY <1>1, WitnessKept DEF WitnessAdmits
  <2>2. /\ Previews(starter.cfg)' = Previews(starter.cfg)
    BY <1>1, <1>2 DEF Previews, Candidates, Contiguous, Enrolled, ActiveProfile, Generation
  <2> QED
    BY <1>1, <1>2, <2>1, <2>2
       DEF IInv, StarterSound, InStart, Resolved, Publishing
<1>5. RecordedSoFar'
  BY <1>1, <1>2 DEF IInv, RecordedSoFar, InStart, Resolved
<1> QED
  BY <1>1, <1>3, <1>4, <1>5, RecordsKept, HistoryKept, FilesKept DEF IInv

-----------------------------------------------------------------------------
(* The three writes of the anchor *)

LEMMA AnchoredStep ==
    ASSUME IInv, pub # NULL, Numbered(pub), Advance(pub.sequence, pub.completed),
           lineage' = lineage \cup {pub.completed},
           starter' \in Starters, StarterSound', RecordedSoFar',
           UNCHANGED <<witness, stops, backup, restored, witnessed, profile,
                       stores, sentinels>>
    PROVE  IInv'
<1>1. /\ CanAdvance(pub.sequence, pub.completed)
      /\ cont' = [sequence |-> pub.sequence, checkpoint |-> pub.completed.stamp,
                  prior |-> pub.completed.prior]
      /\ UNCHANGED <<pub, clock>>
  BY DEF Advance
<1>2. /\ RecordsLinked' /\ BackupSound'
      /\ cont' \in Anchors /\ lineage' \subseteq Checkpoints
  BY <1>1, AnchoredRecords DEF IInv
<1>3. History'
  BY <1>1, AnchoredHistory DEF IInv
<1>4. FilesSound'
  BY <1>1, AnchoredFiles DEF IInv
<1>5. TypeOK'
  BY <1>1, <1>2 DEF IInv, TypeOK, ProfileTypeOK, PublicationTypeOK, StoresTypeOK
<1> QED
  BY <1>2, <1>3, <1>4, <1>5 DEF IInv

LEMMA PrepareRecoverStep == ASSUME IInv, PrepareRecover PROVE IInv'
<1>1. /\ starter.pc = "preparing" /\ Continuity = "forward_recovery"
      /\ Advance(pub.sequence, pub.completed)
      /\ lineage' = lineage \cup {pub.completed}
      /\ UNCHANGED <<witness, stops, backup, restored, witnessed, profile, stores,
                     sentinels, starter>>
  BY DEF PrepareRecover, RecoverContinuity, outside
<1>2. pub # NULL /\ Numbered(pub)
  BY <1>1, NoFileNoAnchor, ContinuityOfFiles
     DEF IInv, TypeOK, RecordsLinked
<1>3. starter' \in Starters
  BY <1>1 DEF IInv, TypeOK
<1>4. StarterSound'
  <2>1. /\ WitnessAdmits(starter.cfg) /\ starter.cfg \in Configs
    BY <1>1 DEF IInv, StarterSound, InStart
  <2>2. starter.cfg \notin NeedsWitness
    BY <1>1, <2>1 DEF WitnessAdmits, WitnessCurrent, WitnessAssessment
  <2>3. WitnessAdmits(starter.cfg)'
    BY <1>1, <2>1, <2>2 DEF WitnessAdmits
  <2>4. Previews(starter.cfg)' = Previews(starter.cfg) /\ pub' = pub
    BY <1>1 DEF Previews, Candidates, Contiguous, Enrolled, ActiveProfile,
       Generation, Advance
  <2> QED
    BY <1>1, <2>1, <2>3, <2>4 DEF IInv, StarterSound, InStart, Resolved, Publishing
<1>5. RecordedSoFar'
  BY <1>1 DEF IInv, RecordedSoFar, InStart, Resolved
<1> QED
  BY <1>1, <1>2, <1>3, <1>4, <1>5, AnchoredStep

LEMMA PrepareEnrollStep == ASSUME IInv, PrepareEnroll PROVE IInv'
<1>1. /\ starter.pc = "enrolling"
      /\ Advance(pub.sequence, pub.completed)
      /\ starter' = [starter EXCEPT !.pc = "resolving"]
      /\ lineage' = lineage \cup {pub.completed}
      /\ UNCHANGED <<witness, stops, backup, restored, witnessed, profile, stores,
                     sentinels>>
  BY DEF PrepareEnroll, outside
<1>2. /\ starter \in Starters /\ starter' \in Starters
      /\ starter'.pc = "resolving" /\ starter'.cfg = starter.cfg
      /\ starter'.intent = starter.intent /\ starter'.next = starter.next
  BY <1>1 DEF IInv, TypeOK, Starters
<1>3. /\ Publishing /\ pub.sequence = 1 /\ starter.cfg \in Configs
      /\ WitnessAdmits(starter.cfg)
  BY <1>1 DEF IInv, StarterSound, InStart
<1>4. pub # NULL /\ Numbered(pub)
  BY <1>3, ConfigAssumption DEF Publishing, Numbered
<1>5. StarterSound'
  <2>1. pub' = pub /\ Previews(starter.cfg)' = Previews(starter.cfg)
    BY <1>1 DEF Previews, Candidates, Contiguous, Enrolled, ActiveProfile,
       Generation, Advance
  <2>2. starter.cfg \in NeedsWitness => WitnessCurrent'
    BY <1>1, <1>3, <1>4, <2>1, WitnessedAnchorStays
       DEF WitnessAdmits, Advance, IInv, TypeOK, RecordsLinked
  <2>3. WitnessAdmits(starter.cfg)'
    BY <1>1, <1>3, <2>2 DEF WitnessAdmits
  <2> QED
    BY <1>1, <1>2, <1>3, <2>1, <2>3
       DEF IInv, StarterSound, InStart, Resolved, Publishing
<1>6. RecordedSoFar'
  BY <1>1, <1>2 DEF IInv, RecordedSoFar, InStart, Resolved
<1> QED
  BY <1>1, <1>2, <1>4, <1>5, <1>6, AnchoredStep

LEMMA AnchorStep == ASSUME IInv, Anchor PROVE IInv'
<1>1. /\ starter.pc = "anchoring"
      /\ Advance(pub.sequence, pub.completed)
      /\ starter' = Idle
      /\ lineage' = lineage \cup {pub.completed}
      /\ UNCHANGED <<witness, stops, backup, restored, witnessed, profile, stores,
                     sentinels>>
  BY DEF Anchor, outside
<1>2. pub # NULL /\ Numbered(pub)
  BY <1>1 DEF IInv, StarterSound, Numbered
<1>3. starter' \in Starters /\ starter'.pc = "idle"
  BY <1>1, IdleTyped
<1> QED
  BY <1>1, <1>2, <1>3, IdleSound, AnchoredStep

-----------------------------------------------------------------------------
(* The profile *)

LEMMA CandidateIs ==
    ASSUME ProfileTypeOK, NEW c \in Configs, NEW p \in Candidates(c)
    PROVE  /\ Contiguous(p)
           /\ p \in [history : Seq(Configs), pending : Configs \cup {NULL}]
           /\ IF Enrolled /\ ActiveProfile = c THEN p = profile
              ELSE /\ ~Enrolled \/ profile.pending = c
                   /\ p.history = Append(profile.history, c)
                   /\ p.pending = NULL
<1>1. /\ profile \in [history : Seq(Configs), pending : Configs \cup {NULL}]
      /\ profile.history \in Seq(Configs)
  BY DEF ProfileTypeOK
<1>2. /\ p \in {[history |-> <<c>>, pending |-> NULL], profile,
                [history |-> Append(profile.history, c), pending |-> NULL]}
      /\ Contiguous(p)
      /\ IF Enrolled /\ ActiveProfile = c THEN p = profile
         ELSE /\ ~Enrolled \/ profile.pending = c
              /\ p.history = Append(profile.history, c)
  BY DEF Candidates
<1>3. p \in [history : Seq(Configs), pending : Configs \cup {NULL}]
  BY <1>1, <1>2
<1>4. p = profile => p.history # Append(profile.history, c)
  <2>1. Len(Append(profile.history, c)) = Len(profile.history) + 1
        /\ Len(profile.history) \in Nat
    BY <1>1
  <2> QED
    BY <2>1
<1>5. p # profile => p.pending = NULL
  BY <1>2
<1> QED
  BY <1>2, <1>3, <1>4, <1>5

LEMMA AppendedIs ==
    ASSUME NEW S, NEW h \in Seq(S), NEW c \in S
    PROVE  /\ Append(h, c) \in Seq(S) /\ Append(h, c) # <<>>
           /\ Len(h) \in Nat /\ Len(Append(h, c)) = Len(h) + 1
           /\ Append(h, c)[Len(h) + 1] = c
           /\ \A g \in 1..Len(h) : Append(h, c)[g] = h[g]
           /\ h # <<>> => Len(h) \in 1..Len(h) /\ Len(h) > 0 /\ h[Len(h)] \in S
           /\ h = <<>> => Len(h) = 0
OBVIOUS

LEMMA PreviewIs ==
    ASSUME ProfileTypeOK, NEW c \in Configs, NEW g \in Previews(c)
    PROVE  IF Enrolled /\ ActiveProfile = c THEN g = Generation
           ELSE /\ ~Enrolled \/ profile.pending = c
                /\ g = Generation + 1
<1>1. PICK p \in Candidates(c) : g = Len(p.history)
  BY DEF Previews
<1>2. profile.history \in Seq(Configs)
  BY DEF ProfileTypeOK
<1> QED
  BY <1>1, <1>2, CandidateIs, AppendedIs DEF Generation

\* The profile the start resolves has the generation that was previewed, and
\* keeps the generations before it.
LEMMA ResolvedIs ==
    ASSUME ProfileTypeOK, NEW c \in Configs, NEW g \in Previews(c),
           ResolveForAuthority(c)
    PROVE  /\ ProfileTypeOK' /\ Contiguous(profile)'
           /\ Enrolled' /\ ActiveProfile' = c /\ Generation' = g
           /\ Generation \in Nat /\ Generation <= g
           /\ \A k \in 1..Generation : profile'.history[k] = profile.history[k]
           /\ profile'.history # profile.history =>
                /\ profile'.history = Append(profile.history, c)
                /\ ~Enrolled \/ (profile.pending = c /\ ActiveProfile # c)
                /\ g = Generation + 1
           /\ profile'.history = profile.history => Enrolled /\ ActiveProfile = c
<1>1. profile' \in Candidates(c) /\ profile.history \in Seq(Configs)
  BY DEF ResolveForAuthority, ProfileTypeOK
<1>2. /\ Contiguous(profile')
      /\ profile' \in [history : Seq(Configs), pending : Configs \cup {NULL}]
      /\ IF Enrolled /\ ActiveProfile = c THEN profile' = profile
         ELSE /\ ~Enrolled \/ profile.pending = c
              /\ profile'.history = Append(profile.history, c)
  BY <1>1, CandidateIs
<1>3. g = IF Enrolled /\ ActiveProfile = c THEN Generation ELSE Generation + 1
  BY PreviewIs
<1>4. CASE Enrolled /\ ActiveProfile = c
  <2>1. profile' = profile /\ g = Generation /\ Generation \in Nat
    BY <1>1, <1>2, <1>3, <1>4, AppendedIs DEF Generation
  <2> QED
    BY <1>2, <1>4, <2>1 DEF Enrolled, ActiveProfile, Generation, ProfileTypeOK
<1>5. CASE ~(Enrolled /\ ActiveProfile = c)
  <2>1. /\ profile'.history = Append(profile.history, c)
        /\ ~Enrolled \/ (profile.pending = c /\ ActiveProfile # c)
        /\ g = Generation + 1
    BY <1>2, <1>3, <1>5
  <2>2. /\ Len(profile.history) \in Nat
        /\ Len(profile'.history) = Len(profile.history) + 1
        /\ profile'.history # <<>>
        /\ profile'.history[Len(profile.history) + 1] = c
        /\ \A k \in 1..Len(profile.history) :
              profile'.history[k] = profile.history[k]
    BY <1>1, <2>1, AppendedIs
  <2>3. /\ Enrolled' /\ ActiveProfile' = c /\ Generation' = g
        /\ Generation \in Nat /\ Generation <= g
    BY <2>1, <2>2 DEF Enrolled, ActiveProfile, Generation
  <2>4. profile'.history # profile.history
    BY <2>2
  <2> QED
    BY <1>2, <2>1, <2>2, <2>3, <2>4 DEF Generation, ProfileTypeOK
<1> QED
  BY <1>4, <1>5

\* A witness stays current while the history of profiles grows.
LEMMA WitnessGrows ==
    ASSUME TypeOK, WitnessCurrent, UNCHANGED <<pub, cont, witness>>,
           Enrolled', Generation' \in Nat, Generation <= Generation',
           \A k \in 1..Generation : profile'.history[k] = profile.history[k]
    PROVE  WitnessCurrent'
<1>1. /\ witness # NULL /\ witness \in Witnesses /\ pub # NULL /\ cont # NULL
      /\ WitnessAssessment = "verified" /\ Generation \in Nat
  BY DEF WitnessCurrent, TypeOK, ProfileTypeOK, Generation
<1>2. witness.generation \in Nat \ {0}
  BY <1>1 DEF Witnesses
<1>3. /\ ~(witness.generation > Generation)
      /\ profile.history[witness.generation] = witness.profile
  BY <1>1 DEF WitnessAssessment
<1>4. witness.generation \in 1..Generation
  BY <1>1, <1>2, <1>3
<1>5. /\ witness'.generation = witness.generation /\ witness'.profile = witness.profile
      /\ ~(witness.generation > Generation')
      /\ profile'.history[witness.generation] = witness.profile
  BY <1>1, <1>2, <1>3, <1>4
<1>6. Continuity' = Continuity
  BY DEF Continuity, Stored
<1>7. WitnessAssessment' = WitnessAssessment
  <2>1. WitnessAssessment' =
          IF Continuity # "verified" THEN "invalid"
          ELSE IF witness.sequence > cont.sequence THEN "invalid"
          ELSE IF witness.sequence = cont.sequence THEN
              IF witness.stamp = cont.checkpoint THEN "verified" ELSE "invalid"
          ELSE IF witness.sequence + 1 = cont.sequence THEN
              IF witness.stamp = cont.prior THEN "forward" ELSE "invalid"
          ELSE "invalid"
    BY <1>5, <1>6 DEF WitnessAssessment
  <2>2. WitnessAssessment =
          IF Continuity # "verified" THEN "invalid"
          ELSE IF witness.sequence > cont.sequence THEN "invalid"
          ELSE IF witness.sequence = cont.sequence THEN
              IF witness.stamp = cont.checkpoint THEN "verified" ELSE "invalid"
          ELSE IF witness.sequence + 1 = cont.sequence THEN
              IF witness.stamp = cont.prior THEN "forward" ELSE "invalid"
          ELSE "invalid"
    BY <1>3 DEF WitnessAssessment
  <2> QED
    BY <2>1, <2>2
<1> QED
  BY <1>1, <1>7 DEF WitnessCurrent

LEMMA NullStores ==
    TypeOK /\ pub # NULL => /\ pub.active # NULL => pub.active.profile \in Configs
                            /\ pub.active # NULL => pub.active.generation \in Nat \ {0}
                            /\ pub.completed # NULL => pub.completed.profile \in Configs
                            /\ pub.completed # NULL => pub.completed.generation \in Nat \ {0}
BY StateFields DEF TypeOK, PublicationTypeOK, Intents, Checkpoints

\* The profile becomes the intent's.
LEMMA ResolveStep == ASSUME IInv, Resolve PROVE IInv'
<1> DEFINE c == starter.cfg
           g == pub.active.generation
<1>1. /\ starter.pc = "resolving" /\ ResolveForAuthority(c)
      /\ starter' = [starter EXCEPT !.pc = "recording"]
      /\ UNCHANGED <<witness, stops, backup, restored, witnessed, pub, cont, clock,
                     stores, sentinels, lineage>>
  BY DEF Resolve, outside
<1>2. /\ starter \in Starters /\ starter' \in Starters
      /\ starter'.pc = "recording" /\ starter'.cfg = starter.cfg
      /\ starter'.intent = starter.intent /\ starter'.next = starter.next
  BY <1>1 DEF IInv, TypeOK, Starters
<1>3. /\ Publishing /\ c \in Configs /\ pub.active.profile = c
      /\ starter.intent = pub.active /\ WitnessAdmits(c) /\ g \in Previews(c)
      /\ starter.next = 1
  BY <1>1 DEF IInv, StarterSound, RecordedSoFar, InStart, Resolved
<1>4. /\ ProfileTypeOK' /\ Contiguous(profile)'
      /\ Enrolled' /\ ActiveProfile' = c /\ Generation' = g
      /\ Generation \in Nat /\ Generation <= g
      /\ \A k \in 1..Generation : profile'.history[k] = profile.history[k]
      /\ profile'.history # profile.history =>
           /\ profile'.history = Append(profile.history, c)
           /\ ~Enrolled \/ (profile.pending = c /\ ActiveProfile # c)
           /\ g = Generation + 1
      /\ profile'.history = profile.history => Enrolled /\ ActiveProfile = c
  <2>1. ProfileTypeOK
    BY DEF IInv, TypeOK
  <2> QED
    BY <1>1, <1>3, <2>1, ResolvedIs
<1>5. /\ g \in Nat \ {0} /\ pub # NULL
      /\ pub.completed # NULL => pub.completed.profile \in Configs
      /\ pub.completed # NULL => pub.completed.generation \in Nat \ {0}
  BY <1>3, NullStores DEF IInv, Publishing
<1>6. WitnessCurrent => WitnessCurrent'
  BY <1>1, <1>4, <1>5, WitnessGrows DEF IInv
<1> HIDE DEF c, g
<1>7. TypeOK'
  BY <1>1, <1>2, <1>4 DEF IInv, TypeOK, PublicationTypeOK, StoresTypeOK
<1>8. StarterSound'
  <2>1. WitnessAdmits(c)'
    BY <1>1, <1>2, <1>3, <1>6 DEF WitnessAdmits, c
  <2>2. Publishing' /\ pub' = pub /\ c' = c
    BY <1>1, <1>2, <1>3 DEF Publishing, c
  <2> QED
    BY <1>2, <1>3, <1>4, <2>1, <2>2 DEF StarterSound, InStart, Resolved, c, g
<1>9. RecordedSoFar'
  BY <1>2, <1>3 DEF RecordedSoFar, InStart, Resolved, StoreOrder
<1>10. FilesSound'
  <2> SUFFICES ASSUME restored = {} PROVE FilesSound'
    BY <1>1 DEF FilesSound
  <2>1. Continuity' = Continuity /\ Publishing' /\ pub' = pub
    BY <1>1, <1>3 DEF Continuity, Stored, Publishing
  <2>2. StillWitnessed'
    BY <1>1, <1>6, <2>1 DEF IInv, FilesSound, StillWitnessed, Publishing
  <2>3. Matches(pub.active, ActiveProfile, Generation)'
    BY <1>1, <1>3, <1>4 DEF Matches, g
  <2>4. Prepared \/ Applying
    BY <1>3 DEF IInv, FilesSound, Unpublished, Completed, Publishing
  <2>5. \A s \in Stores : (Before(s))' = Before(s) /\ stores'[s] = stores[s]
    BY <1>1 DEF Before, Has
  <2>6. \A s \in Stores :
          Written(s, pub.active.profile)' <=> Written(s, pub.active.profile)
    BY <1>1, <2>1 DEF Written, Has
  <2>7. CASE Prepared
    <3>1. \A s \in Stores : stores[s] = Before(s)
      BY <2>7 DEF Prepared
    <3>2. "evidence_head" \in Stores /\ "evidence_head" \notin OptionalStores
      BY DEF Stores, RequiredStores, OptionalStores
    <3>3. stores["evidence_head"] # c
      <4>1. stores["evidence_head"] = IF pub.completed = NULL THEN NULL
                                      ELSE pub.completed.profile
        BY <3>1, <3>2 DEF Before, Has
      <4>2. CASE pub.completed = NULL
        BY <4>1, <4>2, <1>3, ConfigAssumption
      <4>3. CASE pub.completed # NULL
        <5>1. Enrolled /\ pub.completed.profile = ActiveProfile
              /\ pub.completed.generation = Generation /\ g = pub.completed.generation + 1
          BY <2>7, <4>3 DEF Prepared, Matches, g
        <5>2. profile'.history # profile.history
          BY <1>4, <1>5, <5>1 DEF Generation
        <5>3. ActiveProfile # c
          BY <1>4, <5>1, <5>2
        <5> QED
          BY <4>1, <4>3, <5>1, <5>3
      <4> QED
        BY <4>2, <4>3
    <3>4. Applying'
      BY <1>1, <1>3, <1>4, <2>1, <2>3, <2>5, <3>1, <3>2, <3>3 DEF Applying
    <3> QED
      BY <1>4, <2>1, <2>2, <3>4 DEF IInv, FilesSound
  <2>8. CASE Applying
    <3>1. Applying'
      BY <2>8, <1>1, <1>3, <1>4, <2>1, <2>3, <2>5, <2>6 DEF Applying, Has
    <3> QED
      BY <1>4, <2>1, <2>2, <3>1 DEF IInv, FilesSound
  <2> QED
    BY <2>4, <2>7, <2>8
<1> QED
  BY <1>1, <1>7, <1>8, <1>9, <1>10, RecordsKept, HistoryKept DEF IInv

-----------------------------------------------------------------------------
(* A new intent *)

LEMMA StoredIs ==
    ASSUME PublicationTypeOK
    PROVE  /\ Stored.active \in Intents \cup {NULL}
           /\ Stored.completed \in Checkpoints \cup {NULL}
           /\ Stored.sequence \in Nat \cup {NULL}
           /\ pub # NULL => Stored = pub
           /\ pub = NULL => /\ Stored.completed = NULL /\ Stored.active = NULL
                            /\ Stored.sequence = 0
<1>1. CASE pub = NULL
  BY <1>1 DEF Stored
<1>2. CASE pub # NULL
  BY <1>2, StateFields DEF Stored, PublicationTypeOK
<1> QED
  BY <1>1, <1>2

\* The state that prepare writes keeps the checkpoint and a sequence there was.
LEMMA IntentWritten ==
    ASSUME PublicationTypeOK, pub # NULL => Linked(pub),
           NEW c \in Configs, NEW g \in Previews(c), ProfileTypeOK, WriteIntent(c, g)
    PROVE  /\ pub' # NULL /\ pub' \in PublicationStates /\ clock' = clock + 1
           /\ clock' \in Nat /\ cont' = cont
           /\ pub'.active \in Intents /\ pub'.active # NULL
           /\ pub'.active.profile = c /\ pub'.active.generation = g
           /\ pub'.completed = Stored.completed
           /\ Stored.sequence # NULL => pub'.sequence = Stored.sequence
           /\ Stored.sequence = NULL =>
                /\ Stored.completed # NULL
                /\ pub'.sequence = IF Stored.completed.prior # NULL THEN 1 ELSE 0
           /\ Linked(pub)'
           /\ ContinuityUsable
<1> DEFINE a == [profile |-> c, generation |-> g, stamp |-> clock + 1,
                 prior |-> IF Stored.completed = NULL THEN GENESIS
                           ELSE Stored.completed.stamp]
           w == WithIntent(c, g)
<1>1. /\ Stored.completed \in Checkpoints \cup {NULL}
      /\ Stored.sequence \in Nat \cup {NULL}
      /\ pub # NULL => Stored = pub
      /\ pub = NULL => Stored.completed = NULL /\ Stored.sequence = 0
  BY StoredIs
<1>2. g \in Nat \ {0}
  <2>1. Generation \in Nat /\ (Enrolled => Generation # 0)
    BY AppendedIs DEF ProfileTypeOK, Enrolled, Generation
  <2> QED
    BY <2>1, PreviewIs
<1>3. /\ clock \in Nat /\ clock' = clock + 1 /\ cont' = cont /\ pub' = w
      /\ WellFormed(w) /\ ContinuityUsable
  BY DEF WriteIntent, PublicationTypeOK
<1>4. a \in Intents
  BY <1>1, <1>2, <1>3, CheckpointFields DEF Intents, GENESIS
<1>5. /\ w.active = a /\ w.completed = Stored.completed
      /\ w.sequence = SequenceOf(Stored)
      /\ w = [active |-> a, completed |-> Stored.completed,
              sequence |-> SequenceOf(Stored)]
  BY DEF WithIntent
<1>6. a.profile = c /\ a.generation = g
  OBVIOUS
<1> HIDE DEF a, w
<1>7. Stored.sequence = NULL => Stored.completed # NULL
  BY <1>1, ConfigAssumption DEF Linked, WellFormed
<1>8. /\ Stored.sequence # NULL => w.sequence = Stored.sequence
      /\ Stored.sequence = NULL =>
           w.sequence = IF Stored.completed.prior # NULL THEN 1 ELSE 0
  BY <1>5 DEF SequenceOf
<1>9. w.sequence \in Nat /\ w \in PublicationStates
  BY <1>1, <1>4, <1>5, <1>8 DEF PublicationStates
<1>10. w # NULL /\ a # NULL
  BY <1>4, <1>9, AbsentAssumption
<1>11. Linked(pub)'
  <2>1. w.sequence > 0 => w.completed.prior # NULL
    <3>1. CASE pub = NULL
      BY <3>1, <1>1, <1>8, ConfigAssumption
    <3>2. CASE pub # NULL
      BY <3>2, <1>1, <1>5, <1>8 DEF Linked
    <3> QED
      BY <3>1, <3>2
  <2>2. w.completed # NULL =>
          /\ w.completed.stamp <= clock'
          /\ w.completed.prior # NULL => w.completed.prior < w.completed.stamp
          /\ w.completed.profile \in NeedsWitness => w.sequence > 0
    <3> SUFFICES ASSUME w.completed # NULL
                 PROVE  /\ w.completed.stamp <= clock'
                        /\ w.completed.prior # NULL => w.completed.prior < w.completed.stamp
                        /\ w.completed.profile \in NeedsWitness => w.sequence > 0
      OBVIOUS
    <3>1. pub # NULL /\ w.completed = pub.completed /\ pub.completed.stamp \in Nat
      BY <1>1, <1>5, CheckpointFields
    <3>2. /\ pub.completed.stamp <= clock
          /\ pub.completed.prior # NULL => pub.completed.prior < pub.completed.stamp
          /\ pub.completed.profile \in NeedsWitness =>
               pub.sequence # NULL /\ pub.sequence > 0
      BY <3>1 DEF Linked
    <3>3. w.completed.stamp <= clock'
      BY <1>3, <3>1, <3>2
    <3>4. pub.sequence # NULL => w.sequence = pub.sequence
      BY <1>1, <1>8, <3>1
    <3> QED
      BY <3>1, <3>2, <3>3, <3>4
  <2>3. w.sequence # NULL
    BY <1>9, ConfigAssumption
  <2>4. WellFormed(pub)'
    BY <1>3 DEF WellFormed
  <2> QED
    BY <1>3, <2>1, <2>2, <2>3, <2>4 DEF Linked
<1> QED
  BY <1>3, <1>4, <1>5, <1>6, <1>7, <1>8, <1>9, <1>10, <1>11

\* The anchor belongs to the new state as it did to the old one.
LEMMA IntentContinuity ==
    ASSUME TypeOK, RecordsLinked, NEW c \in Configs, NEW g \in Previews(c),
           WriteIntent(c, g)
    PROVE  /\ Stored.sequence # NULL => Continuity' = Continuity
           /\ Continuity' \in {"verified", "legacy_unavailable", "forward_recovery"}
<1>1. /\ PublicationTypeOK /\ ProfileTypeOK /\ (pub # NULL => Linked(pub))
  BY DEF TypeOK, RecordsLinked
<1>2. /\ pub' # NULL /\ pub' \in PublicationStates /\ cont' = cont
      /\ pub'.completed = Stored.completed
      /\ Stored.sequence # NULL => pub'.sequence = Stored.sequence
      /\ Stored.sequence = NULL =>
           /\ Stored.completed # NULL
           /\ pub'.sequence = IF Stored.completed.prior # NULL THEN 1 ELSE 0
      /\ Linked(pub)' /\ ContinuityUsable
  BY <1>1, IntentWritten
<1>3. /\ Continuity = AssessContinuity(Stored, cont)
      /\ Continuity' = AssessContinuity(pub', cont)
  BY <1>2 DEF Continuity, Stored
<1>4. CASE Stored.sequence # NULL
  <2>1. Continuity' = Continuity
    BY <1>2, <1>3, <1>4 DEF AssessContinuity
  <2> QED
    BY <1>2, <1>4, <2>1 DEF ContinuityUsable
<1>5. CASE Stored.sequence = NULL
  <2>1. cont = NULL
    BY <1>2, <1>3, <1>5, ConfigAssumption DEF AssessContinuity, ContinuityUsable
  <2>2. /\ WellFormed(pub') /\ cont \in Anchors \cup {NULL}
        /\ (Numbered(pub') => pub'.completed.prior # NULL)
    BY <1>1, <1>2 DEF Linked, WellFormed, Numbered, PublicationTypeOK
  <2>3. \/ Numbered(pub') /\ AnchorBehind(pub', cont)
        \/ AnchorMissing(pub', cont) /\ pub'.completed # NULL
    BY <1>2, <1>5, <2>1, ConfigAssumption DEF Numbered, AnchorBehind, AnchorMissing
  <2> QED
    BY <1>2, <1>3, <1>5, <2>2, <2>3, ContinuityIs
<1> QED
  BY <1>4, <1>5

LEMMA WitnessedIntent ==
    ASSUME TypeOK, RecordsLinked, WitnessCurrent, NEW c \in Configs,
           NEW g \in Previews(c), WriteIntent(c, g), UNCHANGED <<profile, witness>>
    PROVE  WitnessCurrent'
<1>1. /\ pub # NULL /\ cont # NULL /\ WitnessAssessment = "verified"
      /\ Continuity = "verified"
  BY DEF WitnessCurrent, WitnessAssessment
<1>2. /\ PublicationTypeOK /\ ProfileTypeOK /\ Linked(pub)
  BY <1>1 DEF TypeOK, RecordsLinked
<1>3. Stored.sequence # NULL
  BY <1>1, <1>2, ContinuityOfFiles, StoredIs DEF AnchorMissing, Numbered
<1>4. Continuity' = Continuity
  BY <1>3, IntentContinuity
<1>5. pub' # NULL /\ cont' = cont
  BY <1>2, IntentWritten
<1> QED
  BY <1>1, <1>4, <1>5 DEF WitnessCurrent, WitnessAssessment, Enrolled, Generation

LEMMA IntentHistory ==
    ASSUME TypeOK, RecordsLinked, BackupSound, History, NEW c \in Configs,
           NEW g \in Previews(c), WriteIntent(c, g),
           UNCHANGED <<lineage, backup, restored, witness, witnessed>>
    PROVE  RecordsLinked' /\ BackupSound' /\ History'
<1>1. /\ PublicationTypeOK /\ ProfileTypeOK /\ (pub # NULL => Linked(pub))
      /\ lineage \subseteq Checkpoints
  BY DEF TypeOK, RecordsLinked
<1>2. /\ pub' # NULL /\ clock' = clock + 1 /\ cont' = cont /\ clock \in Nat
      /\ pub'.completed = Stored.completed /\ Linked(pub)'
  BY <1>1, IntentWritten DEF PublicationTypeOK
<1>3. /\ pub # NULL => pub'.completed = pub.completed
      /\ pub = NULL => pub'.completed = NULL
  BY <1>1, <1>2, StoredIs
<1>4. \A l \in lineage : l.stamp \in Nat
  BY <1>1, CheckpointFields
<1>5. RecordsLinked'
  <2>1. cont # NULL => cont.checkpoint \in Nat
    BY <1>1 DEF PublicationTypeOK, Anchors
  <2> QED
    BY <1>2, <1>4, <2>1 DEF RecordsLinked
<1>6. BackupSound'
  <2> SUFFICES ASSUME backup # NULL PROVE BackupSound'
    BY DEF BackupSound
  <2>1. /\ backup.pub \in PublicationStates /\ backup.cont \in Anchors
    BY DEF TypeOK, Backups
  <2>2. /\ backup.pub.completed \in Checkpoints \cup {NULL}
        /\ backup.cont.checkpoint \in Nat
    BY <2>1, StateFields DEF Anchors
  <2>3. Linked(backup.pub)'
    BY <1>2, <2>2, CheckpointFields DEF BackupSound, Linked, WellFormed
  <2> QED
    BY <1>2, <2>2, <2>3 DEF BackupSound
<1>7. AnchorNewest' /\ WitnessNewest' /\ HistoryDoesNotFork'
  BY <1>2 DEF History, AnchorNewest, WitnessNewest, HistoryDoesNotFork
<1>8. PublicationNewest' /\ AnchoredKnown' /\ NoSibling'
  BY <1>2, <1>3 DEF History, PublicationNewest, AnchoredKnown, NoSibling
<1> QED
  BY <1>5, <1>6, <1>7, <1>8 DEF History

\* What held of a completed publication, or of no publication, holds of a new
\* intent: it is prepared, or the profile and the stores are its own already.
LEMMA IntentFiles ==
    ASSUME TypeOK, RecordsLinked, FilesSound, ~Publishing, NEW c \in Configs,
           NEW g \in Previews(c), WriteIntent(c, g), WitnessAdmits(c),
           UNCHANGED <<profile, stores, restored, witness>>
    PROVE  FilesSound'
<1> SUFFICES ASSUME restored = {} PROVE FilesSound'
  BY DEF FilesSound
<1>1. /\ PublicationTypeOK /\ ProfileTypeOK /\ (pub # NULL => Linked(pub))
  BY DEF TypeOK, RecordsLinked
<1>2. /\ pub' # NULL /\ pub'.active # NULL
      /\ pub'.active.profile = c /\ pub'.active.generation = g
      /\ pub # NULL => pub'.completed = pub.completed
      /\ pub = NULL => pub'.completed = NULL
  BY <1>1, IntentWritten, StoredIs
<1>3. Continuity' \in {"verified", "legacy_unavailable", "forward_recovery"}
  BY IntentContinuity
<1>4. Contiguous(profile)' /\ Publishing'
  BY <1>2 DEF FilesSound, Contiguous, Publishing
<1>5. StillWitnessed'
  BY <1>2, WitnessedIntent DEF StillWitnessed, WitnessAdmits
<1>6. IF Enrolled /\ ActiveProfile = c THEN g = Generation
      ELSE /\ ~Enrolled \/ profile.pending = c
           /\ g = Generation + 1
  BY <1>1, PreviewIs
<1>7. /\ Enrolled' <=> Enrolled
      /\ ActiveProfile' = ActiveProfile /\ Generation' = Generation
  BY DEF Enrolled, ActiveProfile, Generation
<1>8. Unpublished \/ Completed
  BY DEF FilesSound
<1>9. Unpublished => Prepared'
  <2> SUFFICES ASSUME Unpublished PROVE Prepared'
    OBVIOUS
  <2>1. pub'.completed = NULL /\ ~Enrolled /\ \A s \in Stores : stores'[s] = NULL
    BY <1>2 DEF Unpublished
  <2>2. g = 1
    BY <1>6, <2>1 DEF Enrolled, Generation
  <2> QED
    BY <1>2, <1>7, <2>1, <2>2 DEF Prepared, Before
<1>10. Completed => (Prepared \/ Applying)'
  <2> SUFFICES ASSUME Completed PROVE (Prepared \/ Applying)'
    OBVIOUS
  <2>1. /\ pub # NULL /\ pub.active = NULL /\ Enrolled
        /\ pub.completed.profile = ActiveProfile
        /\ pub.completed.generation = Generation
        /\ CompletedIntact(ActiveProfile)
    BY DEF Completed, Matches
  <2>2. pub'.completed = pub.completed /\ pub'.completed # NULL
    BY <1>1, <1>2, <2>1 DEF Linked, WellFormed
  <2>3. \A s \in Stores :
          stores[s] = IF Has(ActiveProfile, s) THEN ActiveProfile ELSE NULL
    BY <2>1 DEF CompletedIntact, Has
  <2>4. \A s \in Stores : stores'[s] = Before(s)'
    BY <2>1, <2>2, <2>3 DEF Before, Has
  <2>5. CASE ActiveProfile = c
    <3>1. \A s \in Stores : Written(s, pub.active.profile)'
      BY <1>2, <2>3, <2>5 DEF Written, Has
    <3>2. Applying'
      BY <1>2, <1>6, <1>7, <2>1, <2>4, <2>5, <3>1 DEF Applying, Matches
    <3> QED
      BY <3>2
  <2>6. CASE ActiveProfile # c
    <3>1. profile.pending = c /\ g = Generation + 1
      BY <1>6, <2>1, <2>6
    <3>2. Prepared'
      BY <1>2, <1>7, <2>1, <2>2, <2>4, <3>1 DEF Prepared, Matches
    <3> QED
      BY <3>2
  <2> QED
    BY <2>5, <2>6
<1> QED
  BY <1>3, <1>4, <1>5, <1>8, <1>9, <1>10 DEF FilesSound

LEMMA PrepareNewStep == ASSUME IInv, PrepareNew PROVE IInv'
<1> DEFINE c == starter.cfg
<1>1. /\ starter.pc = "preparing" /\ ~Publishing
      /\ starter' = [starter EXCEPT
                      !.intent = pub'.active,
                      !.pc = IF Stored.sequence = NULL /\ pub'.sequence = 1
                             THEN "enrolling" ELSE "resolving"]
      /\ UNCHANGED <<witness, stops, backup, restored, witnessed, profile, stores,
                     sentinels, lineage>>
  BY DEF PrepareNew, outside
<1>2. PICK g \in Previews(c) : WriteIntent(c, g)
  BY DEF PrepareNew
<1>3. c \in Configs /\ WitnessAdmits(c) /\ starter.next = 1
  BY <1>1 DEF IInv, StarterSound, RecordedSoFar, InStart, Resolved
<1>4. /\ PublicationTypeOK /\ ProfileTypeOK /\ (pub # NULL => Linked(pub))
      /\ starter \in Starters
  BY DEF IInv, TypeOK, RecordsLinked
<1>5. /\ pub' # NULL /\ pub' \in PublicationStates /\ clock' \in Nat /\ cont' = cont
      /\ pub'.active \in Intents /\ pub'.active # NULL
      /\ pub'.active.profile = c /\ pub'.active.generation = g
  BY <1>2, <1>3, <1>4, IntentWritten
<1>6. /\ starter' \in Starters
      /\ starter'.pc \in {"enrolling", "resolving"}
      /\ starter'.pc = "enrolling" => pub'.sequence = 1
      /\ starter'.cfg = c /\ starter'.intent = pub'.active /\ starter'.next = 1
  BY <1>1, <1>3, <1>4, <1>5 DEF Starters
<1> HIDE DEF c
<1>7. TypeOK'
  BY <1>1, <1>4, <1>5, <1>6 DEF IInv, TypeOK, ProfileTypeOK, PublicationTypeOK,
     StoresTypeOK
<1>8. StarterSound'
  <2>1. WitnessAdmits(c)'
    <3>1. WitnessCurrent => WitnessCurrent'
      BY <1>1, <1>2, <1>3, WitnessedIntent DEF IInv
    <3>2. c' = c
      BY <1>6 DEF c
    <3> QED
      BY <1>1, <1>3, <3>1, <3>2 DEF WitnessAdmits
  <2>2. Previews(c)' = Previews(c)
    <3>1. c' = c
      BY <1>6 DEF c
    <3> QED
      BY <1>1, <3>1 DEF Previews, Candidates, Contiguous, Enrolled, ActiveProfile,
         Generation
  <2>3. Publishing' /\ c' = c
    BY <1>5, <1>6 DEF Publishing, c
  <2> QED
    BY <1>2, <1>3, <1>5, <1>6, <2>1, <2>2, <2>3 DEF StarterSound, InStart, Resolved, c
<1>9. RecordedSoFar'
  BY <1>6 DEF RecordedSoFar
<1>10. RecordsLinked' /\ BackupSound' /\ History'
  BY <1>1, <1>2, <1>3, IntentHistory DEF IInv
<1>11. FilesSound'
  BY <1>1, <1>2, <1>3, IntentFiles DEF IInv
<1> QED
  BY <1>7, <1>8, <1>9, <1>10, <1>11 DEF IInv

-----------------------------------------------------------------------------
(* The stores *)

LEMMA Order ==
    /\ Len(StoreOrder) = 8
    /\ \A j \in 1..8 : StoreOrder[j] \in Stores
    /\ \A j \in 1..8 : StoreOrder[j] = "evidence_head" => j = 8
    /\ \A s \in Stores \ {"evidence_head"} : \E j \in 1..7 : StoreOrder[j] = s
    /\ "evidence_head" \in Stores \ OptionalStores
    /\ PolicyStore \in Stores \ OptionalStores
<1>1. /\ StoreOrder[1] = "state_storage"
      /\ StoreOrder[2] = "control_plane_isolation"
      /\ StoreOrder[3] = "workspace_integrity"
      /\ StoreOrder[4] = "evidence_witness_policy"
      /\ StoreOrder[5] = PolicyStore
      /\ StoreOrder[6] = "runtime_artifacts"
      /\ StoreOrder[7] = "launch_envelope"
      /\ StoreOrder[8] = "evidence_head"
      /\ Len(StoreOrder) = 8
  BY DEF StoreOrder
<1>2. \A j \in 1..8 : j \in {1, 2, 3, 4, 5, 6, 7, 8}
  OBVIOUS
<1>3. \A s \in Stores :
        s \in {"state_storage", "control_plane_isolation", "workspace_integrity",
               "evidence_witness_policy", PolicyStore, "runtime_artifacts",
               "launch_envelope", "evidence_head"}
  BY DEF Stores, RequiredStores, OptionalStores
<1>4. \A j \in 1..8 : StoreOrder[j] \in Stores
  <2> TAKE j \in 1..8
  <2> QED
    BY <1>1, <1>2 DEF Stores, RequiredStores, OptionalStores
<1>5. \A j \in 1..8 : StoreOrder[j] = "evidence_head" => j = 8
  <2> TAKE j \in 1..8
  <2> QED
    BY <1>1, <1>2 DEF PolicyStore
<1>6. \A s \in Stores \ {"evidence_head"} : \E j \in 1..7 : StoreOrder[j] = s
  <2> TAKE s \in Stores \ {"evidence_head"}
  <2>1. {1, 2, 3, 4, 5, 6, 7} \subseteq 1..7
    OBVIOUS
  <2> QED
    BY <1>1, <1>3, <2>1
<1>7. /\ "evidence_head" \in Stores \ OptionalStores
      /\ PolicyStore \in Stores \ OptionalStores
  BY DEF Stores, RequiredStores, OptionalStores, PolicyStore
<1> QED
  BY <1>1, <1>4, <1>5, <1>6, <1>7

\* One store is recorded, or skipped.
LEMMA RecordedStep == ASSUME IInv, NEW s, RecordStore(s) PROVE IInv'
<1> DEFINE c == starter.cfg
           n == starter.next
<1>1. /\ starter.pc = "recording" /\ n <= Len(StoreOrder) /\ StoreOrder[n] = s
      /\ IF s \in OptionalStores /\ c \notin HasOptional THEN stores' = stores
         ELSE stores' = [stores EXCEPT ![s] = c]
      /\ starter' = [starter EXCEPT
                      !.next = @ + 1,
                      !.pc = IF s = "evidence_head" THEN "completing" ELSE @]
      /\ UNCHANGED <<witness, stops, backup, restored, witnessed, profile, pub,
                     cont, clock, sentinels, lineage>>
  BY DEF RecordStore, Record, outside
<1>2. /\ n \in 1..8 /\ \A j \in 1..n - 1 : Written(StoreOrder[j], c)
  BY <1>1, Order DEF IInv, RecordedSoFar
<1>3. /\ s \in Stores /\ (s = "evidence_head" => n = 8)
      /\ s # "evidence_head" => n \in 1..7
  <2>1. s \in Stores /\ (s = "evidence_head" => n = 8)
    BY <1>1, <1>2, Order
  <2>2. n = 8 => s = "evidence_head"
    BY <1>1 DEF StoreOrder
  <2> QED
    BY <1>2, <2>1, <2>2
<1>4. /\ Publishing /\ c \in Configs /\ WitnessAdmits(c)
      /\ pub.active.profile = c /\ starter.intent = pub.active
      /\ Enrolled /\ ActiveProfile = c /\ Generation = pub.active.generation
  BY <1>1 DEF IInv, StarterSound, InStart, Resolved
<1>5. /\ starter' \in Starters
      /\ starter'.cfg = c /\ starter'.intent = starter.intent
      /\ starter'.next = n + 1
      /\ starter'.pc = IF s = "evidence_head" THEN "completing" ELSE "recording"
  <2>1. starter \in Starters /\ n + 1 \in Nat
    BY <1>2 DEF IInv, TypeOK
  <2>2. starter' = [starter EXCEPT !.next = n + 1,
                      !.pc = IF s = "evidence_head" THEN "completing" ELSE "recording"]
    BY <1>1, <2>1 DEF Starters
  <2> QED
    BY <2>1, <2>2 DEF Starters
<1>6. /\ stores \in [Stores -> Configs \cup {NULL}]
      /\ stores' \in [Stores -> Configs \cup {NULL}]
      /\ \A t \in Stores :
           stores'[t] = IF t = s /\ Has(c, s) THEN c ELSE stores[t]
  BY <1>1, <1>4 DEF IInv, TypeOK, StoresTypeOK, Has
<1>7. pub' = pub /\ Publishing' /\ c' = c /\ profile' = profile /\ cont' = cont
  BY <1>1, <1>4, <1>5 DEF Publishing
<1> HIDE DEF c, n
<1>8. \A t \in Stores : t = s \/ Written(t, c) => Written(t, c)'
  BY <1>6, <1>7 DEF Written, Has
<1>9. TypeOK'
  BY <1>1, <1>5, <1>6 DEF IInv, TypeOK, ProfileTypeOK, PublicationTypeOK, StoresTypeOK
<1>10. stores'[PolicyStore] \in {stores[PolicyStore], c}
  BY <1>6, Order
<1>11. WitnessCurrent => WitnessCurrent'
  BY <1>1, WitnessKept
<1>12. StarterSound'
  <2>1. WitnessAdmits(c)'
    BY <1>4, <1>7, <1>10, <1>11 DEF WitnessAdmits
  <2>2. Enrolled' /\ ActiveProfile' = c /\ Generation' = pub.active.generation
    BY <1>4, <1>7 DEF Enrolled, ActiveProfile, Generation
  <2> QED
    BY <1>4, <1>5, <1>7, <2>1, <2>2 DEF StarterSound, InStart, Resolved, c
<1>13. \A j \in 1..n : Written(StoreOrder[j], c)'
  <2> TAKE j \in 1..n
  <2>1. StoreOrder[j] \in Stores /\ (j = n \/ j \in 1..n - 1)
    BY <1>2, Order
  <2>2. StoreOrder[j] = s \/ Written(StoreOrder[j], c)
    BY <1>1, <1>2, <2>1 DEF n
  <2>3. StoreOrder' = StoreOrder
    BY DEF StoreOrder
  <2> QED
    BY <1>8, <2>1, <2>2, <2>3
<1>14. s = "evidence_head" => \A t \in Stores : Written(t, c)'
  <2> SUFFICES ASSUME s = "evidence_head", NEW t \in Stores PROVE Written(t, c)'
    OBVIOUS
  <2>1. CASE t = s
    BY <1>8, <2>1
  <2>2. CASE t # s
    <3>1. PICK j \in 1..7 : StoreOrder[j] = t
      BY <2>2, Order
    <3>2. j \in 1..n
      BY <1>3, <3>1
    <3> QED
      BY <1>13, <3>1, <3>2
  <2> QED
    BY <2>1, <2>2
<1>15. RecordedSoFar'
  <2>1. CASE s = "evidence_head"
    BY <2>1, <1>5, <1>7, <1>14 DEF RecordedSoFar, InStart, Resolved, c
  <2>2. CASE s # "evidence_head"
    <3>1. n + 1 \in 1..Len(StoreOrder) /\ (n + 1) - 1 = n
      BY <1>2, <1>3, <2>2, Order
    <3>2. StoreOrder' = StoreOrder
      BY DEF StoreOrder
    <3> QED
      BY <2>2, <1>5, <1>7, <1>13, <3>1, <3>2 DEF RecordedSoFar, InStart, Resolved, c
  <2> QED
    BY <2>1, <2>2
<1>16. FilesSound'
  <2> SUFFICES ASSUME restored = {} PROVE FilesSound'
    BY <1>1 DEF FilesSound
  <2>1. Continuity' = Continuity /\ Contiguous(profile)'
    BY <1>1 DEF IInv, FilesSound, Continuity, Stored, Contiguous
  <2>2. StillWitnessed'
    BY <1>4, <1>7, <1>10, <1>11 DEF IInv, FilesSound, StillWitnessed
  <2>3. ~Prepared
    <3>1. pub.completed # NULL => pub.completed.generation \in Nat
      BY <1>4, NullStores DEF IInv, Publishing
    <3> QED
      BY <1>4, <3>1 DEF Prepared, Matches
  <2>4. Applying
    BY <1>4, <2>3 DEF IInv, FilesSound, Unpublished, Completed, Publishing
  <2>5. \A t \in Stores : Before(t)' = Before(t)
    BY <1>1 DEF Before, Has
  <2>6. /\ Enrolled' /\ Matches(pub.active, ActiveProfile, Generation)'
    BY <1>4, <1>7, <2>4 DEF Applying, Matches, Enrolled, ActiveProfile, Generation
  <2>7. \A t \in Stores : stores'[t] = Before(t)' \/ (Has(c, t) /\ stores'[t] = c)
    BY <1>4, <1>6, <2>4, <2>5 DEF Applying
  <2>8. stores'["evidence_head"] = c => \A t \in Stores : Written(t, c)'
    <3>1. CASE s = "evidence_head"
      BY <3>1, <1>14
    <3>2. CASE s # "evidence_head"
      <4>1. stores'["evidence_head"] = stores["evidence_head"]
        BY <3>2, <1>6, Order
      <4> QED
        BY <4>1, <1>4, <1>8, <2>4 DEF Applying
    <3> QED
      BY <3>1, <3>2
  <2>9. pub'.active.profile = c
    BY <1>4, <1>7
  <2>10. Applying'
    <3>1. \A t \in Stores : Has(c, t)' <=> Has(c, t)
      BY <1>7 DEF Has
    <3> QED
      BY <1>7, <2>6, <2>7, <2>8, <2>9, <3>1 DEF Applying, Has
  <2> QED
    BY <1>7, <2>1, <2>2, <2>10 DEF IInv, FilesSound
<1> QED
  BY <1>1, <1>9, <1>12, <1>15, <1>16, RecordsKept, HistoryKept DEF IInv

-----------------------------------------------------------------------------
(* The checkpoint *)

LEMMA CompleteStep == ASSUME IInv, Complete PROVE IInv'
<1> DEFINE c == starter.cfg
           a == pub.active
           d == pub'.completed
<1>1. /\ starter.pc = "completing" /\ CompletedIntact(c)
      /\ Publishing /\ ContinuityUsable /\ a = starter.intent
      /\ clock' = clock + 1
      /\ pub' = [active |-> NULL, completed |-> [a EXCEPT !.stamp = clock'],
                 sequence |-> pub.sequence + 1]
      /\ starter' = [starter EXCEPT !.pc = "anchoring"]
      /\ UNCHANGED <<witness, stops, backup, restored, witnessed, profile, cont,
                     stores, sentinels, lineage>>
  BY DEF Complete, WriteCheckpoint, outside
<1>2. /\ c \in Configs /\ WitnessAdmits(c) /\ a.profile = c
      /\ Enrolled /\ ActiveProfile = c /\ Generation = a.generation
  BY <1>1 DEF IInv, StarterSound, InStart, Resolved
<1>3. /\ PublicationTypeOK /\ pub # NULL /\ Linked(pub) /\ clock \in Nat
      /\ lineage \subseteq Checkpoints
  BY <1>1 DEF IInv, TypeOK, PublicationTypeOK, RecordsLinked, Publishing
<1>4. /\ a \in Intents /\ a # NULL /\ pub.sequence \in Nat
      /\ pub.completed \in Checkpoints \cup {NULL}
  BY <1>1, <1>3, StateFields DEF Publishing, Linked, PublicationTypeOK
<1>5. a.prior = IF pub.completed = NULL THEN GENESIS ELSE pub.completed.stamp
  BY <1>3, <1>4, ConfigAssumption DEF Linked, WellFormed
<1>6. /\ d \in Checkpoints /\ d # NULL
      /\ d.profile = c /\ d.generation = a.generation
      /\ d.stamp = clock + 1 /\ d.prior = a.prior /\ a.prior \in Nat
  <2>1. d = [a EXCEPT !.stamp = clock + 1]
    BY <1>1
  <2>2. d \in Checkpoints
    BY <1>3, <1>4, <2>1 DEF Intents, Checkpoints
  <2> QED
    BY <1>2, <1>3, <1>4, <2>1, <2>2, AbsentAssumption DEF Intents
<1>7. /\ pub'.active = NULL /\ pub'.sequence = pub.sequence + 1
      /\ pub' = [active |-> NULL, completed |-> d, sequence |-> pub.sequence + 1]
  BY <1>1
<1>8. /\ pub' \in PublicationStates /\ pub' # NULL
  BY <1>4, <1>6, <1>7, AbsentAssumption DEF PublicationStates
<1>9. /\ starter' \in Starters /\ starter'.pc = "anchoring"
  BY <1>1 DEF IInv, TypeOK, Starters
<1>10. /\ pub.completed # NULL =>
            /\ pub.completed.stamp \in Nat /\ pub.completed.stamp <= clock
       /\ a.prior <= clock
  BY <1>3, <1>4, <1>5, CheckpointFields DEF Linked, GENESIS
<1> HIDE DEF c, a, d
<1>11. TypeOK'
  BY <1>1, <1>3, <1>8, <1>9 DEF IInv, TypeOK, ProfileTypeOK, PublicationTypeOK,
     StoresTypeOK
<1>12. StarterSound' /\ RecordedSoFar'
  BY <1>4, <1>7, <1>8, <1>9, ConfigAssumption DEF StarterSound, RecordedSoFar,
     InStart, Resolved
<1>13. Numbered(pub)' /\ pub'.sequence \in Nat
  BY <1>4, <1>7, ConfigAssumption DEF Numbered
<1>14. Linked(pub)'
  <2>1. WellFormed(pub)'
    BY <1>6, <1>7, <1>13, ConfigAssumption DEF WellFormed, Numbered, d
  <2> QED
    BY <1>1, <1>3, <1>6, <1>7, <1>10, <1>13, <2>1, ConfigAssumption
       DEF Linked, Numbered, d
<1>15. \A l \in lineage : /\ l.stamp \in Nat /\ l.prior \in Nat
                          /\ l.prior < l.stamp /\ l.stamp <= clock
  BY <1>3, CheckpointFields DEF IInv, RecordsLinked
<1>16. cont # NULL => cont.checkpoint \in Nat /\ cont.checkpoint <= clock
  BY <1>3 DEF IInv, RecordsLinked, PublicationTypeOK, Anchors
<1>17. RecordsLinked'
  BY <1>1, <1>3, <1>8, <1>14, <1>15, <1>16, ConfigAssumption DEF RecordsLinked
<1>18. BackupSound'
  <2> SUFFICES ASSUME backup # NULL PROVE BackupSound'
    BY <1>1 DEF IInv, BackupSound
  <2>1. /\ backup.pub \in PublicationStates /\ backup.cont \in Anchors
    BY DEF IInv, TypeOK, Backups
  <2>2. /\ backup.pub.completed \in Checkpoints \cup {NULL}
        /\ backup.cont.checkpoint \in Nat
    BY <2>1, StateFields DEF Anchors
  <2>3. Linked(backup.pub)'
    BY <1>1, <1>3, <2>2, CheckpointFields DEF IInv, BackupSound, Linked, WellFormed
  <2> QED
    BY <1>1, <1>3, <2>2, <2>3 DEF IInv, BackupSound
<1>19. History'
  <2>1. AnchorNewest' /\ WitnessNewest' /\ HistoryDoesNotFork'
    BY <1>1 DEF IInv, History, AnchorNewest, WitnessNewest, HistoryDoesNotFork
  <2>2. PublicationNewest'
    <3> SUFFICES ASSUME "publication" \notin restored, NEW l \in lineage
                 PROVE  l.stamp <= d.stamp /\ l.prior < d.prior
      BY <1>1, <1>6, <1>8, ConfigAssumption DEF PublicationNewest, d
    <3>1. pub.completed # NULL /\ l.stamp <= pub.completed.stamp
      BY DEF IInv, History, PublicationNewest
    <3> QED
      BY <3>1, <1>3, <1>5, <1>6, <1>10, <1>15
  <2>3. AnchoredKnown'
    BY <1>1, <1>3, <1>6, <1>16 DEF AnchoredKnown, d
  <2>4. NoSibling'
    <3> SUFFICES ASSUME "witness" \notin restored, NEW l \in lineage
                 PROVE  /\ l.stamp < d.stamp
                        /\ d.profile \in NeedsWitness /\ l.stamp \in witnessed
                             => l.prior # d.prior
      BY <1>1, <1>6, <1>8 DEF NoSibling, d
    <3>1. l.stamp < d.stamp
      BY <1>3, <1>6, <1>15
    <3>2. ASSUME c \in NeedsWitness, l.stamp \in witnessed
          PROVE  l.prior # d.prior
      <4>1. /\ witness # NULL /\ cont # NULL /\ WitnessAssessment = "verified"
            /\ Continuity = "verified"
        BY <1>2, <3>2 DEF WitnessAdmits, WitnessCurrent, WitnessAssessment
      <4>2. AnchorAt(pub, cont)
        BY <1>3, <4>1, ContinuityOfFiles DEF AnchorMissing
      <4>3. witness.stamp = cont.checkpoint
        BY <4>1 DEF WitnessAssessment
      <4>4. l.stamp <= witness.stamp
        BY <3>2 DEF IInv, History, WitnessNewest
      <4>5. pub.completed # NULL
        BY <1>3, <4>1, <4>2, ContinuityOfFiles, NumberedCompleted DEF AnchorMissing
      <4>6. d.prior = witness.stamp /\ witness.stamp \in Nat
        BY <1>5, <1>6, <4>2, <4>3, <4>5 DEF AnchorAt
      <4> QED
        BY <1>15, <4>4, <4>6
    <3> QED
      BY <1>6, <3>1, <3>2
  <2> QED
    BY <2>1, <2>2, <2>3, <2>4 DEF History
<1>20. FilesSound'
  <2> SUFFICES ASSUME restored = {} PROVE FilesSound'
    BY <1>1 DEF FilesSound
  <2>1. Contiguous(profile)'
    BY <1>1 DEF IInv, FilesSound, Contiguous
  <2>2. ~Publishing'
    BY <1>7 DEF Publishing
  <2>3. Completed'
    <3>1. CompletedIntact(ActiveProfile)'
      BY <1>1, <1>2 DEF CompletedIntact, ActiveProfile, Generation
    <3>2. /\ Enrolled' /\ ActiveProfile' = c /\ Generation' = a.generation
      BY <1>1, <1>2 DEF Enrolled, ActiveProfile, Generation
    <3> QED
      BY <1>6, <1>7, <1>8, <3>1, <3>2 DEF Completed, Matches, d
  <2>4. AnchorBehind(pub', cont)
    <3>1. \/ Numbered(pub) /\ AnchorAt(pub, cont)
          \/ AnchorMissing(pub, cont)
      BY <1>1, <1>3, ContinuityOfFiles DEF ContinuityUsable
    <3>2. CASE Numbered(pub) /\ AnchorAt(pub, cont)
      <4>1. pub.completed # NULL
        BY <1>3, <3>2, NumberedCompleted
      <4> QED
        BY <3>2, <4>1, <1>5, <1>6, <1>7 DEF AnchorBehind, AnchorAt, d
    <3>3. CASE AnchorMissing(pub, cont)
      BY <3>3, <1>4, <1>7, ConfigAssumption DEF AnchorBehind, AnchorMissing, Numbered
    <3> QED
      BY <3>1, <3>2, <3>3
  <2>5. Continuity' = "forward_recovery"
    <3>1. /\ WellFormed(pub') /\ cont \in Anchors \cup {NULL} /\ Numbered(pub')
          /\ pub'.completed.prior # NULL
      BY <1>3, <1>6, <1>13, <1>14, ConfigAssumption
         DEF Linked, WellFormed, Numbered, PublicationTypeOK, d
    <3>2. Continuity' = AssessContinuity(pub', cont)
      BY <1>1, <1>8 DEF Continuity, Stored
    <3> QED
      BY <1>8, <2>4, <3>1, <3>2, ContinuityIs
  <2> QED
    BY <2>1, <2>2, <2>3, <2>5 DEF FilesSound, StillWitnessed
<1> QED
  BY <1>11, <1>12, <1>17, <1>18, <1>19, <1>20 DEF IInv

-----------------------------------------------------------------------------
(* The operator *)

LEMMA RotateStep == ASSUME IInv, NEW target \in Configs, Rotate(target) PROVE IInv'
<1>1. /\ starter.pc = "idle" /\ Enrolled /\ target # ActiveProfile
      /\ profile.pending = NULL
      /\ profile' = [profile EXCEPT !.pending = target]
      /\ UNCHANGED <<witness, stops, backup, restored, witnessed, pub, cont, clock,
                     stores, sentinels, starter, lineage>>
  BY DEF Rotate, RequestRotation, outside
<1>2. /\ profile.history \in Seq(Configs)
      /\ profile \in [history : Seq(Configs), pending : Configs \cup {NULL}]
      /\ profile' \in [history : Seq(Configs), pending : Configs \cup {NULL}]
      /\ profile'.history = profile.history /\ profile'.pending = target
  BY <1>1 DEF IInv, TypeOK, ProfileTypeOK
<1>3. TypeOK'
  BY <1>1, <1>2 DEF IInv, TypeOK, ProfileTypeOK, PublicationTypeOK, StoresTypeOK
<1>4. /\ Enrolled' /\ ActiveProfile' = ActiveProfile /\ Generation' = Generation
  BY <1>1, <1>2 DEF Enrolled, ActiveProfile, Generation
<1>5. StarterSound' /\ RecordedSoFar'
  BY <1>1, IdleSound
<1>6. FilesSound'
  <2> SUFFICES ASSUME restored = {} PROVE FilesSound'
    BY <1>1 DEF FilesSound
  <2>1. Contiguous(profile)'
    BY <1>1, <1>2 DEF IInv, FilesSound, Contiguous, Enrolled, ActiveProfile, Generation
  <2>2. Continuity' = Continuity /\ pub' = pub /\ (Publishing' <=> Publishing)
    BY <1>1 DEF Continuity, Stored, Publishing
  <2>3. StillWitnessed'
    <3>1. WitnessCurrent => WitnessCurrent'
      BY <1>1, <1>2, <1>4 DEF WitnessCurrent, WitnessAssessment, Continuity, Stored,
         Generation
    <3> QED
      BY <1>1, <2>2, <3>1 DEF IInv, FilesSound, StillWitnessed
  <2>4. Completed \/ (Publishing /\ Applying)
    <3>1. ~(Publishing /\ Prepared)
      <4>1. Publishing => pub.active.profile # NULL
        BY NullStores, ConfigAssumption DEF IInv, Publishing
      <4> QED
        BY <1>1, <4>1 DEF Prepared
    <3> QED
      BY <1>1, <3>1 DEF IInv, FilesSound, Unpublished
  <2>5. Completed => Completed'
    BY <1>1, <1>4 DEF Completed, Matches, CompletedIntact
  <2>6. Publishing /\ Applying => (Publishing /\ Applying)'
    BY <1>1, <1>4 DEF Publishing, Applying, Matches, Before, Has, Written
  <2> QED
    BY <2>1, <2>2, <2>3, <2>4, <2>5, <2>6 DEF IInv, FilesSound
<1> QED
  BY <1>1, <1>3, <1>5, <1>6, RecordsKept, HistoryKept DEF IInv

LEMMA CreateWitnessStep == ASSUME IInv, CreateWitness PROVE IInv'
<1>1. /\ starter.pc = "idle" /\ Witnessable
      /\ witness' = [generation |-> Generation, profile |-> ActiveProfile,
                     sequence |-> cont.sequence, stamp |-> cont.checkpoint]
      /\ IF restored = {}
         THEN witnessed' = witnessed \cup {cont.checkpoint} /\ restored' = restored
         ELSE restored' = restored \cup {"witness"} /\ witnessed' = witnessed
      /\ UNCHANGED <<profile, pub, cont, clock, stores, sentinels, starter, stops,
                     backup, lineage>>
  BY DEF CreateWitness
<1>2. /\ cont # NULL /\ cont \in Anchors /\ cont.sequence \in Nat
      /\ cont.checkpoint \in Nat /\ witnessed \subseteq Nat
  BY <1>1 DEF Witnessable, IInv, TypeOK, PublicationTypeOK, Anchors
<1>3. /\ witness' \in Witnesses /\ witness' # NULL
      /\ witness'.stamp = cont.checkpoint
  <2>1. Generation \in Nat \ {0} /\ ActiveProfile \in Configs
    <3>1. profile.history \in Seq(Configs) /\ profile.history # <<>>
      BY <1>1 DEF Witnessable, Enrolled, IInv, TypeOK, ProfileTypeOK
    <3> QED
      BY <3>1, AppendedIs DEF Generation, ActiveProfile
  <2> QED
    BY <1>1, <1>2, <2>1, OutsideAssumption DEF Witnesses
<1>4. TypeOK'
  BY <1>1, <1>2, <1>3 DEF IInv, TypeOK, ProfileTypeOK, PublicationTypeOK, StoresTypeOK
<1>5. StarterSound' /\ RecordedSoFar'
  BY <1>1, IdleSound
<1>6. RecordsLinked' /\ BackupSound'
  BY <1>1 DEF IInv, RecordsLinked, BackupSound, Linked, WellFormed
<1>7. FilesSound'
  <2> SUFFICES ASSUME restored = {}, restored' = {} PROVE FilesSound'
    BY <1>1 DEF FilesSound
  <2>1. ~Publishing' /\ Continuity' = Continuity
    BY <1>1 DEF Witnessable, Publishing, Continuity, Stored
  <2>2. Contiguous(profile)'
    BY <1>1 DEF IInv, FilesSound, Contiguous
  <2>3. Unpublished \/ Completed
    BY <2>1, <1>1 DEF IInv, FilesSound, Publishing
  <2>4. Unpublished => Unpublished'
    BY <1>1 DEF Unpublished, Enrolled
  <2>5. Completed => Completed'
    BY <1>1 DEF Completed, Enrolled, ActiveProfile, Generation, CompletedIntact, Matches
  <2> QED
    BY <2>1, <2>2, <2>3, <2>4, <2>5 DEF IInv, FilesSound, StillWitnessed
<1>8. restored \subseteq restored' /\ (restored = {} <=> restored' = {})
  BY <1>1
<1>9. AnchorNewest' /\ PublicationNewest' /\ AnchoredKnown'
  BY <1>1, <1>8 DEF IInv, History, AnchorNewest, PublicationNewest, AnchoredKnown
<1>10. WitnessNewest'
  <2>1. CASE restored = {}
    <3>1. \A w \in witnessed : w <= cont.checkpoint
      BY <2>1 DEF IInv, History, WitnessNewest
    <3>2. \A w \in witnessed' : w <= cont.checkpoint
      <4>1. witnessed' = witnessed \cup {cont.checkpoint}
        BY <1>1, <2>1
      <4>2. cont.checkpoint <= cont.checkpoint
        BY <1>2
      <4> QED
        BY <3>1, <4>1, <4>2
    <3>3. /\ cont' = cont /\ cont' # NULL
          /\ witness' # NULL /\ witness'.stamp = cont.checkpoint
      BY <1>1, <1>2, <1>3
    <3> QED
      BY <3>2, <3>3 DEF WitnessNewest
  <2>2. CASE restored # {}
    BY <1>1, <2>2 DEF WitnessNewest
  <2> QED
    BY <2>1, <2>2
<1>11. NoSibling' /\ HistoryDoesNotFork'
  <2>1. CASE restored = {}
    BY <1>1, <2>1 DEF IInv, History, NoSibling, HistoryDoesNotFork
  <2>2. CASE restored # {}
    BY <1>1, <2>2 DEF IInv, History, NoSibling, HistoryDoesNotFork
  <2> QED
    BY <2>1, <2>2
<1> QED
  BY <1>4, <1>5, <1>6, <1>7, <1>9, <1>10, <1>11 DEF IInv, History

LEMMA TakeBackupStep == ASSUME IInv, TakeBackup PROVE IInv'
<1>1. /\ starter.pc = "idle" /\ backup = NULL
      /\ pub # NULL /\ pub.active = NULL /\ Continuity = "verified"
      /\ backup' = [pub |-> pub, cont |-> cont, profile |-> profile,
                    stores |-> stores]
      /\ UNCHANGED <<profile, pub, cont, clock, stores, witness, sentinels, starter,
                     stops, restored, witnessed, lineage>>
  BY DEF TakeBackup
<1>2. /\ PublicationTypeOK /\ Linked(pub) /\ restored = {}
  BY <1>1 DEF IInv, TypeOK, RecordsLinked, BackupSound
<1>3. pub.completed # NULL
  BY <1>1, <1>2 DEF Linked, WellFormed
<1>4. Numbered(pub) /\ AnchorAt(pub, cont)
  BY <1>1, <1>2, <1>3, ContinuityOfFiles
<1>5. /\ cont # NULL /\ cont \in Anchors /\ cont.checkpoint <= clock
      /\ pub.completed \in lineage
  BY <1>1, <1>2, <1>3, <1>4
     DEF AnchorAt, PublicationTypeOK, IInv, RecordsLinked, History, AnchoredKnown
<1>6. backup' \in Backups
  BY <1>1, <1>2, <1>5 DEF IInv, TypeOK, ProfileTypeOK, StoresTypeOK,
     PublicationTypeOK, Backups
<1>7. TypeOK'
  BY <1>1, <1>6 DEF IInv, TypeOK, ProfileTypeOK, PublicationTypeOK, StoresTypeOK
<1>8. RecordsLinked'
  BY <1>1 DEF IInv, RecordsLinked, Linked, WellFormed
<1>9. BackupSound'
  <2>1. backup' # NULL
    BY <1>6, OutsideAssumption
  <2>2. /\ backup'.pub = pub /\ backup'.cont = cont
    BY <1>1
  <2>3. Linked(backup.pub)'
    BY <1>1, <1>2, <2>2 DEF Linked, WellFormed
  <2> QED
    BY <1>1, <1>5, <2>1, <2>2, <2>3 DEF BackupSound
<1> QED
  BY <1>1, <1>7, <1>8, <1>9, HistoryKept, FilesKept, IdleSound DEF IInv

LEMMA RestoreStep ==
    ASSUME IInv, NEW parts \in (SUBSET Parts) \ {{}}, Restore(parts)
    PROVE  IInv'
<1>1. /\ starter.pc = "idle" /\ backup # NULL /\ restored = {}
      /\ restored' = parts
      /\ pub' = IF "publication" \in parts THEN backup.pub ELSE pub
      /\ cont' = IF "continuity" \in parts THEN backup.cont ELSE cont
      /\ IF "rest" \in parts
         THEN profile' = backup.profile /\ stores' = backup.stores
         ELSE UNCHANGED <<profile, stores>>
      /\ UNCHANGED <<clock, witness, sentinels, starter, stops, backup, witnessed,
                     lineage>>
  BY DEF Restore
<1>2. /\ backup \in Backups
      /\ Linked(backup.pub) /\ backup.pub.active = NULL
      /\ backup.pub.completed \in lineage /\ backup.cont.checkpoint <= clock
  BY <1>1 DEF IInv, TypeOK, BackupSound
<1>3. /\ backup.pub \in PublicationStates /\ backup.cont \in Anchors
      /\ backup.profile \in [history : Seq(Configs), pending : Configs \cup {NULL}]
      /\ backup.stores \in [Stores -> Configs \cup {NULL}]
  BY <1>2 DEF Backups
<1>4. backup.pub # NULL /\ backup.cont # NULL
  BY <1>3, AbsentAssumption
<1>5. parts # {} /\ "witness" \notin parts /\ parts \subseteq Parts
  BY DEF Parts
<1>6. TypeOK'
  <2>1. /\ PublicationTypeOK' /\ ProfileTypeOK' /\ StoresTypeOK'
    BY <1>1, <1>3 DEF IInv, TypeOK, ProfileTypeOK, PublicationTypeOK, StoresTypeOK
  <2> QED
    BY <1>1, <1>5, <2>1 DEF IInv, TypeOK
<1>7. RecordsLinked'
  <2>1. pub' # NULL => Linked(pub')
    BY <1>1, <1>2 DEF IInv, RecordsLinked
  <2>2. pub' # NULL => Linked(pub)'
    BY <1>1, <2>1 DEF Linked, WellFormed
  <2>3. cont' # NULL => cont'.checkpoint <= clock
    BY <1>1, <1>2 DEF IInv, RecordsLinked
  <2> QED
    BY <1>1, <2>2, <2>3 DEF IInv, RecordsLinked
<1>8. BackupSound'
  BY <1>1 DEF IInv, BackupSound, Linked, WellFormed
<1>9. FilesSound'
  BY <1>1, <1>5 DEF FilesSound
<1>10. AnchorNewest' /\ PublicationNewest'
  BY <1>1 DEF IInv, History, AnchorNewest, PublicationNewest
<1>11. AnchoredKnown' /\ WitnessNewest'
  BY <1>1, <1>5 DEF IInv, History, AnchoredKnown, WitnessNewest
<1>12. NoSibling'
  <2> SUFFICES ASSUME "publication" \in parts
               PROVE  pub' # NULL /\ pub'.completed # NULL /\ pub'.completed \in lineage
    BY <1>1 DEF NoSibling
  <2>1. pub' = backup.pub
    BY <1>1
  <2>2. lineage \subseteq Checkpoints
    BY DEF IInv, TypeOK
  <2> QED
    BY <1>2, <1>4, <2>1, <2>2, AbsentAssumption
<1>13. HistoryDoesNotFork'
  BY <1>1 DEF IInv, History, HistoryDoesNotFork
<1> QED
  BY <1>1, <1>6, <1>7, <1>8, <1>9, <1>10, <1>11, <1>12, <1>13, IdleSound
     DEF IInv, History

-----------------------------------------------------------------------------
(* The invariant *)

LEMMA RecordSteps ==
    ASSUME IInv,
           \/ RecordStateStorage \/ RecordIsolation \/ RecordWorkspace
           \/ RecordEvidencePolicy \/ RecordPublicationPolicy
           \/ RecordRuntimeArtifacts \/ RecordLaunchEnvelope \/ RecordEvidenceHead
    PROVE  \E s : RecordStore(s)
BY DEF RecordStateStorage, RecordIsolation, RecordWorkspace, RecordEvidencePolicy,
   RecordPublicationPolicy, RecordRuntimeArtifacts, RecordLaunchEnvelope,
   RecordEvidenceHead

LEMMA NextStep == IInv /\ [Next]_vars => IInv'
<1> SUFFICES ASSUME IInv, [Next]_vars PROVE IInv'
  OBVIOUS
<1>1. CASE \E c \in Configs : Begin(c)
  BY <1>1, BeginStep
<1>2. CASE PrepareRecover
  BY <1>2, PrepareRecoverStep
<1>3. CASE PrepareAgain
  BY <1>3, PrepareAgainStep
<1>4. CASE PrepareNew
  BY <1>4, PrepareNewStep
<1>5. CASE PrepareEnroll
  BY <1>5, PrepareEnrollStep
<1>6. CASE Resolve
  BY <1>6, ResolveStep
<1>7. CASE \/ RecordStateStorage \/ RecordIsolation \/ RecordWorkspace
           \/ RecordEvidencePolicy \/ RecordPublicationPolicy
           \/ RecordRuntimeArtifacts \/ RecordLaunchEnvelope \/ RecordEvidenceHead
  BY <1>7, RecordSteps, RecordedStep
<1>8. CASE Complete
  BY <1>8, CompleteStep
<1>9. CASE Anchor
  BY <1>9, AnchorStep
<1>10. CASE Raise \/ Stop \/ \E f \in Files : RemoveSentinel(f)
  BY <1>10, EndStep
<1>11. CASE \E c \in Configs : Rotate(c)
  BY <1>11, RotateStep
<1>12. CASE CreateWitness
  BY <1>12, CreateWitnessStep
<1>13. CASE TakeBackup
  BY <1>13, TakeBackupStep
<1>14. CASE \E parts \in (SUBSET Parts) \ {{}} : Restore(parts)
  BY <1>14, RestoreStep
<1>15. CASE UNCHANGED vars
  BY <1>15, StutterStep
<1> QED
  BY <1>1, <1>2, <1>3, <1>4, <1>5, <1>6, <1>7, <1>8, <1>9, <1>10, <1>11, <1>12,
     <1>13, <1>14, <1>15 DEF Next

LEMMA Invariance == Spec => []IInv
  BY InitInv, NextStep, PTL DEF Spec

-----------------------------------------------------------------------------
(* What is published does not fork *)

\* Two checkpoints have the same predecessor only after an older publication
\* state was put back together with its anchor, and even then a witnessed one
\* is not replaced by a runtime that requires a witness, unless the restored
\* state was witnessed anew.
THEOREM NoForks == Spec => []HistoryDoesNotFork
<1>1. IInv => HistoryDoesNotFork
  BY DEF IInv, History
<1> QED
  BY <1>1, Invariance, PTL

-----------------------------------------------------------------------------
(* A replay is exact *)

\* An intent that is active is the only one that moves the profile and the
\* stores, and the only one that is completed, with all the stores its own.
THEOREM ReplayIsExact == Spec => ReplayExact
<1> DEFINE Exact ==
      restored' = restored =>
        /\ Publishing =>
              \A s \in Stores :
                 stores'[s] \in {stores[s], pub.active.profile}
        /\ ~Publishing => stores' = stores
        /\ profile'.history # profile.history =>
              /\ Publishing
              /\ profile'.history = Append(profile.history, pub.active.profile)
              /\ pub.active.generation = Len(profile'.history)
        /\ pub' # pub /\ Publishing =>
              /\ pub'.active = NULL
              /\ Matches(pub'.completed, pub.active.profile,
                         pub.active.generation)
              /\ CompletedIntact(pub.active.profile)
              /\ profile.history[pub.active.generation] = pub.active.profile
<1>1. ASSUME IInv, UNCHANGED <<stores, profile, pub>> PROVE Exact
  BY <1>1
<1>2. ASSUME IInv, PrepareNew PROVE Exact
  <2>1. ~Publishing /\ UNCHANGED <<stores, profile>>
    BY <1>2 DEF PrepareNew, outside
  <2> QED
    BY <2>1
<1>3. ASSUME IInv, Resolve PROVE Exact
  <2>1. /\ UNCHANGED <<pub, stores>> /\ starter.pc = "resolving"
        /\ ResolveForAuthority(starter.cfg)
    BY <1>3 DEF Resolve, outside
  <2>2. /\ Publishing /\ pub.active.profile = starter.cfg /\ starter.cfg \in Configs
        /\ pub.active.generation \in Previews(starter.cfg) /\ ProfileTypeOK
    BY <1>3, <2>1 DEF IInv, TypeOK, StarterSound, InStart, Resolved
  <2>3. profile'.history # profile.history =>
          /\ profile'.history = Append(profile.history, pub.active.profile)
          /\ pub.active.generation = Generation'
    BY <2>1, <2>2, ResolvedIs
  <2> QED
    BY <2>1, <2>2, <2>3 DEF Generation
<1>4. ASSUME IInv, NEW s, RecordStore(s) PROVE Exact
  <2>1. /\ UNCHANGED <<pub, profile>> /\ starter.pc = "recording"
        /\ stores' = stores \/ stores' = [stores EXCEPT ![s] = starter.cfg]
    BY <1>4 DEF RecordStore, Record, outside
  <2>2. /\ Publishing /\ pub.active.profile = starter.cfg
        /\ stores \in [Stores -> Configs \cup {NULL}]
    BY <1>4, <2>1 DEF IInv, TypeOK, StoresTypeOK, StarterSound, InStart, Resolved
  <2> QED
    BY <2>1, <2>2
<1>5. ASSUME IInv, Complete PROVE Exact
  <2>1. /\ UNCHANGED <<stores, profile>> /\ starter.pc = "completing"
        /\ CompletedIntact(starter.cfg) /\ Publishing
        /\ pub'.active = NULL
        /\ pub'.completed = [pub.active EXCEPT !.stamp = clock']
    BY <1>5 DEF Complete, WriteCheckpoint, outside
  <2>2. /\ pub.active.profile = starter.cfg
        /\ ActiveProfile = starter.cfg /\ Generation = pub.active.generation
    BY <1>5, <2>1 DEF IInv, StarterSound, InStart, Resolved
  <2>3. pub.active \in Intents
    BY <1>5, <2>1, StateFields DEF IInv, TypeOK, PublicationTypeOK, Publishing
  <2>4. Matches(pub'.completed, pub.active.profile, pub.active.generation)
    BY <2>1, <2>3 DEF Matches, Intents
  <2> QED
    BY <2>1, <2>2, <2>4 DEF ActiveProfile
<1>6. ASSUME IInv, NEW parts \in (SUBSET Parts) \ {{}}, Restore(parts) PROVE Exact
  <2>1. restored' # restored
    BY <1>6 DEF Restore
  <2> QED
    BY <2>1
<1>7. ASSUME IInv, NEW target \in Configs, Rotate(target) PROVE Exact
  <2>1. UNCHANGED <<stores, pub>> /\ profile'.history = profile.history
    BY <1>7 DEF Rotate, RequestRotation, outside, IInv, TypeOK, ProfileTypeOK
  <2> QED
    BY <2>1
<1>8. ASSUME IInv,
             \/ \E c \in Configs : Begin(c)
             \/ PrepareRecover \/ PrepareAgain \/ PrepareEnroll \/ Anchor
             \/ Raise \/ Stop \/ (\E f \in Files : RemoveSentinel(f))
             \/ CreateWitness \/ TakeBackup \/ UNCHANGED vars
      PROVE  UNCHANGED <<stores, profile, pub>>
  BY <1>8 DEF Begin, PrepareRecover, RecoverContinuity, Advance, PrepareAgain,
     PrepareEnroll, Anchor, Raise, Stop, RemoveSentinel, CreateWitness, TakeBackup,
     outside, vars
<1>9. ASSUME IInv, [Next]_vars PROVE Exact
  <2> HIDE DEF Exact
  <2>1. CASE \E s : RecordStore(s)
    BY <2>1, <1>4, <1>9
  <2> QED
    BY <2>1, <1>1, <1>2, <1>3, <1>5, <1>6, <1>7, <1>8, <1>9, RecordSteps DEF Next
<1>10. IInv /\ [Next]_vars => [Exact]_vars
  BY <1>9
<1> QED
  <2>1. Spec => [][Exact]_vars
    BY <1>10, Invariance, PTL DEF Spec
  <2> QED
    BY <2>1 DEF ReplayExact

-----------------------------------------------------------------------------
(* The audit explains what it finds *)

LEMMA IntactMatches ==
    ASSUME TypeOK, NEW c \in Configs, CompletedIntact(c)
    PROVE  ManifestMatches(c) /\ \A s \in Recorded : stores[s] = c
<1>1. c # NULL
  BY ConfigAssumption
<1>2. \A s \in Recorded : s \in Stores /\ stores[s] # NULL
  BY DEF Recorded
<1>3. \A s \in Recorded : stores[s] = c
  BY <1>2 DEF CompletedIntact
<1>4. RequiredStores \subseteq Recorded /\ PolicyStore \in Recorded
  <2>1. \A s \in RequiredStores \cup {PolicyStore} : s \in Stores \ OptionalStores
    BY DEF Stores, RequiredStores, OptionalStores, PolicyStore
  <2>2. \A s \in RequiredStores \cup {PolicyStore} : stores[s] # NULL
    BY <1>1, <2>1 DEF CompletedIntact
  <2> QED
    BY <2>1, <2>2 DEF Recorded
<1>5. \A s \in OptionalStores : s \in Recorded <=> c \in HasOptional
  BY <1>1 DEF CompletedIntact, Recorded, Stores
<1> QED
  BY <1>3, <1>4, <1>5 DEF ManifestMatches, DependenciesBound

LEMMA MismatchIs ==
    ASSUME NEW s \in ProfileMismatches
    PROVE  s \in Recorded /\ (Enrolled => stores[s] # ActiveProfile)
<1>1. /\ s \in Stores
      /\ CASE s = "state_storage" -> StateStorageMismatch
           [] s = "workspace_integrity" -> WorkspaceMismatch
           [] s = "control_plane_isolation" -> IsolationMismatch
           [] s = "runtime_artifacts" -> RuntimeArtifactsMismatch
           [] s = "launch_envelope" -> LaunchEnvelopeMismatch
           [] s = "evidence_head" -> EvidenceHeadMismatch
           [] s = "evidence_witness_policy" -> EvidenceWitnessMismatch
           [] s = PolicyStore -> PublicationWitnessMismatch
  BY DEF ProfileMismatches
<1>2. s \in {"state_storage", "control_plane_isolation", "workspace_integrity",
             "evidence_witness_policy", PolicyStore, "runtime_artifacts",
             "launch_envelope", "evidence_head"}
  BY <1>1 DEF Stores, RequiredStores, OptionalStores
<1>3. \/ s = "state_storage" /\ StateStorageMismatch
      \/ s = "workspace_integrity" /\ WorkspaceMismatch
      \/ s = "control_plane_isolation" /\ IsolationMismatch
      \/ s = "runtime_artifacts" /\ RuntimeArtifactsMismatch
      \/ s = "launch_envelope" /\ LaunchEnvelopeMismatch
      \/ s = "evidence_head" /\ EvidenceHeadMismatch
      \/ s = "evidence_witness_policy" /\ EvidenceWitnessMismatch
      \/ s = PolicyStore /\ PublicationWitnessMismatch
  BY <1>1, <1>2 DEF PolicyStore
<1> QED
  BY <1>3 DEF StateStorageMismatch, WorkspaceMismatch, IsolationMismatch,
     RuntimeArtifactsMismatch, LaunchEnvelopeMismatch, EvidenceHeadMismatch,
     EvidenceWitnessMismatch, PublicationWitnessMismatch, Unbound

LEMMA BoundStores ==
    ASSUME \A s \in Recorded : Enrolled /\ stores[s] = ActiveProfile
    PROVE  ProfileMismatches = {}
BY MismatchIs

\* While an intent is applied, the audit is in one of its expected phases.
LEMMA ApplyingExplained ==
    ASSUME TypeOK, Publishing, Applying, ~OptionalLeftBehind
    PROVE  /\ PublicationPhase \in {"applying", "ready_to_complete"}
           /\ ProfileMismatches \subseteq Downgraded
<1> DEFINE c == pub.active.profile
           done == pub.completed
           head == stores["evidence_head"]
<1>1. /\ pub # NULL /\ pub.active # NULL /\ c \in Configs /\ c # NULL
      /\ done # NULL => done.profile \in Configs /\ done.profile # NULL
  BY NullStores, ConfigAssumption DEF Publishing
<1>2. /\ Enrolled /\ Matches(pub.active, ActiveProfile, Generation)
      /\ ActiveProfile = c
      /\ \A s \in Stores : stores[s] = Before(s) \/ (Has(c, s) /\ stores[s] = c)
      /\ head = c => \A s \in Stores : Written(s, c)
  BY DEF Applying, Matches
<1>3. "evidence_head" \in Stores \ OptionalStores
  BY Order
<1>4. \A s \in Stores :
        /\ done = NULL => Before(s) = NULL
        /\ done # NULL => Before(s) \in {done.profile, NULL}
        /\ done # NULL /\ s \notin OptionalStores => Before(s) = done.profile
  BY DEF Before, Has
<1>5. PublicationPhase = TargetPhase
  BY <1>1, <1>2 DEF PublicationPhase, ActivePhase
<1>6. ReplayCompatible
  <2>1. \A s \in Recorded \ {PolicyStore} :
          stores[s] = c \/ (done # NULL /\ stores[s] = done.profile)
    BY <1>2, <1>4 DEF Recorded
  <2>2. done # NULL => RequiredStores \ {"evidence_witness_policy"} \subseteq Recorded
    <3> SUFFICES ASSUME done # NULL, NEW s \in RequiredStores
                 PROVE  s \in Recorded
      OBVIOUS
    <3>1. s \in Stores /\ s \notin OptionalStores
      BY DEF Stores, RequiredStores, OptionalStores
    <3>2. stores[s] # NULL
      BY <1>1, <1>2, <1>4, <3>1
    <3> QED
      BY <3>1, <3>2 DEF Recorded
  <2> QED
    BY <2>1, <2>2 DEF ReplayCompatible
<1> HIDE DEF c, done, head
<1>7. CASE head = c
  <2>1. CompletedIntact(c)
    <3>1. \A s \in Stores \ OptionalStores : stores[s] = c
      BY <1>2, <1>7 DEF Written, Has
    <3>2. c \in HasOptional => \A s \in OptionalStores : stores[s] = c
      BY <1>2, <1>7 DEF Written, Has, Stores
    <3>3. c \notin HasOptional => \A s \in OptionalStores : stores[s] = NULL
      <4>1. c \notin HasOptional => OptionalStores \cap Recorded = {}
        BY <1>1 DEF OptionalLeftBehind, c
      <4> QED
        BY <4>1 DEF Recorded, Stores
    <3> QED
      BY <3>1, <3>2, <3>3 DEF CompletedIntact
  <2>2. ManifestMatches(c) /\ \A s \in Recorded : stores[s] = c
    BY <1>1, <2>1, IntactMatches
  <2>3. TargetPhase = "ready_to_complete"
    BY <1>1, <1>6, <1>7, <2>2 DEF TargetPhase, c, head
  <2>4. ProfileMismatches = {}
    BY <1>2, <2>2, BoundStores
  <2> QED
    BY <1>5, <2>3, <2>4
<1>8. CASE head # c
  <2>1. head = Before("evidence_head")
    BY <1>2, <1>3, <1>8 DEF head
  <2>2. CASE done = NULL
    <3>1. head = NULL
      BY <1>3, <1>4, <2>1, <2>2
    <3>2. TargetPhase = "applying"
      BY <1>6, <3>1 DEF TargetPhase, head
    <3>3. \A s \in Recorded : stores[s] = c
      BY <1>2, <1>4, <2>2 DEF Recorded
    <3>4. ProfileMismatches = {}
      BY <1>2, <3>3, BoundStores
    <3> QED
      BY <1>5, <3>2, <3>4
  <2>3. CASE done # NULL
    <3>1. head = done.profile /\ head # NULL
      BY <1>1, <1>3, <1>4, <2>1, <2>3
    <3>2. TargetPhase = "applying"
      BY <1>6, <1>8, <2>3, <3>1 DEF TargetPhase, head, done, c
    <3>3. Downgraded = {s \in Stores : stores[s] = done.profile}
      BY <1>5, <3>1, <3>2 DEF Downgraded, head, done
    <3>4. \A s \in ProfileMismatches : s \in Stores /\ stores[s] = done.profile
      <4> TAKE s \in ProfileMismatches
      <4>1. s \in Stores /\ stores[s] # NULL /\ stores[s] # c
        BY <1>2, MismatchIs DEF Recorded
      <4> QED
        BY <1>2, <1>4, <2>3, <4>1
    <3> QED
      BY <1>5, <3>2, <3>3, <3>4
  <2> QED
    BY <2>2, <2>3
<1> QED
  BY <1>7, <1>8

LEMMA PreparedExplained ==
    ASSUME TypeOK, Publishing, Prepared
    PROVE  PublicationPhase = "prepared" /\ ProfileMismatches = {}
<1>1. /\ pub # NULL /\ pub.active # NULL
      /\ pub.completed # NULL => /\ pub.completed.profile \in Configs
                                 /\ pub.completed.generation \in Nat
  BY NullStores DEF Publishing
<1>2. CASE pub.completed = NULL
  <2>1. Recorded = {}
    BY <1>2 DEF Prepared, Before, Recorded
  <2>2. ~Enrolled /\ pub.active.generation = 1
    BY <1>2 DEF Prepared
  <2>3. PublicationPhase = "prepared"
    BY <1>1, <1>2, <2>2 DEF PublicationPhase, ActivePhase
  <2> QED
    BY <2>1, <2>3, BoundStores
<1>3. CASE pub.completed # NULL
  <2>1. /\ Enrolled /\ Matches(pub.completed, ActiveProfile, Generation)
        /\ pub.completed.profile = ActiveProfile
        /\ pub.completed.generation = Generation
        /\ pub.active.generation = pub.completed.generation + 1
        /\ profile.pending = pub.active.profile
    BY <1>3 DEF Prepared, Matches
  <2>2. ~Matches(pub.active, ActiveProfile, Generation)
    BY <1>1, <1>3, <2>1 DEF Matches
  <2>3. CompletedIntact(ActiveProfile)
    BY <1>3, <2>1 DEF Prepared, Before, Has, CompletedIntact, Stores
  <2>4. ManifestMatches(ActiveProfile) /\ \A s \in Recorded : stores[s] = ActiveProfile
    BY <1>1, <1>3, <2>1, <2>3, IntactMatches
  <2>5. PublicationPhase = "prepared"
    BY <1>1, <1>3, <2>1, <2>2, <2>4 DEF PublicationPhase, ActivePhase
  <2> QED
    BY <2>1, <2>4, <2>5, BoundStores
<1> QED
  BY <1>2, <1>3

\* Wherever a start stops, the audit finds a publication it can explain and no
\* store of another profile, but for the optional store that was dropped.
THEOREM AuditAlwaysExplains == Spec => []AuditExplains
<1>1. ASSUME IInv, restored = {}, ~OptionalLeftBehind PROVE ~StoresCritical
  <2>1. /\ TypeOK
        /\ Continuity \in {"verified", "legacy_unavailable", "forward_recovery"}
        /\ Unpublished \/ Completed \/ (Publishing /\ (Prepared \/ Applying))
    BY <1>1 DEF IInv, FilesSound
  <2>2. PublicationPhase \in {"not_recorded", "prepared", "applying",
                              "ready_to_complete", "verified"}
          => ~PublicationCritical
    BY <2>1 DEF PublicationCritical
  <2>3. CASE Unpublished
    <3>1. PublicationPhase = "not_recorded"
      BY <2>3 DEF Unpublished, PublicationPhase
    <3>2. Recorded = {}
      BY <2>3 DEF Unpublished, Recorded
    <3> QED
      BY <2>2, <3>1, <3>2, BoundStores DEF StoresCritical
  <2>4. CASE Completed
    <3>1. /\ pub # NULL /\ pub.active = NULL /\ Enrolled
          /\ Matches(pub.completed, ActiveProfile, Generation)
          /\ pub.completed.profile = ActiveProfile /\ CompletedIntact(ActiveProfile)
      BY <2>4 DEF Completed, Matches
    <3>2. ActiveProfile \in Configs
      <4>1. profile.history \in Seq(Configs)
        BY <2>1 DEF TypeOK, ProfileTypeOK
      <4> QED
        BY <3>1, <4>1, AppendedIs DEF Enrolled, ActiveProfile, Generation
    <3>3. ManifestMatches(ActiveProfile) /\ \A s \in Recorded : stores[s] = ActiveProfile
      BY <2>1, <3>1, <3>2, IntactMatches
    <3>4. PublicationPhase = "verified"
      BY <3>1, <3>3 DEF PublicationPhase, CompletedPhase
    <3>5. ProfileMismatches = {}
      BY <3>1, <3>3, BoundStores
    <3> QED
      BY <2>2, <3>4, <3>5 DEF StoresCritical
  <2>5. CASE Publishing /\ Prepared
    BY <2>1, <2>2, <2>5, PreparedExplained DEF StoresCritical
  <2>6. CASE Publishing /\ Applying
    BY <1>1, <2>1, <2>2, <2>6, ApplyingExplained DEF StoresCritical
  <2> QED
    BY <2>1, <2>3, <2>4, <2>5, <2>6
<1>2. IInv => AuditExplains
  BY <1>1 DEF AuditExplains
<1> QED
  BY <1>2, Invariance, PTL

-----------------------------------------------------------------------------
(* A start that stopped can be repeated *)

\* What a configuration needs to be started.
LEMMA CanStart ==
    ASSUME NEW c \in Configs, NEW p \in Candidates(c),
           stores[PolicyStore] \in NeedsWitness => c \in NeedsWitness,
           c \in NeedsWitness => WitnessCurrent \/ Witnessable,
           PublicationAdmits(c, Len(p.history)),
           Publishing \/ WellFormed(WithIntent(c, Len(p.history))),
           Continuity \in {"verified", "legacy_unavailable", "forward_recovery"},
           c \notin HasOptional => OptionalStores \cap Recorded = {}
    PROVE  Startable
<1>1. Len(p.history) \in Previews(c)
  BY DEF Previews
<1> QED
  BY <1>1 DEF Startable

LEMMA EnrolCandidate ==
    ASSUME NEW c \in Configs, ~Enrolled, Contiguous(profile)
    PROVE  \E p \in Candidates(c) : Len(p.history) = 1
<1> DEFINE p == [history |-> <<c>>, pending |-> NULL]
<1>1. p.history = <<c>> /\ p.pending = NULL /\ Len(p.history) = 1
  OBVIOUS
<1>2. p.history = Append(profile.history, c)
  BY <1>1 DEF Enrolled
<1> HIDE DEF p
<1>3. Contiguous(p)
  BY <1>1 DEF Contiguous
<1>4. p \in {[history |-> <<c>>, pending |-> NULL], profile,
             [history |-> Append(profile.history, c), pending |-> NULL]}
  BY DEF p
<1>5. p \in Candidates(c)
  BY <1>2, <1>3, <1>4 DEF Candidates
<1> QED
  BY <1>1, <1>5

LEMMA KeepCandidate ==
    ASSUME NEW c \in Configs, Enrolled, ActiveProfile = c, Contiguous(profile)
    PROVE  profile \in Candidates(c)
BY DEF Candidates

LEMMA RotateCandidate ==
    ASSUME ProfileTypeOK, NEW c \in Configs, Enrolled, profile.pending = c,
           Contiguous(profile)
    PROVE  \E p \in Candidates(c) : Len(p.history) = Generation + 1
<1> DEFINE h == Append(profile.history, c)
           p == [history |-> h, pending |-> NULL]
<1>1. p.history = h /\ p.pending = NULL
  OBVIOUS
<1>2. /\ profile.history \in Seq(Configs) /\ profile.history # <<>>
      /\ Generation = Len(profile.history) /\ Generation \in Nat
      /\ Len(h) = Generation + 1 /\ h[Generation + 1] = c
      /\ \A g \in 1..Generation : h[g] = profile.history[g]
      /\ Generation \in 1..Generation
  BY AppendedIs DEF ProfileTypeOK, Enrolled, Generation
<1>3. /\ ActiveProfile # c
      /\ \A g \in 1..Generation - 1 : profile.history[g] # profile.history[g + 1]
  BY <1>2, ConfigAssumption DEF Contiguous, ActiveProfile
<1> HIDE DEF h
<1>4. \A g \in 1..Len(h) - 1 : h[g] # h[g + 1]
  <2> TAKE g \in 1..Len(h) - 1
  <2>1. CASE g = Generation
    BY <2>1, <1>2, <1>3 DEF ActiveProfile
  <2>2. CASE g # Generation
    <3>1. g \in 1..Generation - 1 /\ g \in 1..Generation /\ g + 1 \in 1..Generation
      BY <2>2, <1>2
    <3> QED
      BY <1>2, <1>3, <3>1
  <2> QED
    BY <2>1, <2>2
<1>5. Contiguous(p)
  BY <1>1, <1>4 DEF Contiguous
<1>6. p \in Candidates(c)
  <2>1. p \in {[history |-> <<c>>, pending |-> NULL], profile,
               [history |-> Append(profile.history, c), pending |-> NULL]}
    BY DEF h
  <2>2. p.history = Append(profile.history, c)
    BY <1>1 DEF h
  <2> HIDE DEF p
  <2> QED
    BY <1>3, <1>5, <2>1, <2>2 DEF Candidates
<1> QED
  BY <1>1, <1>2, <1>6

\* A start that stopped can be repeated, except behind an optional store that
\* was dropped, or a required witness that waits for the anchor.
THEOREM NotStuck == Spec => []StuckOnlyKnown
<1>1. ASSUME IInv, restored = {}, ~OptionalLeftBehind, ~WitnessWindow
      PROVE  Startable
  <2>1. /\ TypeOK /\ ProfileTypeOK /\ PublicationTypeOK
        /\ Contiguous(profile) /\ StillWitnessed
        /\ Continuity \in {"verified", "legacy_unavailable", "forward_recovery"}
        /\ Unpublished \/ Completed \/ (Publishing /\ (Prepared \/ Applying))
        /\ pub # NULL => Linked(pub)
    BY <1>1 DEF IInv, FilesSound, TypeOK, RecordsLinked
  <2>2. CASE Unpublished
    <3>1. PICK c \in Configs \ NeedsWitness : TRUE
      BY FirstStartAssumption
    <3>2. PICK p \in Candidates(c) : Len(p.history) = 1
      BY <2>1, <2>2, EnrolCandidate DEF Unpublished
    <3>3. /\ stores[PolicyStore] \notin NeedsWitness
          /\ OptionalStores \cap Recorded = {}
      BY <2>2, Order, ConfigAssumption DEF Unpublished, Recorded
    <3>4. PublicationAdmits(c, 1)
      BY <2>2 DEF Unpublished, PublicationAdmits
    <3>5. WellFormed(WithIntent(c, 1))
      <4> DEFINE a == [profile |-> c, generation |-> 1, stamp |-> clock + 1,
                       prior |-> GENESIS]
      <4>1. Stored = [active |-> NULL, completed |-> NULL, sequence |-> 0]
        BY <2>2 DEF Unpublished, Stored
      <4>2. WithIntent(c, 1) = [active |-> a, completed |-> NULL, sequence |-> 0]
        BY <4>1, ConfigAssumption DEF WithIntent, SequenceOf
      <4>3. a # NULL /\ a.prior = GENESIS
        <5>1. a \in Intents
          BY <2>1 DEF Intents, PublicationTypeOK, GENESIS
        <5> QED
          BY <5>1, AbsentAssumption
      <4> HIDE DEF a
      <4> QED
        BY <4>2, <4>3 DEF WellFormed
    <3> QED
      BY <2>1, <3>1, <3>2, <3>3, <3>4, <3>5, CanStart
  <2>3. CASE Completed
    <3> DEFINE c == ActiveProfile
               done == pub.completed
               w == WithIntent(c, Generation)
    <3>1. /\ pub # NULL /\ pub.active = NULL /\ Enrolled
          /\ done.profile = c /\ done.generation = Generation
          /\ CompletedIntact(c)
      BY <2>3 DEF Completed, Matches
    <3>2. c \in Configs
      <4>1. profile.history \in Seq(Configs)
        BY <2>1 DEF ProfileTypeOK
      <4> QED
        BY <3>1, <4>1, AppendedIs DEF Enrolled, ActiveProfile, Generation
    <3>3. /\ done # NULL /\ Linked(pub) /\ done \in Checkpoints
          /\ done.generation \in Nat
      BY <2>1, <3>1, StateFields, CheckpointFields
         DEF Linked, WellFormed, PublicationTypeOK
    <3>4. ManifestMatches(c) /\ \A s \in Recorded : stores[s] = c
      BY <2>1, <3>1, <3>2, IntactMatches
    <3>5. stores[PolicyStore] = c /\ stores["state_storage"] = c
      BY <3>1, Order DEF CompletedIntact, Stores, RequiredStores, OptionalStores
    <3>6. profile \in Candidates(c)
      BY <2>1, <3>1, <3>2, KeepCandidate
    <3>7. PublicationAdmits(c, Generation)
      BY <3>1, <3>4 DEF PublicationAdmits
    <3>8. c \notin HasOptional => OptionalStores \cap Recorded = {}
      BY <3>1 DEF CompletedIntact, Recorded
    <3>9. c \in NeedsWitness => Witnessable
      <4> SUFFICES ASSUME c \in NeedsWitness PROVE Witnessable
        OBVIOUS
      <4>1. Numbered(pub)
        BY <3>1, <3>3 DEF Linked, Numbered
      <4>2. Continuity # "forward_recovery"
        BY <1>1, <3>5 DEF WitnessWindow
      <4>3. Continuity = "verified" /\ AnchorAt(pub, cont)
        BY <2>1, <3>1, <3>3, <4>1, <4>2, ContinuityOfFiles DEF AnchorMissing
      <4> QED
        BY <3>1, <3>3, <3>4, <3>5, <4>3 DEF Witnessable, Matches, AnchorAt
    <3>10. WellFormed(w)
      <4> DEFINE a == [profile |-> c, generation |-> Generation,
                       stamp |-> clock + 1, prior |-> done.stamp]
      <4>1. Stored = pub
        BY <3>1 DEF Stored
      <4>2. /\ w.active = a /\ w.completed = done /\ w.sequence = SequenceOf(pub)
        BY <3>3, <4>1 DEF WithIntent
      <4>3. a.profile = c /\ a.generation = Generation /\ a.prior = done.stamp
        OBVIOUS
      <4> HIDE DEF w, a
      <4>4. Generation - done.generation = 0
        BY <3>1, <3>3
      <4>5. w.sequence = 0 => done.prior = NULL
        <5>1. CASE pub.sequence = NULL
          BY <5>1, <3>3, <4>2 DEF SequenceOf
        <5>2. CASE pub.sequence # NULL
          BY <5>2, <3>3, <4>2 DEF SequenceOf, Linked, WellFormed
        <5> QED
          BY <5>1, <5>2
      <4> QED
        BY <3>1, <3>3, <4>2, <4>3, <4>4, <4>5 DEF WellFormed
    <3> HIDE DEF c, w
    <3>11. Len(profile.history) = Generation
      BY DEF Generation
    <3>12. c \in NeedsWitness => WitnessCurrent \/ Witnessable
      BY <3>9
    <3>13. Publishing \/ WellFormed(WithIntent(c, Len(profile.history)))
      BY <3>10, <3>11 DEF w
    <3>14. PublicationAdmits(c, Len(profile.history))
      BY <3>7, <3>11
    <3> QED
      BY <2>1, <3>2, <3>5, <3>6, <3>8, <3>12, <3>13, <3>14, CanStart
  <2>4. CASE Publishing /\ (Prepared \/ Applying)
    <3> DEFINE c == pub.active.profile
               g == pub.active.generation
    <3>1. /\ pub # NULL /\ pub.active # NULL /\ c \in Configs
          /\ Publishing
      BY <2>1, <2>4, NullStores DEF Publishing
    <3>2. \E p \in Candidates(c) : Len(p.history) = g
      <4>1. CASE Prepared /\ pub.completed = NULL
        BY <4>1, <2>1, <3>1, EnrolCandidate DEF Prepared
      <4>2. CASE Prepared /\ pub.completed # NULL
        BY <4>2, <2>1, <3>1, RotateCandidate DEF Prepared, Matches
      <4>3. CASE Applying
        BY <4>3, <2>1, <3>1, KeepCandidate DEF Applying, Matches, Generation
      <4> QED
        BY <2>4, <4>1, <4>2, <4>3
    <3>3. PICK p \in Candidates(c) : Len(p.history) = g
      BY <3>2
    <3>4. PublicationAdmits(c, g)
      BY <3>1 DEF PublicationAdmits, Matches
    <3>5. /\ stores[PolicyStore] \in NeedsWitness => c \in NeedsWitness
          /\ c \in NeedsWitness => WitnessCurrent
      BY <2>1, <3>1 DEF StillWitnessed
    <3>6. c \notin HasOptional => OptionalStores \cap Recorded = {}
      BY <1>1, <3>1 DEF OptionalLeftBehind
    <3> HIDE DEF c, g
    <3> QED
      BY <2>1, <3>1, <3>3, <3>4, <3>5, <3>6, CanStart
  <2> QED
    BY <2>1, <2>2, <2>3, <2>4
<1>2. IInv => StuckOnlyKnown
  BY <1>1 DEF StuckOnlyKnown
<1> QED
  BY <1>2, Invariance, PTL

===========================================================================
