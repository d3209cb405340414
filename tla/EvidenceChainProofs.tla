------------------------ MODULE EvidenceChainProofs ------------------------
(***************************************************************************)
(* What the evidence chain promises, for any number of records, batches,   *)
(* stops and failed writes, and any lag of the witness.                    *)
(***************************************************************************)
EXTENDS EvidenceChainProperties, TLAPS

-----------------------------------------------------------------------------
(* The shape of a chain *)

\* Each line extends the one before it, hashes grow, and only the last line can
\* be other than whole.
Chained(lines, newest) ==
    /\ lines \in Seq(Lines)
    /\ \A i \in 1..Len(lines) :
         /\ lines[i].prev = IF i = 1 THEN GENESIS ELSE lines[i - 1].hash
         /\ lines[i].prev < lines[i].hash /\ lines[i].hash <= newest
         /\ i < Len(lines) => lines[i].form = "whole"
    /\ \A i, j \in 1..Len(lines) : i < j => lines[i].hash < lines[j].hash

\* The ids of a chain were given out and are different.
Numbered(lines, given) ==
    /\ \A i \in 1..Len(lines) : lines[i].id <= given
    /\ \A i, j \in 1..Len(lines) : lines[i].id = lines[j].id => i = j

\* The last line is no record.
Torn(lines) == lines # << >> /\ lines[Len(lines)].form = "garbage"

\* A position that the chain has gone through.
OnChain(at, lines) ==
    /\ at.count <= Len(lines)
    /\ at.hash = IF at.count = 0 THEN GENESIS ELSE lines[at.count].hash

\* A record has its place in the chain, or was written behind a line that had
\* lost its newline.
Placed(r, lines) ==
    \E i \in 1..Len(lines) : lines[i].hash = r.hash /\ lines[i].prev = r.prev

Overwritten(r, lines) == Torn(lines) /\ r.prev = lines[Len(lines)].hash

\* One chain goes on where the other one ends, but for the form of its last line.
Extends(longer, lines) ==
    /\ Len(lines) <= Len(longer)
    /\ \A i \in 1..Len(lines) :
         /\ longer[i].id = lines[i].id
         /\ longer[i].hash = lines[i].hash /\ longer[i].prev = lines[i].prev

-----------------------------------------------------------------------------
(* The inductive invariant *)

LogSound == Chained(log, clock) /\ Numbered(log, ids)

CopySound ==
    copy # NULL =>
      /\ copy.head \in Positions
      /\ Chained(copy.log, clock) /\ Numbered(copy.log, ids)
      /\ restored = {} => Extends(log, copy.log)

\* A record that is about to be written, and is not the journaled one, is new.
Fresh(process, entry, lines, given) ==
    /\ entry # NULL => entry <= given
    /\ process.pc \in {"append", "advance"} => process.id \in Nat /\ process.id <= given
    /\ process.pc = "append" /\ entry # process.id =>
         \A i \in 1..Len(lines) : lines[i].id # process.id

IdsFresh == Fresh(proc, journal, log, ids)

BothRestored == {"log", "head"} \subseteq restored

\* The line is written and the head is not: the line is one past the head, or
\* it was lost behind an unterminated one.
Written(at, lines, newest, records, both) ==
    /\ at # NULL /\ lines # << >>
    /\ \/ /\ lines[Len(lines)].form = "whole" /\ Len(lines) = at.count + 1
          /\ lines[Len(lines)].hash = newest /\ lines[Len(lines)].prev = at.hash
       \/ /\ Torn(lines) /\ Len(lines) = at.count
          /\ lines[Len(lines)].hash = at.hash /\ at.hash < newest
    /\ \A r \in records : r.hash < newest /\ (both \/ Placed(r, lines))

Advancing ==
    proc.pc = "advance" => Written(head, log, clock, sealed, BothRestored)

\* A record that was sealed.
RecordsSound == \A r \in sealed : r.prev < r.hash /\ r.hash <= clock

Kept ==
    "log" \notin restored =>
      \A r \in sealed : Placed(r, log) \/ Overwritten(r, log)

HeadCovers ==
    "head" \notin restored =>
      \A r \in sealed : head # NULL /\ r.hash <= head.hash

\* A log put back without its head is usable only if no sealed record is gone.
LogAloneComplete ==
    "log" \in restored /\ "head" \notin restored /\ ~Torn(log)
      /\ head # NULL /\ OnChain(head, log)
    => \A r \in sealed : Placed(r, log)

HeadOnChain ==
    restored = {} /\ head # NULL =>
      OnChain(head, log) \/ (Torn(log) /\ head.count = Len(log) + 1)

Forks(old, new) == old.prev = new.prev /\ old.hash < new.hash

ForkOnlyRestored ==
    \A old, new \in sealed : Forks(old, new) => BothRestored

\* The witness, as long as it is the one made before a restore.
WitnessSound ==
    /\ required => witness # NULL /\ head # NULL
    /\ witness # NULL => witness.hash <= clock
    /\ restored = {} /\ witness # NULL => OnChain(witness, log)
    /\ "witness" \notin restored =>
         \A w \in witnessed : witness # NULL /\ w <= witness.hash

WitnessHeld ==
    required /\ proc.pc # "down" /\ "witness" \notin restored =>
      OnChain(witness, log)

\* A chain that holds the witness holds every record it covers.
WitnessCovers ==
    "witness" \notin restored /\ witness # NULL /\ OnChain(witness, log) =>
      \A r \in sealed : Placed(r, log) \/ r.prev >= witness.hash

ForkUnwitnessed ==
    "witness" \notin restored =>
      \A old, new \in sealed : \A w \in witnessed :
        Forks(old, new) /\ old.hash <= w => ~required /\ ~OnChain(witness, log)

IInv ==
    /\ TypeOK /\ LogSound /\ CopySound /\ IdsFresh /\ Advancing /\ RecordsSound
    /\ Kept /\ HeadCovers /\ LogAloneComplete /\ HeadOnChain /\ ForkOnlyRestored
    /\ WitnessSound /\ WitnessHeld /\ WitnessCovers /\ ForkUnwitnessed

-----------------------------------------------------------------------------
(* Chains *)

LEMMA Types ==
    ASSUME TypeOK
    PROVE  /\ log \in Seq(Lines) /\ Len(log) \in Nat /\ DOMAIN log = 1..Len(log)
           /\ \A i \in 1..Len(log) :
                /\ log[i] \in Lines
                /\ log[i].id \in Nat /\ log[i].hash \in Nat /\ log[i].prev \in Nat
           /\ \A r \in sealed : r \in Lines /\ r.hash \in Nat /\ r.prev \in Nat
           /\ head # NULL => head \in Positions /\ head.count \in Nat /\ head.hash \in Nat
           /\ witness # NULL =>
                witness \in Positions /\ witness.count \in Nat /\ witness.hash \in Nat
           /\ clock \in Nat /\ ids \in Nat /\ GENESIS \in Nat
           /\ witnessed \subseteq Nat
  <1>1. \A r \in Lines : r.id \in Nat /\ r.hash \in Nat /\ r.prev \in Nat
    BY DEF Lines
  <1>2. log \in Seq(Lines) /\ sealed \subseteq Lines
    BY DEF TypeOK
  <1>3. \A i \in 1..Len(log) : log[i] \in Lines
    BY <1>2
  <1>4. /\ head # NULL => head \in Positions /\ head.count \in Nat /\ head.hash \in Nat
        /\ witness # NULL =>
             witness \in Positions /\ witness.count \in Nat /\ witness.hash \in Nat
        /\ clock \in Nat /\ ids \in Nat /\ GENESIS \in Nat /\ witnessed \subseteq Nat
    BY DEF TypeOK, Positions, GENESIS
  <1>5. Len(log) \in Nat /\ DOMAIN log = 1..Len(log)
    BY <1>2
  <1> QED
    BY <1>1, <1>2, <1>3, <1>4, <1>5

LEMMA ChainFields ==
    ASSUME NEW lines, NEW newest \in Nat, Chained(lines, newest)
    PROVE  /\ lines \in Seq(Lines) /\ Len(lines) \in Nat
           /\ \A i \in 1..Len(lines) :
                /\ lines[i] \in Lines
                /\ lines[i].id \in Nat /\ lines[i].hash \in Nat /\ lines[i].prev \in Nat
  <1>1. \A r \in Lines : r.id \in Nat /\ r.hash \in Nat /\ r.prev \in Nat
    BY DEF Lines
  <1>2. lines \in Seq(Lines)
    BY DEF Chained
  <1>3. Len(lines) \in Nat /\ \A i \in 1..Len(lines) : lines[i] \in Lines
    BY <1>2
  <1> QED
    BY <1>1, <1>2, <1>3

\* Two lines of a chain that extend the same line are the same.
LEMMA PrevUnique ==
    ASSUME NEW lines, NEW newest \in Nat, Chained(lines, newest),
           NEW i \in 1..Len(lines), NEW j \in 1..Len(lines), lines[i].prev = lines[j].prev
    PROVE  i = j
  <1>1. lines \in Seq(Lines) /\ Len(lines) \in Nat
    BY ChainFields
  <1>2. ASSUME NEW a \in 1..Len(lines), NEW b \in 1..Len(lines), a < b
        PROVE  lines[a].prev # lines[b].prev
    <2>1. /\ b # 1 /\ b - 1 \in 1..Len(lines) /\ a <= b - 1
      BY <1>1, <1>2
    <2>2. /\ lines[b].prev = lines[b - 1].hash /\ lines[a].prev < lines[a].hash
          /\ lines[a].hash \in Nat /\ lines[b - 1].hash \in Nat /\ lines[a].prev \in Nat
      BY <2>1, ChainFields DEF Chained
    <2>3. a < b - 1 => lines[a].hash < lines[b - 1].hash
      BY <2>1 DEF Chained
    <2>4. a = b - 1 \/ a < b - 1
      BY <1>1, <2>1
    <2> QED
      BY <2>2, <2>3, <2>4
  <1> QED
    BY <1>1, <1>2

LEMMA Monotone ==
    ASSUME NEW lines, NEW newest \in Nat, Chained(lines, newest),
           NEW i \in 1..Len(lines), NEW j \in 1..Len(lines)
    PROVE  /\ i <= j <=> lines[i].hash <= lines[j].hash
           /\ i < j => lines[i].hash <= lines[j].prev
  <1>1. /\ lines \in Seq(Lines) /\ Len(lines) \in Nat
        /\ lines[i].hash \in Nat /\ lines[j].hash \in Nat
    BY ChainFields
  <1>2. i <= j <=> lines[i].hash <= lines[j].hash
    BY <1>1, SMTT(40) DEF Chained
  <1>3. ASSUME i < j PROVE lines[i].hash <= lines[j].prev
    <2>1. /\ j # 1 /\ j - 1 \in 1..Len(lines) /\ (i = j - 1 \/ i < j - 1)
      BY <1>1, <1>3
    <2>2. lines[j].prev = lines[j - 1].hash /\ lines[j - 1].hash \in Nat
      BY <2>1, ChainFields DEF Chained
    <2>3. i < j - 1 => lines[i].hash < lines[j - 1].hash
      BY <2>1 DEF Chained
    <2> QED
      BY <1>1, <2>1, <2>2, <2>3
  <1> QED
    BY <1>2, <1>3

\* What reading a chain comes to.
LEMMA ReadsWhole ==
    ASSUME NEW lines, NEW newest \in Nat, Chained(lines, newest)
    PROVE  Verified(lines) <=> ~Torn(lines)
  <1>1. lines \in Seq(Lines) /\ Len(lines) \in Nat /\ DOMAIN lines = 1..Len(lines)
    BY ChainFields
  <1>2. lines # << >> <=> Len(lines) # 0
    BY <1>1
  <1>3. ASSUME Verified(lines) PROVE ~Torn(lines)
    BY <1>1, <1>2, <1>3 DEF Verified, Torn
  <1>4. ASSUME ~Torn(lines) PROVE Verified(lines)
    <2> SUFFICES ASSUME NEW i \in 1..Len(lines)
                 PROVE  /\ lines[i].form # "garbage"
                        /\ lines[i].prev = IF i = 1 THEN GENESIS ELSE lines[i - 1].hash
      BY <1>1 DEF Verified
    <2>1. i < Len(lines) => lines[i].form = "whole"
      BY DEF Chained
    <2>2. i = Len(lines) => lines[i].form # "garbage"
      BY <1>2, <1>4 DEF Torn
    <2>3. i < Len(lines) \/ i = Len(lines)
      <3>1. Len(lines) \in Nat
        BY <1>1
      <3> QED
        BY <3>1
    <2> QED
      BY <2>1, <2>2, <2>3 DEF Chained
  <1> QED
    BY <1>3, <1>4

LEMMA Assessed ==
    ASSUME NEW at \in Positions, NEW lines \in Seq(Lines)
    PROVE  /\ Assess(at, lines) \in {"verified", "forward_recovery"} <=> OnChain(at, lines)
           /\ Assess(at, lines) = "verified" <=>
                OnChain(at, lines) /\ at.count = Len(lines)
           /\ Position(lines) \in Positions /\ OnChain(Position(lines), lines)
           /\ Position(lines).count = Len(lines)
  <1>1. /\ Len(lines) \in Nat /\ at.count \in Nat /\ at.hash \in Nat
        /\ lines = << >> <=> Len(lines) = 0
        /\ lines # << >> => lines[Len(lines)].hash \in Nat
    <2>1. \A r \in Lines : r.hash \in Nat
      BY DEF Lines
    <2>2. Len(lines) \in Nat /\ (lines = << >> <=> Len(lines) = 0)
      OBVIOUS
    <2>3. lines # << >> => lines[Len(lines)] \in Lines
      BY <2>2
    <2>4. at.count \in Nat /\ at.hash \in Nat
      BY DEF Positions
    <2> QED
      BY <2>1, <2>2, <2>3, <2>4
  <1>2. /\ Position(lines).count = Len(lines)
        /\ Position(lines).hash = IF Len(lines) = 0 THEN GENESIS ELSE lines[Len(lines)].hash
    BY <1>1 DEF Position
  <1>3. Position(lines) \in Positions
    BY <1>1 DEF Position, Positions, GENESIS
  <1>4. OnChain(Position(lines), lines)
    BY <1>1, <1>2 DEF OnChain
  <1>5. /\ Assess(at, lines) \in {"verified", "forward_recovery"} <=> OnChain(at, lines)
        /\ Assess(at, lines) = "verified" <=>
             OnChain(at, lines) /\ at.count = Len(lines)
    BY <1>1, <1>2 DEF Assess, OnChain
  <1> QED
    BY <1>2, <1>3, <1>4, <1>5

\* No position of a chain is past its end.
LEMMA EndIsNewest ==
    ASSUME NEW lines, NEW newest \in Nat, Chained(lines, newest),
           NEW at \in Positions, OnChain(at, lines)
    PROVE  /\ at.hash <= Position(lines).hash
           /\ Position(lines).hash <= newest /\ Position(lines).hash \in Nat
  <1>1. /\ lines \in Seq(Lines) /\ Len(lines) \in Nat /\ at.count \in Nat
        /\ lines = << >> <=> Len(lines) = 0
    BY ChainFields DEF Positions
  <1>2. Position(lines).hash = IF Len(lines) = 0 THEN GENESIS ELSE lines[Len(lines)].hash
    BY <1>1 DEF Position
  <1>3. CASE Len(lines) = 0
    BY <1>1, <1>2, <1>3 DEF OnChain, GENESIS
  <1>4. CASE Len(lines) # 0
    <2>1. Len(lines) \in 1..Len(lines)
      BY <1>1, <1>4
    <2>2. lines[Len(lines)].hash <= newest /\ lines[Len(lines)].hash \in Nat
      BY <2>1, ChainFields DEF Chained
    <2>3. at.hash <= lines[Len(lines)].hash
      <3>1. CASE at.count = 0
        BY <2>2, <3>1 DEF OnChain, GENESIS
      <3>2. CASE at.count # 0
        <4>1. at.count \in 1..Len(lines) /\ at.hash = lines[at.count].hash
          BY <1>1, <3>2 DEF OnChain
        <4> QED
          BY <2>1, <4>1, Monotone
      <3> QED
        BY <3>1, <3>2
    <2> QED
      BY <1>2, <1>4, <2>2, <2>3
  <1> QED
    BY <1>3, <1>4

\* A record of a chain is one of its lines, and its predecessor comes before.
LEMMA PlacedBefore ==
    ASSUME NEW lines, NEW newest \in Nat, Chained(lines, newest),
           NEW r \in Lines, Placed(r, lines)
    PROVE  /\ r.prev < r.hash /\ r.hash <= Position(lines).hash
           /\ lines # << >> /\ Position(lines).hash = lines[Len(lines)].hash
           /\ \A j \in 1..Len(lines) : lines[j].prev = r.prev => lines[j].hash = r.hash
  <1>1. PICK i \in 1..Len(lines) : lines[i].hash = r.hash /\ lines[i].prev = r.prev
    BY DEF Placed
  <1>2. lines \in Seq(Lines) /\ Len(lines) \in Nat /\ Len(lines) \in 1..Len(lines)
    BY <1>1, ChainFields
  <1>3. lines # << >> /\ Position(lines).hash = lines[Len(lines)].hash
    BY <1>2 DEF Position
  <1>4. r.prev < r.hash
    BY <1>1 DEF Chained
  <1>5. r.hash <= Position(lines).hash
    <2>1. i <= Len(lines)
      BY <1>2
    <2> QED
      BY <1>1, <1>2, <1>3, <2>1, Monotone
  <1>6. ASSUME NEW j \in 1..Len(lines), lines[j].prev = r.prev PROVE lines[j].hash = r.hash
    BY <1>1, <1>6, PrevUnique
  <1> QED
    BY <1>3, <1>4, <1>5, <1>6

-----------------------------------------------------------------------------
(* What the invariant gives *)

LEMMA InvImplies ==
    IInv => AcknowledgedKept /\ RecordedOnce /\ ChainDoesNotFork /\ StuckOnlyKnown
  <1> SUFFICES ASSUME IInv
               PROVE  AcknowledgedKept /\ RecordedOnce /\ ChainDoesNotFork /\ StuckOnlyKnown
    OBVIOUS
  <1>1. /\ Chained(log, clock) /\ clock \in Nat /\ log \in Seq(Lines)
        /\ DOMAIN log = 1..Len(log) /\ Len(log) \in Nat
    BY Types DEF IInv, LogSound
  <1>2. AcknowledgedKept
    <2> SUFFICES ASSUME "log" \notin restored, NEW r \in sealed, ~Readable(r)
                 PROVE  LostToTornLine(r)
      BY DEF AcknowledgedKept
    <2>1. CASE Overwritten(r, log)
      BY <2>1 DEF Overwritten, Torn, LostToTornLine
    <2>2. CASE Placed(r, log)
      <3>1. PICK i \in 1..Len(log) : log[i].hash = r.hash
        BY <2>2 DEF Placed
      <3>2. log[i].form = "garbage"
        BY <1>1, <3>1 DEF Readable
      <3>3. ~(i < Len(log))
        BY <1>1, <3>2 DEF Chained
      <3>4. i = Len(log) /\ log # << >>
        <4>1. Len(log) \in Nat
          BY <1>1
        <4>2. i = Len(log) /\ Len(log) # 0
          BY <3>3, <4>1
        <4> QED
          BY <4>2
      <3> QED
        BY <3>1, <3>2, <3>4 DEF LostToTornLine
    <2> QED
      BY <2>1, <2>2 DEF IInv, Kept
  <1>3. RecordedOnce
    BY <1>1 DEF IInv, LogSound, Numbered, RecordedOnce
  <1>4. ChainDoesNotFork
    BY DEF IInv, ForkOnlyRestored, ForkUnwitnessed, Forks, BothRestored, ChainDoesNotFork
  <1>5. StuckOnlyKnown
    <2> SUFFICES ASSUME restored = {}, Verified(log), ~LagWindow
                 PROVE  HeadUsable /\ (required => WitnessOk(witness) \/ Witnessable)
      BY DEF StuckOnlyKnown
    <2>1. ~Torn(log)
      BY <1>1, ReadsWhole
    <2>2. head # NULL => head \in Positions /\ OnChain(head, log)
      BY <2>1, Types DEF IInv, HeadOnChain
    <2>3. HeadUsable
      BY <1>1, <2>2, Assessed DEF HeadUsable
    <2>4. ASSUME required, ~WitnessOk(witness) PROVE Witnessable
      <3>1. /\ witness # NULL /\ head # NULL /\ witness \in Positions
            /\ OnChain(witness, log) /\ witness.count \in Nat /\ head.count \in Nat
        BY <2>4, Types DEF IInv, WitnessSound
      <3>2. ~(Len(log) - witness.count <= MaxLag)
        BY <1>1, <2>4, <3>1, Assessed DEF WitnessOk
      <3>3. MaxLag \in Nat
        BY ChainAssumption
      <3>4. ~(head.count < Len(log))
        BY <1>1, <2>4, <3>1, <3>2, <3>3 DEF LagWindow
      <3>5. head.count = Len(log)
        BY <1>1, <2>2, <3>1, <3>4 DEF OnChain
      <3> QED
        BY <1>1, <2>2, <3>1, <3>5, Assessed DEF Witnessable
    <2> QED
      BY <2>3, <2>4
  <1> QED
    BY <1>2, <1>3, <1>4, <1>5

LEMMA InitHolds == Init => IInv
  <1> SUFFICES ASSUME Init PROVE IInv
    OBVIOUS
  <1>1. TypeOK
    <2>1. /\ Down \in [pc : {"down", "up", "append", "advance", "clear"},
                       id : Nat \cup {NULL}, left : Nat, doc : Positions \cup {NULL}]
          /\ << >> \in Seq(Lines)
      BY DEF Down
    <2> QED
      BY <2>1 DEF Init, TypeOK, GENESIS
  <1>2. LogSound
    BY DEF Init, LogSound, Chained, Numbered
  <1>3. CopySound /\ IdsFresh /\ Advancing
    BY DEF Init, CopySound, IdsFresh, Fresh, Advancing, Down
  <1>4. /\ RecordsSound /\ Kept /\ HeadCovers /\ LogAloneComplete /\ HeadOnChain
        /\ ForkOnlyRestored /\ WitnessSound /\ WitnessHeld /\ WitnessCovers
        /\ ForkUnwitnessed
    BY DEF Init, RecordsSound, Kept, HeadCovers, LogAloneComplete, HeadOnChain,
           ForkOnlyRestored, WitnessSound, WitnessHeld, WitnessCovers, ForkUnwitnessed
  <1> QED
    BY <1>1, <1>2, <1>3, <1>4 DEF IInv

-----------------------------------------------------------------------------
(* The process moves, and the files and what was sealed stay *)

Process ==
    [pc : {"down", "up", "append", "advance", "clear"},
     id : Nat \cup {NULL}, left : Nat, doc : Positions \cup {NULL}]

LEMMA Quiet ==
    ASSUME IInv,
           UNCHANGED <<log, head, witness, required, clock, copy, restored, sealed, witnessed>>,
           proc' \in Process, journal' \in Nat \cup {NULL}, sentinels' \subseteq {LOG, HEAD},
           ids' \in Nat, ids <= ids', faults' \in Nat,
           Fresh(proc', journal', log, ids'),
           proc'.pc # "advance", proc.pc = "down" => proc'.pc = "down"
    PROVE  IInv'
  <1>1. TypeOK'
    BY DEF IInv, TypeOK, Process
  <1>2. LogSound' /\ CopySound'
    <2>1. ids \in Nat /\ clock \in Nat
      BY Types DEF IInv
    <2>2. ASSUME NEW lines, Chained(lines, clock), Numbered(lines, ids)
          PROVE  Numbered(lines, ids')
      <3>1. \A i \in 1..Len(lines) : lines[i].id \in Nat
        BY <2>1, <2>2, ChainFields
      <3> QED
        BY <2>1, <2>2, <3>1 DEF Numbered
    <2> QED
      BY <2>2 DEF IInv, LogSound, CopySound
  <1>3. IdsFresh' /\ Advancing' /\ WitnessHeld'
    BY DEF IInv, IdsFresh, Advancing, WitnessHeld
  <1>4. /\ RecordsSound' /\ Kept' /\ HeadCovers' /\ LogAloneComplete' /\ HeadOnChain'
        /\ ForkOnlyRestored' /\ WitnessSound' /\ WitnessCovers' /\ ForkUnwitnessed'
    BY DEF IInv, RecordsSound, Kept, HeadCovers, LogAloneComplete, HeadOnChain,
           ForkOnlyRestored, BothRestored, WitnessSound, WitnessCovers, ForkUnwitnessed
  <1> QED
    BY <1>1, <1>2, <1>3, <1>4 DEF IInv

LEMMA ProcessType == ASSUME TypeOK PROVE proc \in Process
  BY DEF TypeOK, Process

\* The process is given its next record.
LEMMA Assigned ==
    ASSUME NEW process \in Process, NEW id \in Nat, NEW left \in Nat
    PROVE  LET x == [process EXCEPT !.pc = "append", !.id = id, !.left = left]
           IN  x \in Process /\ x.pc = "append" /\ x.id = id
  BY DEF Process

LEMMA ShutdownStep ==
    ASSUME IInv, Shutdown
    PROVE  IInv'
  <1>1. /\ proc' = Down /\ Down \in Process /\ Down.pc = "down"
        /\ UNCHANGED <<log, head, witness, required, clock, copy, restored, sealed, witnessed>>
        /\ UNCHANGED <<journal, sentinels, ids, faults>>
    BY DEF Shutdown, files, history, Down, Process
  <1>2. /\ journal \in Nat \cup {NULL} /\ sentinels \subseteq {LOG, HEAD} /\ ids \in Nat
        /\ faults \in Nat /\ (journal # NULL => journal <= ids)
    BY DEF IInv, TypeOK, IdsFresh, Fresh
  <1>3. Fresh(proc', journal, log, ids)
    BY <1>1, <1>2 DEF Fresh
  <1> QED
    BY <1>1, <1>2, <1>3, Quiet

LEMMA OperateStep ==
    ASSUME IInv, NEW batch \in 1..MaxBatch, NEW journaled \in BOOLEAN,
           Operate(batch, journaled)
    PROVE  IInv'
  <1> DEFINE x == [proc EXCEPT !.pc = "append", !.id = ids + 1, !.left = batch - 1]
  <1>1. /\ proc.pc = "up" /\ ids' = ids + 1 /\ proc' = x
        /\ journal' \in {ids + 1, NULL}
        /\ UNCHANGED <<log, head, witness, required, clock, copy, restored, sealed, witnessed>>
        /\ UNCHANGED <<sentinels, faults>>
    BY DEF Operate, files, history
  <1>2. /\ sentinels \subseteq {LOG, HEAD} /\ ids \in Nat /\ faults \in Nat
        /\ proc \in Process /\ batch - 1 \in Nat
    BY ProcessType, ChainAssumption DEF IInv, TypeOK
  <1>3. x \in Process /\ x.pc = "append" /\ x.id = ids + 1
    <2>1. ids + 1 \in Nat
      BY <1>2
    <2> QED
      BY <1>2, <2>1, Assigned, ZenonT(60)
  <1> HIDE DEF x
  <1>4. \A i \in 1..Len(log) : log[i].id <= ids /\ log[i].id \in Nat
    BY Types DEF IInv, LogSound, Numbered
  <1>5. Fresh(proc', journal', log, ids')
    BY <1>1, <1>2, <1>3, <1>4, ChainAssumption DEF Fresh
  <1>6. journal' \in Nat \cup {NULL} /\ ids' \in Nat /\ ids <= ids'
    BY <1>1, <1>2
  <1> QED
    BY <1>1, <1>2, <1>3, <1>5, <1>6, Quiet

LEMMA RecoverStep ==
    ASSUME IInv, Recover
    PROVE  IInv'
  <1> DEFINE x == [proc EXCEPT !.pc = "append", !.id = journal, !.left = 0]
  <1>1. /\ proc.pc = "up" /\ proc' = x /\ journal # NULL
        /\ UNCHANGED <<log, head, witness, required, clock, copy, restored, sealed, witnessed>>
        /\ UNCHANGED <<journal, sentinels, ids, faults>>
    BY DEF Recover, files, history
  <1>2. /\ sentinels \subseteq {LOG, HEAD} /\ ids \in Nat /\ faults \in Nat
        /\ journal \in Nat /\ journal <= ids /\ proc \in Process
    BY <1>1, ProcessType DEF IInv, TypeOK, IdsFresh, Fresh
  <1>3. x \in Process /\ x.pc = "append" /\ x.id = journal
    BY <1>2 DEF Process
  <1> HIDE DEF x
  <1>4. Fresh(proc', journal', log, ids')
    BY <1>1, <1>2, <1>3 DEF Fresh
  <1> QED
    BY <1>1, <1>2, <1>3, <1>4, Quiet

LEMMA ContinueStep ==
    ASSUME IInv, Continue
    PROVE  IInv'
  <1>1. /\ proc.pc = "clear" /\ journal' = NULL
        /\ UNCHANGED <<log, head, witness, required, clock, copy, restored, sealed, witnessed>>
        /\ UNCHANGED <<sentinels, faults>>
    BY DEF Continue, files, history
  <1>2. /\ sentinels \subseteq {LOG, HEAD} /\ ids \in Nat /\ faults \in Nat
        /\ proc \in Process /\ proc.left \in Nat
    BY ProcessType DEF IInv, TypeOK, Process
  <1>3. CASE proc.left = 0
    <2> DEFINE x == [proc EXCEPT !.pc = "up"]
    <2>1. proc' = x /\ ids' = ids
      BY <1>3 DEF Continue
    <2>2. x \in Process /\ x.pc = "up"
      BY <1>2 DEF Process
    <2> HIDE DEF x
    <2>3. Fresh(proc', journal', log, ids')
      BY <1>1, <2>1, <2>2 DEF Fresh
    <2> QED
      BY <1>1, <1>2, <2>1, <2>2, <2>3, Quiet
  <1>4. CASE proc.left # 0
    <2> DEFINE x == [proc EXCEPT !.pc = "append", !.id = ids + 1, !.left = @ - 1]
    <2>1. proc' = x /\ ids' = ids + 1
      BY <1>4 DEF Continue
    <2>2. x \in Process /\ x.pc = "append" /\ x.id = ids + 1
      <3>1. ids + 1 \in Nat /\ proc.left - 1 \in Nat
        BY <1>2, <1>4
      <3> QED
        BY <1>2, <3>1, Assigned, ZenonT(60)
    <2> HIDE DEF x
    <2>3. \A i \in 1..Len(log) : log[i].id <= ids /\ log[i].id \in Nat
      BY Types DEF IInv, LogSound, Numbered
    <2>4. Fresh(proc', journal', log, ids')
      BY <1>1, <1>2, <2>1, <2>2, <2>3 DEF Fresh
    <2>5. ids' \in Nat /\ ids <= ids'
      BY <1>2, <2>1
    <2> QED
      BY <1>1, <1>2, <2>1, <2>2, <2>4, <2>5, Quiet
  <1> QED
    BY <1>3, <1>4

LEMMA RaiseStep ==
    ASSUME IInv, Raise
    PROVE  IInv'
  <1> DEFINE x == [proc EXCEPT !.pc = "up"]
  <1>1. /\ proc.pc \in {"append", "advance"} /\ proc' = x
        /\ UNCHANGED <<log, head, witness, required, clock, copy, restored, sealed, witnessed>>
        /\ UNCHANGED <<journal, sentinels, ids>>
    BY DEF Raise, files, history
  <1>2. /\ sentinels \subseteq {LOG, HEAD} /\ ids \in Nat /\ faults' \in Nat
        /\ journal \in Nat \cup {NULL} /\ (journal # NULL => journal <= ids) /\ proc \in Process
    BY ProcessType DEF Raise, IInv, TypeOK, IdsFresh, Fresh
  <1>3. x \in Process /\ x.pc = "up"
    BY <1>2 DEF Process
  <1> HIDE DEF x
  <1>4. Fresh(proc', journal', log, ids')
    BY <1>1, <1>2, <1>3 DEF Fresh
  <1> QED
    BY <1>1, <1>2, <1>3, <1>4, Quiet

LEMMA DieStep ==
    ASSUME IInv, Die
    PROVE  IInv'
  <1>1. /\ proc' = Down /\ Down \in Process /\ Down.pc = "down"
        /\ UNCHANGED <<log, head, witness, required, clock, copy, restored, sealed, witnessed>>
        /\ UNCHANGED <<journal, ids>>
    BY DEF Die, files, history, Down, Process
  <1>2. /\ journal \in Nat \cup {NULL} /\ ids \in Nat
        /\ faults' \in Nat /\ (journal # NULL => journal <= ids)
    BY DEF Die, IInv, TypeOK, IdsFresh, Fresh
  <1>3. sentinels' \subseteq {LOG, HEAD}
    <2>1. sentinels \subseteq {LOG, HEAD}
      BY DEF IInv, TypeOK
    <2>2. PICK left \in SUBSET {LOG, HEAD} : sentinels' = sentinels \cup left
      <3>1. CASE proc.pc = "append"
        BY <3>1 DEF Die
      <3>2. CASE proc.pc = "advance"
        BY <3>2 DEF Die
      <3>3. CASE proc.pc \notin {"append", "advance"}
        BY <3>3 DEF Die
      <3> QED
        BY <3>1, <3>2, <3>3
    <2> QED
      BY <2>1, <2>2
  <1>4. Fresh(proc', journal, log, ids)
    BY <1>1, <1>2 DEF Fresh
  <1> QED
    BY <1>1, <1>2, <1>3, <1>4, Quiet

LEMMA RemoveSentinelStep ==
    ASSUME IInv, NEW f \in {LOG, HEAD}, RemoveSentinel(f)
    PROVE  IInv'
  <1>1. /\ proc.pc = "down" /\ sentinels' = sentinels \ {f}
        /\ UNCHANGED <<log, head, witness, required, clock, copy, restored, sealed, witnessed>>
        /\ UNCHANGED <<journal, proc, ids, faults>>
    BY DEF RemoveSentinel, files, history
  <1>2. /\ sentinels' \subseteq {LOG, HEAD} /\ ids \in Nat /\ faults \in Nat
        /\ journal \in Nat \cup {NULL} /\ proc \in Process /\ Fresh(proc, journal, log, ids)
    BY <1>1, ProcessType DEF IInv, TypeOK, IdsFresh
  <1> QED
    BY <1>1, <1>2, Quiet

-----------------------------------------------------------------------------
(* The head is brought up to the chain *)

LEMMA HeadMoves ==
    ASSUME IInv, Verified(log), HeadUsable, head' = Position(log),
           UNCHANGED <<log, journal, witness, clock, ids, copy, restored, sealed, witnessed>>,
           proc' \in Process, sentinels' \subseteq {LOG, HEAD}, faults' \in Nat,
           required' \in BOOLEAN, Fresh(proc', journal, log, ids), proc'.pc # "advance",
           required' => witness # NULL /\ (required \/ OnChain(witness, log)),
           required' /\ proc'.pc # "down" /\ "witness" \notin restored
             => OnChain(witness, log)
    PROVE  IInv'
  <1>1. /\ Chained(log, clock) /\ clock \in Nat /\ log \in Seq(Lines) /\ ~Torn(log)
    BY Types, ReadsWhole DEF IInv, LogSound
  <1>2. head # NULL => head \in Positions /\ OnChain(head, log)
    BY <1>1, Types, Assessed DEF IInv, HeadUsable
  <1>3. head' \in Positions /\ head' # NULL /\ OnChain(head', log)
    <2>1. [count |-> 0, hash |-> 0] \in Positions
      BY DEF Positions
    <2>2. Position(log) \in Positions /\ OnChain(Position(log), log)
      BY <1>1, <2>1, Assessed
    <2> QED
      BY <2>2, NullAssumption
  <1>4. head # NULL => head.hash <= head'.hash /\ head.hash \in Nat /\ head'.hash \in Nat
    BY <1>1, <1>2, EndIsNewest DEF Positions
  <1>5. TypeOK'
    BY <1>3 DEF IInv, TypeOK, Process
  <1>6. LogSound' /\ CopySound' /\ IdsFresh' /\ Advancing' /\ RecordsSound' /\ Kept'
    BY DEF IInv, LogSound, CopySound, IdsFresh, Advancing, RecordsSound, Kept
  <1>7. HeadCovers'
    <2> SUFFICES ASSUME "head" \notin restored, NEW r \in sealed
                 PROVE  head' # NULL /\ r.hash <= head'.hash
      BY DEF HeadCovers
    <2>1. head # NULL /\ r.hash <= head.hash /\ r.hash \in Nat
      BY Types DEF IInv, HeadCovers
    <2> QED
      BY <1>3, <1>4, <2>1
  <1>8. LogAloneComplete'
    <2> SUFFICES ASSUME "log" \in restored, "head" \notin restored, NEW r \in sealed
                 PROVE  Placed(r, log)
      BY DEF LogAloneComplete
    <2>1. head # NULL
      BY DEF IInv, HeadCovers
    <2> QED
      BY <1>1, <1>2, <2>1 DEF IInv, LogAloneComplete
  <1>9. HeadOnChain'
    BY <1>3 DEF HeadOnChain
  <1>10. ForkOnlyRestored' /\ WitnessCovers'
    BY DEF IInv, ForkOnlyRestored, BothRestored, WitnessCovers
  <1>11. WitnessSound'
    BY <1>3 DEF IInv, WitnessSound
  <1>12. WitnessHeld'
    BY DEF WitnessHeld
  <1>13. ForkUnwitnessed'
    BY DEF IInv, ForkUnwitnessed
  <1> QED
    BY <1>5, <1>6, <1>7, <1>8, <1>9, <1>10, <1>11, <1>12, <1>13 DEF IInv

LEMMA StartProcessStep ==
    ASSUME IInv, NEW require \in BOOLEAN, StartProcess(require)
    PROVE  IInv'
  <1> DEFINE x == [pc |-> "up", id |-> NULL, left |-> 0, doc |-> witness]
  <1>1. /\ Verified(log) /\ HeadUsable /\ (require => WitnessOk(witness))
        /\ required' = require /\ head' = Position(log) /\ proc' = x
        /\ UNCHANGED <<log, journal, witness, clock, ids, copy, restored, sealed, witnessed>>
        /\ UNCHANGED <<sentinels, faults>>
    BY DEF StartProcess, history
  <1>2. /\ sentinels \subseteq {LOG, HEAD} /\ faults \in Nat /\ log \in Seq(Lines)
        /\ (journal # NULL => journal <= ids)
    BY DEF IInv, TypeOK, IdsFresh, Fresh
  <1>3. x \in Process /\ x.pc = "up"
    BY DEF IInv, TypeOK, Process
  <1> HIDE DEF x
  <1>4. require => witness # NULL /\ OnChain(witness, log)
    BY <1>1, <1>2, Types, Assessed DEF WitnessOk, IInv
  <1>5. Fresh(proc', journal, log, ids)
    BY <1>1, <1>2, <1>3 DEF Fresh
  <1> QED
    BY <1>1, <1>2, <1>3, <1>4, <1>5, HeadMoves

LEMMA ReconcileStep ==
    ASSUME IInv, Reconcile
    PROVE  IInv'
  <1>1. /\ Verified(log) /\ HeadUsable /\ head' = Position(log) /\ proc.pc = "append"
        /\ UNCHANGED <<log, journal, witness, clock, ids, copy, restored, sealed, witnessed>>
        /\ UNCHANGED <<proc, required, sentinels, faults>>
    BY DEF Reconcile, history, HeadUsable
  <1>2. /\ sentinels \subseteq {LOG, HEAD} /\ faults \in Nat /\ required \in BOOLEAN
        /\ proc \in Process /\ Fresh(proc, journal, log, ids)
        /\ (required => witness # NULL)
    BY ProcessType DEF IInv, TypeOK, IdsFresh, WitnessSound
  <1>3. required /\ "witness" \notin restored => OnChain(witness, log)
    BY <1>1 DEF IInv, WitnessHeld
  <1> QED
    BY <1>1, <1>2, <1>3, HeadMoves

-----------------------------------------------------------------------------
(* A line is written *)

\* The line is added, or makes one unreadable line with the last one.
LEMMA LineAdded ==
    ASSUME Chained(log, clock), Numbered(log, ids), ~Torn(log), clock \in Nat, ids \in Nat,
           proc.id \in Nat, proc.id <= ids, \A i \in 1..Len(log) : log[i].id # proc.id,
           NEW form \in Forms, NEW lines, lines = Appended(form)
    PROVE  /\ Chained(lines, clock + 1) /\ Numbered(lines, ids) /\ Extends(lines, log)
           /\ lines # << >>
           /\ \/ /\ Len(lines) = Len(log) + 1
                 /\ lines[Len(lines)].hash = clock + 1 /\ lines[Len(lines)].form = form
                 /\ lines[Len(lines)].prev = Position(log).hash
              \/ Torn(lines) /\ Len(lines) = Len(log)
  <1> DEFINE n == Len(log)
  <1>1. /\ log \in Seq(Lines) /\ n \in Nat
        /\ \A i \in 1..n : /\ log[i] \in Lines /\ log[i].id \in Nat
                           /\ log[i].hash \in Nat /\ log[i].prev \in Nat
    BY ChainFields
  <1>2. /\ \A i \in 1..n :
             /\ log[i].prev = IF i = 1 THEN GENESIS ELSE log[i - 1].hash
             /\ log[i].prev < log[i].hash /\ log[i].hash <= clock
             /\ i < n => log[i].form = "whole"
             /\ log[i].id <= ids
        /\ \A i, j \in 1..n : i < j => log[i].hash < log[j].hash
        /\ \A i, j \in 1..n : log[i].id = log[j].id => i = j
    BY DEF Chained, Numbered
  <1>3. log = << >> <=> n = 0
    BY <1>1
  <1>4. CASE log # << >> /\ log[n].form # "whole"
    <2> DEFINE last == [log[n] EXCEPT !.form = "garbage"]
    <2>1. n \in 1..n /\ lines = [log EXCEPT ![n] = last]
      BY <1>1, <1>3, <1>4 DEF Appended
    <2>2. /\ last \in Lines /\ last.form = "garbage" /\ last.id = log[n].id
          /\ last.hash = log[n].hash /\ last.prev = log[n].prev
      BY <1>1, <2>1 DEF Lines, Forms
    <2> HIDE DEF last
    <2>3. lines \in Seq(Lines) /\ Len(lines) = n
      BY <1>1, <2>1, <2>2
    <2>4. \A i \in 1..n : lines[i] = IF i = n THEN last ELSE log[i]
      BY <1>1, <2>1, <2>2
    <2>5. Extends(lines, log)
      BY <1>1, <2>2, <2>3, <2>4, SMTT(40) DEF Extends
    <2>6. lines # << >> /\ Torn(lines)
      BY <1>1, <2>1, <2>2, <2>3, <2>4 DEF Torn
    <2>7. \A i \in 1..n : lines[i].id = log[i].id /\ lines[i].hash = log[i].hash
                           /\ lines[i].prev = log[i].prev
      BY <2>5 DEF Extends
    <2>8. Numbered(lines, ids)
      BY <1>2, <2>3, <2>7 DEF Numbered
    <2>9. Chained(lines, clock + 1)
      <3>1. ASSUME NEW i \in 1..n
            PROVE  /\ lines[i].prev = IF i = 1 THEN GENESIS ELSE lines[i - 1].hash
                   /\ lines[i].prev < lines[i].hash /\ lines[i].hash <= clock + 1
                   /\ i < n => lines[i].form = "whole"
        <4>1. i # 1 => i - 1 \in 1..n
          BY <1>1
        <4>2. ASSUME i < n PROVE lines[i].form = "whole"
          <5>1. i # n /\ log[i].form = "whole"
            BY <1>1, <1>2, <4>2
          <5> QED
            BY <2>4, <5>1
        <4>3. lines[i].prev = IF i = 1 THEN GENESIS ELSE lines[i - 1].hash
          BY <1>2, <2>7, <4>1
        <4>4. lines[i].prev < lines[i].hash /\ lines[i].hash <= clock + 1
          <5>1. /\ log[i].prev < log[i].hash /\ log[i].hash <= clock
                /\ log[i].hash \in Nat
            BY <1>1, <1>2
          <5>2. lines[i].prev = log[i].prev /\ lines[i].hash = log[i].hash
            BY <2>7
          <5> QED
            BY <5>1, <5>2
        <4> QED
          BY <4>2, <4>3, <4>4
      <3>2. \A i, j \in 1..n : i < j => lines[i].hash < lines[j].hash
        BY <1>2, <2>7
      <3> QED
        BY <2>3, <3>1, <3>2 DEF Chained
    <2> QED
      BY <2>3, <2>5, <2>6, <2>8, <2>9
  <1>5. CASE ~(log # << >> /\ log[n].form # "whole")
    <2> DEFINE new == NewLine(form)
    <2>1. lines = Append(log, new)
      BY <1>5 DEF Appended
    <2>2. Position(log).hash = IF n = 0 THEN GENESIS ELSE log[n].hash
      BY <1>3 DEF Position
    <2>3. Position(log).hash \in Nat /\ Position(log).hash <= clock
      BY <1>1, <1>2, <2>2 DEF GENESIS
    <2>4. /\ new \in Lines /\ new.form = form /\ new.id = proc.id
          /\ new.hash = clock + 1 /\ new.prev = Position(log).hash
      BY <2>3 DEF NewLine, Lines
    <2> HIDE DEF new
    <2>5. /\ lines \in Seq(Lines) /\ Len(lines) = n + 1 /\ lines[n + 1] = new
          /\ \A i \in 1..n : lines[i] = log[i]
      BY <1>1, <2>1, <2>4
    <2>6. \A i \in 1..(n + 1) : i \in 1..n \/ i = n + 1
      BY <1>1
    <2>7. Extends(lines, log)
      BY <1>1, <2>5 DEF Extends
    <2>8. Numbered(lines, ids)
      <3>1. \A i \in 1..(n + 1) : lines[i].id <= ids
        BY <1>2, <2>4, <2>5, <2>6, SMTT(40)
      <3>2. ASSUME NEW i \in 1..(n + 1), NEW j \in 1..(n + 1), lines[i].id = lines[j].id
            PROVE  i = j
        <4>1. CASE i \in 1..n /\ j \in 1..n
          BY <1>2, <2>5, <3>2, <4>1
        <4>2. CASE i \in 1..n /\ j = n + 1
          BY <2>4, <2>5, <3>2, <4>2
        <4>3. CASE i = n + 1 /\ j \in 1..n
          BY <2>4, <2>5, <3>2, <4>3
        <4> QED
          BY <2>6, <4>1, <4>2, <4>3
      <3> QED
        BY <2>5, <3>1, <3>2 DEF Numbered
    <2>9. Chained(lines, clock + 1)
      <3>1. ASSUME NEW i \in 1..(n + 1)
            PROVE  /\ lines[i].prev = IF i = 1 THEN GENESIS ELSE lines[i - 1].hash
                   /\ lines[i].prev < lines[i].hash /\ lines[i].hash <= clock + 1
                   /\ i < n + 1 => lines[i].form = "whole"
        <4>1. CASE i \in 1..n
          <5>1. i # 1 => i - 1 \in 1..n
            BY <1>1
          <5>2. i < n \/ i = n
            BY <1>1, <4>1
          <5>3. lines[i].form = "whole"
            BY <1>1, <1>2, <1>3, <1>5, <2>5, <4>1, <5>2
          <5>4. /\ log[i].prev = IF i = 1 THEN GENESIS ELSE log[i - 1].hash
                /\ log[i].prev < log[i].hash /\ log[i].hash <= clock
            BY <1>2, <4>1
          <5>5. lines[i] = log[i] /\ (i # 1 => lines[i - 1] = log[i - 1])
            BY <2>5, <4>1, <5>1
          <5>6. log[i].hash \in Nat /\ clock \in Nat
            BY <1>1, <4>1
          <5> QED
            BY <5>3, <5>4, <5>5, <5>6
        <4>2. CASE i = n + 1
          <5>1. n # 0 => n \in 1..n
            BY <1>1
          <5> QED
            BY <1>1, <2>2, <2>3, <2>4, <2>5, <4>2, <5>1, SMTT(40)
        <4> QED
          BY <2>6, <4>1, <4>2
      <3>2. ASSUME NEW i \in 1..(n + 1), NEW j \in 1..(n + 1), i < j
            PROVE  lines[i].hash < lines[j].hash
        <4>1. i \in 1..n
          BY <1>1, <3>2
        <4>2. CASE j \in 1..n
          BY <1>2, <2>5, <3>2, <4>1, <4>2
        <4>3. CASE j = n + 1
          BY <1>1, <1>2, <2>4, <2>5, <4>1, <4>3
        <4> QED
          BY <2>6, <4>2, <4>3
      <3> QED
        BY <2>5, <3>1, <3>2 DEF Chained
    <2>10. lines # << >>
      BY <1>1, <2>5
    <2> QED
      BY <2>4, <2>5, <2>7, <2>8, <2>9, <2>10
  <1> QED
    BY <1>4, <1>5

\* What a chain that extends another keeps.
LEMMA ExtensionKeeps ==
    ASSUME NEW lines, NEW longer, NEW newest \in Nat, NEW later \in Nat,
           Chained(lines, newest), Chained(longer, later), Extends(longer, lines)
    PROVE  /\ \A r : Placed(r, lines) => Placed(r, longer)
           /\ \A at \in Positions : OnChain(at, lines) => OnChain(at, longer)
           /\ \A at \in Positions :
                at.count <= Len(lines) /\ OnChain(at, longer) => OnChain(at, lines)
  <1>1. Len(lines) \in Nat /\ Len(longer) \in Nat /\ Len(lines) <= Len(longer)
    BY ChainFields DEF Extends
  <1>2. \A i \in 1..Len(lines) :
          i \in 1..Len(longer) /\ longer[i].hash = lines[i].hash /\ longer[i].prev = lines[i].prev
    BY <1>1 DEF Extends
  <1>3. ASSUME NEW r, Placed(r, lines) PROVE Placed(r, longer)
    BY <1>2, <1>3 DEF Placed
  <1>4. ASSUME NEW at \in Positions, at.count <= Len(lines)
        PROVE  OnChain(at, lines) <=> OnChain(at, longer)
    <2>1. at.count \in Nat
      BY DEF Positions
    <2>2. at.count # 0 => longer[at.count].hash = lines[at.count].hash
      BY <1>1, <1>2, <1>4, <2>1
    <2>3. at.count <= Len(longer)
      BY <1>1, <1>4, <2>1
    <2> QED
      BY <1>4, <2>2, <2>3 DEF OnChain
  <1>5. \A at \in Positions : OnChain(at, lines) => at.count <= Len(lines)
    BY DEF OnChain
  <1> QED
    BY <1>3, <1>4, <1>5

\* What a process that appends has checked.
LEMMA WriterSees ==
    ASSUME IInv, Appendable
    PROVE  /\ Verified(log) /\ ~Torn(log) /\ head # NULL /\ head \in Positions
           /\ OnChain(head, log) /\ head.count = Len(log) /\ head.hash = Position(log).hash
           /\ BothRestored \/ \A r \in sealed : Placed(r, log)
  <1>1. Chained(log, clock) /\ clock \in Nat /\ log \in Seq(Lines) /\ Verified(log)
    BY Types DEF IInv, LogSound, Appendable
  <1>2. ~Torn(log)
    BY <1>1, ReadsWhole
  <1>3. /\ head # NULL /\ head \in Positions
        /\ OnChain(head, log) /\ head.count = Len(log)
    BY <1>1, Types, Assessed DEF IInv, Appendable
  <1>4. head.hash = Position(log).hash
    BY <1>1, <1>3, Assessed DEF OnChain
  <1>5. BothRestored \/ \A r \in sealed : Placed(r, log)
    BY <1>2, <1>3 DEF IInv, Kept, LogAloneComplete, BothRestored, Overwritten
  <1> QED
    BY <1>1, <1>2, <1>3, <1>4, <1>5

LEMMA LineWritten ==
    ASSUME IInv, Writes, NEW form \in Forms, log' = Appended(form), clock' = clock + 1,
           UNCHANGED <<head, journal, witness, required, ids, copy, restored, sealed, witnessed>>,
           proc' \in Process, sentinels' \subseteq {LOG, HEAD}, faults' \in Nat,
           proc'.pc \in {"up", "down", "advance"}, proc'.id \in {proc.id, NULL},
           proc'.pc = "advance" => form = "whole" /\ proc'.id = proc.id
    PROVE  IInv'
  <1>1. /\ Appendable /\ proc.pc = "append" /\ ~(journal = proc.id /\ Present(proc.id))
        /\ Chained(log, clock) /\ Numbered(log, ids) /\ clock \in Nat /\ ids \in Nat
        /\ log \in Seq(Lines) /\ DOMAIN log = 1..Len(log) /\ Len(log) \in Nat
    BY Types DEF Writes, IInv, LogSound
  <1>2. /\ ~Torn(log) /\ head # NULL /\ head \in Positions
        /\ OnChain(head, log) /\ head.count = Len(log) /\ head.hash = Position(log).hash
        /\ BothRestored \/ \A r \in sealed : Placed(r, log)
    BY <1>1, WriterSees
  <1>3. proc.id \in Nat /\ proc.id <= ids /\ \A i \in 1..Len(log) : log[i].id # proc.id
    BY <1>1 DEF IInv, IdsFresh, Fresh, Present
  <1>4. /\ Chained(log', clock + 1) /\ Numbered(log', ids) /\ Extends(log', log) /\ log' # << >>
        /\ \/ /\ Len(log') = Len(log) + 1
              /\ log'[Len(log')].hash = clock + 1 /\ log'[Len(log')].form = form
              /\ log'[Len(log')].prev = Position(log).hash
           \/ Torn(log') /\ Len(log') = Len(log)
    BY <1>1, <1>2, <1>3, LineAdded
  <1>5. /\ \A r : Placed(r, log) => Placed(r, log')
        /\ \A at \in Positions : OnChain(at, log) => OnChain(at, log')
        /\ \A at \in Positions :
             at.count <= Len(log) /\ OnChain(at, log') => OnChain(at, log)
    BY <1>1, <1>4, ExtensionKeeps
  <1>6. ASSUME witness # NULL, OnChain(witness, log') PROVE OnChain(witness, log)
    <2>1. witness \in Positions /\ witness.count \in Nat /\ witness.hash \in Nat
          /\ witness.hash <= clock
      BY <1>6, Types DEF IInv, WitnessSound
    <2>2. witness.count <= Len(log)
      <3> SUFFICES ASSUME ~(witness.count <= Len(log)) PROVE FALSE
        OBVIOUS
      <3>1. witness.count <= Len(log') /\ Len(log') \in {Len(log), Len(log) + 1}
        BY <1>4, <1>6 DEF OnChain
      <3>2. witness.count = Len(log) + 1 /\ Len(log') = Len(log) + 1 /\ witness.count # 0
        BY <1>1, <2>1, <3>1
      <3>3. log'[Len(log')].hash = clock + 1
        <4>1. Len(log') # Len(log)
          <5>1. Len(log) \in Nat
            BY <1>1
          <5> QED
            BY <3>2, <5>1
        <4> QED
          BY <1>4, <4>1
      <3>4. witness.hash = clock + 1
        BY <1>6, <3>2, <3>3 DEF OnChain
      <3> QED
        BY <1>1, <2>1, <3>4
    <2> QED
      BY <1>5, <1>6, <2>1, <2>2
  <1>7. TypeOK'
    <2>1. log' \in Seq(Lines) /\ clock' \in Nat
      BY <1>1, <1>4 DEF Chained
    <2> QED
      BY <2>1 DEF IInv, TypeOK, Process
  <1>8. LogSound'
    BY <1>4 DEF LogSound
  <1>9. CopySound'
    <2> SUFFICES ASSUME copy # NULL
                 PROVE  /\ copy.head \in Positions
                        /\ Chained(copy.log, clock + 1) /\ Numbered(copy.log, ids)
                        /\ restored = {} => Extends(log', copy.log)
      BY DEF CopySound
    <2>1. /\ copy.head \in Positions /\ Chained(copy.log, clock) /\ Numbered(copy.log, ids)
          /\ restored = {} => Extends(log, copy.log)
      BY DEF IInv, CopySound
    <2>2. Chained(copy.log, clock + 1)
      <3>1. \A i \in 1..Len(copy.log) : copy.log[i].hash \in Nat
        BY <1>1, <2>1, ChainFields
      <3>2. \A i \in 1..Len(copy.log) : copy.log[i].hash <= clock + 1
        BY <1>1, <2>1, <3>1 DEF Chained
      <3> QED
        BY <2>1, <3>2 DEF Chained
    <2>3. ASSUME restored = {} PROVE Extends(log', copy.log)
      <3>1. Len(copy.log) \in Nat /\ Len(log') \in Nat
        BY <1>1, <1>4, <2>1, ChainFields
      <3>2. Extends(log, copy.log) /\ Extends(log', log)
        BY <1>4, <2>1, <2>3
      <3>3. \A i \in 1..Len(copy.log) : i \in 1..Len(log)
        BY <1>1, <3>1, <3>2 DEF Extends
      <3> QED
        BY <1>1, <3>1, <3>2, <3>3 DEF Extends
    <2> QED
      BY <2>1, <2>2, <2>3
  <1>10. IdsFresh'
    <2>1. journal # NULL => journal <= ids
      BY DEF IInv, IdsFresh, Fresh
    <2>2. Fresh(proc', journal, log', ids)
      BY <1>3, <2>1 DEF Fresh
    <2> QED
      BY <2>2 DEF IdsFresh
  <1>11. Advancing'
    <2> SUFFICES ASSUME proc'.pc = "advance"
                 PROVE  Written(head, log', clock + 1, sealed, BothRestored)
      BY DEF Advancing, BothRestored
    <2>1. \A r \in sealed : r.hash < clock + 1
      BY <1>1, Types DEF IInv, RecordsSound
    <2>2. \A r \in sealed : BothRestored \/ Placed(r, log')
      BY <1>2, <1>5
    <2>3. CASE Len(log') = Len(log) + 1 /\ log'[Len(log')].hash = clock + 1
               /\ log'[Len(log')].form = form /\ log'[Len(log')].prev = Position(log).hash
      BY <1>2, <1>4, <2>1, <2>2, <2>3 DEF Written
    <2>4. CASE Torn(log') /\ Len(log') = Len(log)
      <3>1. Len(log) # 0 /\ Len(log) \in 1..Len(log)
        BY <1>1, <1>4, <2>4 DEF Chained
      <3>2. log'[Len(log)].hash = log[Len(log)].hash /\ head.hash = log[Len(log)].hash
        BY <1>2, <1>4, <3>1 DEF Extends, OnChain
      <3>3. head.hash < clock + 1
        BY <1>1, <3>1, <3>2, Types DEF Chained, IInv
      <3> QED
        BY <1>2, <1>4, <2>1, <2>2, <2>4, <3>2, <3>3 DEF Written
    <2> QED
      BY <1>4, <2>3, <2>4
  <1>12. RecordsSound'
    BY <1>1, Types DEF IInv, RecordsSound
  <1>13. Kept'
    BY <1>2, <1>5 DEF Kept, BothRestored
  <1>14. HeadCovers'
    BY DEF IInv, HeadCovers
  <1>15. LogAloneComplete'
    BY <1>2, <1>5 DEF LogAloneComplete, BothRestored
  <1>16. HeadOnChain'
    BY <1>2, <1>5 DEF HeadOnChain
  <1>17. ForkOnlyRestored'
    BY DEF IInv, ForkOnlyRestored, BothRestored
  <1>18. WitnessSound'
    BY <1>1, <1>5, Types DEF IInv, WitnessSound
  <1>19. WitnessHeld'
    BY <1>1, <1>5, Types DEF IInv, WitnessSound, WitnessHeld
  <1>20. WitnessCovers'
    BY <1>5, <1>6 DEF IInv, WitnessCovers
  <1>21. ForkUnwitnessed'
    BY <1>6 DEF IInv, WitnessSound, ForkUnwitnessed
  <1> QED
    BY <1>7, <1>8, <1>9, <1>10, <1>11, <1>12, <1>13, <1>14, <1>15, <1>16, <1>17, <1>18,
       <1>19, <1>20, <1>21 DEF IInv

LEMMA WriteLineStep ==
    ASSUME IInv, WriteLine
    PROVE  IInv'
  <1> DEFINE x == [proc EXCEPT !.pc = "advance"]
  <1>1. /\ Writes /\ log' = Appended("whole") /\ clock' = clock + 1 /\ proc' = x
        /\ UNCHANGED <<head, journal, witness, required, ids, copy, restored, sealed, witnessed>>
        /\ UNCHANGED <<sentinels, faults>>
    BY DEF WriteLine, history
  <1>2. sentinels \subseteq {LOG, HEAD} /\ faults \in Nat /\ proc \in Process
    BY ProcessType DEF IInv, TypeOK
  <1>3. x \in Process /\ x.pc = "advance" /\ x.id = proc.id /\ "whole" \in Forms
    BY <1>2 DEF Process, Forms
  <1> HIDE DEF x
  <1> QED
    BY <1>1, <1>2, <1>3, LineWritten

LEMMA FailLineStep ==
    ASSUME IInv, NEW form \in {"unterminated", "garbage"}, FailLine(form)
    PROVE  IInv'
  <1> DEFINE x == [proc EXCEPT !.pc = "up"]
  <1>1. /\ Writes /\ log' = Appended(form) /\ clock' = clock + 1 /\ proc' = x
        /\ UNCHANGED <<head, journal, witness, required, ids, copy, restored, sealed, witnessed>>
        /\ UNCHANGED sentinels
    BY DEF FailLine, history
  <1>2. sentinels \subseteq {LOG, HEAD} /\ faults' \in Nat /\ proc \in Process
    BY ProcessType DEF IInv, TypeOK, FailLine
  <1>3. x \in Process /\ x.pc = "up" /\ x.id = proc.id /\ form \in Forms
    BY <1>2 DEF Process, Forms
  <1> HIDE DEF x
  <1> QED
    BY <1>1, <1>2, <1>3, LineWritten

LEMMA DieWritingStep ==
    ASSUME IInv, NEW form \in {"unterminated", "garbage"}, DieWriting(form)
    PROVE  IInv'
  <1>1. /\ Writes /\ log' = Appended(form) /\ clock' = clock + 1 /\ proc' = Down
        /\ UNCHANGED <<head, journal, witness, required, ids, copy, restored, sealed, witnessed>>
    BY DEF DieWriting, history
  <1>2. sentinels' \subseteq {LOG, HEAD} /\ faults' \in Nat
    BY DEF IInv, TypeOK, DieWriting
  <1>3. Down \in Process /\ Down.pc = "down" /\ Down.id = NULL /\ form \in Forms
    BY DEF Down, Process, Forms
  <1> QED
    BY <1>1, <1>2, <1>3, LineWritten

-----------------------------------------------------------------------------
(* A record is sealed *)

\* The lines with which a record of the chain could fork are its own.
LEMMA SealedStep ==
    ASSUME IInv, NEW new, new \subseteq Lines, sealed' = sealed \cup new,
           UNCHANGED <<log, journal, witness, required, sentinels, clock, ids, faults, copy,
                       restored, witnessed>>,
           proc' \in Process, proc'.pc = "clear", proc.pc # "down",
           head' \in Positions, head' # NULL, head # NULL => head.hash <= head'.hash,
           restored = {} =>
             OnChain(head', log) \/ (Torn(log) /\ head'.count = Len(log) + 1),
           \A r \in new :
             /\ r.prev < r.hash /\ r.hash <= clock /\ r.hash <= head'.hash
             /\ Placed(r, log) \/ Overwritten(r, log),
           ~Torn(log) => head # NULL /\ OnChain(head, log),
           BothRestored \/ \A r \in sealed : Placed(r, log),
           \A r \in new : \A s \in sealed \cup new :
             Placed(s, log) /\ s.prev = r.prev => s.hash = r.hash,
           \A r \in new : \A s \in sealed \cup new :
             s.hash > r.hash => Placed(r, log)
    PROVE  IInv'
  <1>1. /\ Chained(log, clock) /\ clock \in Nat /\ ids \in Nat /\ log \in Seq(Lines)
        /\ \A r \in sealed : r \in Lines
        /\ \A r \in Lines : r.hash \in Nat /\ r.prev \in Nat
    BY Types DEF IInv, LogSound, Lines
  <1>2. head'.hash \in Nat /\ (head # NULL => head.hash \in Nat)
    BY Types DEF IInv, Positions
  <1>3. TypeOK'
    BY DEF IInv, TypeOK, Process
  <1>4. LogSound' /\ CopySound' /\ WitnessSound'
    BY DEF IInv, LogSound, CopySound, WitnessSound
  <1>5. IdsFresh' /\ Advancing' /\ WitnessHeld'
    BY DEF IInv, IdsFresh, Fresh, Advancing, WitnessHeld
  <1>6. RecordsSound' /\ Kept'
    BY DEF IInv, RecordsSound, Kept
  <1>7. HeadCovers'
    <2> SUFFICES ASSUME "head" \notin restored, NEW r \in sealed \cup new
                 PROVE  r.hash <= head'.hash
      BY DEF HeadCovers
    <2>1. CASE r \in sealed
      <3>1. head # NULL /\ r.hash <= head.hash /\ r.hash \in Nat
        BY <1>1, <2>1 DEF IInv, HeadCovers
      <3> QED
        BY <1>2, <3>1
    <2> QED
      BY <2>1
  <1>8. LogAloneComplete'
    <2> SUFFICES ASSUME "head" \notin restored, ~Torn(log), NEW r \in sealed \cup new
                 PROVE  Placed(r, log)
      BY DEF LogAloneComplete
    <2> QED
      BY DEF BothRestored, Overwritten
  <1>9. HeadOnChain'
    BY DEF HeadOnChain
  <1>10. ForkOnlyRestored'
    <2> SUFFICES ASSUME NEW old \in sealed \cup new, NEW r \in sealed \cup new,
                        Forks(old, r), ~BothRestored
                 PROVE  FALSE
      BY DEF ForkOnlyRestored, BothRestored
    <2>1. /\ old.hash \in Nat /\ r.hash \in Nat /\ old.prev = r.prev /\ old.hash < r.hash
      BY <1>1 DEF Forks
    <2>2. CASE old \in sealed /\ r \in sealed
      BY <2>2 DEF IInv, ForkOnlyRestored
    <2>3. CASE old \in sealed /\ r \in new
      BY <2>1, <2>3
    <2>4. CASE old \in new
      <3>1. Placed(old, log)
        BY <2>1, <2>4
      <3>2. CASE r \in sealed
        BY <2>1, <2>4, <3>2
      <3>3. CASE r \in new
        BY <2>1, <3>1, <3>3
      <3> QED
        BY <3>2, <3>3
    <2> QED
      BY <2>2, <2>3, <2>4
  <1>11. WitnessCovers'
    <2> SUFFICES ASSUME "witness" \notin restored, witness # NULL, OnChain(witness, log),
                        NEW r \in new, ~Placed(r, log)
                 PROVE  r.prev >= witness.hash
      BY DEF IInv, WitnessCovers
    <2>1. witness \in Positions /\ witness.hash \in Nat
      BY Types DEF IInv
    <2>2. Torn(log) /\ r.prev = log[Len(log)].hash
      BY DEF Overwritten
    <2>3. Position(log).hash = log[Len(log)].hash
      BY <2>2 DEF Position, Torn
    <2>4. witness.hash <= Position(log).hash /\ Position(log).hash \in Nat
      BY <1>1, <2>1, EndIsNewest
    <2> QED
      BY <2>1, <2>2, <2>3, <2>4
  <1>12. ForkUnwitnessed'
    <2> SUFFICES ASSUME "witness" \notin restored, NEW old \in sealed \cup new,
                        NEW r \in sealed \cup new, NEW w \in witnessed,
                        Forks(old, r), old.hash <= w
                 PROVE  ~required /\ ~OnChain(witness, log)
      BY DEF ForkUnwitnessed
    <2>1. /\ old.hash \in Nat /\ r.hash \in Nat /\ old.prev = r.prev /\ old.hash < r.hash
          /\ old.prev \in Nat
      BY <1>1 DEF Forks
    <2>2. /\ witness # NULL /\ w <= witness.hash /\ w \in Nat /\ witness.hash \in Nat
      BY Types DEF IInv, WitnessSound
    <2>3. old.hash <= witness.hash /\ old.prev < old.hash
      <3>1. old.prev < old.hash
        BY DEF IInv, RecordsSound
      <3> QED
        BY <2>1, <2>2, <3>1
    <2>4. CASE old \in sealed /\ r \in sealed
      BY <2>4 DEF IInv, ForkUnwitnessed
    <2>5. CASE ~(old \in sealed /\ r \in sealed)
      <3>1. ASSUME OnChain(witness, log) PROVE FALSE
        <4>1. \A s \in sealed : s.prev < witness.hash => Placed(s, log)
          <5>1. \A s \in sealed : Placed(s, log) \/ s.prev >= witness.hash
            BY <2>2, <3>1 DEF IInv, WitnessCovers
          <5> QED
            BY <1>1, <2>2, <5>1
        <4>2. old.prev < witness.hash /\ r.prev < witness.hash
          BY <2>1, <2>2, <2>3
        <4>3. CASE old \in sealed
          <5>1. Placed(old, log) /\ r \in new
            BY <2>5, <4>1, <4>2, <4>3
          <5> QED
            BY <2>1, <5>1
        <4>4. CASE old \in new
          <5>1. Placed(old, log)
            BY <2>1, <4>4
          <5>2. CASE r \in sealed
            <6>1. Placed(r, log)
              BY <4>1, <4>2, <5>2
            <6> QED
              BY <2>1, <4>4, <5>2, <6>1
          <5>3. CASE r \in new
            BY <2>1, <5>1, <5>3
          <5> QED
            BY <5>2, <5>3
        <4> QED
          BY <4>3, <4>4
      <3>2. required => OnChain(witness, log)
        BY DEF IInv, WitnessHeld
      <3> QED
        BY <3>1, <3>2
    <2> QED
      BY <2>4, <2>5
  <1> QED
    BY <1>3, <1>4, <1>5, <1>6, <1>7, <1>8, <1>9, <1>10, <1>11, <1>12 DEF IInv

LEMMA RecogniseStep ==
    ASSUME IInv, Recognise
    PROVE  IInv'
  <1> DEFINE x == [proc EXCEPT !.pc = "clear"]
             new == {log[i] : i \in {j \in DOMAIN log : log[j].id = proc.id}}
  <1>1. /\ Appendable /\ proc.pc = "append" /\ proc' = x /\ sealed' = sealed \cup new
        /\ UNCHANGED <<log, journal, witness, required, sentinels, clock, ids, faults, copy,
                       restored, witnessed>>
        /\ UNCHANGED head
    BY DEF Recognise, files
  <1>2. /\ ~Torn(log) /\ head # NULL /\ head \in Positions
        /\ OnChain(head, log) /\ head.hash = Position(log).hash
        /\ BothRestored \/ \A r \in sealed : Placed(r, log)
    BY <1>1, WriterSees
  <1>3. /\ Chained(log, clock) /\ clock \in Nat /\ DOMAIN log = 1..Len(log)
        /\ proc \in Process /\ \A i \in 1..Len(log) : log[i] \in Lines
    BY Types, ProcessType DEF IInv, LogSound
  <1>4. x \in Process /\ x.pc = "clear"
    BY <1>3 DEF Process
  <1>5. \A r \in new : r \in Lines /\ Placed(r, log)
    BY <1>3 DEF Placed
  <1> HIDE DEF x, new
  <1>6. \A r \in new :
          /\ r.prev < r.hash /\ r.hash <= Position(log).hash
          /\ \A j \in 1..Len(log) : log[j].prev = r.prev => log[j].hash = r.hash
    BY <1>3, <1>5, PlacedBefore
  <1>7. \A r \in new : r.hash <= clock /\ r.hash \in Nat
    BY <1>3, <1>5 DEF Placed, Chained, Lines
  <1>8. \A r \in new : \A s : Placed(s, log) /\ s.prev = r.prev => s.hash = r.hash
    BY <1>6 DEF Placed
  <1>9. head.hash <= head.hash
    BY <1>2, Types DEF IInv
  <1>10. new \subseteq Lines
    BY <1>5
  <1> QED
    BY <1>1, <1>2, <1>4, <1>5, <1>6, <1>7, <1>8, <1>9, <1>10, SealedStep

LEMMA AdvanceHeadStep ==
    ASSUME IInv, AdvanceHead
    PROVE  IInv'
  <1> DEFINE x == [proc EXCEPT !.pc = "clear"]
             r == [id |-> proc.id, hash |-> clock, prev |-> head.hash, form |-> "whole"]
             n == Len(log)
  <1>1. /\ proc.pc = "advance" /\ proc' = x /\ sealed' = sealed \cup {r}
        /\ head' = [count |-> head.count + 1, hash |-> clock]
        /\ UNCHANGED <<log, journal, witness, required, sentinels, clock, ids, faults, copy,
                       restored, witnessed>>
    BY DEF AdvanceHead
  <1>2. /\ head # NULL /\ log # << >>
        /\ \/ /\ log[n].form = "whole" /\ n = head.count + 1
              /\ log[n].hash = clock /\ log[n].prev = head.hash
           \/ Torn(log) /\ n = head.count /\ log[n].hash = head.hash /\ head.hash < clock
        /\ \A s \in sealed : s.hash < clock /\ (BothRestored \/ Placed(s, log))
    BY <1>1 DEF IInv, Advancing, Written
  <1>3. /\ Chained(log, clock) /\ clock \in Nat /\ log \in Seq(Lines) /\ n \in Nat
        /\ proc \in Process /\ proc.id \in Nat /\ head.count \in Nat /\ head.hash \in Nat
        /\ \A s \in sealed : s \in Lines /\ s.hash \in Nat /\ s.prev \in Nat
        /\ head \in Positions
    BY <1>1, <1>2, Types, ProcessType DEF IInv, LogSound, IdsFresh, Fresh
  <1>4. n \in 1..n
    BY <1>2, <1>3
  <1>5. x \in Process /\ x.pc = "clear"
    BY <1>3 DEF Process
  <1>6. /\ r \in Lines /\ r.hash = clock /\ r.prev = head.hash
    BY <1>3 DEF Lines, Forms
  <1>7. /\ head' \in Positions /\ head'.count = head.count + 1 /\ head'.hash = clock
        /\ head' # NULL
    BY <1>1, <1>3, NullAssumption DEF Positions
  <1> HIDE DEF x, r
  <1>8. head.hash < clock
    BY <1>2, <1>3, <1>4 DEF Chained
  <1>9. /\ Placed(r, log) \/ Overwritten(r, log)
        /\ OnChain(head', log) \/ (Torn(log) /\ head'.count = Len(log) + 1)
    <2>1. CASE n = head.count + 1 /\ log[n].hash = clock /\ log[n].prev = head.hash
      <3>1. Placed(r, log)
        BY <1>4, <1>6, <2>1 DEF Placed
      <3>2. OnChain(head', log)
        BY <1>3, <1>4, <1>7, <2>1 DEF OnChain
      <3> QED
        BY <3>1, <3>2
    <2>2. CASE Torn(log) /\ n = head.count /\ log[n].hash = head.hash
      BY <1>6, <1>7, <2>2 DEF Overwritten
    <2> QED
      BY <1>2, <2>1, <2>2
  <1>10. ASSUME ~Torn(log) PROVE OnChain(head, log)
    <2>1. n = head.count + 1 /\ log[n].prev = head.hash
      BY <1>2, <1>10
    <2>2. head.hash = IF n = 1 THEN GENESIS ELSE log[n - 1].hash
      BY <1>3, <1>4, <2>1 DEF Chained
    <2>3. head.count <= Len(log) /\ head.count = n - 1 /\ (head.count = 0 <=> n = 1)
      BY <1>3, <2>1
    <2> QED
      BY <2>2, <2>3 DEF OnChain
  <1>11. ASSUME NEW s \in sealed \cup {r}, Placed(s, log), s.prev = r.prev
         PROVE  s.hash = r.hash
    <2>1. s \in Lines
      BY <1>3, <1>6
    <2>2. /\ s.prev < s.hash /\ s.hash <= Position(log).hash /\ s.hash \in Nat /\ s.prev \in Nat
          /\ Position(log).hash = log[n].hash
          /\ \A j \in 1..Len(log) : log[j].prev = s.prev => log[j].hash = s.hash
      BY <1>3, <1>11, <2>1, PlacedBefore DEF Lines
    <2>3. CASE log[n].hash = clock /\ log[n].prev = head.hash
      BY <1>4, <1>6, <1>11, <2>2, <2>3
    <2>4. CASE Torn(log) /\ n = head.count /\ log[n].hash = head.hash
      BY <1>3, <1>6, <1>11, <2>2, <2>4
    <2> QED
      BY <1>2, <2>3, <2>4
  <1>12. \A s \in sealed \cup {r} : ~(s.hash > r.hash)
    BY <1>2, <1>3, <1>6
  <1>13. /\ {r} \subseteq Lines /\ head.hash <= head'.hash
         /\ r.prev < r.hash /\ r.hash <= clock /\ r.hash <= head'.hash
    BY <1>3, <1>6, <1>7, <1>8
  <1> QED
    BY <1>1, <1>2, <1>5, <1>7, <1>9, <1>10, <1>11, <1>12, <1>13, SealedStep, ZenonT(60)

-----------------------------------------------------------------------------
(* Witnesses and restored files *)

LEMMA CreateWitnessStep ==
    ASSUME IInv, CreateWitness
    PROVE  IInv'
  <1>1. /\ head # NULL /\ Verified(log) /\ Assess(head, log) = "verified" /\ witness' = head
        /\ proc.pc \in {"down", "up"}
        /\ restored = {} => witnessed' = witnessed \cup {head.hash} /\ restored' = restored
        /\ restored # {} => restored' = restored \cup {"witness"} /\ witnessed' = witnessed
        /\ UNCHANGED <<log, head, journal, proc, required, sentinels, clock, ids, faults,
                       copy, sealed>>
    BY DEF CreateWitness, Witnessable, files
  <1>2. /\ Chained(log, clock) /\ clock \in Nat /\ log \in Seq(Lines) /\ head \in Positions
        /\ head.hash \in Nat /\ witnessed \subseteq Nat
    BY <1>1, Types DEF IInv, LogSound
  <1>3. ~Torn(log) /\ OnChain(head, log) /\ head.count = Len(log)
    BY <1>1, <1>2, ReadsWhole, Assessed
  <1>4. head.hash = Position(log).hash /\ head.hash <= clock
    BY <1>2, <1>3, Assessed, EndIsNewest DEF OnChain
  <1>5. /\ "log" \in restored' <=> "log" \in restored
        /\ "head" \in restored' <=> "head" \in restored
        /\ restored' = {} => restored = {}
        /\ "witness" \notin restored' => restored = {} /\ restored' = {}
        /\ restored' \subseteq {"log", "head", "witness"}
        /\ BothRestored' <=> BothRestored
    BY <1>1 DEF IInv, TypeOK, BothRestored
  <1>6. TypeOK'
    BY <1>1, <1>2, <1>5 DEF IInv, TypeOK
  <1>7. LogSound' /\ CopySound' /\ IdsFresh' /\ RecordsSound'
    BY <1>1, <1>5 DEF IInv, LogSound, CopySound, IdsFresh, RecordsSound
  <1>8. Advancing' /\ Kept' /\ HeadCovers' /\ LogAloneComplete' /\ HeadOnChain'
    BY <1>1, <1>5 DEF IInv, Advancing, Kept, HeadCovers, LogAloneComplete, HeadOnChain
  <1>9. ForkOnlyRestored'
    BY <1>1, <1>5 DEF IInv, ForkOnlyRestored
  <1>10. WitnessSound'
    <2>1. ASSUME restored = {}, NEW w \in witnessed PROVE w <= head.hash
      <3>1. /\ witness # NULL /\ w <= witness.hash /\ OnChain(witness, log)
        BY <2>1 DEF IInv, WitnessSound
      <3>2. witness \in Positions /\ witness.hash \in Nat /\ w \in Nat
        BY <1>2, <3>1, Types DEF IInv
      <3>3. witness.hash <= head.hash
        BY <1>2, <1>4, <3>1, <3>2, EndIsNewest
      <3> QED
        BY <1>2, <3>1, <3>2, <3>3
    <2>2. required' => witness' # NULL /\ head' # NULL
      BY <1>1
    <2>3. witness' # NULL => witness'.hash <= clock'
      BY <1>1, <1>4
    <2>4. restored' = {} /\ witness' # NULL => OnChain(witness', log')
      BY <1>1, <1>3
    <2>5. ASSUME "witness" \notin restored', NEW w \in witnessed'
          PROVE  witness' # NULL /\ w <= witness'.hash
      <3>1. restored = {} /\ (w \in witnessed \/ w = head.hash)
        BY <1>1, <1>5, <2>5
      <3>2. CASE w \in witnessed
        BY <1>1, <2>1, <3>1, <3>2
      <3>3. CASE w = head.hash
        BY <1>1, <1>2, <3>3
      <3> QED
        BY <3>1, <3>2, <3>3
    <2> QED
      BY <2>2, <2>3, <2>4, <2>5 DEF WitnessSound
  <1>11. WitnessHeld'
    BY <1>1, <1>3 DEF WitnessHeld
  <1>12. WitnessCovers'
    BY <1>1, <1>3, <1>5 DEF WitnessCovers, IInv, Kept, Overwritten
  <1>13. ForkUnwitnessed'
    BY <1>1, <1>5 DEF ForkUnwitnessed, IInv, ForkOnlyRestored, BothRestored
  <1> QED
    BY <1>6, <1>7, <1>8, <1>9, <1>10, <1>11, <1>12, <1>13 DEF IInv

LEMMA TakeCopyStep ==
    ASSUME IInv, TakeCopy
    PROVE  IInv'
  <1>1. /\ head # NULL /\ copy' = [log |-> log, head |-> head]
        /\ UNCHANGED <<log, head, journal, proc, witness, required, sentinels, clock, ids,
                       faults, restored, sealed, witnessed>>
    BY DEF TakeCopy, files
  <1>2. TypeOK'
    BY <1>1 DEF IInv, TypeOK
  <1>3. CopySound'
    <2>1. copy'.log = log /\ copy'.head = head /\ head \in Positions
      BY <1>1, Types DEF IInv
    <2>2. Extends(log, log)
      BY Types DEF Extends, IInv
    <2> QED
      BY <1>1, <2>1, <2>2 DEF CopySound, IInv, LogSound
  <1>4. /\ LogSound' /\ IdsFresh' /\ Advancing' /\ RecordsSound' /\ Kept' /\ HeadCovers'
        /\ LogAloneComplete' /\ HeadOnChain' /\ ForkOnlyRestored' /\ WitnessSound'
        /\ WitnessHeld' /\ WitnessCovers' /\ ForkUnwitnessed'
    BY <1>1 DEF IInv, LogSound, IdsFresh, Advancing, RecordsSound, Kept, HeadCovers,
       LogAloneComplete, HeadOnChain, ForkOnlyRestored, BothRestored, WitnessSound,
       WitnessHeld, WitnessCovers, ForkUnwitnessed
  <1> QED
    BY <1>2, <1>3, <1>4 DEF IInv

\* A record up to a position that two chains share is in both.
LEMMA SharedRecords ==
    ASSUME NEW lines, NEW longer, NEW newest \in Nat, Chained(lines, newest),
           Chained(longer, newest), Extends(longer, lines),
           NEW at \in Positions, OnChain(at, lines), NEW r \in Lines, Placed(r, longer)
    PROVE  /\ r.hash <= at.hash => Placed(r, lines)
           /\ Placed(r, lines) \/ r.prev >= at.hash
  <1>1. PICK i \in 1..Len(longer) : longer[i].hash = r.hash /\ longer[i].prev = r.prev
    BY DEF Placed
  <1>2. /\ Len(lines) \in Nat /\ Len(longer) \in Nat /\ Len(lines) <= Len(longer)
        /\ at.count \in Nat /\ at.hash \in Nat /\ at.count <= Len(lines)
        /\ r.hash \in Nat /\ r.prev \in Nat /\ r.prev < r.hash
    BY <1>1, ChainFields DEF Extends, Positions, OnChain, Lines, Chained
  <1>3. CASE i <= at.count
    <2>1. i \in 1..Len(lines)
      BY <1>2, <1>3
    <2> QED
      BY <1>1, <2>1 DEF Extends, Placed
  <1>4. CASE at.count < i
    <2>1. r.prev >= at.hash
      <3>1. CASE at.count = 0
        BY <1>2, <3>1 DEF OnChain, GENESIS
      <3>2. CASE at.count # 0
        <4>1. at.count \in 1..Len(lines) /\ at.count \in 1..Len(longer)
          BY <1>2, <3>2
        <4>2. at.hash = longer[at.count].hash
          BY <3>2, <4>1 DEF OnChain, Extends
        <4>3. longer[at.count].hash <= longer[i].prev
          BY <1>4, <4>1, Monotone
        <4> QED
          BY <1>1, <1>2, <4>2, <4>3
      <3> QED
        BY <3>1, <3>2
    <2>2. ~(r.hash <= at.hash)
      BY <1>2, <2>1
    <2> QED
      BY <2>1, <2>2
  <1> QED
    BY <1>2, <1>3, <1>4

LEMMA RestoreStep ==
    ASSUME IInv, NEW parts \in (SUBSET {"log", "head"}) \ {{}}, Restore(parts)
    PROVE  IInv'
  <1>1. /\ proc.pc = "down" /\ copy # NULL /\ restored = {} /\ restored' = parts
        /\ log' = IF "log" \in parts THEN copy.log ELSE log
        /\ head' = IF "head" \in parts THEN copy.head ELSE head
        /\ UNCHANGED <<journal, proc, witness, required, sentinels, clock, ids, faults,
                       copy, sealed, witnessed>>
    BY DEF Restore
  <1>2. /\ Chained(log, clock) /\ clock \in Nat /\ ids \in Nat /\ Numbered(log, ids)
        /\ \A r \in sealed : r \in Lines /\ r.hash \in Nat /\ r.prev \in Nat
    BY Types DEF IInv, LogSound
  <1>3. /\ copy.head \in Positions /\ Chained(copy.log, clock) /\ Numbered(copy.log, ids)
        /\ Extends(log, copy.log)
    BY <1>1 DEF IInv, CopySound
  <1>4. \A r \in sealed : Placed(r, log) \/ Overwritten(r, log)
    BY <1>1 DEF IInv, Kept
  <1>5. parts # {} /\ "witness" \notin parts
    OBVIOUS
  <1>6. TypeOK'
    <2>1. log' \in Seq(Lines)
      BY <1>1, <1>2, <1>3 DEF Chained
    <2>2. head' \in Positions \cup {NULL}
      BY <1>1, <1>3 DEF IInv, TypeOK
    <2> QED
      BY <1>1, <2>1, <2>2 DEF IInv, TypeOK
  <1>7. LogSound' /\ CopySound' /\ RecordsSound'
    BY <1>1, <1>2, <1>3, <1>5 DEF LogSound, CopySound, IInv, RecordsSound
  <1>8. IdsFresh' /\ Advancing' /\ WitnessHeld' /\ HeadOnChain'
    BY <1>1, <1>5 DEF IdsFresh, Fresh, Advancing, WitnessHeld, HeadOnChain, IInv
  <1>9. Kept'
    BY <1>1, <1>4 DEF Kept
  <1>10. HeadCovers'
    BY <1>1 DEF IInv, HeadCovers
  \* The end of the log covers every position that the copy has too.
  <1>11. ASSUME NEW at \in Positions, OnChain(at, copy.log), NEW r \in sealed,
                Overwritten(r, log)
         PROVE  r.prev >= at.hash /\ ~(r.hash <= at.hash)
    <2>1. r.prev = log[Len(log)].hash /\ Position(log).hash = log[Len(log)].hash
      BY <1>11 DEF Overwritten, Torn, Position
    <2>2. OnChain(at, log)
      BY <1>2, <1>3, <1>11, ExtensionKeeps
    <2>3. at.hash <= Position(log).hash /\ at.hash \in Nat
      BY <1>2, <2>2, EndIsNewest DEF Positions
    <2>4. r.prev < r.hash
      BY DEF IInv, RecordsSound
    <2> QED
      BY <1>2, <2>1, <2>3, <2>4
  <1>12. LogAloneComplete'
    <2> SUFFICES ASSUME "log" \in parts, "head" \notin parts, head # NULL,
                        OnChain(head, copy.log), NEW r \in sealed
                 PROVE  Placed(r, copy.log)
      BY <1>1 DEF LogAloneComplete
    <2>1. head \in Positions /\ r.hash <= head.hash
      BY <1>1, Types DEF IInv, HeadCovers
    <2>2. Placed(r, log)
      BY <1>4, <1>11, <2>1
    <2> QED
      BY <1>2, <1>3, <2>1, <2>2, SharedRecords
  <1>13. ~(\E old, new \in sealed : Forks(old, new))
    BY <1>1 DEF IInv, ForkOnlyRestored, BothRestored
  <1>14. ForkOnlyRestored' /\ ForkUnwitnessed'
    BY <1>1, <1>13 DEF ForkOnlyRestored, ForkUnwitnessed
  <1>15. WitnessSound'
    <2>1. required => head' # NULL
      BY <1>1, <1>3, NullAssumption DEF IInv, WitnessSound
    <2> QED
      BY <1>1, <1>5, <2>1 DEF IInv, WitnessSound
  <1>16. WitnessCovers'
    <2> SUFFICES ASSUME witness # NULL, OnChain(witness, log'), NEW r \in sealed
                 PROVE  Placed(r, log') \/ r.prev >= witness.hash
      BY <1>1 DEF WitnessCovers
    <2>1. witness \in Positions /\ OnChain(witness, log)
      BY <1>1, Types DEF IInv, WitnessSound
    <2>2. Placed(r, log) \/ r.prev >= witness.hash
      BY <1>1, <2>1 DEF IInv, WitnessCovers
    <2>3. CASE "log" \in parts /\ Placed(r, log)
      BY <1>1, <1>2, <1>3, <2>1, <2>3, SharedRecords
    <2> QED
      BY <1>1, <2>2, <2>3
  <1> QED
    BY <1>6, <1>7, <1>8, <1>9, <1>10, <1>12, <1>14, <1>15, <1>16 DEF IInv

-----------------------------------------------------------------------------
(* The theorems *)

LEMMA NextHolds == IInv /\ [Next]_vars => IInv'
  <1> SUFFICES ASSUME IInv, [Next]_vars PROVE IInv'
    OBVIOUS
  <1>1. CASE UNCHANGED vars
    BY <1>1 DEF vars, IInv, TypeOK, LogSound, CopySound, IdsFresh, Advancing, RecordsSound,
       Kept, HeadCovers, LogAloneComplete, HeadOnChain, ForkOnlyRestored, BothRestored,
       WitnessSound, WitnessHeld, WitnessCovers, ForkUnwitnessed
  <1>2. CASE Next
    BY <1>2, StartProcessStep, ShutdownStep, OperateStep, RecoverStep, ReconcileStep,
       RecogniseStep, WriteLineStep, FailLineStep, AdvanceHeadStep, ContinueStep, RaiseStep,
       DieStep, DieWritingStep, RemoveSentinelStep, CreateWitnessStep, TakeCopyStep,
       RestoreStep DEF Next
  <1> QED
    BY <1>1, <1>2

LEMMA Invariant == Spec => []IInv
  <1>1. Init => IInv
    BY InitHolds
  <1>2. IInv /\ [Next]_vars => IInv'
    BY NextHolds
  <1> QED
    BY <1>1, <1>2, PTL DEF Spec

\* A record that append returned, or append_idempotent recognised, stays readable
\* in a log that was not put back, however many writes fail or processes die; the
\* one exception is a line that lost its newline and the one written behind it.
THEOREM RecordsAreKept == Spec => []AcknowledgedKept
  <1>1. IInv => AcknowledgedKept
    BY InvImplies
  <1> QED
    BY <1>1, Invariant, PTL

\* No record id is in the log twice, however often recover_operation repeats a
\* journaled append, across failed writes, deaths and a restored log.
THEOREM IdsAreRecordedOnce == Spec => []RecordedOnce
  <1>1. IInv => RecordedOnce
    BY InvImplies
  <1> QED
    BY <1>1, Invariant, PTL

\* Two acknowledged records extend one predecessor only after the log and its
\* head were put back together, and never below a witness that the profile
\* requires, unless the restored log was witnessed anew (assess_evidence_head,
\* assess_witness, reconcile_for_authority).
THEOREM ForksAreRestored == Spec => []ChainDoesNotFork
  <1>1. IInv => ChainDoesNotFork
    BY InvImplies
  <1> QED
    BY <1>1, Invariant, PTL

\* A readable chain that nothing was put back over can be started on, or
\* witnessed and then started on, but for a head and a witness that both lag
\* (reconcile_for_authority, build_witness_payload).
THEOREM StartsUnlessLagging == Spec => []StuckOnlyKnown
  <1>1. IInv => StuckOnlyKnown
    BY InvImplies
  <1> QED
    BY <1>1, Invariant, PTL

=============================================================================
