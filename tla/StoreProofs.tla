---------------------------- MODULE StoreProofs ----------------------------
(***************************************************************************)
(* The stores agree with each other, whatever crashes, is late or is       *)
(* repeated: one end per action, nothing held back for an action that has  *)
(* ended, no assertion against the evidence, no decision taken back, and   *)
(* no overdraft that nobody caused; recovery gets through; and what was    *)
(* paid is what the evidence says, so that the audit has nothing to find   *)
(* but what it is known to find.                                           *)
(***************************************************************************)
EXTENDS ControlLoopProofs, FiniteSetTheorems

(***************************************************************************)
(* The inductive invariant.  None of the properties is inductive: each is  *)
(* a relation between two stores that are written one after the other, so  *)
(* the worker and the journal have to remember, between the two writes and *)
(* across a crash, what the first write was about.                         *)
(***************************************************************************)

Booked(a) == EntriesOf(a, {"reserve"}) # {}
Resolved(a) == EntriesOf(a, {"debit", "release"}) # {}

OnceEnded(a) == \A i, j \in Terminals(a) : i = j

\* The ledger by itself: what is held was reserved and not reconciled, and what was
\* reserved and is not held any more was resolved.
LedgerSound(a) ==
    /\ reservations[a] > 0 => Booked(a) /\ reconciliations[a] = NULL
    /\ Booked(a) /\ reservations[a] = 0 /\ reconciliations[a] = NULL => Resolved(a)

\* An approval and the ledger, an assertion and the evidence.
ApprovalSound(a) ==
    HasApproval(a) =>
        /\ reservations[a] \in {0, approvals[a].reserved}
        /\ approvals[a].reserved > 0 => Booked(a)
        /\ approvals[a].status = "pending" => approvals[a].decidedBy = NULL
        /\ approvals[a].status \in Early => approvals[a].outcome = ""
        /\ reconciliations[a] # NULL => approvals[a].outcome = reconciliations[a].outcome
        /\ approvals[a].outcome # "" /\ IsClosed(a) =>
             Observed(Terminal(a)) = approvals[a].outcome

ClosedSound(a) == IsClosed(a) => reservations[a] = 0

\* A marker without an approval is in the evidence, or the journal brings it there.
MarkerSound(a) ==
    reconciliations[a] # NULL /\ ~HasApproval(a) =>
        /\ Sealed(a)
        /\ IsClosed(a) => Observed(Terminal(a)) = reconciliations[a].outcome
        /\ ~IsClosed(a) =>
             /\ JournalIs({"authorization_reconcile"}, a)
             /\ journal.record.outcome = reconciliations[a].outcome

ActionSound(a) ==
    OnceEnded(a) /\ LedgerSound(a) /\ ApprovalSound(a) /\ ClosedSound(a) /\ MarkerSound(a)

Spending == {"unreserve", "blocked", "authorize", "answer", "execute", "complete"}

WorkerSound ==
    /\ worker.pc \in {"blocked", "assert"} => reservations[worker.act] = 0
    /\ worker.pc \in Spending /\ HasApproval(worker.act) =>
         approvals[worker.act].outcome = ""

CreateSound(op) ==
    op.kind = "approval_create" =>
        /\ reservations[op.act] \in {0, op.reserved}
        /\ HasApproval(op.act) =>
             Is(op.act, Early) /\ approvals[op.act].reserved = op.reserved
        /\ worker.pc = "approval" /\ op.reserved > 0 => Booked(op.act)

DecideSound(op) ==
    op.kind \in Deciding =>
        /\ Is(op.act, Early)
        /\ approvals[op.act].reserved = op.reserved
        /\ worker.pc = "evidence" => reservations[op.act] = 0

AssertSound(op) ==
    op.kind = "authorization_reconcile" =>
        /\ ~HasApproval(op.act) /\ Sealed(op.act)
        /\ op.record.status = op.record.outcome
        /\ op.reserved > 0 => Booked(op.act)
        /\ Appended(op) \/ worker.pc = "evidence" => reconciliations[op.act] # NULL
        /\ worker.pc = "evidence" => reservations[op.act] = 0
        /\ worker.pc = "finish" => Appended(op)

CompleteSound(op) ==
    op.kind = "execution_complete" =>
        /\ HasApproval(op.act) => approvals[op.act].outcome = ""
        /\ worker.pc = "evidence" => reservations[op.act] = 0

JournalSound ==
    journal # NULL =>
        /\ CreateSound(journal) /\ DecideSound(journal)
        /\ AssertSound(journal) /\ CompleteSound(journal)

StoreInv ==
    /\ \A a \in Actions : ActionSound(a)
    /\ WorkerSound
    /\ JournalSound
    /\ NegativeOnlyKnown

-----------------------------------------------------------------------------
(* The evidence *)

\* A second terminal record is never appended, and the first stays the last.
LEMMA AppendedEnds ==
    ASSUME EvidenceTypeOK, NEW a \in Actions, NEW record \in EvidenceRecord,
           AppendRecord(a, record), \A b \in Actions : OnceEnded(b),
           record.status \in TerminalResults => ~IsClosed(a)
    PROVE  /\ \A b \in Actions : OnceEnded(b)'
           /\ record.status \in TerminalResults => IsClosed(a)' /\ Terminal(a)' = record
           /\ \A b \in Actions :
                b # a \/ record.status \notin TerminalResults =>
                    /\ IsClosed(b)' = IsClosed(b)
                    /\ IsClosed(b) => Terminal(b)' = Terminal(b)
<1> DEFINE n == Len(evidence[a])
<1>1. /\ evidence'[a] = Append(evidence[a], record)
      /\ \A b \in Actions \ {a} : evidence'[b] = evidence[b]
  BY DEF EvidenceTypeOK, AppendRecord
<1>2. /\ n \in Nat
      /\ Terminals(a) \subseteq 1..n
      /\ \A i \in 1..n : evidence'[a][i] = evidence[a][i]
      /\ evidence'[a][n + 1] = record
  BY <1>1 DEF EvidenceTypeOK, Terminals, With
<1> HIDE DEF n
<1>3. /\ \A b \in Actions \ {a} : Terminals(b)' = Terminals(b)
      /\ Terminals(a)' =
           Terminals(a) \cup (IF record.status \in TerminalResults
                                THEN {n + 1} ELSE {})
  BY AppendedWith DEF Terminals, n
<1>4. record.status \in TerminalResults => Terminals(a)' = {n + 1}
  BY <1>3 DEF IsClosed
<1>5. record.status \notin TerminalResults => Terminals(a)' = Terminals(a)
  <2>1. Terminals(a) \cup {} = Terminals(a)
    OBVIOUS
  <2> QED
    BY <1>3, <2>1
<1>6. \A b \in Actions : OnceEnded(b)'
  BY <1>3, <1>4, <1>5 DEF OnceEnded
<1>7. record.status \in TerminalResults => IsClosed(a)' /\ Terminal(a)' = record
  <2>1. Latest({n + 1}) = n + 1
    BY <1>2 DEF Latest
  <2> QED
    BY <1>2, <1>4, <2>1 DEF IsClosed, Terminal
<1>8. ASSUME NEW b \in Actions, b # a \/ record.status \notin TerminalResults
      PROVE  /\ IsClosed(b)' = IsClosed(b)
             /\ IsClosed(b) => Terminal(b)' = Terminal(b)
  <2>1. Terminals(b)' = Terminals(b)
    BY <1>3, <1>5, <1>8
  <2>2. CASE b # a
    BY <1>1, <2>1, <2>2 DEF IsClosed, Terminal
  <2>3. CASE b = a
    <3>1. IsClosed(a) => Latest(Terminals(a)) \in 1..n
      BY <1>2, LatestIn DEF IsClosed
    <3> QED
      BY <1>2, <2>1, <2>3, <3>1 DEF IsClosed, Terminal
  <2> QED
    BY <2>2, <2>3
<1> QED
  BY <1>6, <1>7, <1>8

-----------------------------------------------------------------------------
(* The ledger *)

LEMMA EntryAdded ==
    ASSUME LedgerTypeOK, NEW a \in Actions, NEW e \in Entry,
           entries' = [entries EXCEPT ![a] = Append(@, e)], NEW kinds
    PROVE  /\ \A b \in Actions \ {a} : entries'[b] = entries[b]
           /\ EntriesOf(a, kinds)' =
                EntriesOf(a, kinds)
                \cup (IF e.kind \in kinds THEN {Len(entries[a]) + 1} ELSE {})
           /\ \A i \in EntriesOf(a, kinds) : entries'[a][i] = entries[a][i]
           /\ entries'[a][Len(entries[a]) + 1] = e
<1> DEFINE n == Len(entries[a])
<1>1. /\ entries'[a] = Append(entries[a], e)
      /\ \A b \in Actions \ {a} : entries'[b] = entries[b]
  BY DEF LedgerTypeOK
<1>2. /\ n \in Nat
      /\ DOMAIN entries[a] = 1..n
      /\ DOMAIN entries'[a] = 1..(n + 1)
      /\ \A i \in 1..n : entries'[a][i] = entries[a][i]
      /\ entries'[a][n + 1] = e
  BY <1>1 DEF LedgerTypeOK
<1>3. 1..(n + 1) = 1..n \cup {n + 1} /\ n + 1 \notin 1..n
  BY <1>2
<1> HIDE DEF n
<1>4. EntriesOf(a, kinds)' =
        EntriesOf(a, kinds) \cup (IF e.kind \in kinds THEN {n + 1} ELSE {})
  BY <1>2, <1>3 DEF EntriesOf
<1>5. \A i \in EntriesOf(a, kinds) : entries'[a][i] = entries[a][i]
  BY <1>2 DEF EntriesOf
<1> QED
  BY <1>1, <1>2, <1>4, <1>5 DEF n

\* Why the balance may be below zero, on account of a.
Overdrawn(a) ==
    \/ \E i \in EntriesOf(a, {"debit"}) : entries[a][i].amount > entries[a][i].reserved
    \/ /\ reconciliations[a] # NULL /\ reconciliations[a].charged > 0
       /\ EntriesOf(a, {"release"}) # {}

\* A step of the ledger on behalf of a.
LedgerStep(a) ==
    /\ \A b \in Actions \ {a} : /\ reservations'[b] = reservations[b]
                                /\ entries'[b] = entries[b]
                                /\ reconciliations'[b] = reconciliations[b]
    /\ Booked(a) => Booked(a)'
    /\ LedgerSound(a)'
    /\ NegativeOnlyKnown'

LEMMA LedgerRows ==
    ASSUME LedgerTypeOK
    PROVE  /\ balance \in Int /\ held \in Int /\ Available \in Int
           /\ \A a \in Actions : reservations[a] \in Nat
  BY DEF LedgerTypeOK, Available

\* One more entry takes no reason back.
LEMMA ReasonsKept ==
    ASSUME LedgerTypeOK, NEW a \in Actions, NEW e \in Entry,
           entries' = [entries EXCEPT ![a] = Append(@, e)],
           \A b \in Actions : reconciliations[b] # NULL => reconciliations'[b] = reconciliations[b]
    PROVE  /\ \A b \in Actions : Overdrawn(b) => Overdrawn(b)'
           /\ Booked(a)' = (Booked(a) \/ e.kind = "reserve")
           /\ Resolved(a)' = (Resolved(a) \/ e.kind \in {"debit", "release"})
           /\ \A b \in Actions \ {a} : entries'[b] = entries[b]
           /\ e.kind = "debit" /\ e.amount > e.reserved => Overdrawn(a)'
           /\ EntriesOf(a, {"release"})' # {} <=>
                EntriesOf(a, {"release"}) # {} \/ e.kind = "release"
<1>1. /\ \A b \in Actions \ {a} : entries'[b] = entries[b]
      /\ EntriesOf(a, {"reserve"})' =
           EntriesOf(a, {"reserve"})
           \cup (IF e.kind \in {"reserve"} THEN {Len(entries[a]) + 1} ELSE {})
  <2> DEFINE kinds == {"reserve"}
  <2> HIDE DEF kinds
  <2>1. /\ EntriesOf(a, kinds)' =
             EntriesOf(a, kinds)
             \cup (IF e.kind \in kinds THEN {Len(entries[a]) + 1} ELSE {})
        /\ \A b \in Actions \ {a} : entries'[b] = entries[b]
        /\ \A i \in EntriesOf(a, kinds) : entries'[a][i] = entries[a][i]
        /\ entries'[a][Len(entries[a]) + 1] = e
    BY EntryAdded
  <2> QED
    BY <2>1 DEF kinds
<1>2. EntriesOf(a, {"release"})' =
        EntriesOf(a, {"release"})
        \cup (IF e.kind \in {"release"} THEN {Len(entries[a]) + 1} ELSE {})
  <2> DEFINE kinds == {"release"}
  <2> HIDE DEF kinds
  <2>1. /\ EntriesOf(a, kinds)' =
             EntriesOf(a, kinds)
             \cup (IF e.kind \in kinds THEN {Len(entries[a]) + 1} ELSE {})
        /\ \A b \in Actions \ {a} : entries'[b] = entries[b]
        /\ \A i \in EntriesOf(a, kinds) : entries'[a][i] = entries[a][i]
        /\ entries'[a][Len(entries[a]) + 1] = e
    BY EntryAdded
  <2> QED
    BY <2>1 DEF kinds
<1>3. EntriesOf(a, {"debit", "release"})' =
        EntriesOf(a, {"debit", "release"})
        \cup (IF e.kind \in {"debit", "release"} THEN {Len(entries[a]) + 1} ELSE {})
  <2> DEFINE kinds == {"debit", "release"}
  <2> HIDE DEF kinds
  <2>1. /\ EntriesOf(a, kinds)' =
             EntriesOf(a, kinds)
             \cup (IF e.kind \in kinds THEN {Len(entries[a]) + 1} ELSE {})
        /\ \A b \in Actions \ {a} : entries'[b] = entries[b]
        /\ \A i \in EntriesOf(a, kinds) : entries'[a][i] = entries[a][i]
        /\ entries'[a][Len(entries[a]) + 1] = e
    BY EntryAdded
  <2> QED
    BY <2>1 DEF kinds
<1>4. /\ EntriesOf(a, {"debit"})' =
           EntriesOf(a, {"debit"})
           \cup (IF e.kind \in {"debit"} THEN {Len(entries[a]) + 1} ELSE {})
      /\ \A i \in EntriesOf(a, {"debit"}) : entries'[a][i] = entries[a][i]
      /\ entries'[a][Len(entries[a]) + 1] = e
  <2> DEFINE kinds == {"debit"}
  <2> HIDE DEF kinds
  <2>1. /\ EntriesOf(a, kinds)' =
             EntriesOf(a, kinds)
             \cup (IF e.kind \in kinds THEN {Len(entries[a]) + 1} ELSE {})
        /\ \A b \in Actions \ {a} : entries'[b] = entries[b]
        /\ \A i \in EntriesOf(a, kinds) : entries'[a][i] = entries[a][i]
        /\ entries'[a][Len(entries[a]) + 1] = e
    BY EntryAdded
  <2> QED
    BY <2>1 DEF kinds
<1>5. Booked(a)' = (Booked(a) \/ e.kind = "reserve")
  BY <1>1 DEF Booked
<1>6. Resolved(a)' = (Resolved(a) \/ e.kind \in {"debit", "release"})
  BY <1>3 DEF Resolved
<1>7. EntriesOf(a, {"release"})' # {} <=>
        EntriesOf(a, {"release"}) # {} \/ e.kind = "release"
  BY <1>2
<1>8. Overdrawn(a) => Overdrawn(a)'
  BY <1>4, <1>7 DEF Overdrawn
<1>9. \A b \in Actions \ {a} : Overdrawn(b) => Overdrawn(b)'
  BY <1>1 DEF Overdrawn, EntriesOf
<1>10. e.kind = "debit" /\ e.amount > e.reserved => Overdrawn(a)'
  BY <1>4 DEF Overdrawn
<1> QED
  BY <1>1, <1>5, <1>6, <1>7, <1>8, <1>9, <1>10

\* The four writes.
LEMMA ReserveStep ==
    ASSUME LedgerTypeOK, NegativeOnlyKnown, NEW a \in Actions, NEW amount \in Nat,
           amount > 0, amount <= Available, reconciliations[a] = NULL,
           AddReservation(a, amount)
    PROVE  /\ LedgerStep(a)
           /\ reservations'[a] = amount /\ Booked(a)'
           /\ UNCHANGED reconciliations
<1> DEFINE e == [kind |-> "reserve", amount |-> amount, reserved |-> 0,
                 after |-> 0, record |-> NoRecord]
<1>1. e \in Entry /\ e.kind = "reserve"
  BY DEF Entry, NoRecord, EntryKinds
<1>2. /\ entries' = [entries EXCEPT ![a] = Append(@, e)]
      /\ reservations' = [reservations EXCEPT ![a] = amount]
      /\ held' = held + amount
      /\ UNCHANGED <<balance, reconciliations>>
  BY DEF AddReservation, Record
<1> HIDE DEF e
<1>3. /\ reservations'[a] = amount
      /\ \A b \in Actions \ {a} : reservations'[b] = reservations[b]
  BY <1>2 DEF LedgerTypeOK
<1>4. /\ Booked(a)'
      /\ \A b \in Actions \ {a} : entries'[b] = entries[b]
  BY <1>1, <1>2, ReasonsKept
<1>5. ~(Available' < 0)
  BY <1>2, LedgerRows DEF Available
<1>6. NegativeOnlyKnown'
  BY <1>5 DEF NegativeOnlyKnown
<1>7. LedgerSound(a)'
  BY <1>2, <1>3, <1>4 DEF LedgerSound
<1> QED
  BY <1>2, <1>3, <1>4, <1>6, <1>7 DEF LedgerStep

LEMMA ReleaseStep ==
    ASSUME LedgerTypeOK, NegativeOnlyKnown, NEW a \in Actions, DropReservation(a)
    PROVE  /\ LedgerStep(a)
           /\ reservations'[a] = 0
           /\ UNCHANGED reconciliations
<1> DEFINE e == [kind |-> "release", amount |-> reservations[a], reserved |-> 0,
                 after |-> 0, record |-> NoRecord]
<1>1. e \in Entry /\ e.kind = "release"
  BY LedgerRows DEF Entry, NoRecord, EntryKinds
<1>2. /\ entries' = [entries EXCEPT ![a] = Append(@, e)]
      /\ reservations' = [reservations EXCEPT ![a] = 0]
      /\ held' = held - reservations[a]
      /\ UNCHANGED <<balance, reconciliations>>
  BY DEF DropReservation, Record
<1> HIDE DEF e
<1>3. /\ reservations'[a] = 0
      /\ \A b \in Actions \ {a} : reservations'[b] = reservations[b]
  BY <1>2 DEF LedgerTypeOK
<1>4. /\ \A b \in Actions : Overdrawn(b) => Overdrawn(b)'
      /\ Booked(a) => Booked(a)'
      /\ Resolved(a)'
      /\ \A b \in Actions \ {a} : entries'[b] = entries[b]
  BY <1>1, <1>2, ReasonsKept
<1>5. Available' < 0 => Available < 0
  BY <1>2, LedgerRows DEF Available
<1>6. NegativeOnlyKnown'
  BY <1>4, <1>5 DEF NegativeOnlyKnown, Overdrawn
<1>7. LedgerSound(a)'
  BY <1>3, <1>4 DEF LedgerSound
<1> QED
  BY <1>2, <1>3, <1>4, <1>6, <1>7 DEF LedgerStep

LEMMA DebitStep ==
    ASSUME LedgerTypeOK, NegativeOnlyKnown, NEW a \in Actions, NEW actual \in Nat,
           NEW record \in Nat, Debit(a, actual, record)
    PROVE  /\ LedgerStep(a)
           /\ reservations'[a] = 0
           /\ UNCHANGED reconciliations
<1> DEFINE left == Available + reservations[a] - actual
           e == [kind |-> "debit", amount |-> actual, reserved |-> reservations[a],
                 after |-> IF record = NoRecord THEN 0 ELSE left, record |-> record]
<1>1. left \in Int /\ reservations[a] \in Nat
  BY LedgerRows
<1>2. e \in Entry /\ e.kind = "debit" /\ e.amount = actual /\ e.reserved = reservations[a]
  <2> HIDE DEF left
  <2> QED
    BY <1>1 DEF Entry, EntryKinds
<1>3. /\ entries' = [entries EXCEPT ![a] = Append(@, e)]
      /\ reservations' = [reservations EXCEPT ![a] = 0]
      /\ held' = held - reservations[a]
      /\ balance' = balance - actual
      /\ UNCHANGED reconciliations
  BY DEF Debit
<1> HIDE DEF e
<1>4. /\ reservations'[a] = 0
      /\ \A b \in Actions \ {a} : reservations'[b] = reservations[b]
  BY <1>3 DEF LedgerTypeOK
<1>5. /\ \A b \in Actions : Overdrawn(b) => Overdrawn(b)'
      /\ Booked(a) => Booked(a)'
      /\ Resolved(a)'
      /\ \A b \in Actions \ {a} : entries'[b] = entries[b]
      /\ actual > reservations[a] => Overdrawn(a)'
  BY <1>2, <1>3, ReasonsKept
<1>6. Available' < 0 => Available < 0 \/ actual > reservations[a]
  <2>1. Available = balance - held /\ Available' = balance - actual - (held - reservations[a])
    BY <1>3 DEF Available
  <2>2. balance \in Int /\ held \in Int
    BY LedgerRows
  <2> QED
    BY <1>1, <2>1, <2>2
<1>7. NegativeOnlyKnown'
  BY <1>5, <1>6 DEF NegativeOnlyKnown, Overdrawn
<1>8. LedgerSound(a)'
  BY <1>4, <1>5 DEF LedgerSound
<1> QED
  BY <1>3, <1>4, <1>5, <1>7, <1>8 DEF LedgerStep

\* An assertion charges what is held, or what was held and was given back.
LEMMA ReconcileStep ==
    ASSUME LedgerTypeOK, NegativeOnlyKnown, NEW a \in Actions, NEW expected \in Nat,
           NEW outcome \in Outcomes, NEW by \in Operators, NEW authority \in Nat,
           LedgerSound(a), expected > 0 => Booked(a),
           reconciliations[a] = NULL,
           CanReconcile(a, expected, outcome, by, authority),
           AddReconciliation(a, expected, outcome, by, authority)
    PROVE  /\ LedgerStep(a)
           /\ reservations'[a] = 0
           /\ reconciliations'[a] # NULL /\ reconciliations'[a].outcome = outcome
<1> DEFINE charged == ReconcileCharge(a, expected, outcome)
           released == IF outcome = "not_executed" THEN reservations[a] ELSE 0
           e == [kind |-> "reconcile", amount |-> charged + released, reserved |-> 0,
                 after |-> 0, record |-> NoRecord]
           marker == [outcome |-> outcome, by |-> by, expected |-> expected,
                      charged |-> charged, released |-> released,
                      authority |-> authority]
<1>1. charged \in Nat /\ released \in Nat /\ reservations[a] \in Nat
  BY LedgerRows DEF ReconcileCharge
<1>2. charged > 0 => charged = expected /\ (reservations[a] > 0 \/ LatestDisposition(a) # "debit")
  BY DEF ReconcileCharge
<1> HIDE DEF charged, released
<1>3. /\ entries' = [entries EXCEPT ![a] = Append(@, e)]
      /\ reservations' = [reservations EXCEPT ![a] = 0]
      /\ held' = held - reservations[a]
      /\ balance' = balance - charged
      /\ reconciliations' = [reconciliations EXCEPT ![a] = marker]
  BY DEF AddReconciliation, Record, charged, released
<1>4. e \in Entry /\ e.kind = "reconcile"
  BY <1>1 DEF Entry, NoRecord, EntryKinds
<1>5. marker \in Marker /\ marker.outcome = outcome /\ marker.charged = charged
  BY <1>1 DEF Marker
<1> HIDE DEF e, marker
<1>6. marker # NULL
  BY <1>5, MarkerAssumption
<1>7. /\ reservations'[a] = 0 /\ reconciliations'[a] = marker
      /\ \A b \in Actions \ {a} : /\ reservations'[b] = reservations[b]
                                  /\ reconciliations'[b] = reconciliations[b]
  BY <1>3 DEF LedgerTypeOK
<1>8. /\ \A b \in Actions : Overdrawn(b) => Overdrawn(b)'
      /\ Booked(a)' = Booked(a)
      /\ \A b \in Actions \ {a} : entries'[b] = entries[b]
      /\ EntriesOf(a, {"release"})' # {} <=> EntriesOf(a, {"release"}) # {}
  <2>1. \A b \in Actions : reconciliations[b] # NULL => reconciliations'[b] = reconciliations[b]
    BY <1>7
  <2>2. /\ \A b \in Actions : Overdrawn(b) => Overdrawn(b)'
        /\ Booked(a)' = (Booked(a) \/ e.kind = "reserve")
        /\ \A b \in Actions \ {a} : entries'[b] = entries[b]
        /\ EntriesOf(a, {"release"})' # {} <=>
             EntriesOf(a, {"release"}) # {} \/ e.kind = "release"
    BY <1>3, <1>4, <2>1, ReasonsKept
  <2> QED
    BY <1>4, <2>2 DEF Booked
<1>9. reservations[a] > 0 => reservations[a] = expected
  BY DEF CanReconcile
<1>10. ASSUME charged > 0, reservations[a] = 0
       PROVE  EntriesOf(a, {"release"}) # {}
  <2>1. Resolved(a) /\ LatestDisposition(a) # "debit"
    BY <1>2, <1>10 DEF LedgerSound
  <2> DEFINE P == EntriesOf(a, {"debit", "release"})
  <2>2. Latest(P) \in P
    BY <2>1, EntryAmount DEF Resolved
  <2>3. entries[a][Latest(P)].kind # "debit"
    BY <2>1 DEF LatestDisposition, Resolved
  <2>4. Latest(P) \in EntriesOf(a, {"release"})
    BY <2>2, <2>3 DEF EntriesOf
  <2> QED
    BY <2>4
<1>11. charged > 0 /\ reservations[a] = 0 => Overdrawn(a)'
  BY <1>5, <1>6, <1>7, <1>8, <1>10 DEF Overdrawn
<1>12. Available' < 0 => Available < 0 \/ (charged > 0 /\ reservations[a] = 0)
  <2>1. Available = balance - held /\ Available' = balance - charged - (held - reservations[a])
    BY <1>3 DEF Available
  <2>2. balance \in Int /\ held \in Int
    BY LedgerRows
  <2>3. reservations[a] > 0 /\ charged > 0 => charged = reservations[a]
    BY <1>2, <1>9
  <2> QED
    BY <1>1, <2>1, <2>2, <2>3
<1>13. NegativeOnlyKnown'
  BY <1>8, <1>11, <1>12 DEF NegativeOnlyKnown, Overdrawn
<1>14. LedgerSound(a)'
  BY <1>6, <1>7 DEF LedgerSound
<1> QED
  BY <1>5, <1>6, <1>7, <1>8, <1>13, <1>14 DEF LedgerStep

-----------------------------------------------------------------------------
(* What a step leaves alone *)

\* An approval keeps its money and its assertion, and moves on.
SameApproval(b) ==
    /\ HasApproval(b)' = HasApproval(b)
    /\ HasApproval(b) =>
         /\ approvals'[b].reserved = approvals[b].reserved
         /\ approvals'[b].outcome = approvals[b].outcome
         /\ approvals'[b].status \in Early => approvals[b].status \in Early
         /\ approvals'[b].status = "pending" => approvals'[b].decidedBy = NULL

SameRest(b) ==
    /\ reservations'[b] = reservations[b]
    /\ entries'[b] = entries[b]
    /\ reconciliations'[b] = reconciliations[b]
    /\ evidence'[b] = evidence[b]

LEMMA RestRead ==
    ASSUME NEW b \in Actions, SameRest(b)
    PROVE  /\ Booked(b)' = Booked(b) /\ Resolved(b)' = Resolved(b)
           /\ Terminals(b)' = Terminals(b) /\ IsClosed(b)' = IsClosed(b)
           /\ Terminal(b)' = Terminal(b)
           /\ Sealed(b)' = Sealed(b)
  BY DEF SameRest, Booked, Resolved, EntriesOf, Terminals, With, IsClosed, Terminal, Sealed

LEMMA ApprovalSame ==
    ASSUME NEW b \in Actions, ApprovalSound(b), approvals'[b] = approvals[b]
    PROVE  SameApproval(b)
  BY DEF ApprovalSound, SameApproval, HasApproval

LEMMA SoundKept ==
    ASSUME StoreInv, NEW b \in Actions, SameRest(b), SameApproval(b),
           journal' = journal \/ ~JournalIs({"authorization_reconcile"}, b) \/ IsClosed(b)
    PROVE  ActionSound(b)'
<1>1. ActionSound(b)
  BY DEF StoreInv
<1>2. OnceEnded(b)' /\ LedgerSound(b)' /\ ClosedSound(b)'
  BY <1>1, RestRead DEF ActionSound, OnceEnded, LedgerSound, ClosedSound, SameRest
<1>3. ApprovalSound(b)'
  BY <1>1, RestRead DEF ActionSound, ApprovalSound, SameRest, SameApproval
<1>4. MarkerSound(b)'
  <2>1. CASE journal' = journal
    BY <1>1, <2>1, RestRead DEF ActionSound, MarkerSound, SameRest, SameApproval, JournalIs
  <2>2. CASE ~JournalIs({"authorization_reconcile"}, b) \/ IsClosed(b)
    BY <1>1, <2>2, RestRead DEF ActionSound, MarkerSound, SameRest, SameApproval
  <2> QED
    BY <2>1, <2>2
<1> QED
  BY <1>2, <1>3, <1>4 DEF ActionSound

\* The worker reaches a stage only with what the stage before it established.
NoProgress ==
    /\ worker'.pc = "approval" /\ journal.kind = "approval_create" => worker.pc = "approval"
    /\ worker'.pc = "evidence" => worker.pc = "evidence"
    /\ worker'.pc = "finish" /\ journal.kind = "authorization_reconcile" => worker.pc = "finish"

LEMMA JournalSoundKept ==
    ASSUME StoreInv, journal' = journal, NoProgress,
           journal # NULL =>
             /\ journal.act \in Actions
             /\ SameRest(journal.act) /\ SameApproval(journal.act)
             /\ Is(journal.act, Early) => Is(journal.act, Early)'
    PROVE  JournalSound'
<1> SUFFICES ASSUME journal # NULL
             PROVE  /\ CreateSound(journal)' /\ DecideSound(journal)'
                    /\ AssertSound(journal)' /\ CompleteSound(journal)'
  BY DEF JournalSound
<1>0. PICK a \in Actions : a = journal.act
  OBVIOUS
<1>1. /\ SameRest(a) /\ SameApproval(a) /\ journal'.act = a /\ journal.act = a
      /\ Is(a, Early) => Is(a, Early)'
      /\ CreateSound(journal) /\ DecideSound(journal)
      /\ AssertSound(journal) /\ CompleteSound(journal)
  BY <1>0 DEF StoreInv, JournalSound
<1>2. Booked(a)' = Booked(a) /\ Sealed(a)' = Sealed(a)
  BY <1>1, RestRead
<1>3. CreateSound(journal)'
  BY <1>1, <1>2 DEF CreateSound, SameRest, SameApproval, NoProgress
<1>4. DecideSound(journal)'
  BY <1>1 DEF DecideSound, SameRest, SameApproval, NoProgress, Is
<1>5. AssertSound(journal)'
  <2>1. Appended(journal)' = Appended(journal)
    BY <1>1 DEF Appended, SameRest
  <2> QED
    BY <1>1, <1>2, <2>1 DEF AssertSound, SameRest, SameApproval, NoProgress
<1>6. CompleteSound(journal)'
  BY <1>1 DEF CompleteSound, SameRest, SameApproval, NoProgress
<1> QED
  BY <1>3, <1>4, <1>5, <1>6

\* The balance stays, or its reason.
LEMMA BalanceKept ==
    ASSUME NegativeOnlyKnown, UNCHANGED <<balance, held, entries, reconciliations>>
    PROVE  NegativeOnlyKnown'
  BY DEF NegativeOnlyKnown, Available, EntriesOf

\* Where the worker owes the ledger or an approval nothing.
Careless == Locations \ (Spending \cup {"assert"})

LEMMA WorkerCareless == ASSUME worker'.pc \in Careless PROVE WorkerSound'
  BY DEF Careless, Spending, WorkerSound

-----------------------------------------------------------------------------
(* Steps that write to no store *)

Unwritten ==
    UNCHANGED <<balance, held, reservations, entries, reconciliations, approvals, evidence,
                journal>>

LEMMA MoveSound ==
    ASSUME ControlInv, StoreInv, Unwritten, WorkerSound', NoProgress
    PROVE  StoreInv'
<1>1. \A b \in Actions : SameRest(b) /\ SameApproval(b) /\ (Is(b, Early) => Is(b, Early)')
  BY ApprovalSame DEF StoreInv, ActionSound, Unwritten, SameRest, Is, HasApproval
<1>2. \A b \in Actions : ActionSound(b)'
  BY <1>1, SoundKept DEF Unwritten
<1>3. journal # NULL => journal.act \in Actions
  BY DEF ControlInv, TypeOK, JournalTypeOK, Operation
<1>4. JournalSound'
  BY <1>1, <1>3, JournalSoundKept DEF Unwritten
<1>5. NegativeOnlyKnown'
  BY BalanceKept DEF StoreInv, Unwritten
<1> QED
  BY <1>2, <1>4, <1>5 DEF StoreInv

LEMMA StoresUnwritten == ASSUME UNCHANGED stores PROVE Unwritten
  BY DEF stores, ledgerVars, approvalVars, Unwritten

\* The stores are left alone while the worker goes on to where it owes nothing.
LEMMA CarelessMove ==
    ASSUME ControlInv, StoreInv, Unwritten, worker'.pc \in Careless \ Stages
    PROVE  StoreInv'
<1>1. NoProgress
  BY DEF NoProgress, Careless, Stages
<1> QED
  BY <1>1, MoveSound, WorkerCareless

LEMMA IdleCareless == Idle.pc \in Careless \ Stages
  BY DEF Idle, Careless, Locations, Spending, Stages

LEMMA EnterSound ==
    ASSUME ControlInv, StoreInv,
           \/ \E full \in BOOLEAN : Enter(full)
           \/ RefuseUnsafe \/ Admit \/ Leave \/ RefuseRecovery \/ Answer \/ ToolRaises
           \/ Crash
    PROVE  StoreInv'
<1>1. Unwritten
  BY StoresUnwritten
  DEF Enter, RefuseUnsafe, Admit, Leave, RefuseRecovery, Answer, ToolRaises, Crash
<1>2. CASE \E full \in BOOLEAN : Enter(full)
  <2>1. PICK full \in BOOLEAN : worker' = [Idle EXCEPT !.pc = "entry", !.full = full]
    BY <1>2 DEF Enter
  <2>2. worker'.pc = "entry"
    BY <2>1 DEF Idle
  <2> QED
    BY <1>1, <2>2, CarelessMove DEF Careless, Locations, Spending, Stages
<1>3. CASE Admit
  <2>1. worker'.pc = "ready"
    BY <1>3 DEF Admit, GoTo, ControlInv, TypeOK, Worker
  <2> QED
    BY <1>1, <2>1, CarelessMove DEF Careless, Locations, Spending, Stages
<1>4. CASE RefuseUnsafe \/ Leave \/ RefuseRecovery \/ Answer \/ ToolRaises \/ Crash
  <2>1. worker' = Idle
    BY <1>4 DEF RefuseUnsafe, Leave, RefuseRecovery, Answer, ToolRaises, Crash, Return
  <2> QED
    BY <1>1, <2>1, IdleCareless, CarelessMove
<1> QED
  BY <1>2, <1>3, <1>4

LEMMA RecoverSound == ASSUME ControlInv, StoreInv, Recover PROVE StoreInv'
<1>1. /\ journal # NULL /\ Unwritten
      /\ worker'.pc = FirstStage(journal.kind)
  BY StoresUnwritten DEF Recover, ControlInv, TypeOK, Worker
<1>2. journal.kind \in OperationKinds
  BY <1>1 DEF ControlInv, TypeOK, JournalTypeOK, Operation
<1>3. /\ worker'.pc \in {"budget", "approval"}
      /\ worker'.pc = "approval" => journal.kind # "approval_create"
  BY <1>1, <1>2 DEF FirstStage, Route, OperationKinds
<1>4. NoProgress /\ worker'.pc \in Careless
  BY <1>3 DEF NoProgress, Careless, Locations, Spending, Stages
<1> QED
  BY <1>1, <1>4, MoveSound, WorkerCareless

\* The tool runs; the worker still owes its approval no assertion.
LEMMA ExecuteSound == ASSUME ControlInv, StoreInv, Execute PROVE StoreInv'
<1>1. /\ worker.pc = "execute" /\ Unwritten
      /\ worker'.pc = "complete" /\ worker'.act = worker.act
  BY StoresUnwritten DEF Execute, At, GoTo, ControlInv, TypeOK, Worker
<1>2. NoProgress /\ WorkerSound'
  BY <1>1 DEF NoProgress, StoreInv, WorkerSound, Spending, Unwritten, HasApproval
<1> QED
  BY <1>1, <1>2, MoveSound

LEMMA ResumeApprovedSound ==
    ASSUME ControlInv, StoreInv, NEW a \in Actions, NEW by \in Operators,
           ResumeApproved(a, by)
    PROVE  StoreInv'
<1>1. Unwritten /\ worker'.pc = "begin"
  BY StoresUnwritten DEF ResumeApproved, ControlInv, TypeOK, Worker
<1> QED
  BY <1>1, CarelessMove DEF Careless, Locations, Spending, Stages

\* The worker stays where it is.
LEMMA StandsSound ==
    ASSUME ControlInv, StoreInv, Unwritten, worker' = worker
    PROVE  StoreInv'
<1>1. NoProgress /\ WorkerSound'
  BY DEF NoProgress, StoreInv, WorkerSound, Unwritten, HasApproval
<1> QED
  BY <1>1, MoveSound

LEMMA OutsideSound ==
    ASSUME ControlInv, StoreInv, NEW a \in Actions,
           RunnerRuns(a) \/ TimePasses(a) \/ UNCHANGED vars
    PROVE  StoreInv'
<1>1. Unwritten /\ worker' = worker
  BY StoresUnwritten
  DEF RunnerRuns, TimePasses, TtlRunsOut, vars, stores, ledgerVars, approvalVars, Unwritten
<1> QED
  BY <1>1, StandsSound

-----------------------------------------------------------------------------
(* Approvals move on *)

\* No decision is taken back.
Stands(b) ==
    HasApproval(b) =>
        /\ approvals'[b] # NULL
        /\ Is(b, TerminalApprovals) => approvals'[b].status = approvals[b].status
        /\ approvals[b].decidedBy # NULL => approvals'[b].decidedBy = approvals[b].decidedBy

Moves(a) ==
    /\ \A b \in Actions \ {a} : approvals'[b] = approvals[b]
    /\ HasApproval(a) /\ approvals'[a] \in Approval
    /\ approvals'[a].reserved = approvals[a].reserved
    /\ approvals'[a].outcome = approvals[a].outcome
    /\ approvals'[a].status \in Early => approvals[a].status \in Early
    /\ approvals'[a].status # "pending"
    /\ Stands(a)

LEMMA MovesSame ==
    ASSUME StoreInv, NEW a \in Actions, Moves(a)
    PROVE  \A b \in Actions : SameApproval(b) /\ Stands(b)
<1>1. approvals'[a] # NULL
  BY ApprovalAssumption DEF Moves
<1>2. SameApproval(a) /\ Stands(a)
  BY <1>1 DEF Moves, SameApproval, HasApproval
<1>3. \A b \in Actions \ {a} : SameApproval(b)
  BY ApprovalSame DEF Moves, StoreInv, ActionSound
<1>4. \A b \in Actions \ {a} : Stands(b)
  BY DEF Moves, Stands, HasApproval
<1> QED
  BY <1>2, <1>3, <1>4

LEMMA DecideMoves ==
    ASSUME ApprovalTypeOK, NEW a \in Actions, ApprovalSound(a), NEW approved \in BOOLEAN,
           NEW by \in Operators \cup {NULL}, Decide(a, approved, by)
    PROVE  Moves(a) /\ Is(a, Early) /\ Is(a, Early)'
<1> DEFINE new == [approvals[a] EXCEPT
                     !.status = IF approved THEN "approved" ELSE "rejected",
                     !.decidedBy = by]
<1>1. /\ HasApproval(a) /\ approvals[a] \in Approval /\ approvals[a].status = "pending"
      /\ approvals[a].decidedBy = NULL
  BY ApprovalFound DEF Decide, CanDecide, Is, ApprovalSound
<1>2. /\ new \in Approval /\ new.status \in {"approved", "rejected"}
      /\ new.reserved = approvals[a].reserved /\ new.outcome = approvals[a].outcome
  BY <1>1 DEF Approval, ApprovalStatuses
<1>3. Put(a, new)
  BY DEF Decide
<1> HIDE DEF new
<1>4. /\ approvals'[a] = new
      /\ \A b \in Actions \ {a} : approvals'[b] = approvals[b]
  BY <1>3 DEF Put, ApprovalTypeOK
<1>5. approvals'[a] # NULL
  BY <1>2, <1>4, ApprovalAssumption
<1> QED
  BY <1>1, <1>2, <1>4, <1>5 DEF Moves, Stands, Is, HasApproval, Early, TerminalApprovals

LEMMA StatusMoves ==
    ASSUME ApprovalTypeOK, NEW a \in Actions, HasApproval(a),
           NEW status \in ApprovalStatuses \ {"pending"},
           Put(a, [approvals[a] EXCEPT !.status = status]),
           Is(a, TerminalApprovals) => approvals[a].status = status,
           status \in Early => approvals[a].status \in Early
    PROVE  Moves(a) /\ approvals'[a].status = status
<1> DEFINE new == [approvals[a] EXCEPT !.status = status]
<1>1. approvals[a] \in Approval
  BY ApprovalFound
<1>2. /\ new \in Approval /\ new.status = status /\ new.decidedBy = approvals[a].decidedBy
      /\ new.reserved = approvals[a].reserved /\ new.outcome = approvals[a].outcome
  BY <1>1 DEF Approval
<1>3. Put(a, new)
  OBVIOUS
<1> HIDE DEF new
<1>4. /\ approvals'[a] = new
      /\ \A b \in Actions \ {a} : approvals'[b] = approvals[b]
  BY <1>3 DEF Put, ApprovalTypeOK
<1>5. approvals'[a] # NULL
  BY <1>2, <1>4, ApprovalAssumption
<1> QED
  BY <1>1, <1>2, <1>4, <1>5 DEF Moves, Stands

LEMMA ConsumeMoves ==
    ASSUME ApprovalTypeOK, NEW a \in Actions, Is(a, {"executing", "consumed"}),
           NEW record \in Nat,
           Put(a, [approvals[a] EXCEPT !.status = "consumed", !.record = record])
    PROVE  Moves(a)
<1> DEFINE new == [approvals[a] EXCEPT !.status = "consumed", !.record = record]
<1>1. approvals[a] \in Approval /\ HasApproval(a)
  BY ApprovalFound DEF Is
<1>2. /\ new \in Approval /\ new.status = "consumed"
      /\ new.decidedBy = approvals[a].decidedBy
      /\ new.reserved = approvals[a].reserved /\ new.outcome = approvals[a].outcome
  BY <1>1 DEF Approval, ApprovalStatuses
<1>3. Put(a, new)
  OBVIOUS
<1> HIDE DEF new
<1>4. /\ approvals'[a] = new
      /\ \A b \in Actions \ {a} : approvals'[b] = approvals[b]
  BY <1>3 DEF Put, ApprovalTypeOK
<1>5. approvals'[a] # NULL
  BY <1>2, <1>4, ApprovalAssumption
<1> QED
  BY <1>1, <1>2, <1>4, <1>5 DEF Moves, Stands, Early, Is, TerminalApprovals

\* begin_reconciliation, where it stores a new assertion.
LEMMA AssertionStands ==
    ASSUME ApprovalTypeOK, NEW a \in Actions, NEW outcome \in Outcomes,
           NEW by \in Operators, CanConsume(a),
           Put(a, [approvals[a] EXCEPT !.outcome = outcome, !.reconciledBy = by])
    PROVE  /\ \A b \in Actions \ {a} : approvals'[b] = approvals[b]
           /\ HasApproval(a)' /\ Stands(a)
           /\ approvals'[a].outcome = outcome
           /\ approvals'[a].reserved = approvals[a].reserved
           /\ approvals'[a].status = "executing"
<1> DEFINE new == [approvals[a] EXCEPT !.outcome = outcome, !.reconciledBy = by]
<1>1. approvals[a] \in Approval /\ HasApproval(a) /\ approvals[a].status = "executing"
  BY ApprovalFound DEF CanConsume, Is
<1>2. /\ new \in Approval /\ new.status = "executing"
      /\ new.decidedBy = approvals[a].decidedBy
      /\ new.reserved = approvals[a].reserved /\ new.outcome = outcome
  BY <1>1 DEF Approval
<1>3. Put(a, new)
  OBVIOUS
<1> HIDE DEF new
<1>4. /\ approvals'[a] = new
      /\ \A b \in Actions \ {a} : approvals'[b] = approvals[b]
  BY <1>3 DEF Put, ApprovalTypeOK
<1>5. approvals'[a] # NULL
  BY <1>2, <1>4, ApprovalAssumption
<1> QED
  BY <1>1, <1>2, <1>4, <1>5 DEF Stands, Is, TerminalApprovals, HasApproval

-----------------------------------------------------------------------------
(* Steps that write to the approvals only *)

OnlyApprovals ==
    UNCHANGED <<balance, held, reservations, entries, reconciliations, evidence, journal>>

LEMMA OnlyApprovalsRest ==
    ASSUME OnlyApprovals
    PROVE  \A b \in Actions : SameRest(b)
  BY DEF OnlyApprovals, SameRest

LEMMA MovesSound ==
    ASSUME ControlInv, StoreInv, NEW a \in Actions, Moves(a), OnlyApprovals, NoProgress,
           WorkerSound',
           journal # NULL /\ journal.act = a /\ Is(a, Early) => Is(a, Early)'
    PROVE  StoreInv'
<1>1. \A b \in Actions : SameRest(b) /\ SameApproval(b)
  BY MovesSame, OnlyApprovalsRest
<1>2. \A b \in Actions : ActionSound(b)'
  BY <1>1, SoundKept DEF OnlyApprovals
<1>3. journal # NULL => journal.act \in Actions
  BY DEF ControlInv, TypeOK, JournalTypeOK, Operation
<1>4. journal # NULL => (Is(journal.act, Early) => Is(journal.act, Early)')
  BY <1>3 DEF Moves, OnlyApprovals, Is, HasApproval
<1>5. JournalSound'
  BY <1>1, <1>3, <1>4, JournalSoundKept DEF OnlyApprovals
<1>6. NegativeOnlyKnown'
  BY BalanceKept DEF StoreInv, OnlyApprovals
<1> QED
  BY <1>2, <1>5, <1>6 DEF StoreInv

LEMMA NoJournalActing ==
    ASSUME ControlInv, worker.pc \in Acting \cup {"ready"}
    PROVE  /\ journal = NULL
           /\ worker.pc \in Acting => worker.act \in Actions
  BY DEF ControlInv, WorkerInv, WorkerJournal, WorkerAction

LEMMA ResumePendingSound ==
    ASSUME ControlInv, StoreInv, NEW a \in Actions, NEW by \in Operators,
           ResumePending(a, by)
    PROVE  StoreInv' /\ Moves(a)
<1>1. /\ Decide(a, TRUE, by) /\ OnlyApprovals /\ worker'.pc = "begin" /\ worker.pc = "ready"
  BY DEF ResumePending, ledgerVars, OnlyApprovals, ControlInv, TypeOK, Worker, At
<1>2. Moves(a)
  BY <1>1, DecideMoves DEF ControlInv, TypeOK, StoreInv, ActionSound
<1>3. NoProgress /\ WorkerSound' /\ journal = NULL
  BY <1>1, WorkerCareless, NoJournalActing DEF NoProgress, Careless, Locations, Spending
<1> QED
  BY <1>1, <1>2, <1>3, MovesSound

LEMMA BeginSound ==
    ASSUME ControlInv, StoreInv, NEW allowed \in BOOLEAN, Begin(allowed)
    PROVE  StoreInv' /\ \E a \in Actions : Moves(a)
<1>1. /\ worker.pc = "begin" /\ OnlyApprovals
      /\ worker'.pc \in {"authorize", "unreserve"} /\ worker'.act = worker.act
  BY DEF Begin, ledgerVars, OnlyApprovals, ControlInv, TypeOK, Worker, At, GoTo
<1>2. journal = NULL /\ worker.act \in Actions
  BY <1>1, NoJournalActing DEF Acting
<1>3. PICK a \in Actions : a = worker.act
  BY <1>2
<1>4. BeginExecution(a)
  BY <1>3 DEF Begin
<1>5. Moves(a) /\ Is(a, Early)
  BY <1>4, StatusMoves
  DEF BeginExecution, CanBegin, Is, ControlInv, TypeOK, Early, ApprovalStatuses,
      TerminalApprovals
<1>6. WorkerSound'
  BY <1>1, <1>3, <1>5 DEF WorkerSound, Moves, StoreInv, ActionSound, ApprovalSound, Is
<1>7. NoProgress
  BY <1>1 DEF NoProgress
<1> QED
  BY <1>1, <1>2, <1>5, <1>6, <1>7, MovesSound

LEMMA BeginTooLateSound ==
    ASSUME ControlInv, StoreInv, BeginTooLate
    PROVE  StoreInv' /\ \E a \in Actions : Moves(a)
<1>1. worker.pc = "begin" /\ OnlyApprovals /\ worker' = Idle
  BY DEF BeginTooLate, ledgerVars, OnlyApprovals, At, Return
<1>2. journal = NULL /\ worker.act \in Actions
  BY <1>1, NoJournalActing DEF Acting
<1>3. PICK a \in Actions : a = worker.act
  BY <1>2
<1>4. BeginExecutionTooLate(a)
  BY <1>3 DEF BeginTooLate
<1>5. Moves(a)
  BY <1>4, StatusMoves
  DEF BeginExecutionTooLate, Is, ControlInv, TypeOK, Early, ApprovalStatuses,
      TerminalApprovals
<1>6. WorkerSound' /\ NoProgress
  BY <1>1, IdleCareless, WorkerCareless DEF NoProgress, Stages
<1> QED
  BY <1>1, <1>2, <1>5, <1>6, MovesSound

\* The two writes that consume an approval outside the journal.
LEMMA ConsumesSound ==
    ASSUME ControlInv, StoreInv, Consume \/ CloseAsserted
    PROVE  StoreInv' /\ \E a \in Actions : Moves(a)
<1>1. worker.pc \in {"consume", "close"} /\ OnlyApprovals /\ worker' = Idle
  BY DEF Consume, CloseAsserted, ledgerVars, OnlyApprovals, At, Return
<1>2. journal = NULL /\ worker.act \in Actions
  BY <1>1, NoJournalActing DEF Acting
<1>3. PICK a \in Actions : a = worker.act
  BY <1>2
<1>4. IsClosed(a) /\ EvidenceTypeOK
  BY <1>1, <1>3 DEF ControlInv, TypeOK, WorkerInv, WorkerEvidence
<1>5. PICK record \in Nat : record = Terminal(a).id
  <2>1. Terminal(a) \in EvidenceRecord
    BY <1>4, TerminalFound, EvidenceRead DEF Terminals, With
  <2> QED
    BY <2>1 DEF EvidenceRecord
<1>6. MarkConsumed(a, record) \/ MarkReconciled(a, record)
  BY <1>3, <1>5 DEF Consume, CloseAsserted
<1>7. /\ Is(a, {"executing", "consumed"})
      /\ Put(a, [approvals[a] EXCEPT !.status = "consumed", !.record = record])
  BY <1>6 DEF MarkConsumed, MarkReconciled, CanConsume, CanMarkReconciled, IsConsumedBy, Is
<1>8. Moves(a)
  BY <1>7, ConsumeMoves DEF ControlInv, TypeOK
<1>9. WorkerSound' /\ NoProgress
  BY <1>1, IdleCareless, WorkerCareless DEF NoProgress, Stages
<1> QED
  BY <1>1, <1>2, <1>8, <1>9, MovesSound

LEMMA ExternalApproveSound ==
    ASSUME ControlInv, StoreInv, NEW a \in Actions, NEW by \in Operators,
           ExternalApprove(a, by)
    PROVE  StoreInv' /\ Moves(a)
<1>1. Decide(a, TRUE, by) /\ OnlyApprovals /\ worker' = worker
  BY DEF ExternalApprove, ledgerVars, OnlyApprovals
<1>2. Moves(a) /\ Is(a, Early)'
  BY <1>1, DecideMoves DEF ControlInv, TypeOK, StoreInv, ActionSound
<1>3. NoProgress
  BY <1>1 DEF NoProgress
<1>4. WorkerSound'
  <2>1. worker.pc \in Spending => worker.act \in Actions
    BY NoJournalActing DEF Spending, Acting
  <2>2. \A b \in Actions : SameApproval(b)
    BY <1>2, MovesSame
  <2> QED
    BY <1>1, <2>1, <2>2 DEF WorkerSound, StoreInv, SameApproval, OnlyApprovals
<1> QED
  BY <1>1, <1>2, <1>3, <1>4, MovesSound

\* An assertion is stored; what the evidence says already, it repeats.
LEMMA ReconcileExecutionSound ==
    ASSUME ControlInv, StoreInv, NEW a \in Actions, NEW outcome \in Outcomes,
           NEW by \in Operators, ReconcileExecution(a, outcome, by)
    PROVE  StoreInv' /\ \A b \in Actions : Stands(b)
<1>1. /\ worker.pc = "ready" /\ OnlyApprovals /\ worker'.pc = "charge"
      /\ IsClosed(a) => Observed(Terminal(a)) = outcome
      /\ BeginReconciliation(a, outcome, by)
  BY DEF ReconcileExecution, ledgerVars, OnlyApprovals, At, ControlInv, TypeOK, Worker
<1>2. journal = NULL /\ journal' = NULL
  BY <1>1, NoJournalActing DEF OnlyApprovals
<1>3. WorkerSound' /\ JournalSound'
  BY <1>1, <1>2, WorkerCareless DEF Careless, Locations, Spending, JournalSound
<1>4. NegativeOnlyKnown'
  BY <1>1, BalanceKept DEF StoreInv, OnlyApprovals
<1>5. CASE UNCHANGED approvalVars
  <2>1. Unwritten
    BY <1>1, <1>5 DEF OnlyApprovals, Unwritten, approvalVars
  <2>2. \A b \in Actions : Stands(b)
    BY <1>5 DEF Stands, approvalVars, HasApproval
  <2> QED
    BY <1>1, <2>1, <2>2, CarelessMove DEF Careless, Locations, Spending, Stages
<1>6. CASE /\ CanConsume(a)
           /\ Put(a, [approvals[a] EXCEPT !.outcome = outcome, !.reconciledBy = by])
  <2>1. /\ \A b \in Actions \ {a} : approvals'[b] = approvals[b]
        /\ HasApproval(a)' /\ Stands(a)
        /\ approvals'[a].outcome = outcome
        /\ approvals'[a].reserved = approvals[a].reserved
        /\ approvals'[a].status = "executing"
    BY <1>6, AssertionStands DEF ControlInv, TypeOK
  <2>2. \A b \in Actions : SameRest(b)
    BY <1>1, OnlyApprovalsRest
  <2>3. \A b \in Actions \ {a} : SameApproval(b) /\ Stands(b)
    BY <2>1, ApprovalSame DEF StoreInv, ActionSound, Stands, HasApproval
  <2>4. \A b \in Actions \ {a} : ActionSound(b)'
    BY <1>2, <2>2, <2>3, SoundKept
  <2>5. ActionSound(a)'
    <3>1. /\ ActionSound(a) /\ HasApproval(a)
          /\ approvals[a].outcome = ""
      BY <1>6 DEF StoreInv, CanConsume, Is
    <3>2. OnceEnded(a)' /\ LedgerSound(a)' /\ ClosedSound(a)'
      BY <2>2, <3>1, RestRead DEF ActionSound, OnceEnded, LedgerSound, ClosedSound, SameRest
    <3>3. reconciliations[a] = NULL
      <4>1. reconciliations[a] # NULL => reconciliations[a].outcome \in Outcomes
        BY DEF ControlInv, TypeOK, LedgerTypeOK, Marker
      <4> QED
        BY <3>1, <4>1 DEF ActionSound, ApprovalSound, Outcomes
    <3>4. ApprovalSound(a)'
      BY <1>1, <2>1, <2>2, <3>1, <3>3, RestRead
      DEF ActionSound, ApprovalSound, SameRest, Early
    <3>5. MarkerSound(a)'
      BY <2>1 DEF MarkerSound
    <3> QED
      BY <3>2, <3>4, <3>5 DEF ActionSound
  <2> QED
    BY <1>3, <1>4, <2>1, <2>3, <2>4, <2>5 DEF StoreInv
<1> QED
  BY <1>1, <1>5, <1>6 DEF BeginReconciliation

-----------------------------------------------------------------------------
(* Preparing an operation *)

\* What the stores must say when an operation of each kind is prepared.
StoresAllow(kind, a, record, reserved) ==
    /\ kind = "approval_create" => reservations[a] = 0 /\ ~HasApproval(a)
    /\ kind \in Deciding => Is(a, Early) /\ approvals[a].reserved = reserved
    /\ kind = "authorization_reconcile" =>
         /\ ~HasApproval(a) /\ Sealed(a)
         /\ record.status = record.outcome
         /\ reserved > 0 => Booked(a)
         /\ record.id = Len(evidence[a]) + 1
    /\ kind = "execution_complete" /\ HasApproval(a) => approvals[a].outcome = ""

LEMMA PreparedSound ==
    ASSUME ControlInv, StoreInv, NEW kind \in OperationKinds, NEW a \in Actions,
           NEW record, NEW reserved, NEW owner, NEW authority, NEW approved,
           NEW back \in {"idle", "entry"},
           StoresAllow(kind, a, record, reserved),
           Prepare(kind, a, record, reserved, owner, authority, approved),
           Apply(kind, a, back),
           UNCHANGED <<ledgerVars, approvalVars, evidence>>
    PROVE  StoreInv'
<1> DEFINE op == [kind |-> kind, act |-> a, record |-> record,
                  reserved |-> reserved, owner |-> owner,
                  authority |-> authority, approved |-> approved]
<1>1. /\ journal = NULL /\ journal' = op
      /\ op.kind = kind /\ op.act = a /\ op.record = record /\ op.reserved = reserved
  BY DEF Prepare
<1> HIDE DEF op
<1>2. /\ worker'.pc = FirstStage(kind)
      /\ worker'.pc \in {"budget", "approval"}
      /\ worker'.pc = "approval" => kind # "approval_create"
  BY DEF ControlInv, TypeOK, Worker, Apply, FirstStage, Route, OperationKinds
<1>3. UNCHANGED <<balance, held, reservations, entries, reconciliations, approvals, evidence>>
  BY DEF ledgerVars, approvalVars
<1>4. \A b \in Actions : SameRest(b) /\ SameApproval(b)
  BY <1>3, ApprovalSame DEF StoreInv, ActionSound, SameRest
<1>5. \A b \in Actions : ActionSound(b)'
  BY <1>1, <1>4, SoundKept DEF JournalIs
<1>6. NegativeOnlyKnown'
  BY <1>3, BalanceKept DEF StoreInv
<1>7. WorkerSound'
  BY <1>2, WorkerCareless DEF Careless, Locations, Spending, Stages
<1>8. /\ HasApproval(a)' = HasApproval(a) /\ Is(a, Early)' = Is(a, Early)
      /\ Sealed(a)' = Sealed(a) /\ Booked(a)' = Booked(a)
      /\ approvals'[a] = approvals[a] /\ reservations'[a] = reservations[a]
  BY <1>3, <1>4, RestRead DEF Is, HasApproval
<1>9. CreateSound(journal)' /\ DecideSound(journal)' /\ CompleteSound(journal)'
  BY <1>1, <1>2, <1>8 DEF StoresAllow, CreateSound, DecideSound, CompleteSound, Deciding
<1>10. kind = "authorization_reconcile" => ~Appended(journal)'
  <2>1. Len(evidence[a]) \in Nat
    BY EvidenceRead, ReservedNow
  <2> QED
    BY <1>1, <1>3, <2>1 DEF StoresAllow, Appended
<1>11. AssertSound(journal)'
  BY <1>1, <1>2, <1>8, <1>10 DEF StoresAllow, AssertSound
<1> QED
  BY <1>5, <1>6, <1>7, <1>9, <1>11 DEF StoreInv, JournalSound

LEMMA DecisionsPreparedSound ==
    ASSUME ControlInv, StoreInv, NEW a \in Actions,
           Expire(a) \/ \E by \in Operators : Reject(a, by)
    PROVE  StoreInv'
<1> DEFINE reserved == approvals[a].reserved
<1>1. Is(a, Early) /\ UNCHANGED <<ledgerVars, approvalVars, evidence>>
  BY DEF Expire, Reject, Due, CanDecide, Is, Early
<1> HIDE DEF reserved
<1>2. CASE Expire(a)
  <2> DEFINE record == Make(a, "expired", "approval_required", NULL)
  <2>1. StoresAllow("approval_expire", a, record, reserved)
    BY <1>1 DEF StoresAllow, Deciding, reserved
  <2>2. /\ Prepare("approval_expire", a, record, reserved, "local", 0, TRUE)
        /\ Apply("approval_expire", a, "entry")
    BY <1>2 DEF Expire, reserved
  <2> HIDE DEF record
  <2> QED
    BY <1>1, <2>1, <2>2, PreparedSound DEF OperationKinds
<1>3. CASE \E by \in Operators : Reject(a, by)
  <2>1. PICK by \in Operators : Reject(a, by)
    BY <1>3
  <2> DEFINE record == Make(a, "rejected", "approval_required", by)
  <2>2. StoresAllow("approval_reject", a, record, reserved)
    BY <1>1 DEF StoresAllow, Deciding, reserved
  <2>3. /\ Prepare("approval_reject", a, record, reserved, "local", 0, TRUE)
        /\ Apply("approval_reject", a, "idle")
    BY <2>1 DEF Reject, reserved
  <2> HIDE DEF record
  <2> QED
    BY <1>1, <2>2, <2>3, PreparedSound DEF OperationKinds
<1> QED
  BY <1>2, <1>3

\* Nothing durable mentions a fresh action.
LEMMA FreshSound ==
    ASSUME ControlInv, StoreInv, NEW a \in Actions, Fresh(a)
    PROVE  reservations[a] = 0 /\ ~HasApproval(a) /\ ~Booked(a)
<1>1. ~Booked(a) /\ ~HasApproval(a)
  BY DEF Fresh, Booked, EntriesOf
<1>2. reservations[a] \in Nat
  BY LedgerRows DEF ControlInv, TypeOK
<1> QED
  BY <1>1, <1>2 DEF StoreInv, ActionSound, LedgerSound

LEMMA HoldPreparedSound ==
    ASSUME ControlInv, StoreInv, NEW a \in Actions, NEW estimate, NEW owner,
           HandleHold(a, estimate, owner)
    PROVE  StoreInv'
<1> DEFINE record == Make(a, "pending_approval", "approval_required", NULL)
<1>1. StoresAllow("approval_create", a, record, estimate)
  BY FreshSound DEF HandleHold, StoresAllow, Deciding
<1>2. /\ Prepare("approval_create", a, record, estimate, owner, 0, TRUE)
      /\ Apply("approval_create", a, "idle")
      /\ UNCHANGED <<ledgerVars, approvalVars, evidence>>
  BY DEF HandleHold
<1> HIDE DEF record
<1> QED
  BY <1>1, <1>2, PreparedSound DEF OperationKinds

LEMMA CompletionPreparedSound ==
    ASSUME ControlInv, StoreInv, NEW a \in Actions, NEW status, NEW cost, NEW by,
           HasApproval(a) => approvals[a].outcome = "",
           CompleteKnownResult(a, status, cost, by),
           UNCHANGED <<ledgerVars, approvalVars, evidence>>
    PROVE  StoreInv'
<1> DEFINE remaining ==
             IF ReservationFor(a) > 0 \/ cost > 0
               THEN PreviewSettlement(a, ReservationFor(a), cost)
               ELSE Available
           record == [Make(a, status, DecisionFor(a), by) EXCEPT
                        !.cost = cost, !.remaining = remaining]
<1>1. /\ Prepare("execution_complete", a, record, ReservationFor(a), "local",
                 Authorization(a).id, HasApproval(a))
      /\ Apply("execution_complete", a, "idle")
  BY DEF CompleteKnownResult
<1> HIDE DEF remaining, record
<1>2. StoresAllow("execution_complete", a, record, ReservationFor(a))
  BY DEF StoresAllow, Deciding
<1> QED
  BY <1>1, <1>2, PreparedSound DEF OperationKinds

LEMMA CompletionsPreparedSound ==
    ASSUME ControlInv, StoreInv,
           \/ \E status \in {"succeeded", "failed"}, cost \in Costs,
                 dryRun \in BOOLEAN : Complete(status, cost, dryRun)
           \/ \E a \in Actions : CompleteExternal(a)
    PROVE  StoreInv'
<1>1. ASSUME NEW status \in {"succeeded", "failed"}, NEW cost \in Costs,
             NEW dryRun \in BOOLEAN, Complete(status, cost, dryRun)
      PROVE  StoreInv'
  <2>1. /\ worker.act \in Actions
        /\ HasApproval(worker.act) => approvals[worker.act].outcome = ""
    BY <1>1 DEF ControlInv, WorkerInv, WorkerAction, Acting, Complete, At,
                StoreInv, WorkerSound, Spending
  <2> QED
    BY <1>1, <2>1, CompletionPreparedSound DEF Complete
<1>2. ASSUME NEW a \in Actions, CompleteExternal(a)
      PROVE  StoreInv'
  BY <1>2, CompletionPreparedSound DEF CompleteExternal, CanConsume
<1> QED
  BY <1>1, <1>2

\* The exposure of an authorization was reserved for it once.
LEMMA AssertionPreparedSound ==
    ASSUME ControlInv, StoreInv, NEW a \in Actions,
           NEW outcome \in Outcomes, NEW by \in Operators,
           ReconcileAuthorization(a, outcome, by)
    PROVE  StoreInv'
<1> DEFINE cost == CASE HasPriorDebit(a) -> PriorDebit(a)
                     [] ~HasPriorDebit(a) /\ outcome = "not_executed" -> 0
                     [] OTHER -> ExposureFor(a)
           record == [Make(a, outcome, "allow", NULL) EXCEPT
                        !.cost = cost, !.outcome = outcome, !.reconciledBy = by]
<1>1. /\ Prepare("authorization_reconcile", a, record, ExposureFor(a), "local",
                 Authorization(a).id, FALSE)
      /\ Apply("authorization_reconcile", a, "idle")
      /\ UNCHANGED <<ledgerVars, approvalVars, evidence>>
      /\ Sealed(a) /\ ~HasApproval(a)
  BY DEF ReconcileAuthorization, IsOpen, Sealed
<1> HIDE DEF cost
<1>2. /\ record.id = Len(evidence[a]) + 1
      /\ record.status = outcome /\ record.outcome = outcome
  BY DEF Make
<1> HIDE DEF record
<1>3. ExposureFor(a) > 0 => Booked(a)
  <2>1. reservations[a] \in Nat /\ LedgerSound(a)
    BY LedgerRows DEF ControlInv, TypeOK, StoreInv, ActionSound
  <2>2. CASE reservations[a] > 0
    BY <2>1, <2>2 DEF LedgerSound
  <2>3. CASE reservations[a] = 0
    BY <2>3 DEF ExposureFor, Booked
  <2> QED
    BY <2>1, <2>2, <2>3
<1>4. StoresAllow("authorization_reconcile", a, record, ExposureFor(a))
  BY <1>1, <1>2, <1>3 DEF StoresAllow, Deciding
<1> QED
  BY <1>1, <1>4, PreparedSound DEF OperationKinds

-----------------------------------------------------------------------------
(* Steps that write to the ledger *)

OnlyLedger == UNCHANGED <<approvals, evidence, journal>>

LEMMA NoLedgerStep ==
    ASSUME StoreInv, NEW a \in Actions, UNCHANGED ledgerVars
    PROVE  /\ LedgerStep(a)
           /\ reservations'[a] = reservations[a] /\ Booked(a)' = Booked(a)
           /\ UNCHANGED reconciliations
<1>1. UNCHANGED <<balance, held, reservations, entries, reconciliations>>
  BY DEF ledgerVars
<1>2. Booked(a)' = Booked(a) /\ Resolved(a)' = Resolved(a)
  BY <1>1 DEF Booked, Resolved, EntriesOf
<1>3. LedgerSound(a)'
  BY <1>1, <1>2 DEF StoreInv, ActionSound, LedgerSound
<1>4. NegativeOnlyKnown'
  BY <1>1, BalanceKept DEF StoreInv
<1> QED
  BY <1>1, <1>2, <1>3, <1>4 DEF LedgerStep

\* A write on behalf of a is sound if it gives a's money back, or takes it while a
\* goes on, and marks a with nothing but what is asserted of it.
LEMMA LedgerWritten ==
    ASSUME StoreInv, NEW a \in Actions, LedgerStep(a), OnlyLedger,
           \/ reservations'[a] \in {0, reservations[a]}
           \/ /\ ~IsClosed(a)
              /\ HasApproval(a) => reservations'[a] = approvals[a].reserved,
           \/ reconciliations'[a] = reconciliations[a]
           \/ HasApproval(a) /\ approvals[a].outcome = reconciliations'[a].outcome
           \/ MarkerSound(a)'
              /\ ~HasApproval(a)
    PROVE  \A b \in Actions : ActionSound(b)'
<1>1. \A b \in Actions : SameApproval(b) /\ HasApproval(b)' = HasApproval(b)
  BY ApprovalSame DEF StoreInv, ActionSound, OnlyLedger, HasApproval
<1>2. \A b \in Actions \ {a} : SameRest(b)
  BY DEF LedgerStep, OnlyLedger, SameRest
<1>3. \A b \in Actions \ {a} : ActionSound(b)'
  BY <1>1, <1>2, SoundKept DEF OnlyLedger
<1>4. /\ Terminals(a)' = Terminals(a) /\ IsClosed(a)' = IsClosed(a)
      /\ Terminal(a)' = Terminal(a) /\ Sealed(a)' = Sealed(a)
      /\ approvals'[a] = approvals[a]
  BY DEF OnlyLedger, Terminals, With, IsClosed, Terminal, Sealed
<1>5. ActionSound(a)
  BY DEF StoreInv
<1>6. OnceEnded(a)' /\ LedgerSound(a)' /\ ClosedSound(a)'
  BY <1>4, <1>5 DEF ActionSound, OnceEnded, LedgerStep, ClosedSound
<1>7. ApprovalSound(a)'
  <2>1. HasApproval(a) => reservations'[a] \in {0, approvals[a].reserved}
    BY <1>5 DEF ActionSound, ApprovalSound
  <2>2. HasApproval(a) /\ reconciliations'[a] # NULL =>
          approvals[a].outcome = reconciliations'[a].outcome
    BY <1>5 DEF ActionSound, ApprovalSound
  <2> QED
    BY <1>1, <1>4, <1>5, <2>1, <2>2 DEF ActionSound, ApprovalSound, LedgerStep
<1>8. MarkerSound(a)'
  <2>1. CASE reconciliations'[a] = reconciliations[a]
    BY <1>1, <1>4, <1>5, <2>1 DEF ActionSound, MarkerSound, OnlyLedger, JournalIs
  <2>2. CASE HasApproval(a)
    BY <1>1, <2>2 DEF MarkerSound
  <2> QED
    BY <2>1, <2>2
<1>9. ActionSound(a)'
  BY <1>6, <1>7, <1>8 DEF ActionSound
<1> QED
  BY <1>3, <1>9

\* An action that was never sealed and that no one asserted anything about is not
\* reconciled.
LEMMA Unmarked ==
    ASSUME ControlInv, StoreInv, NEW a \in Actions, ~Sealed(a),
           HasApproval(a) => Is(a, Early)
    PROVE  reconciliations[a] = NULL
<1> SUFFICES ASSUME reconciliations[a] # NULL PROVE FALSE
  OBVIOUS
<1>1. reconciliations[a].outcome \in Outcomes
  BY DEF ControlInv, TypeOK, LedgerTypeOK, Marker
<1>2. ActionSound(a)
  BY DEF StoreInv
<1>3. CASE HasApproval(a)
  BY <1>1, <1>2, <1>3 DEF ActionSound, ApprovalSound, Is, Outcomes
<1>4. CASE ~HasApproval(a)
  BY <1>2, <1>4 DEF ActionSound, MarkerSound
<1> QED
  BY <1>3, <1>4

LEMMA HandleAllowSound ==
    ASSUME ControlInv, StoreInv, NEW a \in Actions, NEW estimate \in Estimates,
           NEW external \in BOOLEAN, HandleAllow(a, estimate, external)
    PROVE  StoreInv'
<1>1. /\ worker.pc = "ready" /\ OnlyLedger
      /\ worker'.pc = "authorize" /\ worker'.act = a
      /\ estimate \in Nat
  BY LoopAssumption
  DEF HandleAllow, At, OnlyLedger, approvalVars, ControlInv, TypeOK, Worker
<1>2. /\ reservations[a] = 0 /\ ~HasApproval(a) /\ ~Sealed(a) /\ ~IsClosed(a)
      /\ reconciliations[a] = NULL
  BY FreshSound, FreshLife, Unmarked DEF HandleAllow
<1>3. LedgerTypeOK /\ NegativeOnlyKnown
  BY DEF ControlInv, TypeOK, StoreInv
<1>4. LedgerStep(a) /\ UNCHANGED reconciliations
  <2>1. CASE estimate > 0
    BY <1>1, <1>2, <1>3, <2>1, ReserveStep DEF HandleAllow, Reserve, CanReserve
  <2>2. CASE ~(estimate > 0)
    BY <2>2, NoLedgerStep DEF HandleAllow
  <2> QED
    BY <2>1, <2>2
<1>5. \A b \in Actions : ActionSound(b)'
  BY <1>1, <1>2, <1>4, LedgerWritten
<1>6. WorkerSound'
  BY <1>1, <1>2 DEF WorkerSound, OnlyLedger, HasApproval
<1>7. JournalSound'
  BY <1>1, NoJournalActing DEF JournalSound, OnlyLedger
<1> QED
  BY <1>4, <1>5, <1>6, <1>7 DEF StoreInv, LedgerStep

LEMMA UnreserveSound ==
    ASSUME ControlInv, StoreInv, Unreserve
    PROVE  StoreInv'
<1>1. /\ worker.pc = "unreserve" /\ OnlyLedger
      /\ worker'.pc = "blocked" /\ worker'.act = worker.act
  BY DEF Unreserve, At, GoTo, OnlyLedger, approvalVars, ControlInv, TypeOK, Worker
<1>2. journal = NULL /\ worker.act \in Actions
  BY <1>1, NoJournalActing DEF Acting
<1>3. PICK a \in Actions : a = worker.act
  BY <1>2
<1>4. LedgerTypeOK /\ NegativeOnlyKnown /\ reservations[a] \in Nat
  BY LedgerRows DEF ControlInv, TypeOK, StoreInv
<1>5. LedgerStep(a) /\ reservations'[a] = 0 /\ UNCHANGED reconciliations
  <2>1. CASE reservations[a] > 0
    BY <1>3, <1>4, <2>1, ReleaseStep DEF Unreserve, ReservationFor, Release
  <2>2. CASE reservations[a] = 0
    BY <1>3, <2>2, NoLedgerStep DEF Unreserve, ReservationFor
  <2> QED
    BY <1>4, <2>1, <2>2
<1>6. \A b \in Actions : ActionSound(b)'
  BY <1>1, <1>5, LedgerWritten
<1>7. WorkerSound'
  BY <1>1, <1>3, <1>5 DEF WorkerSound, StoreInv, OnlyLedger, HasApproval, Spending
<1>8. JournalSound'
  BY <1>1, <1>2 DEF JournalSound, OnlyLedger
<1> QED
  BY <1>5, <1>6, <1>7, <1>8 DEF StoreInv, LedgerStep

\* What reconcile_reservation leaves behind, the first time and repeated.
LEMMA ReconciledStep ==
    ASSUME ControlInv, StoreInv, NEW a \in Actions, NEW expected \in Nat,
           NEW outcome \in Outcomes, NEW by \in Operators, NEW authority \in Nat,
           expected > 0 => Booked(a),
           ReconcileReservation(a, expected, outcome, by, authority)
    PROVE  /\ LedgerStep(a) /\ reservations'[a] = 0
           /\ reconciliations'[a] # NULL /\ reconciliations'[a].outcome = outcome
           /\ reconciliations[a] # NULL => reconciliations'[a] = reconciliations[a]
<1>1. LedgerTypeOK /\ NegativeOnlyKnown /\ LedgerSound(a) /\ reservations[a] \in Nat
  BY LedgerRows DEF ControlInv, TypeOK, StoreInv, ActionSound
<1>2. CASE reconciliations[a] # NULL
  <2>1. UNCHANGED ledgerVars /\ reconciliations[a].outcome = outcome
    BY <1>2 DEF ReconcileReservation, CanReconcile, SameInput
  <2>2. reservations[a] = 0
    BY <1>1, <1>2 DEF LedgerSound
  <2> QED
    BY <1>2, <2>1, <2>2, NoLedgerStep
<1>3. CASE reconciliations[a] = NULL
  <2>1. /\ CanReconcile(a, expected, outcome, by, authority)
        /\ AddReconciliation(a, expected, outcome, by, authority)
    BY <1>3 DEF ReconcileReservation
  <2> QED
    BY <1>1, <1>3, <2>1, ReconcileStep
<1> QED
  BY <1>2, <1>3

LEMMA ChargeAssertedSound ==
    ASSUME ControlInv, StoreInv, ChargeAsserted
    PROVE  StoreInv'
<1>1. /\ worker.pc = "charge" /\ OnlyLedger
      /\ worker'.pc \in {"assert", "close"} /\ worker'.act = worker.act
  BY DEF ChargeAsserted, At, GoTo, OnlyLedger, approvalVars, ControlInv, TypeOK, Worker
<1>2. journal = NULL /\ worker.act \in Actions
  BY <1>1, NoJournalActing DEF Acting
<1>3. PICK a \in Actions : a = worker.act
  BY <1>2
<1>4. Asserted(a)
  BY <1>1, <1>3 DEF ControlInv, WorkerInv, WorkerAssertion
<1>5. /\ approvals[a] \in Approval
      /\ approvals[a].reserved > 0 => Booked(a)
  BY <1>4, ReservedNow, ApprovalFound DEF Asserted, StoreInv, ActionSound, ApprovalSound
<1>6. PICK reserved \in Nat, outcome \in Outcomes, by \in Operators :
         /\ reserved = approvals[a].reserved /\ outcome = approvals[a].outcome
         /\ by = approvals[a].reconciledBy
  BY <1>4, <1>5 DEF Approval, Asserted
<1>7. ReconcileReservation(a, reserved, outcome, by, NoRecord)
  BY <1>3, <1>6 DEF ChargeAsserted
<1>8. /\ LedgerStep(a) /\ reservations'[a] = 0
      /\ reconciliations'[a] # NULL /\ reconciliations'[a].outcome = outcome
  BY <1>5, <1>6, <1>7, ReconciledStep DEF NoRecord
<1>9. \A b \in Actions : ActionSound(b)'
  BY <1>1, <1>4, <1>6, <1>8, LedgerWritten DEF Asserted
<1>10. WorkerSound'
  BY <1>1, <1>3, <1>8 DEF WorkerSound, Spending
<1>11. JournalSound'
  BY <1>1, <1>2 DEF JournalSound, OnlyLedger
<1> QED
  BY <1>8, <1>9, <1>10, <1>11 DEF StoreInv, LedgerStep

-----------------------------------------------------------------------------
(* The budget stage *)

LEMMA BudgetMoves ==
    ASSUME ControlInv, LifecycleInv, Advance, worker.pc = "budget"
    PROVE  /\ OnlyLedger /\ journal # NULL
           /\ worker'.pc = IF journal.kind = "approval_create" THEN "approval" ELSE "evidence"
           /\ CanWriteBudget(journal) /\ WriteBudget(journal)
<1>1. OnlyLedger
  BY StageMoves DEF Advance, WriteStage, approvalVars, OnlyLedger
<1>2. worker'.pc = StageAfter(journal.kind, "budget")
  BY StageMoves
<1>3. IF journal.kind = "approval_create" THEN worker'.pc = "approval"
                                          ELSE worker'.pc = "evidence"
  BY <1>2, Applied, StageOrder DEF OperationKinds, Deciding
<1>4. CanWriteBudget(journal) /\ WriteBudget(journal)
  BY DEF Advance, CanWrite, WriteStage
<1> QED
  BY <1>1, <1>3, <1>4, Applied

\* A held call's estimate is reserved, here or before a crash.
LEMMA CreationReserved ==
    ASSUME ControlInv, LifecycleInv, StoreInv, Advance, worker.pc = "budget",
           journal.kind = "approval_create"
    PROVE  StoreInv'
<1>1. PICK a \in Actions : a = journal.act
  BY Applied
<1>2. PICK reserved \in Nat : reserved = journal.reserved
  BY Applied DEF Operation
<1>3. /\ OnlyLedger /\ worker'.pc = "approval" /\ journal # NULL
      /\ IF reserved > 0 THEN EnsureReservation(a, reserved) ELSE UNCHANGED ledgerVars
  BY <1>1, <1>2, BudgetMoves DEF WriteBudget
<1>4. /\ ~Sealed(a) /\ ~IsClosed(a)
      /\ reservations[a] \in {0, reserved}
      /\ HasApproval(a) => Is(a, Early) /\ approvals[a].reserved = reserved
  BY <1>1, <1>2, <1>3, Applied DEF MayEnd, StoreInv, JournalSound, CreateSound
<1>5. LedgerTypeOK /\ NegativeOnlyKnown /\ LedgerSound(a) /\ reconciliations[a] = NULL
  BY <1>4, Unmarked DEF ControlInv, TypeOK, StoreInv, ActionSound
<1>6. /\ LedgerStep(a) /\ UNCHANGED reconciliations
      /\ reservations'[a] \in {0, reserved}
      /\ reserved > 0 => reservations'[a] = reserved /\ Booked(a)'
  <2>1. CASE reserved > 0 /\ reservations[a] = reserved
    <3>1. UNCHANGED ledgerVars /\ Booked(a)
      BY <1>3, <1>5, <2>1 DEF EnsureReservation, LedgerSound
    <3> QED
      BY <2>1, <3>1, NoLedgerStep
  <2>2. CASE reserved > 0 /\ reservations[a] # reserved
    <3>1. AddReservation(a, reserved) /\ reserved <= Available
      BY <1>3, <2>2 DEF EnsureReservation, CanEnsureReservation, CanReserve
    <3> QED
      BY <1>5, <2>2, <3>1, ReserveStep
  <2>3. CASE ~(reserved > 0)
    BY <1>3, <1>4, <2>3, NoLedgerStep
  <2> QED
    BY <2>1, <2>2, <2>3
<1>7. \A b \in Actions : ActionSound(b)'
  BY <1>3, <1>4, <1>6, LedgerWritten
<1>8. WorkerSound'
  BY <1>3 DEF WorkerSound, Spending
<1>9. HasApproval(a)' = HasApproval(a) /\ Is(a, Early)' = Is(a, Early)
  BY <1>3 DEF OnlyLedger, Is, HasApproval
<1>10. CreateSound(journal)'
  BY <1>1, <1>2, <1>3, <1>4, <1>6, <1>9 DEF CreateSound, OnlyLedger
<1>11. JournalSound'
  BY <1>3, <1>10 DEF OnlyLedger, JournalSound, DecideSound, AssertSound, CompleteSound, Deciding
<1> QED
  BY <1>6, <1>7, <1>8, <1>11 DEF StoreInv, LedgerStep

\* What was held for a call that is refused or has ended is given back or charged.
LEMMA BudgetResolved ==
    ASSUME ControlInv, LifecycleInv, StoreInv, Advance, worker.pc = "budget",
           journal.kind \in Deciding \cup {"execution_complete"}
    PROVE  /\ LedgerStep(journal.act) /\ UNCHANGED reconciliations
           /\ reservations'[journal.act] = 0
<1>1. PICK a \in Actions : a = journal.act
  BY Applied
<1>2. PICK reserved \in Nat, record \in EvidenceRecord :
         reserved = journal.reserved /\ record = journal.record
  BY Applied DEF Operation
<1>3. /\ LedgerTypeOK /\ NegativeOnlyKnown /\ reservations[a] \in Nat
      /\ record.cost \in Nat /\ record.id \in Nat
  BY LedgerRows DEF ControlInv, TypeOK, StoreInv, EvidenceRecord
<1>4. CASE journal.kind \in Deciding
  <2>1. IF reserved > 0 THEN EnsureRelease(a, reserved) ELSE UNCHANGED ledgerVars
    BY <1>1, <1>2, <1>4, BudgetMoves DEF WriteBudget, Deciding
  <2>2. Is(a, Early) /\ approvals[a].reserved = reserved
    BY <1>1, <1>2, <1>4, BudgetMoves DEF StoreInv, JournalSound, DecideSound
  <2>3. reservations[a] \in {0, reserved}
    BY <2>2 DEF StoreInv, ActionSound, ApprovalSound, Is
  <2>4. CASE reservations[a] > 0
    BY <1>1, <1>3, <2>1, <2>3, <2>4, ReleaseStep DEF EnsureRelease
  <2>5. CASE reservations[a] = 0
    <3>1. UNCHANGED ledgerVars
      BY <2>1, <2>5 DEF EnsureRelease
    <3> QED
      BY <1>1, <2>5, <3>1, NoLedgerStep
  <2> QED
    BY <1>3, <2>4, <2>5
<1>5. CASE journal.kind = "execution_complete"
  <2>1. IF Settles(journal)
          THEN EnsureSettlement(a, reserved, record.cost, record.id)
          ELSE reservations[a] = 0 /\ UNCHANGED ledgerVars
    BY <1>1, <1>2, <1>5, BudgetMoves DEF CanWriteBudget, WriteBudget, ReservationFor
  <2>2. CASE UNCHANGED ledgerVars /\ reservations[a] = 0
    BY <1>1, <2>2, NoLedgerStep
  <2>3. CASE Debit(a, record.cost, record.id)
    BY <1>1, <1>3, <2>3, DebitStep
  <2>4. ASSUME EnsureSettlement(a, reserved, record.cost, record.id)
        PROVE  \/ UNCHANGED ledgerVars /\ reservations[a] = 0
               \/ Debit(a, record.cost, record.id)
    BY <2>4 DEF EnsureSettlement, CanEnsureSettlement
  <2> QED
    BY <2>1, <2>2, <2>3, <2>4
<1> QED
  BY <1>4, <1>5

LEMMA BudgetResolvedSound ==
    ASSUME ControlInv, LifecycleInv, StoreInv, Advance, worker.pc = "budget",
           journal.kind \in Deciding \cup {"execution_complete"}
    PROVE  StoreInv'
<1>1. PICK a \in Actions : a = journal.act
  BY Applied
<1>2. LedgerStep(a) /\ UNCHANGED reconciliations /\ reservations'[a] = 0
  BY <1>1, BudgetResolved
<1>3. OnlyLedger /\ worker'.pc = "evidence" /\ journal # NULL
  BY BudgetMoves DEF Deciding
<1>4. \A b \in Actions : ActionSound(b)'
  BY <1>2, <1>3, LedgerWritten
<1>5. WorkerSound'
  BY <1>3 DEF WorkerSound, Spending
<1>6. /\ HasApproval(a)' = HasApproval(a) /\ Is(a, Early)' = Is(a, Early)
      /\ approvals' = approvals /\ journal' = journal
  BY <1>3 DEF OnlyLedger, Is, HasApproval
<1>7. DecideSound(journal) /\ CompleteSound(journal)
  BY <1>3 DEF StoreInv, JournalSound
<1>8. DecideSound(journal)' /\ CompleteSound(journal)'
  BY <1>1, <1>2, <1>6, <1>7 DEF DecideSound, CompleteSound
<1>9. JournalSound'
  BY <1>6, <1>8 DEF JournalSound, CreateSound, AssertSound, Deciding
<1> QED
  BY <1>2, <1>4, <1>5, <1>9 DEF StoreInv, LedgerStep

\* An authorization is reconciled, here or before a crash.
LEMMA BudgetAsserted ==
    ASSUME ControlInv, LifecycleInv, StoreInv, Advance, worker.pc = "budget",
           journal.kind = "authorization_reconcile"
    PROVE  StoreInv'
<1>1. PICK a \in Actions : a = journal.act
  BY Applied
<1>2. /\ OnlyLedger /\ worker'.pc = "evidence" /\ journal # NULL
      /\ CanWriteBudget(journal) /\ WriteBudget(journal)
  BY BudgetMoves
<1>3. PICK reserved \in Nat, outcome \in Outcomes, by \in Operators, authority \in Nat :
         /\ reserved = journal.reserved /\ outcome = journal.record.outcome
         /\ by = journal.record.reconciledBy /\ authority = journal.authority
  BY <1>2, Applied DEF Operation, EvidenceRecord, ControlInv, JournalAssertion
<1>4. ReconcileReservation(a, reserved, outcome, by, authority)
  BY <1>1, <1>2, <1>3 DEF WriteBudget
<1>5. /\ ~HasApproval(a) /\ Sealed(a)
      /\ reserved > 0 => Booked(a)
      /\ Appended(journal) => reconciliations[a] # NULL
  BY <1>1, <1>2, <1>3 DEF StoreInv, JournalSound, AssertSound
<1>6. /\ LedgerStep(a) /\ reservations'[a] = 0
      /\ reconciliations'[a] # NULL /\ reconciliations'[a].outcome = outcome
      /\ reconciliations[a] # NULL => reconciliations'[a] = reconciliations[a]
  BY <1>4, <1>5, ReconciledStep
<1>7. reconciliations[a] = NULL => ~IsClosed(a)
  BY <1>1, <1>2, <1>5, Applied, NoConflict DEF CanWriteBudget
<1>8. /\ HasApproval(a)' = HasApproval(a) /\ approvals' = approvals /\ journal' = journal
      /\ Sealed(a)' = Sealed(a) /\ IsClosed(a)' = IsClosed(a)
      /\ Appended(journal)' = Appended(journal)
  BY <1>2, EvidenceStays DEF OnlyLedger, HasApproval, Appended
<1>9. reconciliations[a] = NULL => MarkerSound(a)'
  BY <1>1, <1>2, <1>3, <1>5, <1>6, <1>7, <1>8 DEF MarkerSound, JournalIs
<1>10. \A b \in Actions : ActionSound(b)'
  BY <1>2, <1>5, <1>6, <1>9, LedgerWritten
<1>11. WorkerSound'
  BY <1>2 DEF WorkerSound, Spending
<1>12. Booked(a) => Booked(a)'
  BY <1>6 DEF LedgerStep
<1>13. AssertSound(journal)'
  <2>1. AssertSound(journal)
    BY <1>2 DEF StoreInv, JournalSound
  <2> QED
    BY <1>1, <1>2, <1>6, <1>8, <1>12, <2>1 DEF AssertSound
<1>14. JournalSound'
  BY <1>8, <1>13 DEF JournalSound, CreateSound, DecideSound, CompleteSound, Deciding
<1> QED
  BY <1>6, <1>10, <1>11, <1>14 DEF StoreInv, LedgerStep

-----------------------------------------------------------------------------
(* Steps that append a record *)

OnlyEvidence ==
    UNCHANGED <<balance, held, reservations, entries, reconciliations, approvals, journal>>

\* A record ends an action only when nothing is held for it and nothing else was
\* asserted of it.
LEMMA AppendedSound ==
    ASSUME ControlInv, StoreInv, NEW a \in Actions, NEW record \in EvidenceRecord,
           AppendRecord(a, record), OnlyEvidence,
           record.status \in TerminalResults =>
             /\ ~IsClosed(a) /\ reservations[a] = 0
             /\ HasApproval(a) => approvals[a].outcome \in {"", Observed(record)}
             /\ reconciliations[a] # NULL /\ ~HasApproval(a) =>
                  reconciliations[a].outcome = Observed(record)
    PROVE  /\ \A b \in Actions : ActionSound(b)'
           /\ NegativeOnlyKnown'
           /\ \A b \in Actions : Sealed(b) => Sealed(b)'
<1>1. EvidenceTypeOK /\ \A b \in Actions : ActionSound(b)
  BY DEF ControlInv, TypeOK, StoreInv
<1>2. /\ \A b \in Actions : OnceEnded(b)'
      /\ record.status \in TerminalResults => IsClosed(a)' /\ Terminal(a)' = record
      /\ \A b \in Actions :
           b # a \/ record.status \notin TerminalResults =>
               /\ IsClosed(b)' = IsClosed(b)
               /\ IsClosed(b) => Terminal(b)' = Terminal(b)
  BY <1>1, AppendedEnds DEF ActionSound
<1>3. \A b \in Actions : Sealed(b) => Sealed(b)'
  BY <1>1, AppendedView
<1>4. \A b \in Actions : /\ HasApproval(b)' = HasApproval(b)
                         /\ Booked(b)' = Booked(b) /\ Resolved(b)' = Resolved(b)
  BY DEF OnlyEvidence, HasApproval, Booked, Resolved, EntriesOf
<1>5. ASSUME NEW b \in Actions
      PROVE  LedgerSound(b)' /\ ClosedSound(b)' /\ ApprovalSound(b)' /\ MarkerSound(b)'
  <2>1. LedgerSound(b)'
    BY <1>1, <1>4 DEF ActionSound, LedgerSound, OnlyEvidence
  <2>2. CASE b = a /\ record.status \in TerminalResults
    <3>1. /\ IsClosed(b)' /\ Terminal(b)' = record /\ reservations'[b] = 0
          /\ approvals'[b] = approvals[b] /\ reconciliations'[b] = reconciliations[b]
      BY <1>2, <2>2 DEF OnlyEvidence
    <3>2. ClosedSound(b)'
      BY <3>1 DEF ClosedSound
    <3>3. Observed(Terminal(b))' = Observed(record)
      BY <3>1 DEF Observed
    <3>4. ApprovalSound(b)'
      BY <1>1, <1>4, <2>2, <3>1, <3>3 DEF ActionSound, ApprovalSound
    <3>5. MarkerSound(b)'
      BY <1>1, <1>3, <1>4, <2>2, <3>1, <3>3 DEF ActionSound, MarkerSound
    <3> QED
      BY <2>1, <3>2, <3>4, <3>5
  <2>3. CASE ~(b = a /\ record.status \in TerminalResults)
    <3>1. /\ IsClosed(b)' = IsClosed(b)
          /\ IsClosed(b) => Observed(Terminal(b))' = Observed(Terminal(b))
      BY <1>2, <2>3 DEF Observed
    <3>2. ClosedSound(b)' /\ ApprovalSound(b)'
      BY <1>1, <1>4, <3>1 DEF ActionSound, ClosedSound, ApprovalSound, OnlyEvidence
    <3>3. MarkerSound(b)'
      BY <1>1, <1>3, <1>4, <3>1 DEF ActionSound, MarkerSound, OnlyEvidence, JournalIs
    <3> QED
      BY <2>1, <3>2, <3>3
  <2> QED
    BY <2>2, <2>3
<1>6. NegativeOnlyKnown'
  BY BalanceKept DEF StoreInv, OnlyEvidence
<1> QED
  BY <1>2, <1>3, <1>5, <1>6 DEF ActionSound

LEMMA HandleBlockedSound ==
    ASSUME ControlInv, StoreInv, NEW a \in Actions, HandleBlocked(a)
    PROVE  StoreInv'
<1> DEFINE record == Make(a, "blocked", "block", NULL)
<1>1. record \in EvidenceRecord
  BY ReservedNow, MakeTyped DEF ResultStatuses, Decisions
<1>2. /\ AppendRecord(a, record) /\ OnlyEvidence /\ worker.pc = "ready" /\ worker' = Idle
  BY DEF HandleBlocked, At, Return, ledgerVars, approvalVars, OnlyEvidence
<1> HIDE DEF record
<1>3. /\ reservations[a] = 0 /\ ~HasApproval(a) /\ ~IsClosed(a)
      /\ reconciliations[a] = NULL
  BY FreshSound, FreshLife, Unmarked DEF HandleBlocked
<1>4. (\A b \in Actions : ActionSound(b)') /\ NegativeOnlyKnown'
  BY <1>1, <1>2, <1>3, AppendedSound
<1>5. WorkerSound' /\ JournalSound'
  BY <1>2, IdleCareless, WorkerCareless, NoJournalActing DEF JournalSound, OnlyEvidence
<1> QED
  BY <1>4, <1>5 DEF StoreInv

LEMMA AuthorizeSound ==
    ASSUME ControlInv, StoreInv, Authorize
    PROVE  StoreInv'
<1>1. /\ worker.pc = "authorize" /\ OnlyEvidence
      /\ worker'.pc \in {"answer", "execute"} /\ worker'.act = worker.act
  BY DEF Authorize, At, GoTo, ledgerVars, approvalVars, OnlyEvidence, ControlInv, TypeOK,
         Worker
<1>2. journal = NULL /\ worker.act \in Actions /\ worker.by \in Operators \cup {NULL}
  BY <1>1, NoJournalActing DEF Acting, ControlInv, TypeOK, Worker
<1>3. PICK a \in Actions : a = worker.act
  BY <1>2
<1> DEFINE record == Make(a, "skipped", DecisionFor(a), worker.by)
<1>4. record \in EvidenceRecord /\ record.status = "skipped"
  BY <1>2, ReservedNow, MakeTyped, ZenonT(60) DEF ResultStatuses, Decisions, DecisionFor, Make
<1>5. AppendRecord(a, record)
  BY <1>3 DEF Authorize
<1> HIDE DEF record
<1>6. (\A b \in Actions : ActionSound(b)') /\ NegativeOnlyKnown'
  BY <1>1, <1>4, <1>5, AppendedSound DEF TerminalResults
<1>7. WorkerSound'
  BY <1>1 DEF WorkerSound, StoreInv, OnlyEvidence, HasApproval, Spending
<1>8. JournalSound'
  BY <1>1, <1>2 DEF JournalSound, OnlyEvidence
<1> QED
  BY <1>6, <1>7, <1>8 DEF StoreInv

LEMMA RecordBlockedSound ==
    ASSUME ControlInv, LifecycleInv, StoreInv, RecordBlocked
    PROVE  StoreInv'
<1>1. /\ worker.pc = "blocked" /\ OnlyEvidence /\ worker'.pc = "consume"
  BY DEF RecordBlocked, At, GoTo, ledgerVars, approvalVars, OnlyEvidence, ControlInv,
         TypeOK, Worker
<1>2. journal = NULL /\ worker.act \in Actions /\ worker.by \in Operators \cup {NULL}
  BY <1>1, NoJournalActing DEF Acting, ControlInv, TypeOK, Worker
<1>3. PICK a \in Actions : a = worker.act
  BY <1>2
<1> DEFINE record == Make(a, "blocked", "block", worker.by)
<1>4. record \in EvidenceRecord
  BY <1>2, ReservedNow, MakeTyped DEF ResultStatuses, Decisions
<1>5. AppendRecord(a, record)
  BY <1>3 DEF RecordBlocked
<1> HIDE DEF record
<1>6. /\ ~IsClosed(a) /\ ~Sealed(a) /\ reservations[a] = 0
      /\ HasApproval(a) => approvals[a].outcome = ""
  BY <1>1, <1>3 DEF LifecycleInv, WorkerLifecycle, StoreInv, WorkerSound, Spending
<1>7. ~HasApproval(a) => reconciliations[a] = NULL
  BY <1>6, Unmarked
<1>8. (\A b \in Actions : ActionSound(b)') /\ NegativeOnlyKnown'
  BY <1>1, <1>4, <1>5, <1>6, <1>7, AppendedSound
<1>9. WorkerSound' /\ JournalSound'
  BY <1>1, <1>2 DEF WorkerSound, Spending, JournalSound, OnlyEvidence
<1> QED
  BY <1>8, <1>9 DEF StoreInv

LEMMA RecordAssertedSound ==
    ASSUME ControlInv, LifecycleInv, StoreInv, RecordAsserted
    PROVE  StoreInv'
<1>1. /\ worker.pc = "assert" /\ OnlyEvidence /\ worker'.pc = "close"
  BY DEF RecordAsserted, At, GoTo, ledgerVars, approvalVars, OnlyEvidence, ControlInv,
         TypeOK, Worker
<1>2. journal = NULL /\ worker.act \in Actions
  BY <1>1, NoJournalActing DEF Acting
<1>3. PICK a \in Actions :
         a = worker.act /\ Asserted(a) /\ reconciliations[a] # NULL
  BY <1>1, <1>2 DEF ControlInv, WorkerInv, WorkerAssertion
<1> DEFINE made == Make(a, approvals[a].outcome, "approval_required",
                        approvals[a].decidedBy)
           record == [made EXCEPT !.cost = reconciliations[a].charged,
                                  !.outcome = approvals[a].outcome,
                                  !.reconciledBy = approvals[a].reconciledBy]
<1>4. /\ approvals[a].outcome \in Outcomes
      /\ approvals[a].decidedBy \in Operators \cup {NULL}
      /\ approvals[a].reconciledBy \in Operators
  BY <1>3, ReservedNow DEF Asserted, Approval
<1>5. reconciliations[a].charged \in Nat
  BY <1>3, ReservedNow DEF LedgerTypeOK, Marker
<1>6. made \in EvidenceRecord /\ made.status = approvals[a].outcome
  <2>1. approvals[a].outcome \in ResultStatuses
    BY <1>4 DEF Outcomes, ResultStatuses
  <2>2. "approval_required" \in Decisions
    BY DEF Decisions
  <2> QED
    BY <1>4, <2>1, <2>2, ReservedNow, MakeTyped DEF Make
<1>7. AppendRecord(a, record)
  BY <1>3 DEF RecordAsserted
<1> HIDE DEF made
<1>8. record \in EvidenceRecord /\ record.status = approvals[a].outcome
  BY <1>4, <1>5, <1>6 DEF EvidenceRecord
<1> HIDE DEF record
<1>9. Observed(record) = approvals[a].outcome
  BY <1>4, <1>8 DEF Observed, Outcomes
<1>10. ~IsClosed(a) /\ reservations[a] = 0 /\ HasApproval(a)
  BY <1>1, <1>3 DEF LifecycleInv, WorkerLifecycle, StoreInv, WorkerSound, Asserted
<1>11. (\A b \in Actions : ActionSound(b)') /\ NegativeOnlyKnown'
  BY <1>1, <1>7, <1>8, <1>9, <1>10, AppendedSound
<1>12. WorkerSound' /\ JournalSound'
  BY <1>1, <1>2 DEF WorkerSound, Spending, JournalSound, OnlyEvidence
<1> QED
  BY <1>11, <1>12 DEF StoreInv

-----------------------------------------------------------------------------
(* The evidence stage and the end of an operation *)

\* The next stage finds the record in the evidence.
LEMMA EvidenceStage ==
    ASSUME ControlInv, LifecycleInv, StoreInv, Advance, worker.pc = "evidence",
           OnlyEvidence, Appended(journal)',
           \A b \in Actions : ActionSound(b)' /\ (Sealed(b) => Sealed(b)'),
           NegativeOnlyKnown'
    PROVE  StoreInv'
<1>1. /\ journal # NULL /\ journal' = journal /\ approvals' = approvals
      /\ worker'.pc \in {"approval", "finish"}
      /\ journal.kind = "approval_create" => worker'.pc = "finish"
  BY Applied, StageMoves, StageOrder DEF OperationKinds, Deciding, OnlyEvidence
<1>2. PICK a \in Actions : a = journal.act
  BY Applied
<1>3. /\ HasApproval(a)' = HasApproval(a) /\ Is(a, Early)' = Is(a, Early)
      /\ Booked(a)' = Booked(a)
      /\ Sealed(a) => Sealed(a)'
  BY DEF OnlyEvidence, HasApproval, Is, Booked, EntriesOf
<1>4. /\ CreateSound(journal) /\ DecideSound(journal)
      /\ AssertSound(journal) /\ CompleteSound(journal)
  BY <1>1 DEF StoreInv, JournalSound
<1>5. CreateSound(journal)' /\ DecideSound(journal)' /\ CompleteSound(journal)'
  BY <1>1, <1>2, <1>3, <1>4 DEF CreateSound, DecideSound, CompleteSound, OnlyEvidence
<1>6. AssertSound(journal)'
  BY <1>1, <1>2, <1>3, <1>4 DEF AssertSound, OnlyEvidence
<1>7. WorkerSound' /\ JournalSound'
  BY <1>1, <1>5, <1>6 DEF WorkerSound, Spending, JournalSound
<1> QED
  BY <1>7 DEF StoreInv

LEMMA RecognisedSound ==
    ASSUME ControlInv, LifecycleInv, StoreInv, Advance, worker.pc = "evidence",
           Appended(journal)
    PROVE  StoreInv'
<1>1. PICK a \in Actions : a = journal.act
  BY Applied
<1> DEFINE record == journal.record
<1>2. record.id \in Nat \ {0} /\ EvidenceTypeOK
  BY Applied DEF EvidenceRecord, ControlInv, TypeOK
<1>3. /\ Len(evidence[a]) = record.id /\ evidence[a][record.id] = record
      /\ AppendOnce(a, record)
  BY <1>1 DEF Appended, Advance, WriteStage
<1> HIDE DEF record
<1>4. record.id \in DOMAIN evidence[a]
  BY <1>2, <1>3, EvidenceRead
<1>5. HasRecord(a, record.id)
  BY <1>3, <1>4 DEF HasRecord
<1>6. UNCHANGED evidence
  BY <1>3, <1>5 DEF AppendOnce
<1>7. OnlyEvidence
  BY StageMoves DEF Advance, WriteStage, ledgerVars, approvalVars, OnlyEvidence
<1>8. \A b \in Actions : SameRest(b) /\ SameApproval(b)
  BY <1>6, <1>7, ApprovalSame DEF StoreInv, ActionSound, OnlyEvidence, SameRest
<1>9. \A b \in Actions : ActionSound(b)' /\ Sealed(b)' = Sealed(b)
  BY <1>7, <1>8, SoundKept, RestRead DEF OnlyEvidence
<1>10. NegativeOnlyKnown' /\ Appended(journal)'
  BY <1>6, <1>7, BalanceKept DEF StoreInv, OnlyEvidence, Appended
<1> QED
  BY <1>7, <1>9, <1>10, EvidenceStage

LEMMA RecordedSound ==
    ASSUME ControlInv, LifecycleInv, StoreInv, Advance, worker.pc = "evidence",
           Unappended(journal)
    PROVE  StoreInv'
<1>1. PICK a \in Actions : a = journal.act
  BY Applied
<1>2. PICK record \in EvidenceRecord : record = journal.record
  BY Applied
<1>3. AppendRecord(a, record) /\ Appended(journal)'
  BY <1>1, <1>2, EvidenceAppended
<1>4. OnlyEvidence
  BY StageMoves DEF Advance, WriteStage, ledgerVars, approvalVars, OnlyEvidence
<1>5. /\ ~IsClosed(a) /\ RecordOf(journal) /\ journal # NULL
  BY <1>1, Applied DEF StageReached
<1>6. /\ CreateSound(journal) /\ DecideSound(journal)
      /\ AssertSound(journal) /\ CompleteSound(journal) /\ ActionSound(a)
  BY <1>5 DEF StoreInv, JournalSound
<1>7. CASE journal.kind = "approval_create"
  <2>1. record.status \notin TerminalResults
    BY <1>2, <1>5, <1>7 DEF RecordOf, TerminalResults
  <2> QED
    BY <1>3, <1>4, <2>1, AppendedSound, EvidenceStage
<1>8. CASE journal.kind \in Deciding
  <2>1. HasApproval(a) /\ approvals[a].outcome = "" /\ reservations[a] = 0
    BY <1>1, <1>6, <1>8 DEF DecideSound, ActionSound, ApprovalSound, Is
  <2> QED
    BY <1>3, <1>4, <1>5, <2>1, AppendedSound, EvidenceStage
<1>9. CASE journal.kind = "authorization_reconcile"
  <2>1. /\ ~HasApproval(a) /\ reservations[a] = 0
        /\ reconciliations[a] # NULL /\ record.status = record.outcome
    BY <1>1, <1>2, <1>6, <1>9 DEF AssertSound
  <2>2. reconciliations[a].outcome = record.outcome
    BY <1>2, <1>5, <1>6, <2>1 DEF ActionSound, MarkerSound
  <2>3. record.status \in Outcomes
    BY <1>2, <1>5, <1>9 DEF RecordOf
  <2>4. Observed(record) = record.status
    BY <2>3 DEF Observed, Outcomes
  <2> QED
    BY <1>3, <1>4, <1>5, <2>1, <2>2, <2>4, AppendedSound, EvidenceStage
<1>10. CASE journal.kind = "execution_complete"
  <2>1. reservations[a] = 0 /\ (HasApproval(a) => approvals[a].outcome = "")
    BY <1>1, <1>6, <1>10 DEF CompleteSound
  <2>2. ~HasApproval(a) => reconciliations[a] = NULL
    BY <1>5, <1>6, <1>10 DEF ActionSound, MarkerSound, JournalIs
  <2> QED
    BY <1>3, <1>4, <1>5, <2>1, <2>2, AppendedSound, EvidenceStage
<1> QED
  BY <1>7, <1>8, <1>9, <1>10, Applied DEF OperationKinds, Deciding

LEMMA FinishSound ==
    ASSUME ControlInv, LifecycleInv, StoreInv, Advance, worker.pc = "finish"
    PROVE  StoreInv'
<1>1. /\ journal' = NULL /\ journal # NULL
      /\ UNCHANGED <<balance, held, reservations, entries, reconciliations, approvals, evidence>>
  BY Applied DEF Advance, WriteStage, Finish, ledgerVars, approvalVars
<1>2. worker'.pc \in {"idle", "entry"}
  <2> DEFINE full == worker.full
  <2>1. worker' = Idle \/ worker' = [Idle EXCEPT !.pc = "entry", !.full = full]
    BY DEF ControlInv, TypeOK, Worker, Advance, Return
  <2> HIDE DEF full
  <2>2. Idle.pc = "idle" /\ [Idle EXCEPT !.pc = "entry", !.full = full].pc = "entry"
    BY DEF Idle
  <2> QED
    BY <2>1, <2>2
<1>3. \A b \in Actions : SameRest(b) /\ SameApproval(b)
  BY <1>1, ApprovalSame DEF StoreInv, ActionSound, SameRest
<1>4. ASSUME NEW b \in Actions, JournalIs({"authorization_reconcile"}, b)
      PROVE  IsClosed(b)
  <2>1. /\ Appended(journal) /\ journal.act = b
        /\ journal.record.status \in Outcomes /\ journal.record.id \in Nat \ {0}
    BY <1>1, <1>4, Applied
    DEF JournalIs, StoreInv, JournalSound, AssertSound, RecordOf, EvidenceRecord
  <2>2. PICK id \in Nat \ {0} : id = journal.record.id
    BY <2>1
  <2>3. /\ id \in DOMAIN evidence[b]
        /\ evidence[b][id].status \in TerminalResults
    BY <2>1, <2>2, EvidenceRead
    DEF Appended, ControlInv, TypeOK, Outcomes, TerminalResults
  <2> QED
    BY <2>3 DEF IsClosed, Terminals, With
<1>5. \A b \in Actions : ActionSound(b)'
  BY <1>3, <1>4, SoundKept
<1>6. NegativeOnlyKnown'
  BY <1>1, BalanceKept DEF StoreInv
<1>7. WorkerSound' /\ JournalSound'
  BY <1>1, <1>2 DEF WorkerSound, Spending, JournalSound
<1> QED
  BY <1>5, <1>6, <1>7 DEF StoreInv

-----------------------------------------------------------------------------
(* The approval stage *)

LEMMA ApprovalMoves ==
    ASSUME ControlInv, LifecycleInv, Advance, worker.pc = "approval"
    PROVE  /\ OnlyApprovals /\ journal # NULL
           /\ journal.kind # "authorization_reconcile"
           /\ WriteApproval(journal)
           /\ worker'.pc = StageAfter(journal.kind, "approval")
<1>1. OnlyApprovals
  BY StageMoves DEF Advance, WriteStage, ledgerVars, OnlyApprovals
<1>2. WriteApproval(journal)
  BY DEF Advance, WriteStage
<1>3. journal.kind # "authorization_reconcile"
  BY Applied DEF StagesOf, Route
<1> QED
  BY <1>1, <1>2, <1>3, Applied, StageMoves

\* The approval appears as it was prepared, here or before a crash.
LEMMA CreationStored ==
    ASSUME ControlInv, LifecycleInv, StoreInv, Advance, worker.pc = "approval",
           journal.kind = "approval_create"
    PROVE  StoreInv' /\ \A b \in Actions : Stands(b)
<1>1. PICK a \in Actions : a = journal.act
  BY Applied
<1>2. PICK reserved \in Nat, owner \in Owners :
         reserved = journal.reserved /\ owner = journal.owner
  BY Applied DEF Operation
<1> DEFINE new == Prepared(owner, reserved)
<1>3. /\ OnlyApprovals /\ journal # NULL /\ worker'.pc = "evidence"
      /\ CreatePrepared(a, new)
  BY <1>1, <1>2, ApprovalMoves, StageOrder DEF WriteApproval
<1>4. /\ new \in Approval /\ new.status = "pending" /\ new.reserved = reserved
      /\ new.outcome = "" /\ new.decidedBy = NULL
  BY DEF Prepared, Approval, ApprovalStatuses
<1> HIDE DEF new
<1>5. /\ approvals[a] \in {NULL, new} /\ approvals'[a] = new
      /\ \A b \in Actions \ {a} : approvals'[b] = approvals[b]
  BY <1>3 DEF CreatePrepared, CanCreate, Put, ControlInv, TypeOK, ApprovalTypeOK
<1>6. new # NULL /\ HasApproval(a)' /\ Is(a, Early)'
  BY <1>4, <1>5, ApprovalAssumption DEF HasApproval, Is, Early
<1>7. \A b \in Actions : Stands(b)
  BY <1>5, <1>6 DEF Stands, HasApproval
<1>8. \A b \in Actions : SameRest(b)
  BY <1>3, OnlyApprovalsRest
<1>9. \A b \in Actions \ {a} : ActionSound(b)'
  BY <1>3, <1>5, <1>8, ApprovalSame, SoundKept DEF StoreInv, ActionSound, OnlyApprovals
<1>10. /\ ~Sealed(a) /\ reservations[a] \in {0, reserved}
       /\ reserved > 0 => Booked(a)
       /\ HasApproval(a) => Is(a, Early)
  BY <1>1, <1>2, <1>3, Applied DEF MayEnd, StoreInv, JournalSound, CreateSound
<1>11. reconciliations[a] = NULL
  BY <1>10, Unmarked
<1>12. ActionSound(a)'
  <2>1. OnceEnded(a)' /\ LedgerSound(a)' /\ ClosedSound(a)'
    BY <1>8, RestRead
    DEF StoreInv, ActionSound, OnceEnded, LedgerSound, ClosedSound, SameRest
  <2>2. ApprovalSound(a)'
    BY <1>4, <1>5, <1>8, <1>10, <1>11, RestRead DEF ApprovalSound, SameRest
  <2>3. MarkerSound(a)'
    BY <1>6 DEF MarkerSound
  <2> QED
    BY <2>1, <2>2, <2>3 DEF ActionSound
<1>13. CreateSound(journal)'
  BY <1>1, <1>2, <1>3, <1>4, <1>5, <1>6, <1>10 DEF CreateSound, OnlyApprovals
<1>14. JournalSound' /\ WorkerSound'
  BY <1>3, <1>13
  DEF OnlyApprovals, JournalSound, DecideSound, AssertSound, CompleteSound, Deciding,
      WorkerSound, Spending
<1>15. NegativeOnlyKnown'
  BY <1>3, BalanceKept DEF StoreInv, OnlyApprovals
<1> QED
  BY <1>7, <1>9, <1>12, <1>14, <1>15 DEF StoreInv

\* A write that finds its own earlier effect.
LEMMA ApprovalRecognised ==
    ASSUME ControlInv, StoreInv, OnlyApprovals, approvals' = approvals, NoProgress,
           WorkerSound'
    PROVE  StoreInv' /\ \A b \in Actions : Stands(b)
<1>1. Unwritten
  BY DEF OnlyApprovals, Unwritten
<1>2. \A b \in Actions : Stands(b)
  BY DEF Stands, HasApproval
<1> QED
  BY <1>1, <1>2, MoveSound

LEMMA DecisionStored ==
    ASSUME ControlInv, LifecycleInv, StoreInv, Advance, worker.pc = "approval",
           journal.kind \in Deciding
    PROVE  StoreInv' /\ \A b \in Actions : Stands(b)
<1>1. PICK a \in Actions : a = journal.act
  BY Applied
<1>2. PICK by \in Operators \cup {NULL} : by = journal.record.by
  BY Applied DEF EvidenceRecord
<1>3. /\ OnlyApprovals /\ worker'.pc = "budget"
      /\ EnsureRejected(a, by) \/ ExpireOne(a)
  BY <1>1, <1>2, ApprovalMoves, StageOrder DEF WriteApproval, Deciding
<1>4. NoProgress /\ WorkerSound'
  BY <1>3 DEF NoProgress, WorkerSound, Spending
<1>5. ApprovalTypeOK /\ ApprovalSound(a)
  BY DEF ControlInv, TypeOK, StoreInv, ActionSound
<1>6. CASE Decide(a, FALSE, by)
  <2>1. Moves(a) /\ Is(a, Early)'
    BY <1>5, <1>6, DecideMoves
  <2> QED
    BY <1>3, <1>4, <2>1, MovesSound, MovesSame
<1>7. CASE IsRejectedBy(a, by) /\ UNCHANGED approvalVars
  BY <1>3, <1>4, <1>7, ApprovalRecognised DEF approvalVars
<1>8. CASE ExpireOne(a)
  <2>1. Moves(a) /\ approvals'[a].status = "expired"
    <3>1. /\ Put(a, [approvals[a] EXCEPT !.status = "expired"]) /\ HasApproval(a)
          /\ Is(a, TerminalApprovals) => approvals[a].status = "expired"
          /\ approvals[a].status \in Early
      BY <1>8 DEF ExpireOne, CanExpire, Due, Is, TerminalApprovals, Early
    <3>2. "expired" \in ApprovalStatuses \ {"pending"}
      BY DEF ApprovalStatuses
    <3> QED
      BY <1>5, <3>1, <3>2, StatusMoves
  <2>2. Is(a, Early)'
    BY <2>1 DEF Moves, Stands, Is, HasApproval, Early
  <2> QED
    BY <1>3, <1>4, <2>1, <2>2, MovesSound, MovesSame
<1> QED
  BY <1>3, <1>6, <1>7, <1>8 DEF EnsureRejected

LEMMA CompletionStored ==
    ASSUME ControlInv, LifecycleInv, StoreInv, Advance, worker.pc = "approval",
           journal.kind = "execution_complete"
    PROVE  StoreInv' /\ \A b \in Actions : Stands(b)
<1>1. PICK a \in Actions : a = journal.act
  BY Applied
<1>2. PICK record \in Nat : record = journal.record.id
  BY Applied DEF EvidenceRecord
<1>3. /\ OnlyApprovals /\ worker'.pc = "finish"
      /\ UNCHANGED approvalVars \/ MarkConsumed(a, record)
  BY <1>1, <1>2, ApprovalMoves, StageOrder DEF WriteApproval, EnsureConsumed
<1>4. NoProgress /\ WorkerSound'
  BY <1>3 DEF NoProgress, WorkerSound, Spending
<1>5. CASE UNCHANGED approvalVars
  BY <1>3, <1>4, <1>5, ApprovalRecognised DEF approvalVars
<1>6. CASE MarkConsumed(a, record)
  <2>1. /\ Is(a, {"executing", "consumed"}) /\ ~Is(a, Early)
        /\ Put(a, [approvals[a] EXCEPT !.status = "consumed", !.record = record])
    BY <1>6 DEF MarkConsumed, CanConsume, Is, Early
  <2>2. Moves(a)
    BY <2>1, ConsumeMoves DEF ControlInv, TypeOK
  <2> QED
    BY <1>3, <1>4, <2>1, <2>2, MovesSound, MovesSame
<1> QED
  BY <1>3, <1>5, <1>6

LEMMA AdvanceSound ==
    ASSUME ControlInv, LifecycleInv, StoreInv, Advance
    PROVE  StoreInv' /\ \A b \in Actions : Stands(b)
<1>1. /\ worker.pc \in {"budget", "approval", "evidence", "finish"}
      /\ Appended(journal) \/ Unappended(journal)
      /\ journal.kind \in {"approval_create", "authorization_reconcile", "execution_complete"}
                          \cup Deciding
  BY Applied DEF Advance, Stages, OperationKinds, Deciding
<1>2. CASE worker.pc = "approval"
  BY <1>1, <1>2, CreationStored, DecisionStored, CompletionStored, ApprovalMoves
<1>3. CASE worker.pc # "approval"
  <2>1. approvals' = approvals
    BY <1>3 DEF Advance, WriteStage, approvalVars
  <2>2. \A b \in Actions : Stands(b)
    BY <2>1 DEF Stands, HasApproval
  <2>3. StoreInv'
    BY <1>1, <1>3, CreationReserved, BudgetResolvedSound, BudgetAsserted,
       RecognisedSound, RecordedSound, FinishSound
  <2> QED
    BY <2>2, <2>3
<1> QED
  BY <1>2, <1>3

-----------------------------------------------------------------------------
(* The start, the step and the theorems *)

LEMMA InitStore == Init => StoreInv
<1> SUFFICES ASSUME Init PROVE StoreInv
  OBVIOUS
<1>1. /\ evidence = [a \in Actions |-> << >>]
      /\ approvals = [a \in Actions |-> NULL]
      /\ reconciliations = [a \in Actions |-> NULL]
      /\ reservations = [a \in Actions |-> 0]
      /\ entries = [a \in Actions |-> << >>]
      /\ balance = StartingBalance /\ held = 0
      /\ journal = NULL /\ worker = Idle
  BY DEF Init, EvidenceInit, ApprovalInit, JournalInit, LedgerInit
<1>2. ASSUME NEW a \in Actions PROVE ActionSound(a)
  <2>1. ~HasApproval(a) /\ Terminals(a) = {} /\ ~Booked(a)
    BY <1>1 DEF HasApproval, Terminals, With, Booked, EntriesOf
  <2>2. reconciliations[a] = NULL /\ reservations[a] = 0
    BY <1>1
  <2>3. OnceEnded(a) /\ ApprovalSound(a) /\ ClosedSound(a) /\ MarkerSound(a)
    BY <2>1, <2>2 DEF OnceEnded, ApprovalSound, ClosedSound, MarkerSound
  <2>4. LedgerSound(a)
    <3>1. ~(reservations[a] > 0)
      BY <2>2
    <3> QED
      BY <2>1, <3>1 DEF LedgerSound
  <2> QED
    BY <2>3, <2>4 DEF ActionSound
<1>3. WorkerSound /\ JournalSound
  BY <1>1 DEF WorkerSound, JournalSound, Idle, Spending
<1>4. NegativeOnlyKnown
  <2>1. ~(Available < 0)
    BY <1>1, BalanceAssumption DEF Available
  <2> QED
    BY <2>1 DEF NegativeOnlyKnown
<1> QED
  BY <1>2, <1>3, <1>4 DEF StoreInv

LEMMA NextStore ==
    ASSUME ControlInv, LifecycleInv, StoreInv, Next
    PROVE  StoreInv'
<1>1. CASE Entering
  BY <1>1, EnterSound, RecoverSound, DecisionsPreparedSound DEF Entering
<1>2. CASE Applying
  BY <1>2, AdvanceSound, EnterSound DEF Applying
<1>3. CASE Handling
  BY <1>3, HandleBlockedSound, HoldPreparedSound, HandleAllowSound, AuthorizeSound, EnterSound
  DEF Handling
<1>4. CASE Completing
  BY <1>4, ExecuteSound, EnterSound, CompletionsPreparedSound DEF Completing
<1>5. CASE Resuming
  BY <1>5, ResumePendingSound, ResumeApprovedSound, DecisionsPreparedSound, BeginSound,
     BeginTooLateSound, UnreserveSound, RecordBlockedSound, ConsumesSound
  DEF Resuming
<1>6. CASE Reconciling
  BY <1>6, ReconcileExecutionSound, AssertionPreparedSound, ChargeAssertedSound,
     RecordAssertedSound, ConsumesSound
  DEF Reconciling
<1>7. CASE Outside
  BY <1>7, ExternalApproveSound, OutsideSound DEF Outside
<1>8. CASE Crash
  BY <1>8, EnterSound
<1> QED
  BY <1>1, <1>2, <1>3, <1>4, <1>5, <1>6, <1>7, <1>8 DEF Next

LEMMA StutterStore == ASSUME ControlInv, StoreInv, UNCHANGED vars PROVE StoreInv'
<1>1. UNCHANGED stores /\ worker' = worker
  BY DEF vars, stores
<1> QED
  BY <1>1, StoresUnwritten, StandsSound

LEMMA StoreInvariant == Spec => []StoreInv
<1>1. ControlInv /\ LifecycleInv /\ StoreInv /\ [Next]_vars => StoreInv'
  BY NextStore, StutterStore
<1>2. Init => StoreInv
  BY InitStore
<1> QED
  BY <1>1, <1>2, ControlInvariant, LifecycleInvariant, PTL DEF Spec

\* The evidence of an action ends once, for every set of actions and every number of
\* crashes: no replayed stage, late completion or assertion seals a second end
\* (_recover_operation, reconcile_execution).
THEOREM EndsOnce == Spec => []OneTerminal
<1>1. TypeOK /\ StoreInv => OneTerminal
  <2> SUFFICES ASSUME TypeOK, StoreInv, NEW a \in Actions
               PROVE  Cardinality(Terminals(a)) <= 1
    BY DEF OneTerminal
  <2>1. \A i, j \in Terminals(a) : i = j
    BY DEF StoreInv, ActionSound, OnceEnded
  <2>2. CASE Terminals(a) = {}
    <3>1. Cardinality(Terminals(a)) = 0
      BY <2>2, FS_EmptySet
    <3> QED
      BY <3>1
  <2>3. CASE Terminals(a) # {}
    <3>1. PICK i : Terminals(a) = {i}
      BY <2>1, <2>3
    <3>2. Cardinality(Terminals(a)) = 1
      BY <3>1, FS_Singleton
    <3> QED
      BY <3>2
  <2> QED
    BY <2>2, <2>3
<1> QED
  BY <1>1, TypeCorrect, StoreInvariant, PTL

\* Whatever ended an action, a completion, a refusal or an assertion, gave back or spent
\* what was held for it first.
THEOREM NothingHeldAtTheEnd == Spec => []ClosedHoldsNothing
<1>1. StoreInv => ClosedHoldsNothing
  BY DEF StoreInv, ActionSound, ClosedSound, ClosedHoldsNothing
<1> QED
  BY <1>1, StoreInvariant, PTL

\* What an operator asserted is what the evidence says, although the assertion is
\* written to three stores one after the other, outside the journal
\* (reconcile_execution), and a completion may be under way (complete_external_call).
THEOREM AssertionsAgree == Spec => []AssertionAgrees
<1>1. ControlInv /\ StoreInv => AssertionAgrees
  <2> SUFFICES ASSUME ControlInv, StoreInv, NEW a \in Actions,
                      reconciliations[a] # NULL, IsClosed(a)
               PROVE  Observed(Terminal(a)) = reconciliations[a].outcome
    BY DEF AssertionAgrees
  <2>1. ActionSound(a)
    BY DEF StoreInv
  <2>2. reconciliations[a].outcome # ""
    BY DEF ControlInv, TypeOK, LedgerTypeOK, Marker, Outcomes
  <2>3. CASE HasApproval(a)
    BY <2>1, <2>2, <2>3 DEF ActionSound, ApprovalSound
  <2>4. CASE ~HasApproval(a)
    BY <2>1, <2>4 DEF ActionSound, MarkerSound
  <2> QED
    BY <2>3, <2>4
<1> QED
  BY <1>1, ControlInvariant, StoreInvariant, PTL

\* For every balance, every set of estimates and every set of costs, the ledger goes below
\* zero only on account of an action that cost more than was reserved for it, or that was
\* charged after its reservation had been given back.
THEOREM OverdraftIsKnown == Spec => []NegativeOnlyKnown
<1>1. StoreInv => NegativeOnlyKnown
  BY DEF StoreInv
<1> QED
  BY <1>1, StoreInvariant, PTL

\* Every step leaves every decision standing.
LEMMA NextStands ==
    ASSUME ControlInv, LifecycleInv, StoreInv, Next
    PROVE  \A b \in Actions : Stands(b)
<1>1. ASSUME approvals' = approvals PROVE \A b \in Actions : Stands(b)
  BY <1>1 DEF Stands, HasApproval
<1>2. ASSUME NEW a \in Actions, Moves(a) PROVE \A b \in Actions : Stands(b)
  BY <1>2, MovesSame
<1>3. CASE Entering
  BY <1>1, <1>3
  DEF Entering, Enter, Recover, RefuseUnsafe, Expire, Admit, Leave, stores, approvalVars
<1>4. CASE Applying
  BY <1>1, <1>4, AdvanceSound DEF Applying, RefuseRecovery, stores, approvalVars
<1>5. CASE Handling
  BY <1>1, <1>5
  DEF Handling, HandleBlocked, HandleHold, HandleAllow, Authorize, Answer, stores,
      approvalVars
<1>6. CASE Completing
  BY <1>1, <1>6
  DEF Completing, Execute, ToolRaises, Complete, CompleteExternal, stores, approvalVars
<1>7. CASE Resuming
  <2>1. CASE \/ \E a \in Actions, by \in Operators : ResumeApproved(a, by) \/ Reject(a, by)
             \/ Unreserve \/ RecordBlocked
    BY <1>1, <2>1
    DEF ResumeApproved, Reject, Unreserve, RecordBlocked, stores, approvalVars
  <2>2. CASE \E a \in Actions, by \in Operators : ResumePending(a, by)
    BY <1>2, <2>2, ResumePendingSound
  <2>3. CASE (\E allowed \in BOOLEAN : Begin(allowed)) \/ BeginTooLate \/ Consume
    BY <1>2, <2>3, BeginSound, BeginTooLateSound, ConsumesSound
  <2> QED
    BY <1>7, <2>1, <2>2, <2>3 DEF Resuming
<1>8. CASE Reconciling
  <2>1. CASE \E a \in Actions, outcome \in Outcomes, by \in Operators :
               ReconcileExecution(a, outcome, by)
    BY <2>1, ReconcileExecutionSound
  <2>2. CASE \/ \E a \in Actions, outcome \in Outcomes, by \in Operators :
                  ReconcileAuthorization(a, outcome, by)
             \/ ChargeAsserted \/ RecordAsserted
    BY <1>1, <2>2 DEF ReconcileAuthorization, ChargeAsserted, RecordAsserted, approvalVars
  <2>3. CASE CloseAsserted
    BY <1>2, <2>3, ConsumesSound
  <2> QED
    BY <1>8, <2>1, <2>2, <2>3 DEF Reconciling
<1>9. CASE Outside
  <2>1. CASE \E a \in Actions, by \in Operators : ExternalApprove(a, by)
    BY <1>2, <2>1, ExternalApproveSound
  <2>2. CASE \E a \in Actions : RunnerRuns(a) \/ TimePasses(a)
    BY <1>1, <2>2 DEF RunnerRuns, TimePasses, TtlRunsOut, stores, approvalVars
  <2> QED
    BY <1>9, <2>1, <2>2 DEF Outside
<1>10. CASE Crash
  BY <1>1, <1>10 DEF Crash, stores, approvalVars
<1> QED
  BY <1>3, <1>4, <1>5, <1>6, <1>7, <1>8, <1>9, <1>10 DEF Next

\* No step takes back a rejection, an expiry or a consumption, or replaces who decided:
\* neither a repeated stage nor a decision that the CLI takes while the worker is under
\* way (decide, begin_execution, mark_consumed, begin_reconciliation).
THEOREM DecisionsStand == Spec => DecisionStands
<1>1. ControlInv /\ LifecycleInv /\ StoreInv /\ [Next]_vars =>
        [\A a \in Actions : Stands(a)]_vars
  BY NextStands
<1>2. [][\A a \in Actions : Stands(a)]_vars => DecisionStands
  <2>1. [\A a \in Actions : Stands(a)]_vars =>
          [\A a \in Actions : HasApproval(a) =>
             /\ approvals'[a] # NULL
             /\ Is(a, TerminalApprovals) => approvals'[a].status = approvals[a].status
             /\ approvals[a].decidedBy # NULL =>
                  approvals'[a].decidedBy = approvals[a].decidedBy]_vars
    BY DEF Stands
  <2> QED
    BY <2>1, PTL DEF DecisionStands
<1> QED
  BY <1>1, <1>2, ControlInvariant, LifecycleInvariant, StoreInvariant, PTL DEF Spec

-----------------------------------------------------------------------------
(***************************************************************************)
(* Recovery gets through.  What a stage checks before it writes holds from *)
(* the moment the operation is prepared, and every later writer keeps it,  *)
(* but for the three that Overtaken names.                                 *)
(***************************************************************************)

\* What is held has not been resolved, and whatever waits for a decision has its
\* reservation.
HeldSound(a) ==
    /\ reservations[a] > 0 => ~Resolved(a)
    /\ Is(a, Held) => reservations[a] = approvals[a].reserved

\* The worker that may run a call has spent its approval.
Running == {"unreserve", "authorize", "answer", "execute", "complete"}

RunningSound ==
    worker.pc \in Running /\ HasApproval(worker.act) => Is(worker.act, {"executing"})

\* A creation can still reserve what it was prepared for, and finds its approval as
\* it wrote it or approved.
CreateRepeats(op) ==
    /\ ~Resolved(op.act)
    /\ op.reserved > 0 /\ reservations[op.act] = 0 => op.reserved <= Available
    /\ HasApproval(op.act) =>
         approvals[op.act] = Prepared(op.owner, op.reserved) \/ Is(op.act, {"approved"})
    /\ HasApproval(op.act) \/ worker.pc = "approval" =>
         reservations[op.act] = op.reserved

DecisionRepeats(op) ==
    /\ reservations[op.act] # op.reserved =>
         reservations[op.act] = 0 /\ HasRelease(op.act, op.reserved)
    /\ op.kind = "approval_reject" =>
         Is(op.act, Held) \/ IsRejectedBy(op.act, op.record.by)
    /\ op.kind = "approval_expire" => CanExpire(op.act)

AssertionRepeats(op) ==
    /\ Unappended(op) => ~IsClosed(op.act)
    /\ reconciliations[op.act] # NULL =>
         SameInput(reconciliations[op.act], op.record.outcome, op.record.reconciledBy,
                   op.reserved, op.authority)
    /\ reservations[op.act] \in {0, op.reserved}

CompletionRepeats(op) ==
    /\ op.approved = HasApproval(op.act)
    /\ op.approved => CanEnsureConsumed(op.act, op.record.id)
    /\ Unappended(op) /\ IsClosed(op.act) => With(op.act, {"not_executed"}) # {}
    /\ IF Settles(op)
         THEN CanEnsureSettlement(op.act, op.reserved, op.record.cost, op.record.id)
         ELSE reservations[op.act] = 0

Repeats(op) ==
    /\ op.kind = "approval_create" => CreateRepeats(op)
    /\ op.kind \in Deciding => DecisionRepeats(op)
    /\ op.kind = "authorization_reconcile" => AssertionRepeats(op)
    /\ op.kind = "execution_complete" => CompletionRepeats(op)

RecoveryInv ==
    /\ \A a \in Actions : HeldSound(a)
    /\ RunningSound
    /\ journal # NULL => Repeats(journal)
-----------------------------------------------------------------------------
(* The invariant says that recovery gets through *)

\* The prepared record is recognised or can be appended.
LEMMA RecordRepeats ==
    ASSUME ControlInv, LifecycleInv, NEW op \in Operation, Appended(op) \/ Unappended(op)
    PROVE  CanWriteEvidence(op)
<1>1. PICK a \in Actions, record \in EvidenceRecord :
         a = op.act /\ record = op.record
  BY DEF Operation
<1>2. PICK id \in Nat \ {0} : id = record.id
  BY DEF EvidenceRecord
<1>3. /\ Len(evidence[a]) \in Nat /\ DOMAIN evidence[a] = 1..Len(evidence[a])
      /\ \A i \in DOMAIN evidence[a] : evidence[a][i].id = i
  BY EvidenceRead DEF ControlInv, TypeOK, LifecycleInv, IdsArePlaces
<1>4. HasRecord(a, id) => id \in DOMAIN evidence[a] /\ RecordById(a, id) = evidence[a][id]
  BY <1>3 DEF HasRecord, RecordById
<1>5. CASE Appended(op)
  <2>1. evidence[a][id] = record
    BY <1>1, <1>2, <1>5 DEF Appended
  <2> QED
    BY <1>1, <1>2, <1>4, <2>1 DEF CanWriteEvidence, CanAppendOnce
<1>6. CASE Unappended(op)
  <2>1. Len(evidence[a]) + 1 = id
    BY <1>1, <1>2, <1>6 DEF Unappended
  <2>2. id \notin DOMAIN evidence[a]
    BY <1>3, <2>1
  <2> QED
    BY <1>1, <1>2, <1>4, <2>2 DEF CanWriteEvidence, CanAppendOnce
<1> QED
  BY <1>5, <1>6

\* What was appended is the end, so it is no conflict.
LEMMA OwnTerminal ==
    ASSUME ControlInv, LifecycleInv, StoreInv, NEW op \in Operation, Appended(op),
           op.record.status \in TerminalResults
    PROVE  ~ConflictingTerminal(op)
<1>1. PICK a \in Actions, record \in EvidenceRecord :
         a = op.act /\ record = op.record
  BY DEF Operation
<1>2. PICK id \in Nat \ {0} : id = record.id
  BY DEF EvidenceRecord
<1>3. evidence[a][id] = record /\ Len(evidence[a]) = id /\ EvidenceTypeOK
  BY <1>1, <1>2 DEF Appended, ControlInv, TypeOK
<1>4. id \in Terminals(a)
  <2>1. id \in DOMAIN evidence[a]
    BY <1>2, <1>3, EvidenceRead
  <2> QED
    BY <1>1, <1>3, <2>1 DEF Terminals, With
<1>5. PICK i \in Terminals(a) : Terminal(a) = evidence[a][i]
  BY <1>3, <1>4, TerminalFound DEF IsClosed
<1>6. i = id
  BY <1>4, <1>5 DEF StoreInv, ActionSound, OnceEnded
<1> QED
  BY <1>1, <1>2, <1>3, <1>5, <1>6 DEF ConflictingTerminal

LEMMA OpenNoConflict ==
    ASSUME NEW op, ~IsClosed(op.act)
    PROVE  ~ConflictingTerminal(op)
  BY DEF ConflictingTerminal

LEMMA CreationRecovers ==
    ASSUME ControlInv, LifecycleInv, StoreInv, RecoveryInv, journal # NULL,
           journal.kind = "approval_create"
    PROVE  \/ ApprovedWhileCreated
           \/ CanWriteBudget(journal) /\ CanWriteApproval(journal)
<1>1. PICK a \in Actions, reserved \in Nat, owner \in Owners :
         a = journal.act /\ reserved = journal.reserved /\ owner = journal.owner
  BY DEF ControlInv, TypeOK, JournalTypeOK, Operation
<1>2. /\ reserved > 0 /\ reservations[a] = 0 => reserved <= Available
      /\ HasApproval(a) => approvals[a] = Prepared(owner, reserved) \/ Is(a, {"approved"})
      /\ reservations[a] \in {0, reserved}
  BY <1>1 DEF RecoveryInv, Repeats, CreateRepeats, StoreInv, JournalSound, CreateSound
<1>3. CanWriteBudget(journal)
  BY <1>1, <1>2 DEF CanWriteBudget, CanEnsureReservation, CanReserve
<1>4. CanWriteApproval(journal) \/ ApprovedWhileCreated
  BY <1>1, <1>2 DEF CanWriteApproval, CanCreate, ApprovedWhileCreated, HasApproval
<1> QED
  BY <1>3, <1>4

LEMMA DecisionRecovers ==
    ASSUME ControlInv, LifecycleInv, StoreInv, RecoveryInv, journal # NULL,
           journal.kind \in Deciding
    PROVE  \/ OvertakenRejection
           \/ CanWriteBudget(journal) /\ CanWriteApproval(journal)
<1>1. PICK a \in Actions, reserved \in Nat, by \in Operators \cup {NULL} :
         a = journal.act /\ reserved = journal.reserved /\ by = journal.record.by
  BY DEF ControlInv, TypeOK, JournalTypeOK, Operation, EvidenceRecord
<1>2. /\ reservations[a] # reserved => reservations[a] = 0 /\ HasRelease(a, reserved)
      /\ journal.kind = "approval_reject" => Is(a, Held) \/ IsRejectedBy(a, by)
      /\ journal.kind = "approval_expire" => CanExpire(a)
      /\ Is(a, Early) /\ approvals[a].reserved = reserved
  BY <1>1 DEF RecoveryInv, Repeats, DecisionRepeats, StoreInv, JournalSound, DecideSound
<1>3. CanWriteBudget(journal)
  <2>1. reserved > 0 => CanEnsureRelease(a, reserved)
    BY <1>2 DEF CanEnsureRelease
  <2> QED
    BY <1>1, <2>1 DEF CanWriteBudget, Deciding
<1>4. ApprovalBound(journal)
  BY <1>1, <1>2 DEF ApprovalBound, Is
<1>5. CASE journal.kind = "approval_expire"
  <2>1. CanExpire(journal.act)
    BY <1>1, <1>2, <1>5
  <2> QED
    BY <1>3, <1>4, <1>5, <2>1 DEF CanWriteApproval
<1>6. CASE journal.kind = "approval_reject"
  <2>1. IsRejectedBy(a, by) \/ CanDecide(a) \/ Is(a, {"approved"}) \/ Due(a)
    BY <1>2, <1>6 DEF Is, Held, CanDecide, Due
  <2>2. CanEnsureRejected(journal.act, journal.record.by) \/ OvertakenRejection
    BY <1>1, <1>6, <2>1 DEF CanEnsureRejected, OvertakenRejection
  <2> QED
    BY <1>3, <1>4, <1>6, <2>2 DEF CanWriteApproval
<1> QED
  BY <1>3, <1>5, <1>6 DEF Deciding

LEMMA AssertionRecovers ==
    ASSUME ControlInv, LifecycleInv, StoreInv, RecoveryInv, journal # NULL,
           journal.kind = "authorization_reconcile"
    PROVE  CanWriteBudget(journal)
<1>1. PICK a \in Actions, reserved \in Nat :
         a = journal.act /\ reserved = journal.reserved /\ journal \in Operation
  BY DEF ControlInv, TypeOK, JournalTypeOK, Operation
<1>2. /\ ~HasApproval(a) /\ AssertionRepeats(journal) /\ HeldSound(a)
      /\ Appended(journal) \/ Unappended(journal)
      /\ journal.record.status \in TerminalResults
  <2>1. journal.record.status \in Outcomes
    BY DEF LifecycleInv, JournalLifecycle, RecordOf
  <2> QED
    BY <1>1, <2>1 DEF RecoveryInv, Repeats, StoreInv, JournalSound, AssertSound,
                 LifecycleInv, JournalLifecycle, Outcomes, TerminalResults
<1>3. ~ConflictingTerminal(journal)
  BY <1>1, <1>2, OwnTerminal, OpenNoConflict DEF AssertionRepeats
<1>4. reservations[a] > 0 => LatestDisposition(a) = ""
  BY <1>2 DEF HeldSound, Resolved, LatestDisposition
<1>5. CanReconcile(a, reserved, journal.record.outcome, journal.record.reconciledBy,
                   journal.authority)
  <2>1. reservations[a] \in {0, reserved}
    BY <1>1, <1>2 DEF AssertionRepeats
  <2>2. reconciliations[a] # NULL =>
          SameInput(reconciliations[a], journal.record.outcome,
                    journal.record.reconciledBy, reserved, journal.authority)
    BY <1>1, <1>2 DEF AssertionRepeats
  <2>3. reservations[a] > 0 => reservations[a] = reserved
    BY <2>1
  <2> QED
    BY <1>4, <2>2, <2>3 DEF CanReconcile
<1> QED
  BY <1>1, <1>2, <1>3, <1>5 DEF CanWriteBudget

LEMMA CompletionRecovers ==
    ASSUME ControlInv, LifecycleInv, StoreInv, RecoveryInv, journal # NULL,
           journal.kind = "execution_complete"
    PROVE  \/ CompletedAfterReconciliation
           \/ CanWriteBudget(journal) /\ CanWriteApproval(journal)
<1>1. PICK a \in Actions : a = journal.act /\ journal \in Operation
  BY DEF ControlInv, TypeOK, JournalTypeOK, Operation
<1>2. /\ CompletionRepeats(journal)
      /\ HasApproval(a) => approvals[a].outcome = ""
      /\ Appended(journal) \/ Unappended(journal)
      /\ journal.record.status \in TerminalResults
  <2>1. journal.record.status \in {"succeeded", "failed"}
    BY DEF LifecycleInv, JournalLifecycle, RecordOf
  <2> QED
    BY <1>1, <2>1 DEF RecoveryInv, Repeats, StoreInv, JournalSound, CompleteSound,
                 LifecycleInv, JournalLifecycle, TerminalResults
<1>3. ~ConflictingTerminal(journal) \/ CompletedAfterReconciliation
  <2>1. CASE Appended(journal)
    BY <1>1, <1>2, <2>1, OwnTerminal
  <2>2. CASE Unappended(journal) /\ IsClosed(a)
    BY <1>1, <1>2, <2>2 DEF CompletionRepeats, CompletedAfterReconciliation
  <2>3. CASE ~IsClosed(a)
    BY <1>1, <2>3, OpenNoConflict
  <2> QED
    BY <1>2, <2>1, <2>2, <2>3
<1>4. CompletionBound(journal)
  BY <1>1, <1>2 DEF CompletionBound, CompletionRepeats
<1>5. IF Settles(journal)
        THEN CanEnsureSettlement(a, journal.reserved, journal.record.cost, journal.record.id)
        ELSE ReservationFor(a) = 0
  BY <1>1, <1>2 DEF CompletionRepeats, ReservationFor
<1>6. CanWriteApproval(journal)
  BY <1>2 DEF CanWriteApproval, CompletionRepeats
<1>7. ~ConflictingTerminal(journal) => CanWriteBudget(journal)
  BY <1>1, <1>4, <1>5 DEF CanWriteBudget
<1> QED
  BY <1>3, <1>6, <1>7

LEMMA Recovers ==
    ASSUME ControlInv, LifecycleInv, StoreInv, RecoveryInv
    PROVE  RecoveryRefusedOnlyKnown
<1> SUFFICES ASSUME journal # NULL PROVE Recoverable(journal) \/ Overtaken
  BY DEF RecoveryRefusedOnlyKnown
<1>1. journal \in Operation /\ journal.kind \in OperationKinds
  BY DEF ControlInv, TypeOK, JournalTypeOK, Operation
<1>2. CanWriteEvidence(journal)
  BY <1>1, RecordRepeats DEF LifecycleInv, JournalLifecycle
<1>3. (CanWriteBudget(journal) /\ CanWriteApproval(journal)) \/ Overtaken
  <2>1. journal.kind = "authorization_reconcile" => CanWriteApproval(journal)
    BY DEF CanWriteApproval
  <2> QED
    BY <1>1, <2>1, CreationRecovers, DecisionRecovers, AssertionRecovers, CompletionRecovers
    DEF OperationKinds, Deciding, Overtaken
<1>4. StagesOf(journal) \subseteq Stages
  BY <1>1 DEF StagesOf, Route, Stages, OperationKinds
<1> QED
  BY <1>2, <1>3, <1>4 DEF Recoverable, CanWrite, Stages

-----------------------------------------------------------------------------
(* What a step leaves alone *)

LEMMA HeldKept ==
    ASSUME RecoveryInv, NEW b \in Actions,
           reservations'[b] = reservations[b], entries'[b] = entries[b],
           Is(b, Held)' => Is(b, Held) /\ approvals'[b].reserved = approvals[b].reserved
    PROVE  HeldSound(b)'
<1>1. Resolved(b)' = Resolved(b)
  BY DEF Resolved, EntriesOf
<1> QED
  BY <1>1 DEF RecoveryInv, HeldSound

LEMMA NotHeld ==
    ASSUME NEW b \in Actions, reservations'[b] = 0, ~Is(b, Held)'
    PROVE  HeldSound(b)'
<1>1. ~(reservations'[b] > 0)
  OBVIOUS
<1> QED
  BY <1>1 DEF HeldSound

\* With no operation under way, recovery has nothing to repeat.
LEMMA NothingToRepeat ==
    ASSUME journal' = NULL, \A b \in Actions : HeldSound(b)', RunningSound'
    PROVE  RecoveryInv'
  BY DEF RecoveryInv

\* What the operation on a reads is left as it is; time may pass.
SameStores(a) ==
    /\ SameRest(a) /\ approvals'[a] = approvals[a]
    /\ overdue[a] => overdue'[a]
    /\ Available' = Available

LEMMA RepeatsKept ==
    ASSUME ControlInv, RecoveryInv, journal # NULL, journal' = journal,
           SameStores(journal.act),
           worker'.pc = "approval" /\ journal.kind = "approval_create" =>
             worker.pc = "approval"
    PROVE  Repeats(journal)'
<1>1. PICK a \in Actions : a = journal.act /\ a = journal'.act
  BY DEF ControlInv, TypeOK, JournalTypeOK, Operation
<1>2. /\ reservations'[a] = reservations[a] /\ entries'[a] = entries[a]
      /\ reconciliations'[a] = reconciliations[a] /\ evidence'[a] = evidence[a]
      /\ approvals'[a] = approvals[a] /\ (overdue[a] => overdue'[a])
      /\ Available' = Available /\ Repeats(journal)
  BY <1>1 DEF SameStores, SameRest, RecoveryInv
<1>3. /\ HasApproval(a)' = HasApproval(a)
      /\ \A statuses : Is(a, statuses)' = Is(a, statuses)
      /\ Resolved(a)' = Resolved(a)
      /\ \A kinds : EntriesOf(a, kinds)' = EntriesOf(a, kinds)
      /\ Dispositions(a)' = Dispositions(a)
      /\ IsClosed(a)' = IsClosed(a)
      /\ With(a, {"not_executed"})' = With(a, {"not_executed"})
      /\ Unappended(journal)' = Unappended(journal)
  BY <1>1, <1>2
  DEF HasApproval, Is, Resolved, EntriesOf, Dispositions, IsClosed, Terminals, With,
      Unappended
<1>4. CASE journal.kind = "approval_create"
  <2>1. CreateRepeats(journal)
    BY <1>2, <1>4 DEF Repeats
  <2>2. CreateRepeats(journal)'
    BY <1>1, <1>2, <1>3, <1>4, <2>1 DEF CreateRepeats
  <2> QED
    BY <1>4, <2>2 DEF Repeats, Deciding
<1>5. CASE journal.kind \in Deciding
  <2>1. DecisionRepeats(journal)
    BY <1>2, <1>5 DEF Repeats
  <2>2. DecisionRepeats(journal)'
    BY <1>1, <1>2, <1>3, <2>1
    DEF DecisionRepeats, HasRelease, IsRejectedBy, CanExpire, Due
  <2> QED
    BY <1>5, <2>2 DEF Repeats, Deciding
<1>6. CASE journal.kind = "authorization_reconcile"
  <2>1. AssertionRepeats(journal)
    BY <1>2, <1>6 DEF Repeats
  <2>2. AssertionRepeats(journal)'
    BY <1>1, <1>2, <1>3, <2>1 DEF AssertionRepeats, SameInput
  <2> QED
    BY <1>6, <2>2 DEF Repeats, Deciding
<1>7. CASE journal.kind = "execution_complete"
  <2>1. CompletionRepeats(journal)
    BY <1>2, <1>7 DEF Repeats
  <2>2. ASSUME NEW expected, NEW actual, NEW id
        PROVE  /\ CanEnsureSettlement(a, expected, actual, id) =>
                    CanEnsureSettlement(a, expected, actual, id)'
               /\ CanEnsureConsumed(a, id) => CanEnsureConsumed(a, id)'
    BY <1>2, <1>3 DEF CanEnsureConsumed, CanConsume, IsConsumedBy, CanEnsureSettlement,
                      IsSettledBy
  <2>3. Settles(journal)' = Settles(journal)
    BY DEF Settles
  <2>4. CompletionRepeats(journal)'
    BY <1>1, <1>2, <1>3, <2>1, <2>2, <2>3 DEF CompletionRepeats
  <2> QED
    BY <1>7, <2>4 DEF Repeats, Deciding
<1>8. journal.kind \in OperationKinds
  BY DEF ControlInv, TypeOK, JournalTypeOK, Operation
<1> QED
  BY <1>4, <1>5, <1>6, <1>7, <1>8 DEF OperationKinds, Deciding

-----------------------------------------------------------------------------
(* Steps that write to no store *)

LEMMA MoveRecovers ==
    ASSUME ControlInv, RecoveryInv, Unwritten, NoProgress, RunningSound',
           \A b \in Actions : overdue[b] => overdue'[b]
    PROVE  RecoveryInv'
<1>1. /\ UNCHANGED <<reservations, entries, reconciliations, approvals, evidence, journal>>
      /\ Available' = Available
  BY DEF Unwritten, Available
<1>2. \A b \in Actions : HeldSound(b)' /\ SameStores(b)
  BY <1>1, HeldKept DEF Is, HasApproval, SameStores, SameRest
<1>3. journal # NULL => Repeats(journal)'
  BY <1>1, <1>2, RepeatsKept
  DEF NoProgress, ControlInv, TypeOK, JournalTypeOK, Operation
<1> QED
  BY <1>1, <1>2, <1>3 DEF RecoveryInv

\* Where the worker runs nothing.
LEMMA NotRunning == ASSUME worker'.pc \notin Running PROVE RunningSound'
  BY DEF RunningSound

LEMMA QuietMove ==
    ASSUME ControlInv, RecoveryInv, UNCHANGED stores, NoProgress, RunningSound'
    PROVE  RecoveryInv'
<1>1. \A b \in Actions : overdue[b] => overdue'[b]
  BY DEF stores, approvalVars
<1> QED
  BY <1>1, StoresUnwritten, MoveRecovers

LEMMA EnterRecovers ==
    ASSUME ControlInv, RecoveryInv,
           \/ \E full \in BOOLEAN : Enter(full)
           \/ RefuseUnsafe \/ Admit \/ Leave \/ RefuseRecovery \/ Answer \/ ToolRaises
           \/ Crash \/ Recover
           \/ \E a \in Actions, by \in Operators : ResumeApproved(a, by)
    PROVE  RecoveryInv'
<1>1. UNCHANGED stores
  BY DEF Enter, RefuseUnsafe, Admit, Leave, RefuseRecovery, Answer, ToolRaises, Crash,
         Recover, ResumeApproved
<1>2. worker'.pc \in {"idle", "entry", "ready", "begin"}
      \/ Recover
  <2>1. CASE \E full \in BOOLEAN : Enter(full)
    BY <2>1 DEF Enter, Idle
  <2>2. CASE RefuseUnsafe \/ Leave \/ RefuseRecovery \/ Answer \/ ToolRaises \/ Crash
    BY <2>2 DEF RefuseUnsafe, Leave, RefuseRecovery, Answer, ToolRaises, Crash, Return, Idle
  <2>3. CASE Admit \/ \E a \in Actions, by \in Operators : ResumeApproved(a, by)
    BY <2>3 DEF Admit, ResumeApproved, GoTo, ControlInv, TypeOK, Worker
  <2> QED
    BY <2>1, <2>2, <2>3
<1>3. NoProgress /\ worker'.pc \notin Running
  <2>1. CASE Recover
    <3>1. worker'.pc = FirstStage(journal.kind) /\ journal.kind \in OperationKinds
      BY <2>1 DEF Recover, ControlInv, TypeOK, Worker, JournalTypeOK, Operation
    <3>2. /\ worker'.pc \in {"budget", "approval"}
          /\ worker'.pc = "approval" => journal.kind # "approval_create"
      BY <3>1 DEF FirstStage, Route, OperationKinds
    <3> QED
      BY <3>2 DEF NoProgress, Running
  <2>2. CASE worker'.pc \in {"idle", "entry", "ready", "begin"}
    BY <2>2 DEF NoProgress, Running
  <2> QED
    BY <1>2, <2>1, <2>2
<1> QED
  BY <1>1, <1>3, QuietMove, NotRunning

\* The worker stays where it is, or runs the tool of the same action.
LEMMA RunRecovers ==
    ASSUME ControlInv, RecoveryInv, NEW a \in Actions,
           Execute \/ RunnerRuns(a) \/ TimePasses(a) \/ UNCHANGED vars
    PROVE  RecoveryInv'
<1>1. /\ Unwritten /\ worker'.act = worker.act
      /\ worker' = worker \/ (worker.pc = "execute" /\ worker'.pc = "complete")
  BY StoresUnwritten
  DEF Execute, RunnerRuns, TimePasses, TtlRunsOut, vars, stores, ledgerVars, approvalVars,
      Unwritten, At, GoTo, ControlInv, TypeOK, Worker
<1>2. \A b \in Actions : overdue[b] => overdue'[b]
  BY DEF Execute, RunnerRuns, TimePasses, TtlRunsOut, vars, stores, approvalVars,
         ControlInv, TypeOK, ApprovalTypeOK
<1>3. NoProgress /\ RunningSound'
  BY <1>1 DEF NoProgress, RecoveryInv, RunningSound, Running, Unwritten, Is, HasApproval
<1> QED
  BY <1>1, <1>2, <1>3, MoveRecovers

-----------------------------------------------------------------------------
(* Steps that write to one store while no operation is under way *)

LEMMA EvidenceRecovers ==
    ASSUME ControlInv, RecoveryInv, journal = NULL, OnlyEvidence, RunningSound'
    PROVE  RecoveryInv'
<1>1. \A b \in Actions : HeldSound(b)'
  BY HeldKept DEF OnlyEvidence, Is, HasApproval
<1> QED
  BY <1>1, NothingToRepeat DEF OnlyEvidence

LEMMA RecordsRecover ==
    ASSUME ControlInv, RecoveryInv,
           \/ \E a \in Actions : HandleBlocked(a)
           \/ Authorize \/ RecordBlocked \/ RecordAsserted
    PROVE  RecoveryInv'
<1>1. OnlyEvidence /\ worker.pc \in Acting \cup {"ready"}
  BY DEF HandleBlocked, Authorize, RecordBlocked, RecordAsserted, OnlyEvidence, ledgerVars,
         approvalVars, At, Acting
<1>2. \/ worker'.pc \in {"idle", "consume", "close"}
      \/ worker.pc = "authorize" /\ worker'.act = worker.act
  BY DEF HandleBlocked, Authorize, RecordBlocked, RecordAsserted, At, GoTo, Return, Idle,
         ControlInv, TypeOK, Worker
<1>3. RunningSound'
  BY <1>1, <1>2
  DEF RecoveryInv, RunningSound, Running, OnlyEvidence, Is, HasApproval
<1> QED
  BY <1>1, <1>3, NoJournalActing, EvidenceRecovers

\* Nothing becomes held for a decision, and what is keeps its reservation.
StillHeld(a) ==
    /\ \A b \in Actions \ {a} : approvals'[b] = approvals[b]
    /\ Is(a, Held)' => Is(a, Held) /\ approvals'[a].reserved = approvals[a].reserved

LEMMA ApprovalsHeld ==
    ASSUME RecoveryInv, NEW a \in Actions, StillHeld(a), OnlyApprovals
    PROVE  \A b \in Actions : HeldSound(b)'
<1>1. HeldSound(a)'
  BY HeldKept DEF StillHeld, OnlyApprovals
<1>2. \A b \in Actions \ {a} : HeldSound(b)'
  BY HeldKept DEF StillHeld, OnlyApprovals, Is, HasApproval
<1> QED
  BY <1>1, <1>2

LEMMA DecideHeld ==
    ASSUME ControlInv, StoreInv, NEW a \in Actions, NEW approved \in BOOLEAN,
           NEW by \in Operators \cup {NULL}, Decide(a, approved, by)
    PROVE  StillHeld(a) /\ Is(a, {"pending"}) /\ Is(a, Held)
<1>1. Moves(a)
  BY DecideMoves DEF ControlInv, TypeOK, StoreInv, ActionSound
<1>2. Is(a, {"pending"}) /\ Is(a, Held)
  BY DEF Decide, CanDecide, Is, Held
<1> QED
  BY <1>1, <1>2 DEF Moves, StillHeld

LEMMA StatusHeld ==
    ASSUME ControlInv, StoreInv, NEW a \in Actions,
           BeginExecution(a) \/ BeginExecutionTooLate(a)
    PROVE  StillHeld(a)
<1> DEFINE status == IF CanBegin(a) THEN "executing" ELSE "expired"
<1>1. /\ HasApproval(a) /\ ~Is(a, TerminalApprovals) /\ status \in ApprovalStatuses \ {"pending"}
      /\ approvals[a].status \in Early
      /\ Put(a, [approvals[a] EXCEPT !.status = status])
  BY DEF BeginExecution, BeginExecutionTooLate, CanBegin, Is, TerminalApprovals,
         ApprovalStatuses, Early
<1>2. status \notin Held
  BY DEF Held
<1> HIDE DEF status
<1>3. Moves(a) /\ approvals'[a].status = status
  BY <1>1, StatusMoves DEF ControlInv, TypeOK
<1> QED
  BY <1>2, <1>3 DEF Moves, StillHeld, Is

\* begin_execution leaves the approval executing.
LEMMA BeginSpends ==
    ASSUME ControlInv, NEW a \in Actions, BeginExecution(a)
    PROVE  Is(a, {"executing"})'
<1>1. /\ HasApproval(a) /\ ~Is(a, TerminalApprovals) /\ approvals[a].status \in Early
      /\ "executing" \in ApprovalStatuses \ {"pending"}
      /\ Put(a, [approvals[a] EXCEPT !.status = "executing"])
  BY DEF BeginExecution, CanBegin, Is, TerminalApprovals, ApprovalStatuses, Early
<1>2. Moves(a) /\ approvals'[a].status = "executing"
  BY <1>1, StatusMoves DEF ControlInv, TypeOK
<1> QED
  BY <1>2, ApprovalAssumption DEF Moves, Is, HasApproval

LEMMA BeginsRecover ==
    ASSUME ControlInv, StoreInv, RecoveryInv,
           BeginTooLate \/ \E allowed \in BOOLEAN : Begin(allowed)
    PROVE  RecoveryInv'
<1>1. /\ worker.pc = "begin" /\ OnlyApprovals
      /\ worker' = Idle \/ worker'.act = worker.act
  BY DEF BeginTooLate, Begin, ledgerVars, OnlyApprovals, At, GoTo, Return, ControlInv,
         TypeOK, Worker
<1>2. journal = NULL /\ worker.act \in Actions
  BY <1>1, NoJournalActing DEF Acting
<1>3. PICK a \in Actions : a = worker.act
  BY <1>2
<1>4. BeginExecution(a) \/ (BeginExecutionTooLate(a) /\ worker' = Idle)
  BY <1>3 DEF Begin, BeginTooLate, Return
<1>5. \A b \in Actions : HeldSound(b)'
  BY <1>1, <1>4, StatusHeld, ApprovalsHeld
<1>6. RunningSound'
  <2>1. CASE worker' = Idle
    BY <2>1 DEF RunningSound, Idle, Running
  <2>2. CASE BeginExecution(a) /\ worker'.act = worker.act
    BY <1>3, <2>2, BeginSpends DEF RunningSound
  <2> QED
    BY <1>1, <1>4, <2>1, <2>2
<1> QED
  BY <1>1, <1>2, <1>5, <1>6, NothingToRepeat DEF OnlyApprovals

LEMMA ResumePendingRecovers ==
    ASSUME ControlInv, StoreInv, RecoveryInv, NEW a \in Actions, NEW by \in Operators,
           ResumePending(a, by)
    PROVE  RecoveryInv'
<1>1. /\ Decide(a, TRUE, by) /\ OnlyApprovals /\ worker'.pc = "begin" /\ worker.pc = "ready"
  BY DEF ResumePending, ledgerVars, OnlyApprovals, ControlInv, TypeOK, Worker, At
<1>2. \A b \in Actions : HeldSound(b)'
  BY <1>1, DecideHeld, ApprovalsHeld
<1>3. RunningSound'
  BY <1>1, NotRunning DEF Running
<1> QED
  BY <1>1, <1>2, <1>3, NoJournalActing, NothingToRepeat DEF OnlyApprovals

LEMMA ConsumesRecover ==
    ASSUME ControlInv, StoreInv, RecoveryInv, Consume \/ CloseAsserted
    PROVE  RecoveryInv'
<1>1. worker.pc \in {"consume", "close"} /\ OnlyApprovals /\ worker' = Idle
  BY DEF Consume, CloseAsserted, ledgerVars, OnlyApprovals, At, Return
<1>2. journal = NULL /\ worker.act \in Actions
  BY <1>1, NoJournalActing DEF Acting
<1>3. PICK a \in Actions : a = worker.act
  BY <1>2
<1> DEFINE new == [approvals[a] EXCEPT !.status = "consumed", !.record = Terminal(a).id]
<1>4. Put(a, new) /\ HasApproval(a)
  BY <1>3 DEF Consume, CloseAsserted, MarkConsumed, MarkReconciled, CanConsume,
              CanMarkReconciled, Is
<1>5. new.status = "consumed" /\ ApprovalTypeOK
  BY <1>4, ReservedNow DEF Approval
<1> HIDE DEF new
<1>6. StillHeld(a)
  BY <1>4, <1>5 DEF Put, StillHeld, ApprovalTypeOK, Is, Held
<1>7. \A b \in Actions : HeldSound(b)'
  BY <1>1, <1>6, ApprovalsHeld
<1>8. RunningSound'
  BY <1>1 DEF RunningSound, Idle, Running
<1> QED
  BY <1>1, <1>2, <1>7, <1>8, NothingToRepeat DEF OnlyApprovals

LEMMA ReconcileExecutionRecovers ==
    ASSUME ControlInv, StoreInv, RecoveryInv, NEW a \in Actions, NEW outcome \in Outcomes,
           NEW by \in Operators, ReconcileExecution(a, outcome, by)
    PROVE  RecoveryInv'
<1>1. /\ worker.pc = "ready" /\ OnlyApprovals /\ worker'.pc = "charge"
      /\ BeginReconciliation(a, outcome, by)
  BY DEF ReconcileExecution, ledgerVars, OnlyApprovals, At, ControlInv, TypeOK, Worker
<1>2. StillHeld(a)
  <2>1. CASE UNCHANGED approvalVars
    BY <2>1 DEF StillHeld, approvalVars, Is, HasApproval
  <2>2. CASE /\ CanConsume(a)
             /\ Put(a, [approvals[a] EXCEPT !.outcome = outcome, !.reconciledBy = by])
    <3>1. /\ \A b \in Actions \ {a} : approvals'[b] = approvals[b]
          /\ approvals'[a].status = "executing"
      BY <2>2, AssertionStands DEF ControlInv, TypeOK
    <3> QED
      BY <3>1 DEF StillHeld, Is, Held
  <2> QED
    BY <1>1, <2>1, <2>2 DEF BeginReconciliation
<1>3. \A b \in Actions : HeldSound(b)'
  BY <1>1, <1>2, ApprovalsHeld
<1>4. RunningSound'
  BY <1>1, NotRunning DEF Running
<1> QED
  BY <1>1, <1>3, <1>4, NoJournalActing, NothingToRepeat DEF OnlyApprovals

\* The estimate of a call that the policy allows is reserved for a fresh action.
LEMMA HandleAllowRecovers ==
    ASSUME ControlInv, StoreInv, RecoveryInv, NEW a \in Actions, NEW estimate \in Estimates,
           NEW external \in BOOLEAN, HandleAllow(a, estimate, external)
    PROVE  RecoveryInv'
<1>1. /\ worker.pc = "ready" /\ OnlyLedger /\ worker'.act = a /\ estimate \in Nat
      /\ ~HasApproval(a)
  BY LoopAssumption, FreshSound
  DEF HandleAllow, At, OnlyLedger, approvalVars, ControlInv, TypeOK, Worker
<1>2. /\ ~HasApproval(a)'
      /\ \A b \in Actions : Is(b, Held)' => /\ Is(b, Held)
                                            /\ approvals'[b].reserved = approvals[b].reserved
  BY <1>1 DEF OnlyLedger, HasApproval, Is
<1>3. RunningSound'
  BY <1>1, <1>2 DEF RunningSound
<1>4. \A b \in Actions : HeldSound(b)'
  <2>1. CASE UNCHANGED ledgerVars
    BY <1>2, <2>1, HeldKept DEF ledgerVars
  <2>2. CASE AddReservation(a, estimate)
    <3> DEFINE e == [kind |-> "reserve", amount |-> estimate, reserved |-> 0,
                     after |-> 0, record |-> NoRecord]
    <3>1. e \in Entry /\ e.kind = "reserve"
      BY <1>1 DEF Entry, NoRecord, EntryKinds
    <3>2. /\ entries' = [entries EXCEPT ![a] = Append(@, e)]
          /\ reservations' = [reservations EXCEPT ![a] = estimate]
          /\ UNCHANGED reconciliations
      BY <2>2 DEF AddReservation, Record
    <3> HIDE DEF e
    <3>3. LedgerTypeOK
      BY ReservedNow
    <3>4. /\ Resolved(a)' = (Resolved(a) \/ e.kind \in {"debit", "release"})
          /\ \A b \in Actions \ {a} : entries'[b] = entries[b]
      BY <3>1, <3>2, <3>3, ReasonsKept
    <3>5. ~Resolved(a)
      BY DEF HandleAllow, Fresh, Resolved, EntriesOf
    <3>6. HeldSound(a)'
      BY <1>2, <3>1, <3>4, <3>5 DEF HeldSound, Is
    <3>7. \A b \in Actions \ {a} : HeldSound(b)'
      BY <1>2, <3>2, <3>3, <3>4, HeldKept DEF LedgerTypeOK
    <3> QED
      BY <3>6, <3>7
  <2> QED
    BY <2>1, <2>2 DEF HandleAllow, Reserve
<1> QED
  BY <1>1, <1>3, <1>4, NoJournalActing, NothingToRepeat DEF OnlyLedger

\* A write that gives back or charges what was held for an action no one has to decide on.
LEMMA ResolvedHeld ==
    ASSUME RecoveryInv, NEW a \in Actions, OnlyLedger, LedgerStep(a),
           reservations'[a] = 0, ~Is(a, Held)
    PROVE  \A b \in Actions : HeldSound(b)'
<1>1. \A b \in Actions : Is(b, Held)' = Is(b, Held) /\ approvals'[b] = approvals[b]
  BY DEF OnlyLedger, Is, HasApproval
<1>2. HeldSound(a)'
  BY <1>1, NotHeld
<1>3. \A b \in Actions \ {a} : HeldSound(b)'
  BY <1>1, HeldKept DEF LedgerStep
<1> QED
  BY <1>2, <1>3

LEMMA UnreserveRecovers ==
    ASSUME ControlInv, LifecycleInv, StoreInv, RecoveryInv, Unreserve
    PROVE  RecoveryInv'
<1>1. worker.pc = "unreserve" /\ OnlyLedger /\ worker'.pc = "blocked"
  BY DEF Unreserve, At, GoTo, OnlyLedger, approvalVars, ControlInv, TypeOK, Worker
<1>2. journal = NULL /\ worker.act \in Actions
  BY <1>1, NoJournalActing DEF Acting
<1>3. PICK a \in Actions : a = worker.act
  BY <1>2
<1>4. LedgerTypeOK /\ NegativeOnlyKnown /\ reservations[a] \in Nat
  BY LedgerRows DEF ControlInv, TypeOK, StoreInv
<1>5. LedgerStep(a) /\ reservations'[a] = 0
  <2>1. CASE reservations[a] > 0
    BY <1>3, <1>4, <2>1, ReleaseStep DEF Unreserve, ReservationFor, Release
  <2>2. CASE reservations[a] = 0
    BY <1>3, <2>2, NoLedgerStep DEF Unreserve, ReservationFor
  <2> QED
    BY <1>4, <2>1, <2>2
<1>6. ~Is(a, Held)
  BY <1>1, <1>3 DEF LifecycleInv, WorkerLifecycle, Is, Early, Held
<1>7. RunningSound'
  BY <1>1, NotRunning DEF Running
<1> QED
  BY <1>1, <1>2, <1>5, <1>6, <1>7, ResolvedHeld, NothingToRepeat DEF OnlyLedger

LEMMA ChargeAssertedRecovers ==
    ASSUME ControlInv, LifecycleInv, StoreInv, RecoveryInv, ChargeAsserted
    PROVE  RecoveryInv'
<1>1. worker.pc = "charge" /\ OnlyLedger /\ worker'.pc \in {"assert", "close"}
  BY DEF ChargeAsserted, At, GoTo, OnlyLedger, approvalVars, ControlInv, TypeOK, Worker
<1>2. journal = NULL /\ worker.act \in Actions
  BY <1>1, NoJournalActing DEF Acting
<1>3. PICK a \in Actions : a = worker.act
  BY <1>2
<1>4. Asserted(a)
  BY <1>1, <1>3 DEF ControlInv, WorkerInv, WorkerAssertion
<1>5. approvals[a] \in Approval /\ (approvals[a].reserved > 0 => Booked(a))
  BY <1>4, ReservedNow, ApprovalFound DEF Asserted, StoreInv, ActionSound, ApprovalSound
<1>6. PICK reserved \in Nat, outcome \in Outcomes, by \in Operators :
         /\ reserved = approvals[a].reserved /\ outcome = approvals[a].outcome
         /\ by = approvals[a].reconciledBy
  BY <1>4, <1>5 DEF Approval, Asserted
<1>7. LedgerStep(a) /\ reservations'[a] = 0
  <2>1. ReconcileReservation(a, reserved, outcome, by, NoRecord)
    BY <1>3, <1>6 DEF ChargeAsserted
  <2> QED
    BY <1>5, <1>6, <2>1, ReconciledStep DEF NoRecord
<1>8. ~Is(a, Held)
  BY <1>1, <1>3 DEF LifecycleInv, WorkerLifecycle, Is, Early, Held
<1>9. RunningSound'
  BY <1>1, NotRunning DEF Running
<1> QED
  BY <1>1, <1>2, <1>7, <1>8, <1>9, ResolvedHeld, NothingToRepeat DEF OnlyLedger

-----------------------------------------------------------------------------
(* cmd_decide approves while an operation may be under way *)

LEMMA ExternalApproveRecovers ==
    ASSUME ControlInv, StoreInv, RecoveryInv, NEW b \in Actions, NEW by \in Operators,
           ExternalApprove(b, by)
    PROVE  RecoveryInv'
<1>1. Decide(b, TRUE, by) /\ OnlyApprovals /\ worker' = worker /\ UNCHANGED ledgerVars
  BY DEF ExternalApprove, ledgerVars, OnlyApprovals
<1>2. StillHeld(b) /\ Is(b, {"pending"}) /\ Moves(b)
  BY <1>1, DecideHeld, DecideMoves DEF ControlInv, TypeOK, StoreInv, ActionSound
<1>3. \A c \in Actions : HeldSound(c)'
  BY <1>1, <1>2, ApprovalsHeld
<1>4. RunningSound'
  <2>1. worker.pc \in Running => worker.act \in Actions
    BY NoJournalActing DEF Running, Acting
  <2>2. \A c \in Actions \ {b} : Is(c, {"executing"})' = Is(c, {"executing"})
    BY <1>2 DEF StillHeld, Is, HasApproval
  <2>3. ~Is(b, {"executing"}) /\ HasApproval(b)
    BY <1>2 DEF Is
  <2>4. \A c \in Actions : HasApproval(c)' => HasApproval(c)
    BY <1>2, <2>3 DEF StillHeld, HasApproval
  <2> QED
    BY <1>1, <2>1, <2>2, <2>3, <2>4 DEF RecoveryInv, RunningSound
<1>5. ASSUME journal # NULL PROVE Repeats(journal)'
  <2>1. PICK a \in Actions : a = journal.act /\ a = journal'.act
    BY <1>1, <1>5 DEF OnlyApprovals, ControlInv, TypeOK, JournalTypeOK, Operation
  <2>2. Available' = Available /\ overdue' = overdue /\ journal' = journal /\ SameRest(a)
    BY <1>1, OnlyApprovalsRest DEF OnlyApprovals, Available, Decide, Put
  <2>3. CASE a # b
    <3>1. SameStores(a)
      BY <1>2, <2>2, <2>3 DEF StillHeld, SameStores
    <3> QED
      BY <1>1, <1>5, <2>1, <2>2, <3>1, RepeatsKept
  <2>4. CASE a = b
    <3>1. /\ Is(a, {"pending"}) /\ ~overdue[a] /\ HasApproval(a)
          /\ Is(a, {"approved"})' /\ Is(a, Held)' /\ HasApproval(a)'
      <4> DEFINE new == [approvals[b] EXCEPT
                           !.status = IF TRUE THEN "approved" ELSE "rejected",
                           !.decidedBy = by]
      <4>1. Put(b, new) /\ ~overdue[b] /\ HasApproval(b)
        BY <1>1 DEF Decide, CanDecide, Is
      <4>2. new.status = "approved"
        BY <4>1, ReservedNow DEF Approval
      <4> HIDE DEF new
      <4>3. approvals'[b] = new /\ approvals'[b] # NULL
        BY <1>2, <4>1, ReservedNow, ApprovalAssumption DEF Put, ApprovalTypeOK, Moves
      <4> QED
        BY <1>2, <2>4, <4>1, <4>2, <4>3 DEF Is, HasApproval, Held
    <3>2. /\ reservations'[a] = reservations[a] /\ Resolved(a)' = Resolved(a)
          /\ EntriesOf(a, {"release"})' = EntriesOf(a, {"release"})
          /\ entries'[a] = entries[a]
      BY <2>2 DEF SameRest, Resolved, EntriesOf
    <3>3. CASE journal.kind = "approval_create"
      <4>1. CreateRepeats(journal)
        BY <1>5, <3>3 DEF RecoveryInv, Repeats
      <4>2. CreateRepeats(journal)'
        BY <1>1, <2>1, <2>2, <3>1, <3>2, <4>1 DEF CreateRepeats
      <4> QED
        BY <2>2, <3>3, <4>2 DEF Repeats, Deciding
    <3>4. CASE journal.kind \in Deciding
      <4>1. DecisionRepeats(journal)
        BY <1>5, <3>4 DEF RecoveryInv, Repeats
      <4>2. journal.kind # "approval_expire"
        BY <2>1, <3>1, <4>1 DEF DecisionRepeats, CanExpire, Due, Is
      <4>3. DecisionRepeats(journal)'
        BY <2>1, <2>2, <3>1, <3>2, <4>1, <4>2 DEF DecisionRepeats, HasRelease
      <4> QED
        BY <2>2, <3>4, <4>3 DEF Repeats, Deciding
    <3>5. journal.kind # "authorization_reconcile"
      BY <1>5, <2>1, <3>1 DEF StoreInv, JournalSound, AssertSound
    <3>6. journal.kind # "execution_complete"
      BY <1>5, <2>1, <3>1
      DEF RecoveryInv, Repeats, CompletionRepeats, CanEnsureConsumed, CanConsume,
          IsConsumedBy, Is
    <3>7. journal.kind \in OperationKinds
      BY <1>5 DEF ControlInv, TypeOK, JournalTypeOK, Operation
    <3> QED
      BY <3>3, <3>4, <3>5, <3>6, <3>7 DEF OperationKinds, Deciding
  <2> QED
    BY <2>3, <2>4
<1> QED
  BY <1>1, <1>3, <1>4, <1>5 DEF RecoveryInv, OnlyApprovals

-----------------------------------------------------------------------------
(* Preparing an operation *)

\* What the stores must say for the operation to get through once it is prepared.
MayRepeat(kind, a, cost, reserved, approved) ==
    /\ kind = "approval_create" =>
         /\ ~Resolved(a) /\ ~HasApproval(a)
         /\ reserved > 0 => reserved <= Available
    /\ kind \in Deciding => reservations[a] = reserved
    /\ kind = "approval_reject" => Is(a, Held)
    /\ kind = "approval_expire" => Due(a)
    /\ kind = "authorization_reconcile" =>
         /\ ~IsClosed(a) /\ reconciliations[a] = NULL
         /\ reservations[a] \in {0, reserved}
    /\ kind = "execution_complete" =>
         /\ approved = HasApproval(a)
         /\ HasApproval(a) => CanConsume(a)
         /\ IsClosed(a) => With(a, {"not_executed"}) # {}
         /\ reservations[a] = reserved
         /\ reserved > 0 \/ cost > 0 => Dispositions(a) = {}

LEMMA PreparedRecovers ==
    ASSUME ControlInv, RecoveryInv, NEW kind \in OperationKinds, NEW a \in Actions,
           NEW record, NEW reserved, NEW owner, NEW authority, NEW approved,
           NEW back \in {"idle", "entry"},
           MayRepeat(kind, a, record.cost, reserved, approved),
           Prepare(kind, a, record, reserved, owner, authority, approved),
           Apply(kind, a, back),
           UNCHANGED <<ledgerVars, approvalVars, evidence>>
    PROVE  RecoveryInv'
<1> DEFINE op == [kind |-> kind, act |-> a, record |-> record,
                  reserved |-> reserved, owner |-> owner,
                  authority |-> authority, approved |-> approved]
<1>1. /\ journal' = op
      /\ op.kind = kind /\ op.act = a /\ op.record = record /\ op.reserved = reserved
      /\ op.approved = approved
  BY DEF Prepare
<1> HIDE DEF op
<1>2. /\ worker'.pc \in {"budget", "approval"}
      /\ worker'.pc = "approval" => kind # "approval_create"
  BY DEF ControlInv, TypeOK, Worker, Apply, FirstStage, Route, OperationKinds
<1>3. RunningSound'
  BY <1>2, NotRunning DEF Running
<1>4. UNCHANGED <<balance, held, reservations, entries, reconciliations, approvals, overdue,
                  evidence>>
  BY DEF ledgerVars, approvalVars
<1>5. \A b \in Actions : HeldSound(b)'
  BY <1>4, HeldKept DEF Is, HasApproval
<1>6. /\ HasApproval(a)' = HasApproval(a) /\ approvals'[a] = approvals[a]
      /\ \A statuses : Is(a, statuses)' = Is(a, statuses)
      /\ Due(a)' = Due(a) /\ CanConsume(a)' = CanConsume(a)
      /\ Resolved(a)' = Resolved(a) /\ Dispositions(a)' = Dispositions(a)
      /\ reservations'[a] = reservations[a] /\ reconciliations'[a] = reconciliations[a]
      /\ Available' = Available
      /\ IsClosed(a)' = IsClosed(a)
      /\ With(a, {"not_executed"})' = With(a, {"not_executed"})
  BY <1>4
  DEF HasApproval, Is, Due, CanConsume, Resolved, Dispositions, EntriesOf, Available,
      IsClosed, Terminals, With
<1>7. reservations[a] \in Nat
  BY LedgerRows, ReservedNow
<1>8. CASE kind = "approval_create"
  <2>1. CreateRepeats(journal)'
    BY <1>1, <1>2, <1>6, <1>8 DEF MayRepeat, CreateRepeats
  <2>2. Repeats(journal)'
    BY <1>1, <1>8, <2>1 DEF Repeats, Deciding
  <2> QED
    BY <1>3, <1>5, <2>2 DEF RecoveryInv
<1>9. CASE kind \in Deciding
  <2>1. DecisionRepeats(journal)'
    BY <1>1, <1>6, <1>9 DEF MayRepeat, DecisionRepeats, CanExpire
  <2>2. Repeats(journal)'
    BY <1>1, <1>9, <2>1 DEF Repeats, Deciding
  <2> QED
    BY <1>3, <1>5, <2>2 DEF RecoveryInv
<1>10. CASE kind = "authorization_reconcile"
  <2>1. AssertionRepeats(journal)'
    BY <1>1, <1>6, <1>10 DEF MayRepeat, AssertionRepeats
  <2>2. Repeats(journal)'
    BY <1>1, <1>10, <2>1 DEF Repeats, Deciding
  <2> QED
    BY <1>3, <1>5, <2>2 DEF RecoveryInv
<1>11. CASE kind = "execution_complete"
  <2>1. /\ approved = HasApproval(a)'
        /\ HasApproval(a)' => CanConsume(a)'
        /\ IsClosed(a)' => With(a, {"not_executed"})' # {}
        /\ reservations'[a] = reserved
        /\ reserved > 0 \/ record.cost > 0 => Dispositions(a)' = {}
    BY <1>6, <1>11 DEF MayRepeat
  <2>2. ~(reserved > 0) => reservations'[a] = 0
    BY <1>6, <1>7, <2>1
  <2>3. CompletionRepeats(journal)'
    BY <1>1, <2>1, <2>2
    DEF CompletionRepeats, CanEnsureConsumed, CanEnsureSettlement, Settles
  <2>4. Repeats(journal)'
    BY <1>1, <1>11, <2>3 DEF Repeats, Deciding
  <2> QED
    BY <1>3, <1>5, <2>4 DEF RecoveryInv
<1> QED
  BY <1>8, <1>9, <1>10, <1>11 DEF OperationKinds, Deciding

LEMMA DecisionsRecover ==
    ASSUME ControlInv, RecoveryInv, NEW a \in Actions,
           Expire(a) \/ \E by \in Operators : Reject(a, by)
    PROVE  RecoveryInv'
<1> DEFINE reserved == approvals[a].reserved
<1>1. /\ Is(a, Held) /\ reservations[a] = reserved
      /\ UNCHANGED <<ledgerVars, approvalVars, evidence>>
  BY DEF Expire, Reject, Due, CanDecide, Is, Held, RecoveryInv, HeldSound
<1> HIDE DEF reserved
<1>2. CASE Expire(a)
  <2> DEFINE record == Make(a, "expired", "approval_required", NULL)
  <2>1. MayRepeat("approval_expire", a, record.cost, reserved, TRUE)
    BY <1>1, <1>2 DEF MayRepeat, Deciding, Expire
  <2>2. /\ Prepare("approval_expire", a, record, reserved, "local", 0, TRUE)
        /\ Apply("approval_expire", a, "entry")
    BY <1>2 DEF Expire, reserved
  <2> HIDE DEF record
  <2> QED
    BY <1>1, <2>1, <2>2, PreparedRecovers DEF OperationKinds
<1>3. CASE \E by \in Operators : Reject(a, by)
  <2>1. PICK by \in Operators : Reject(a, by)
    BY <1>3
  <2> DEFINE record == Make(a, "rejected", "approval_required", by)
  <2>2. MayRepeat("approval_reject", a, record.cost, reserved, TRUE)
    BY <1>1 DEF MayRepeat, Deciding
  <2>3. /\ Prepare("approval_reject", a, record, reserved, "local", 0, TRUE)
        /\ Apply("approval_reject", a, "idle")
    BY <2>1 DEF Reject, reserved
  <2> HIDE DEF record
  <2> QED
    BY <1>1, <2>2, <2>3, PreparedRecovers DEF OperationKinds
<1> QED
  BY <1>2, <1>3

LEMMA HoldRecovers ==
    ASSUME ControlInv, RecoveryInv, NEW a \in Actions, NEW estimate \in Estimates, NEW owner,
           HandleHold(a, estimate, owner)
    PROVE  RecoveryInv'
<1> DEFINE record == Make(a, "pending_approval", "approval_required", NULL)
<1>1. MayRepeat("approval_create", a, record.cost, estimate, TRUE)
  BY DEF HandleHold, Fresh, MayRepeat, Deciding, Resolved, EntriesOf, Affordable
<1>2. /\ Prepare("approval_create", a, record, estimate, owner, 0, TRUE)
      /\ Apply("approval_create", a, "idle")
      /\ UNCHANGED <<ledgerVars, approvalVars, evidence>>
  BY DEF HandleHold
<1> HIDE DEF record
<1> QED
  BY <1>1, <1>2, PreparedRecovers DEF OperationKinds

LEMMA CompletionPreparedRecovers ==
    ASSUME ControlInv, RecoveryInv, NEW a \in Actions, NEW status, NEW cost, NEW by,
           HasApproval(a) => CanConsume(a),
           IsClosed(a) => With(a, {"not_executed"}) # {},
           CompleteKnownResult(a, status, cost, by),
           UNCHANGED <<ledgerVars, approvalVars, evidence>>
    PROVE  RecoveryInv'
<1> DEFINE remaining ==
             IF ReservationFor(a) > 0 \/ cost > 0
               THEN PreviewSettlement(a, ReservationFor(a), cost)
               ELSE Available
           made == Make(a, status, DecisionFor(a), by)
           record == [made EXCEPT !.cost = cost, !.remaining = remaining]
<1>1. /\ Prepare("execution_complete", a, record, ReservationFor(a), "local",
                 Authorization(a).id, HasApproval(a))
      /\ Apply("execution_complete", a, "idle")
      /\ ReservationFor(a) > 0 \/ cost > 0 => Dispositions(a) = {}
  BY DEF CompleteKnownResult, CanPreviewSettlement
<1> HIDE DEF remaining
<1>2. record.cost = cost
  BY DEF Make
<1> HIDE DEF record
<1>3. MayRepeat("execution_complete", a, record.cost, ReservationFor(a), HasApproval(a))
  BY <1>1, <1>2 DEF MayRepeat, Deciding, ReservationFor
<1> QED
  BY <1>1, <1>3, PreparedRecovers DEF OperationKinds

LEMMA CompletionsRecover ==
    ASSUME ControlInv, LifecycleInv, StoreInv, RecoveryInv,
           \/ \E status \in {"succeeded", "failed"}, cost \in Costs,
                 dryRun \in BOOLEAN : Complete(status, cost, dryRun)
           \/ \E a \in Actions : CompleteExternal(a)
    PROVE  RecoveryInv'
<1>1. ASSUME NEW status \in {"succeeded", "failed"}, NEW cost \in Costs,
             NEW dryRun \in BOOLEAN, Complete(status, cost, dryRun)
      PROVE  RecoveryInv'
  <2>1. worker.pc = "complete"
    BY <1>1 DEF Complete, At
  <2>2. PICK a \in Actions : a = worker.act
    BY <2>1 DEF ControlInv, WorkerInv, WorkerAction, Acting
  <2>3. HasApproval(a) => CanConsume(a)
    BY <2>1, <2>2
    DEF RecoveryInv, RunningSound, Running, StoreInv, WorkerSound, Spending, CanConsume
  <2>4. ~IsClosed(a)
    BY <2>1, <2>2 DEF LifecycleInv, WorkerLifecycle
  <2> QED
    BY <1>1, <2>2, <2>3, <2>4, CompletionPreparedRecovers DEF Complete
<1>2. ASSUME NEW a \in Actions, CompleteExternal(a)
      PROVE  RecoveryInv'
  <2>1. IsClosed(a) => With(a, {"not_executed"}) # {}
    BY <1>2 DEF CompleteExternal, IsClosed, Terminals, With
  <2> QED
    BY <1>2, <2>1, CompletionPreparedRecovers DEF CompleteExternal
<1> QED
  BY <1>1, <1>2

LEMMA AssertionPreparedRecovers ==
    ASSUME ControlInv, StoreInv, RecoveryInv, NEW a \in Actions,
           NEW outcome \in Outcomes, NEW by \in Operators,
           ReconcileAuthorization(a, outcome, by)
    PROVE  RecoveryInv'
<1> DEFINE cost == CASE HasPriorDebit(a) -> PriorDebit(a)
                     [] ~HasPriorDebit(a) /\ outcome = "not_executed" -> 0
                     [] OTHER -> ExposureFor(a)
           record == [Make(a, outcome, "allow", NULL) EXCEPT
                        !.cost = cost, !.outcome = outcome, !.reconciledBy = by]
<1>1. /\ Prepare("authorization_reconcile", a, record, ExposureFor(a), "local",
                 Authorization(a).id, FALSE)
      /\ Apply("authorization_reconcile", a, "idle")
      /\ UNCHANGED <<ledgerVars, approvalVars, evidence>>
      /\ ~IsClosed(a) /\ ~HasApproval(a) /\ journal = NULL
  BY DEF ReconcileAuthorization, IsOpen, Prepare
<1> HIDE DEF cost, record
<1>2. reconciliations[a] = NULL
  BY <1>1 DEF StoreInv, ActionSound, MarkerSound, JournalIs
<1>3. reservations[a] \in {0, ExposureFor(a)}
  BY LedgerRows, ReservedNow DEF ExposureFor
<1>4. MayRepeat("authorization_reconcile", a, record.cost, ExposureFor(a), FALSE)
  BY <1>1, <1>2, <1>3 DEF MayRepeat, Deciding
<1> QED
  BY <1>1, <1>4, PreparedRecovers DEF OperationKinds

-----------------------------------------------------------------------------
(* The budget stage *)

LEMMA CreationBudgeted ==
    ASSUME ControlInv, LifecycleInv, StoreInv, RecoveryInv, Advance, worker.pc = "budget",
           journal.kind = "approval_create"
    PROVE  RecoveryInv'
<1>1. PICK a \in Actions : a = journal.act
  BY Applied
<1>2. PICK reserved \in Nat : reserved = journal.reserved
  BY Applied DEF Operation
<1>3. /\ OnlyLedger /\ worker'.pc = "approval" /\ journal # NULL /\ journal' = journal
      /\ approvals' = approvals
      /\ IF reserved > 0 THEN EnsureReservation(a, reserved) ELSE UNCHANGED ledgerVars
  BY <1>1, <1>2, BudgetMoves DEF WriteBudget, OnlyLedger
<1>4. /\ reservations[a] \in {0, reserved}
      /\ HasApproval(a) => approvals[a].reserved = reserved
  BY <1>1, <1>2, <1>3 DEF StoreInv, JournalSound, CreateSound
<1>5. CreateRepeats(journal) /\ ~Resolved(a) /\ LedgerTypeOK
  BY <1>1, <1>3, ReservedNow DEF RecoveryInv, Repeats, CreateRepeats
<1>6. /\ reservations'[a] = reserved /\ ~Resolved(a)'
      /\ \A b \in Actions \ {a} : reservations'[b] = reservations[b] /\ entries'[b] = entries[b]
  <2>1. CASE UNCHANGED ledgerVars /\ reservations[a] = reserved
    BY <1>5, <2>1 DEF ledgerVars, Resolved, EntriesOf
  <2>2. CASE AddReservation(a, reserved)
    <3> DEFINE e == [kind |-> "reserve", amount |-> reserved, reserved |-> 0,
                     after |-> 0, record |-> NoRecord]
    <3>1. e \in Entry /\ e.kind = "reserve"
      BY DEF Entry, NoRecord, EntryKinds
    <3>2. /\ entries' = [entries EXCEPT ![a] = Append(@, e)]
          /\ reservations' = [reservations EXCEPT ![a] = reserved]
          /\ UNCHANGED reconciliations
      BY <2>2 DEF AddReservation, Record
    <3> HIDE DEF e
    <3>3. /\ Resolved(a)' = (Resolved(a) \/ e.kind \in {"debit", "release"})
          /\ \A b \in Actions \ {a} : entries'[b] = entries[b]
      BY <1>5, <3>1, <3>2, ReasonsKept
    <3> QED
      BY <1>5, <3>1, <3>2, <3>3 DEF LedgerTypeOK
  <2> QED
    BY <1>3, <1>4, <2>1, <2>2 DEF EnsureReservation
<1>7. \A b \in Actions : Is(b, Held)' = Is(b, Held) /\ HasApproval(b)' = HasApproval(b)
  BY <1>3 DEF Is, HasApproval
<1>8. HeldSound(a)'
  BY <1>3, <1>4, <1>6, <1>7 DEF HeldSound, Is
<1>9. \A b \in Actions \ {a} : HeldSound(b)'
  BY <1>3, <1>6, <1>7, HeldKept
<1>10. RunningSound'
  BY <1>3, NotRunning DEF Running
<1>11. Is(a, {"approved"})' = Is(a, {"approved"})
  BY <1>3 DEF Is, HasApproval
<1>12. CreateRepeats(journal)'
  BY <1>1, <1>2, <1>3, <1>5, <1>6, <1>7, <1>11 DEF CreateRepeats
<1>13. Repeats(journal)'
  BY <1>3, <1>12 DEF Repeats, Deciding
<1> QED
  BY <1>8, <1>9, <1>10, <1>13 DEF RecoveryInv

LEMMA ReleaseRecorded ==
    ASSUME LedgerTypeOK, NEW a \in Actions, NEW reserved, reserved = reservations[a],
           DropReservation(a)
    PROVE  HasRelease(a, reserved)'
<1> DEFINE e == [kind |-> "release", amount |-> reservations[a], reserved |-> 0,
                 after |-> 0, record |-> NoRecord]
           kinds == {"release"}
<1>1. e \in Entry /\ e.kind = "release" /\ e.amount = reserved
  BY LedgerRows DEF Entry, NoRecord, EntryKinds
<1>2. /\ entries' = [entries EXCEPT ![a] = Append(@, e)]
      /\ e.kind \in kinds
  BY DEF DropReservation, Record
<1> HIDE DEF e, kinds
<1>3. /\ EntriesOf(a, kinds)' =
           EntriesOf(a, kinds)
           \cup (IF e.kind \in kinds THEN {Len(entries[a]) + 1} ELSE {})
      /\ entries'[a][Len(entries[a]) + 1] = e
  BY <1>1, <1>2, EntryAdded
<1>4. Len(entries[a]) + 1 \in EntriesOf(a, kinds)'
  BY <1>2, <1>3
<1> QED
  BY <1>1, <1>3, <1>4 DEF HasRelease, kinds

LEMMA DecisionBudgeted ==
    ASSUME ControlInv, LifecycleInv, StoreInv, RecoveryInv, Advance, worker.pc = "budget",
           journal.kind \in Deciding
    PROVE  RecoveryInv'
<1>1. PICK a \in Actions : a = journal.act
  BY Applied
<1>2. PICK reserved \in Nat : reserved = journal.reserved
  BY Applied DEF Operation
<1>3. /\ OnlyLedger /\ worker'.pc = "evidence" /\ journal # NULL /\ journal' = journal
      /\ UNCHANGED <<approvals, overdue>>
      /\ IF reserved > 0 THEN EnsureRelease(a, reserved) ELSE UNCHANGED ledgerVars
  BY <1>1, <1>2, BudgetMoves
  DEF WriteBudget, OnlyLedger, Deciding, Advance, WriteStage, approvalVars
<1>4. LedgerStep(a) /\ reservations'[a] = 0
  BY <1>1, BudgetResolved
<1>5. ~Is(a, Held) /\ LedgerTypeOK
  BY <1>1, Applied, ReservedNow DEF StageReached
<1>6. \A b \in Actions : HeldSound(b)'
  BY <1>3, <1>4, <1>5, ResolvedHeld
<1>7. reserved > 0 => HasRelease(a, reserved)'
  <2>1. CASE reserved > 0 /\ reservations[a] = 0
    <3>1. HasRelease(a, reserved) /\ UNCHANGED ledgerVars
      BY <1>3, <2>1 DEF EnsureRelease, CanEnsureRelease
    <3> QED
      BY <3>1 DEF HasRelease, EntriesOf, ledgerVars
  <2>2. CASE reserved > 0 /\ reservations[a] # 0
    <3>1. reservations[a] = reserved /\ DropReservation(a)
      BY <1>3, <2>2 DEF EnsureRelease, CanEnsureRelease
    <3> QED
      BY <1>5, <3>1, ReleaseRecorded
  <2> QED
    BY <2>1, <2>2
<1>8. /\ Is(a, Held)' = Is(a, Held) /\ CanExpire(a)' = CanExpire(a)
      /\ \A by : IsRejectedBy(a, by)' = IsRejectedBy(a, by)
  BY <1>3 DEF Is, HasApproval, CanExpire, Due, IsRejectedBy
<1>9. DecisionRepeats(journal)
  BY <1>3 DEF RecoveryInv, Repeats
<1>10. DecisionRepeats(journal)'
  BY <1>1, <1>2, <1>3, <1>4, <1>7, <1>8, <1>9 DEF DecisionRepeats
<1>11. Repeats(journal)'
  BY <1>3, <1>10 DEF Repeats, Deciding
<1>12. RunningSound'
  BY <1>3, NotRunning DEF Running
<1> QED
  BY <1>6, <1>11, <1>12 DEF RecoveryInv

LEMMA DebitRecorded ==
    ASSUME LedgerTypeOK, NEW a \in Actions, NEW expected, expected = reservations[a],
           NEW actual \in Nat, NEW record \in Nat,
           Dispositions(a) = {}, Debit(a, actual, record)
    PROVE  IsSettledBy(a, expected, actual, record)'
<1> DEFINE left == Available + reservations[a] - actual
           e == [kind |-> "debit", amount |-> actual, reserved |-> reservations[a],
                 after |-> IF record = NoRecord THEN 0 ELSE left, record |-> record]
           kinds == {"debit", "release", "reconcile"}
<1>1. left \in Int /\ reservations[a] \in Nat
  BY LedgerRows
<1>2. /\ e \in Entry /\ e.kind = "debit" /\ e.amount = actual /\ e.reserved = expected
      /\ e.record = record
  <2> HIDE DEF left
  <2> QED
    BY <1>1 DEF Entry, EntryKinds
<1>3. /\ entries' = [entries EXCEPT ![a] = Append(@, e)]
      /\ e.kind \in kinds /\ EntriesOf(a, kinds) = {}
  BY <1>2 DEF Debit, Dispositions
<1> HIDE DEF e, kinds
<1>4. /\ EntriesOf(a, kinds)' =
           EntriesOf(a, kinds)
           \cup (IF e.kind \in kinds THEN {Len(entries[a]) + 1} ELSE {})
      /\ entries'[a][Len(entries[a]) + 1] = e
  BY <1>2, <1>3, EntryAdded
<1>5. Dispositions(a)' = {Len(entries[a]) + 1}
  BY <1>3, <1>4 DEF Dispositions, kinds
<1> QED
  BY <1>2, <1>4, <1>5 DEF IsSettledBy

LEMMA CompletionBudgeted ==
    ASSUME ControlInv, LifecycleInv, StoreInv, RecoveryInv, Advance, worker.pc = "budget",
           journal.kind = "execution_complete"
    PROVE  RecoveryInv'
<1>1. PICK a \in Actions : a = journal.act
  BY Applied
<1>2. PICK reserved \in Nat, record \in EvidenceRecord :
         reserved = journal.reserved /\ record = journal.record
  BY Applied DEF Operation
<1>3. /\ OnlyLedger /\ worker'.pc = "evidence" /\ journal # NULL /\ journal' = journal
      /\ UNCHANGED <<approvals, evidence>>
      /\ IF Settles(journal) THEN EnsureSettlement(a, reserved, record.cost, record.id)
                             ELSE UNCHANGED ledgerVars
  BY <1>1, <1>2, BudgetMoves DEF WriteBudget, OnlyLedger
<1>4. LedgerStep(a) /\ reservations'[a] = 0
  BY <1>1, BudgetResolved
<1>5. ~Is(a, Held) /\ LedgerTypeOK
  BY <1>1, Applied, ReservedNow DEF MayEnd, Is, Held, Early
<1>6. \A b \in Actions : HeldSound(b)'
  BY <1>3, <1>4, <1>5, ResolvedHeld
<1>7. Settles(journal) => CanEnsureSettlement(a, reserved, record.cost, record.id)'
  <2> SUFFICES ASSUME EnsureSettlement(a, reserved, record.cost, record.id)
               PROVE  CanEnsureSettlement(a, reserved, record.cost, record.id)'
    BY <1>3 DEF Settles
  <2>1. PICK actual \in Nat, id \in Nat : actual = record.cost /\ id = record.id
    BY DEF EvidenceRecord
  <2>2. CASE Dispositions(a) # {}
    <3>1. IsSettledBy(a, reserved, actual, id) /\ UNCHANGED ledgerVars
      BY <2>1, <2>2 DEF EnsureSettlement, CanEnsureSettlement
    <3>2. IsSettledBy(a, reserved, actual, id)'
      BY <3>1 DEF ledgerVars, IsSettledBy, Dispositions, EntriesOf
    <3> QED
      BY <1>2, <1>3, <1>4, <2>1, <3>2 DEF CanEnsureSettlement
  <2>3. CASE Dispositions(a) = {}
    <3>1. reservations[a] = reserved /\ Debit(a, actual, id)
      BY <2>1, <2>3 DEF EnsureSettlement, CanEnsureSettlement, IsSettledBy
    <3>2. IsSettledBy(a, reserved, actual, id)'
      BY <1>5, <2>3, <3>1, DebitRecorded
    <3> QED
      BY <1>2, <1>3, <1>4, <2>1, <3>2 DEF CanEnsureSettlement
  <2> QED
    BY <2>2, <2>3
<1>8. /\ HasApproval(a)' = HasApproval(a) /\ IsClosed(a)' = IsClosed(a)
      /\ \A id : CanEnsureConsumed(a, id)' = CanEnsureConsumed(a, id)
      /\ With(a, {"not_executed"})' = With(a, {"not_executed"})
      /\ Unappended(journal)' = Unappended(journal)
      /\ Settles(journal)' = Settles(journal)
  BY <1>1, <1>3
  DEF HasApproval, IsClosed, Terminals, With, CanEnsureConsumed, CanConsume, IsConsumedBy,
      Is, Unappended, Settles
<1>9. CompletionRepeats(journal)
  BY <1>3 DEF RecoveryInv, Repeats
<1>10. CompletionRepeats(journal)'
  BY <1>1, <1>2, <1>3, <1>4, <1>7, <1>8, <1>9 DEF CompletionRepeats
<1>11. Repeats(journal)'
  BY <1>3, <1>10 DEF Repeats, Deciding
<1>12. RunningSound'
  BY <1>3, NotRunning DEF Running
<1> QED
  BY <1>6, <1>11, <1>12 DEF RecoveryInv

\* What reconcile_reservation leaves behind recognises an exact retry.
LEMMA ReconciliationMarked ==
    ASSUME LedgerTypeOK, NEW a \in Actions, NEW expected, NEW outcome, NEW by, NEW authority,
           ReconcileReservation(a, expected, outcome, by, authority)
    PROVE  SameInput(reconciliations'[a], outcome, by, expected, authority)
<1>1. CASE reconciliations[a] # NULL
  BY <1>1 DEF ReconcileReservation, CanReconcile, ledgerVars
<1>2. CASE reconciliations[a] = NULL
  <2> DEFINE charged == ReconcileCharge(a, expected, outcome)
             released == IF outcome = "not_executed" THEN reservations[a] ELSE 0
             marker == [outcome |-> outcome, by |-> by, expected |-> expected,
                        charged |-> charged, released |-> released,
                        authority |-> authority]
  <2>1. reconciliations' = [reconciliations EXCEPT ![a] = marker]
    BY <1>2 DEF ReconcileReservation, AddReconciliation
  <2> HIDE DEF charged, released
  <2>2. /\ marker.outcome = outcome /\ marker.by = by /\ marker.expected = expected
        /\ marker.authority = authority
    OBVIOUS
  <2> HIDE DEF marker
  <2>3. reconciliations'[a] = marker
    BY <2>1 DEF LedgerTypeOK
  <2> QED
    BY <2>2, <2>3 DEF SameInput
<1> QED
  BY <1>1, <1>2

LEMMA AssertionBudgeted ==
    ASSUME ControlInv, LifecycleInv, StoreInv, RecoveryInv, Advance, worker.pc = "budget",
           journal.kind = "authorization_reconcile"
    PROVE  RecoveryInv'
<1>1. PICK a \in Actions : a = journal.act /\ a = journal'.act
  BY Applied, BudgetMoves DEF OnlyLedger
<1>2. /\ OnlyLedger /\ worker'.pc = "evidence" /\ journal # NULL /\ journal' = journal
      /\ WriteBudget(journal)
      /\ UNCHANGED <<approvals, evidence>>
  BY BudgetMoves DEF OnlyLedger
<1>3. PICK reserved \in Nat, outcome \in Outcomes, by \in Operators, authority \in Nat :
         /\ reserved = journal.reserved /\ outcome = journal.record.outcome
         /\ by = journal.record.reconciledBy /\ authority = journal.authority
  BY <1>2, Applied DEF Operation, EvidenceRecord, ControlInv, JournalAssertion
<1>4. ReconcileReservation(a, reserved, outcome, by, authority)
  BY <1>1, <1>2, <1>3 DEF WriteBudget
<1>5. ~HasApproval(a) /\ (reserved > 0 => Booked(a)) /\ LedgerTypeOK
  BY <1>1, <1>2, <1>3, ReservedNow DEF StoreInv, JournalSound, AssertSound
<1>6. LedgerStep(a) /\ reservations'[a] = 0
  BY <1>4, <1>5, ReconciledStep
<1>7. SameInput(reconciliations'[a], outcome, by, reserved, authority)
  BY <1>4, <1>5, ReconciliationMarked
<1>8. \A b \in Actions : HeldSound(b)'
  BY <1>2, <1>5, <1>6, ResolvedHeld DEF Is
<1>9. /\ IsClosed(a)' = IsClosed(a) /\ Unappended(journal)' = Unappended(journal)
  BY <1>1, <1>2 DEF IsClosed, Terminals, With, Unappended
<1>10. AssertionRepeats(journal)
  BY <1>2 DEF RecoveryInv, Repeats
<1>11. AssertionRepeats(journal)'
  BY <1>1, <1>2, <1>3, <1>6, <1>7, <1>9, <1>10 DEF AssertionRepeats, SameInput
<1>12. Repeats(journal)'
  BY <1>2, <1>11 DEF Repeats, Deciding
<1>13. RunningSound'
  BY <1>2, NotRunning DEF Running
<1> QED
  BY <1>8, <1>12, <1>13 DEF RecoveryInv

-----------------------------------------------------------------------------
(* The approval stage *)

LEMMA CreationStays ==
    ASSUME ControlInv, LifecycleInv, StoreInv, RecoveryInv, Advance, worker.pc = "approval",
           journal.kind = "approval_create"
    PROVE  RecoveryInv'
<1>1. PICK a \in Actions : a = journal.act /\ a = journal'.act
  BY Applied, ApprovalMoves DEF OnlyApprovals
<1>2. PICK reserved \in Nat, owner \in Owners :
         reserved = journal.reserved /\ owner = journal.owner
  BY Applied DEF Operation
<1> DEFINE new == Prepared(owner, reserved)
<1>3. /\ OnlyApprovals /\ journal # NULL /\ journal' = journal /\ worker'.pc = "evidence"
      /\ CreatePrepared(a, new) /\ LedgerTypeOK
  BY <1>1, <1>2, ApprovalMoves, StageOrder, ReservedNow DEF WriteApproval, OnlyApprovals
<1>4. /\ new \in Approval /\ new.reserved = reserved
      /\ new = Prepared(owner, reserved)
  BY DEF Prepared, Approval, ApprovalStatuses
<1> HIDE DEF new
<1>5. /\ approvals'[a] = new
      /\ \A b \in Actions \ {a} : approvals'[b] = approvals[b]
  BY <1>3 DEF CreatePrepared, Put, ControlInv, TypeOK, ApprovalTypeOK
<1>6. CreateRepeats(journal)
  BY <1>3 DEF RecoveryInv, Repeats
<1>7. ~Resolved(a) /\ reservations[a] = reserved
  BY <1>1, <1>2, <1>6 DEF CreateRepeats
<1>8. /\ \A b \in Actions : /\ reservations'[b] = reservations[b] /\ entries'[b] = entries[b]
                            /\ Resolved(b)' = Resolved(b)
      /\ Available' = Available
  BY <1>3 DEF OnlyApprovals, Resolved, EntriesOf, Available
<1>9. HeldSound(a)'
  BY <1>4, <1>5, <1>7, <1>8 DEF HeldSound
<1>10. \A b \in Actions \ {a} : HeldSound(b)'
  BY <1>5, <1>8, HeldKept DEF Is, HasApproval
<1>11. CreateRepeats(journal)'
  BY <1>1, <1>2, <1>3, <1>4, <1>5, <1>6, <1>7, <1>8 DEF CreateRepeats
<1>12. Repeats(journal)'
  BY <1>3, <1>11 DEF Repeats, Deciding
<1>13. RunningSound'
  BY <1>3, NotRunning DEF Running
<1> QED
  BY <1>9, <1>10, <1>12, <1>13 DEF RecoveryInv

\* What ensure_rejected and expire_one leave behind recognises a retry.
LEMMA DecisionMarked ==
    ASSUME ControlInv, StoreInv, NEW a \in Actions, NEW by \in Operators \cup {NULL},
           EnsureRejected(a, by) \/ ExpireOne(a)
    PROVE  /\ StillHeld(a) /\ ~Is(a, Held)'
           /\ EnsureRejected(a, by) => IsRejectedBy(a, by)'
           /\ ExpireOne(a) => Is(a, {"expired"})'
<1>1. ApprovalTypeOK
  BY ReservedNow
<1>2. CASE Decide(a, FALSE, by)
  <2> DEFINE new == [approvals[a] EXCEPT
                       !.status = IF FALSE THEN "approved" ELSE "rejected",
                       !.decidedBy = by]
  <2>1. Put(a, new) /\ approvals[a] \in Approval
    BY <1>2, ReservedNow DEF Decide, CanDecide, Is
  <2>2. new.status = "rejected" /\ new.decidedBy = by /\ new \in Approval
    BY <2>1 DEF Approval, ApprovalStatuses
  <2> HIDE DEF new
  <2>3. /\ approvals'[a] = new /\ approvals'[a] # NULL
        /\ \A b \in Actions \ {a} : approvals'[b] = approvals[b]
    BY <1>1, <2>1, <2>2, ApprovalAssumption DEF Put, ApprovalTypeOK
  <2>4. ~ExpireOne(a)
    <3>1. ~overdue[a] /\ ~Is(a, {"expired"})
      BY <1>2 DEF Decide, CanDecide, Is
    <3> QED
      BY <3>1 DEF ExpireOne, CanExpire, Due
  <2> QED
    BY <2>2, <2>3, <2>4 DEF StillHeld, Is, HasApproval, Held, IsRejectedBy
<1>3. CASE IsRejectedBy(a, by) /\ UNCHANGED approvalVars
  <2>1. approvals' = approvals /\ Is(a, {"rejected"}) /\ IsRejectedBy(a, by)'
    BY <1>3 DEF approvalVars, IsRejectedBy, Is, HasApproval
  <2>2. ~ExpireOne(a)
    BY <1>3 DEF ExpireOne, CanExpire, Due, IsRejectedBy, Is
  <2> QED
    BY <2>1, <2>2 DEF StillHeld, Is, HasApproval, Held
<1>4. CASE ExpireOne(a)
  <2> DEFINE new == [approvals[a] EXCEPT !.status = "expired"]
  <2>1. Put(a, new) /\ approvals[a] \in Approval
    BY <1>4, ReservedNow DEF ExpireOne, CanExpire, Due, Is
  <2>2. new.status = "expired" /\ new \in Approval
    BY <2>1 DEF Approval, ApprovalStatuses
  <2> HIDE DEF new
  <2>3. /\ approvals'[a] = new /\ approvals'[a] # NULL
        /\ \A b \in Actions \ {a} : approvals'[b] = approvals[b]
    BY <1>1, <2>1, <2>2, ApprovalAssumption DEF Put, ApprovalTypeOK
  <2>4. ~EnsureRejected(a, by)
    <3>1. Due(a) \/ Is(a, {"expired"})
      BY <1>4 DEF ExpireOne, CanExpire
    <3> QED
      BY <3>1 DEF EnsureRejected, Decide, CanDecide, IsRejectedBy, Due, Is
  <2> QED
    BY <2>2, <2>3, <2>4 DEF StillHeld, Is, HasApproval, Held
<1> QED
  BY <1>2, <1>3, <1>4 DEF EnsureRejected

LEMMA DecisionStays ==
    ASSUME ControlInv, LifecycleInv, StoreInv, RecoveryInv, Advance, worker.pc = "approval",
           journal.kind \in Deciding
    PROVE  RecoveryInv'
<1>1. PICK a \in Actions : a = journal.act /\ a = journal'.act
  BY Applied, ApprovalMoves DEF OnlyApprovals
<1>2. PICK by \in Operators \cup {NULL} : by = journal.record.by
  BY Applied DEF EvidenceRecord
<1>3. /\ OnlyApprovals /\ journal # NULL /\ journal' = journal /\ worker'.pc = "budget"
      /\ journal.kind = "approval_reject" => EnsureRejected(a, by)
      /\ journal.kind = "approval_expire" => ExpireOne(a)
  BY <1>1, <1>2, ApprovalMoves, StageOrder DEF WriteApproval, OnlyApprovals
<1>4. /\ StillHeld(a)
      /\ journal.kind = "approval_reject" => IsRejectedBy(a, by)'
      /\ journal.kind = "approval_expire" => Is(a, {"expired"})'
  BY <1>3, DecisionMarked DEF Deciding
<1>5. \A b \in Actions : HeldSound(b)'
  BY <1>3, <1>4, ApprovalsHeld
<1>6. /\ reservations'[a] = reservations[a]
      /\ \A expected : HasRelease(a, expected)' = HasRelease(a, expected)
  BY <1>3 DEF OnlyApprovals, HasRelease, EntriesOf
<1>7. DecisionRepeats(journal)
  BY <1>3 DEF RecoveryInv, Repeats
<1>8. DecisionRepeats(journal)'
  BY <1>1, <1>2, <1>3, <1>4, <1>6, <1>7 DEF DecisionRepeats, CanExpire
<1>9. Repeats(journal)'
  BY <1>3, <1>8 DEF Repeats, Deciding
<1>10. RunningSound'
  BY <1>3, NotRunning DEF Running
<1> QED
  BY <1>5, <1>9, <1>10 DEF RecoveryInv

LEMMA CompletionStays ==
    ASSUME ControlInv, LifecycleInv, StoreInv, RecoveryInv, Advance, worker.pc = "approval",
           journal.kind = "execution_complete"
    PROVE  RecoveryInv'
<1>1. PICK a \in Actions : a = journal.act /\ a = journal'.act
  BY Applied, ApprovalMoves DEF OnlyApprovals
<1>2. PICK id \in Nat : id = journal.record.id
  BY Applied DEF EvidenceRecord
<1>3. /\ OnlyApprovals /\ journal # NULL /\ journal' = journal /\ worker'.pc = "finish"
      /\ IF journal.approved THEN EnsureConsumed(a, id) ELSE UNCHANGED approvalVars
      /\ UNCHANGED <<reservations, entries, evidence>>
  BY <1>1, <1>2, ApprovalMoves, StageOrder DEF WriteApproval, OnlyApprovals
<1>4. CompletionRepeats(journal)
  BY <1>3 DEF RecoveryInv, Repeats
<1>5. /\ StillHeld(a) /\ HasApproval(a)' = HasApproval(a)
      /\ CanEnsureConsumed(a, id) => CanEnsureConsumed(a, id)'
  <2>1. CASE UNCHANGED approvalVars
    BY <2>1
    DEF approvalVars, StillHeld, Is, HasApproval, CanEnsureConsumed, CanConsume, IsConsumedBy
  <2>2. CASE MarkConsumed(a, id)
    <3> DEFINE new == [approvals[a] EXCEPT !.status = "consumed", !.record = id]
    <3>1. Put(a, new) /\ approvals[a] \in Approval /\ HasApproval(a) /\ ApprovalTypeOK
      BY <2>2, ReservedNow DEF MarkConsumed, CanConsume, Is
    <3>2. new.status = "consumed" /\ new.record = id /\ new \in Approval
      BY <3>1 DEF Approval, ApprovalStatuses
    <3> HIDE DEF new
    <3>3. /\ approvals'[a] = new /\ approvals'[a] # NULL
          /\ \A b \in Actions \ {a} : approvals'[b] = approvals[b]
      BY <3>1, <3>2, ApprovalAssumption DEF Put, ApprovalTypeOK
    <3> QED
      BY <3>1, <3>2, <3>3
      DEF StillHeld, Is, HasApproval, Held, CanEnsureConsumed, IsConsumedBy
  <2> QED
    BY <1>3, <2>1, <2>2 DEF EnsureConsumed
<1>6. \A b \in Actions : HeldSound(b)'
  BY <1>3, <1>5, ApprovalsHeld
<1>7. /\ IsClosed(a)' = IsClosed(a) /\ Unappended(journal)' = Unappended(journal)
      /\ With(a, {"not_executed"})' = With(a, {"not_executed"})
      /\ Settles(journal)' = Settles(journal)
  BY <1>1, <1>3 DEF IsClosed, Terminals, With, Unappended, Settles
<1>8. ASSUME NEW expected, NEW actual
      PROVE  CanEnsureSettlement(a, expected, actual, id)'
               = CanEnsureSettlement(a, expected, actual, id)
  BY <1>3 DEF CanEnsureSettlement, IsSettledBy, Dispositions, EntriesOf
<1>9. CompletionRepeats(journal)'
  BY <1>1, <1>2, <1>3, <1>4, <1>5, <1>7, <1>8 DEF CompletionRepeats
<1>10. Repeats(journal)'
  BY <1>3, <1>9 DEF Repeats, Deciding
<1>11. RunningSound'
  BY <1>3, NotRunning DEF Running
<1> QED
  BY <1>6, <1>10, <1>11 DEF RecoveryInv

-----------------------------------------------------------------------------
(* The evidence stage and the end of an operation *)

LEMMA RecordStays ==
    ASSUME ControlInv, LifecycleInv, StoreInv, RecoveryInv, Advance, worker.pc = "evidence"
    PROVE  RecoveryInv'
<1>1. PICK a \in Actions : a = journal.act
  BY Applied
<1>2. /\ OnlyEvidence /\ journal # NULL /\ journal' = journal
      /\ UNCHANGED <<approvals, overdue, reservations, entries, reconciliations>>
      /\ worker'.pc \in {"approval", "finish"}
      /\ journal.kind = "approval_create" => worker'.pc = "finish"
      /\ Available' = Available
  BY Applied, StageMoves, StageOrder
  DEF OperationKinds, Deciding, Advance, WriteStage, ledgerVars, approvalVars, OnlyEvidence,
      Available
<1>3. ~Unappended(journal)'
  <2>1. CASE Unappended(journal)
    BY <2>1, EvidenceAppended
  <2>2. CASE Appended(journal)
    <3>1. PICK record \in EvidenceRecord : record = journal.record
      BY Applied
    <3>2. PICK id \in Nat \ {0} : id = record.id
      BY DEF EvidenceRecord
    <3>3. Len(evidence[a]) = id /\ evidence[a][id] = record /\ AppendOnce(a, record)
      BY <1>1, <2>2, <3>1, <3>2 DEF Appended, Advance, WriteStage
    <3>4. id \in DOMAIN evidence[a]
      BY <3>2, <3>3, EvidenceRead, ReservedNow
    <3>5. HasRecord(a, id)
      BY <3>2, <3>3, <3>4 DEF HasRecord
    <3>6. evidence' = evidence
      BY <3>2, <3>3, <3>5 DEF AppendOnce
    <3> QED
      BY <1>1, <1>2, <3>1, <3>2, <3>3, <3>6 DEF Unappended
  <2> QED
    BY <2>1, <2>2, Applied
<1>4. \A b \in Actions : HeldSound(b)'
  BY <1>2, HeldKept DEF Is, HasApproval
<1>5. /\ HasApproval(a)' = HasApproval(a) /\ approvals'[a] = approvals[a]
      /\ \A statuses : Is(a, statuses)' = Is(a, statuses)
      /\ reservations'[a] = reservations[a] /\ reconciliations'[a] = reconciliations[a]
      /\ Resolved(a)' = Resolved(a)
      /\ \A expected : HasRelease(a, expected)' = HasRelease(a, expected)
      /\ Settles(journal)' = Settles(journal)
  BY <1>2 DEF HasApproval, Is, Resolved, EntriesOf, HasRelease, Settles
<1>6. ASSUME journal.kind = "approval_create" PROVE Repeats(journal)'
  <2>1. CreateRepeats(journal)
    BY <1>2, <1>6 DEF RecoveryInv, Repeats
  <2>2. CreateRepeats(journal)'
    BY <1>1, <1>2, <1>5, <1>6, <2>1 DEF CreateRepeats
  <2> QED
    BY <1>2, <1>6, <2>2 DEF Repeats, Deciding
<1>7. ASSUME journal.kind \in Deciding PROVE Repeats(journal)'
  <2>1. DecisionRepeats(journal)
    BY <1>2, <1>7 DEF RecoveryInv, Repeats
  <2>2. CanExpire(a)' = CanExpire(a) /\ \A by : IsRejectedBy(a, by)' = IsRejectedBy(a, by)
    BY <1>2, <1>5 DEF CanExpire, Due, IsRejectedBy
  <2>3. DecisionRepeats(journal)'
    BY <1>1, <1>2, <1>5, <2>1, <2>2 DEF DecisionRepeats
  <2> QED
    BY <1>2, <1>7, <2>3 DEF Repeats, Deciding
<1>8. ASSUME journal.kind = "authorization_reconcile" PROVE Repeats(journal)'
  <2>1. AssertionRepeats(journal)
    BY <1>2, <1>8 DEF RecoveryInv, Repeats
  <2>2. AssertionRepeats(journal)'
    BY <1>1, <1>2, <1>3, <1>5, <2>1 DEF AssertionRepeats, SameInput
  <2> QED
    BY <1>2, <1>8, <2>2 DEF Repeats, Deciding
<1>9. ASSUME journal.kind = "execution_complete" PROVE Repeats(journal)'
  <2>1. CompletionRepeats(journal)
    BY <1>2, <1>9 DEF RecoveryInv, Repeats
  <2>2. ASSUME NEW expected, NEW actual, NEW id
        PROVE  /\ CanEnsureSettlement(a, expected, actual, id)'
                    = CanEnsureSettlement(a, expected, actual, id)
               /\ CanEnsureConsumed(a, id)' = CanEnsureConsumed(a, id)
    BY <1>2, <1>5
    DEF CanEnsureSettlement, IsSettledBy, Dispositions, EntriesOf, CanEnsureConsumed,
        CanConsume, IsConsumedBy
  <2>3. CompletionRepeats(journal)'
    BY <1>1, <1>2, <1>3, <1>5, <2>1, <2>2 DEF CompletionRepeats
  <2> QED
    BY <1>2, <1>9, <2>3 DEF Repeats, Deciding
<1>10. Repeats(journal)'
  BY <1>6, <1>7, <1>8, <1>9, Applied DEF OperationKinds, Deciding
<1>11. RunningSound'
  BY <1>2, NotRunning DEF Running
<1> QED
  BY <1>4, <1>10, <1>11 DEF RecoveryInv

LEMMA FinishRecovers ==
    ASSUME ControlInv, LifecycleInv, RecoveryInv, Advance, worker.pc = "finish"
    PROVE  RecoveryInv'
<1>1. journal' = NULL /\ UNCHANGED <<reservations, entries, approvals>>
  BY DEF Advance, WriteStage, Finish, ledgerVars, approvalVars
<1>2. worker'.pc \in {"idle", "entry"}
  <2> DEFINE full == worker.full
  <2>1. worker' = Idle \/ worker' = [Idle EXCEPT !.pc = "entry", !.full = full]
    BY DEF ControlInv, TypeOK, Worker, Advance, Return
  <2> HIDE DEF full
  <2>2. Idle.pc = "idle" /\ [Idle EXCEPT !.pc = "entry", !.full = full].pc = "entry"
    BY DEF Idle
  <2> QED
    BY <2>1, <2>2
<1>3. RunningSound'
  BY <1>2, NotRunning DEF Running
<1>4. \A b \in Actions : HeldSound(b)'
  BY <1>1, HeldKept DEF Is, HasApproval
<1> QED
  BY <1>1, <1>3, <1>4, NothingToRepeat

LEMMA AdvanceRecovers ==
    ASSUME ControlInv, LifecycleInv, StoreInv, RecoveryInv, Advance
    PROVE  RecoveryInv'
<1>1. /\ worker.pc \in {"budget", "approval", "evidence", "finish"}
      /\ journal.kind \in {"approval_create", "authorization_reconcile", "execution_complete"}
                          \cup Deciding
  BY Applied DEF Advance, Stages, OperationKinds, Deciding
<1>2. CASE worker.pc = "budget"
  BY <1>1, <1>2, CreationBudgeted, DecisionBudgeted, AssertionBudgeted, CompletionBudgeted
<1>3. CASE worker.pc = "approval"
  BY <1>1, <1>3, CreationStays, DecisionStays, CompletionStays, ApprovalMoves
<1> QED
  BY <1>1, <1>2, <1>3, RecordStays, FinishRecovers

-----------------------------------------------------------------------------
(* The start, the step and the theorem *)

LEMMA InitRecovery == Init => RecoveryInv
<1> SUFFICES ASSUME Init PROVE RecoveryInv
  OBVIOUS
<1>1. /\ approvals = [a \in Actions |-> NULL] /\ reservations = [a \in Actions |-> 0]
      /\ journal = NULL /\ worker = Idle
  BY DEF Init, ApprovalInit, JournalInit, LedgerInit
<1>2. ASSUME NEW a \in Actions PROVE HeldSound(a)
  <2>1. ~Is(a, Held) /\ ~(reservations[a] > 0)
    BY <1>1 DEF Is, HasApproval
  <2> QED
    BY <2>1 DEF HeldSound
<1>3. RunningSound
  BY <1>1 DEF RunningSound, Running, Idle
<1> QED
  BY <1>1, <1>2, <1>3 DEF RecoveryInv

LEMMA NextRecovery ==
    ASSUME ControlInv, LifecycleInv, StoreInv, RecoveryInv, Next
    PROVE  RecoveryInv'
<1>1. CASE Entering
  BY <1>1, EnterRecovers, DecisionsRecover DEF Entering
<1>2. CASE Applying
  BY <1>2, AdvanceRecovers, EnterRecovers DEF Applying
<1>3. CASE Handling
  BY <1>3, RecordsRecover, HoldRecovers, HandleAllowRecovers, EnterRecovers DEF Handling
<1>4. CASE Completing
  <2>1. CASE Execute
    <3>1. PICK a \in Actions : a = worker.act
      BY <2>1 DEF Execute, At, ControlInv, WorkerInv, WorkerAction, Acting
    <3> QED
      BY <2>1, RunRecovers
  <2> QED
    BY <1>4, <2>1, EnterRecovers, CompletionsRecover DEF Completing
<1>5. CASE Resuming
  BY <1>5, ResumePendingRecovers, EnterRecovers, DecisionsRecover, BeginsRecover,
     UnreserveRecovers, RecordsRecover, ConsumesRecover
  DEF Resuming
<1>6. CASE Reconciling
  BY <1>6, ReconcileExecutionRecovers, AssertionPreparedRecovers, ChargeAssertedRecovers,
     RecordsRecover, ConsumesRecover
  DEF Reconciling
<1>7. CASE Outside
  BY <1>7, ExternalApproveRecovers, RunRecovers DEF Outside
<1>8. CASE Crash
  BY <1>8, EnterRecovers
<1> QED
  BY <1>1, <1>2, <1>3, <1>4, <1>5, <1>6, <1>7, <1>8 DEF Next

LEMMA StutterRecovery ==
    ASSUME ControlInv, RecoveryInv, UNCHANGED vars
    PROVE  RecoveryInv'
<1>1. UNCHANGED stores /\ worker' = worker
  BY DEF vars, stores
<1>2. NoProgress /\ RunningSound'
  BY <1>1
  DEF NoProgress, RecoveryInv, RunningSound, stores, approvalVars, Is, HasApproval
<1> QED
  BY <1>1, <1>2, QuietMove

LEMMA RecoveryInvariant == Spec => []RecoveryInv
<1>1. ControlInv /\ LifecycleInv /\ StoreInv /\ RecoveryInv /\ [Next]_vars => RecoveryInv'
  BY NextRecovery, StutterRecovery
<1>2. Init => RecoveryInv
  BY InitRecovery
<1> QED
  BY <1>1, <1>2, ControlInvariant, LifecycleInvariant, StoreInvariant, PTL DEF Spec

\* Whatever a crash leaves of an operation, repeating it from its first stage gets
\* through every check of _recover_operation, but where another actor overtook it:
\* cmd_decide approves a call that is still being created or rejected, the approval
\* runs out while it is being rejected, or complete_external_call ends an action that
\* was asserted not to have run.
THEOREM RecoveryGetsThrough == Spec => []RecoveryRefusedOnlyKnown
<1>1. ControlInv /\ LifecycleInv /\ StoreInv /\ RecoveryInv => RecoveryRefusedOnlyKnown
  BY Recovers
<1> QED
  BY <1>1, ControlInvariant, LifecycleInvariant, StoreInvariant, RecoveryInvariant, PTL

-----------------------------------------------------------------------------
(***************************************************************************)
(* What was paid is what the evidence says, and the audit finds nothing    *)
(* critical but for three reasons.  Both compare all the stores at once,   *)
(* so what each writer found in the others is remembered by action and by  *)
(* kind of operation.                                                      *)
(***************************************************************************)

\* Nothing was paid for it.
Unspent(a) == EntriesOf(a, {"debit"}) = {}

\* What has left the balance for it.
Spent(a) == ChargeOf(entries[a], reconciliations[a])

\* A known result is in the evidence, or in the journal that will bring it there.
ResultKnown(a, entry) ==
    IF HasRecord(a, entry.record)
      THEN LET record == RecordById(a, entry.record)
           IN  /\ record.status \in {"succeeded", "failed"}
               /\ record.cost = entry.amount
               /\ record.remaining = entry.after
      ELSE /\ JournalIs({"execution_complete"}, a)
           /\ journal.record.id = entry.record
           /\ journal.record.cost = entry.amount
           /\ journal.record.remaining = entry.after

\* One debit at most is the settlement of a known result.
OneSettlement(a) ==
    \A i, j \in EntriesOf(a, {"debit"}) :
        entries[a][i].record # NoRecord /\ entries[a][j].record # NoRecord => i = j

\* The ledger's rows against the evidence: what is paid, is paid for the end or for
\* the result that is about to end it.
LedgerAudit(a) ==
    /\ reservations[a] > 0 => reservations[a] = LastReserve(a)
    /\ \A i \in EntriesOf(a, {"debit"}) :
         entries[a][i].record # NoRecord => ResultKnown(a, entries[a][i])
    /\ OneSettlement(a)
    /\ reconciliations[a] # NULL /\ Unspent(a) =>
         reconciliations[a].charged =
           IF reconciliations[a].outcome = "not_executed" THEN 0
           ELSE reconciliations[a].expected
    /\ IsClosed(a) => Spent(a) = Terminal(a).cost
    /\ ~IsClosed(a) /\ ~Unspent(a) => JournalIs({"execution_complete"}, a)

\* An approval against ledger, evidence and journal.
ApprovalAudit(a) ==
    HasApproval(a) =>
        /\ approvals[a].status = "rejected" /\ reservations[a] > 0 => JournalIs(Deciding, a)
        /\ approvals[a].status = "consumed" =>
             /\ approvals[a].record \in Terminals(a)
             /\ approvals[a].outcome # "" => reconciliations[a] # NULL
        /\ reconciliations[a] # NULL =>
             /\ reconciliations[a].by = approvals[a].reconciledBy
             /\ reconciliations[a].expected = approvals[a].reserved
        /\ approvals[a].status = "executing" /\ IsClosed(a) /\ reconciliations[a] = NULL =>
             Observed(Terminal(a)) = "not_executed" \/ JournalIs({"execution_complete"}, a)

\* A marker without an approval against its authorization.
MarkerAudit(a) ==
    reconciliations[a] # NULL =>
        /\ Unspent(a)
        /\ reconciliations[a].authority \in With(a, {"skipped"})
        /\ reconciliations[a].expected = LastReserve(a)
        /\ IF IsClosed(a)
             THEN /\ Terminal(a).status = reconciliations[a].outcome
                  /\ Terminal(a).outcome = reconciliations[a].outcome
                  /\ Terminal(a).reconciledBy = reconciliations[a].by
             ELSE /\ JournalIs({"authorization_reconcile"}, a)
                  /\ journal.authority = reconciliations[a].authority

\* An action that was never held for approval.
AllowedAudit(a) ==
    ~HasApproval(a) =>
        /\ evidence[a] # << >> => Sealed(a) \/ IsClosed(a)
        /\ \A i \in With(a, {"skipped"}) : evidence[a][i].decision = "allow"
        /\ reconciliations[a] = NULL =>
             \A i \in DOMAIN evidence[a] : evidence[a][i].outcome = ""
        /\ MarkerAudit(a)

ActionAudit(a) == LedgerAudit(a) /\ ApprovalAudit(a) /\ AllowedAudit(a)

AssertAudit(op) ==
    op.kind = "authorization_reconcile" =>
        /\ Unspent(op.act)
        /\ op.reserved = LastReserve(op.act)
        /\ op.record.cost = IF op.record.outcome = "not_executed" THEN 0 ELSE op.reserved
        /\ op.authority \in With(op.act, {"skipped"})

CompleteAudit(op) ==
    op.kind = "execution_complete" =>
        /\ worker.pc \in {"approval", "finish"} => Appended(op)
        /\ worker.pc = "finish" => ~Is(op.act, {"executing"})
        /\ ~Settles(op) /\ ~IsClosed(op.act) => Unspent(op.act)
        /\ Settles(op) =>
             /\ Appended(op) \/ worker.pc = "evidence" => Dispositions(op.act) # {}
             /\ IF Dispositions(op.act) = {}
                  THEN op.record.remaining = PreviewSettlement(op.act, op.reserved, op.record.cost)
                  ELSE Spent(op.act) = op.record.cost

JournalAudit(op) ==
    /\ op.kind # "authorization_reconcile" => op.record.outcome = ""
    /\ op.kind = "approval_create" /\ worker.pc = "evidence" => HasApproval(op.act)
    /\ op.kind \in Deciding =>
         /\ op.record.cost = 0
         /\ worker.pc = "finish" => reservations[op.act] = 0
    /\ AssertAudit(op)
    /\ CompleteAudit(op)

AuditInv ==
    /\ \A a \in Actions : ActionAudit(a)
    /\ journal # NULL => JournalAudit(journal)

-----------------------------------------------------------------------------
(* What the invariant says *)

LEMMA UnspentSum ==
    ASSUME NEW a \in Actions, Unspent(a)
    PROVE  RowsSum(entries[a], {"debit"}) = 0
<1> DEFINE S == {i \in DOMAIN entries[a] : entries[a][i].kind \in {"debit"}}
           w == [i \in {} |-> 0]
<1>1. S = {}
  BY DEF Unspent, EntriesOf
<1>2. MapThenSumSet(LAMBDA i : entries[a][i].amount, S) = SumFunctionOnSet(w, S)
  <2>1. IsFiniteSet(S) /\ \A i \in S : w[i] = entries[a][i].amount
    BY <1>1, FS_EmptySet
  <2> HIDE DEF w, S
  <2> QED
    BY <2>1, AmountsAreSum
<1>3. SumFunctionOnSet(w, {}) = 0
  <2> HIDE DEF w
  <2> QED
    BY SumOfNone
<1> HIDE DEF w
<1> QED
  BY <1>1, <1>2, <1>3 DEF RowsSum

\* Without a debit, what was spent is what a marker charged.
LEMMA UnspentIs ==
    ASSUME LedgerTypeOK, NEW a \in Actions, Unspent(a)
    PROVE  Spent(a) = IF reconciliations[a] = NULL THEN 0 ELSE reconciliations[a].charged
<1>1. reconciliations[a] # NULL => reconciliations[a].charged \in Nat
  BY DEF LedgerTypeOK, Marker
<1> QED
  BY <1>1, UnspentSum DEF Spent, ChargeOf

LEMMA SpentIsCharged ==
    ASSUME NEW a \in Actions
    PROVE  Charged(a) = Spent(a)
  BY DEF Charged, Spent, ChargeOf, RowsSum, EntriesOf

\* A record is found at its place.
LEMMA AtItsPlace ==
    ASSUME EvidenceTypeOK, IdsArePlaces, NEW a \in Actions, NEW id
    PROVE  /\ HasRecord(a, id) <=> id \in DOMAIN evidence[a]
           /\ HasRecord(a, id) => RecordById(a, id) = evidence[a][id]
<1>1. \A i \in DOMAIN evidence[a] : evidence[a][i].id = i
  BY DEF IdsArePlaces
<1> QED
  BY <1>1 DEF HasRecord, RecordById

\* The last reservation is the estimate that exposure_for finds.
LEMMA ExposureIs ==
    ASSUME LedgerTypeOK, NEW a \in Actions, LedgerAudit(a)
    PROVE  ExposureFor(a) = LastReserve(a)
<1>1. reservations[a] \in Nat
  BY DEF LedgerTypeOK
<1>2. CASE reservations[a] > 0
  BY <1>2 DEF ExposureFor, LedgerAudit
<1>3. CASE reservations[a] = 0
  BY <1>3 DEF ExposureFor, LastReserve
<1> QED
  BY <1>1, <1>2, <1>3

-----------------------------------------------------------------------------
(* ... which is what the audit asks for, but for its three reasons *)

LEMMA PreparedPending ==
    ASSUME NEW owner, NEW reserved
    PROVE  Prepared(owner, reserved).status = "pending"
  BY Zenon DEF Prepared

\* What is held by a call that is not held for approval, or no longer.
LEMMA OwnedAudit ==
    ASSUME ControlInv, LifecycleInv, StoreInv, RecoveryInv, AuditInv, NEW a \in Actions,
           ~ReservedUnsealed(a), ~ExpiredUnjournaled(a)
    PROVE  ReservationOwned(a) /\ ReservationGone(a)
<1> SUFFICES ASSUME reservations[a] > 0
             PROVE  ReservationOwned(a) /\ ReservationGone(a)
  BY DEF ReservationOwned, ReservationGone
<1>1. /\ ActionSound(a) /\ ActionAudit(a)
      /\ ~IsClosed(a) /\ reservations[a] # 0
  BY DEF StoreInv, ActionSound, AuditInv, ClosedSound
<1>2. CASE ~HasApproval(a)
  <2>1. ~Is(a, ActiveApprovals) /\ ~Is(a, TerminalApprovals)
    BY <1>2 DEF Is
  <2>2. CASE evidence[a] # << >>
    <3>1. IsOpen(a)
      BY <1>1, <1>2, <2>2 DEF ActionAudit, AllowedAudit, IsOpen, Sealed
    <3> QED
      BY <2>1, <3>1 DEF ReservationOwned, ReservationGone
  <2>3. CASE evidence[a] = << >>
    <3>1. JournalIs(OperationKinds, a)
      BY <1>2, <2>3 DEF ReservedUnsealed
    <3>2. journal # NULL /\ journal.act = a /\ journal.kind \in OperationKinds
      BY <3>1 DEF JournalIs
    <3>3. ~Sealed(a)
      BY <2>3 DEF Sealed, With
    <3>4. journal.kind \notin Deciding
      BY <1>2, <3>2 DEF StoreInv, JournalSound, DecideSound, Is
    <3>5. journal.kind # "authorization_reconcile"
      BY <3>2, <3>3 DEF StoreInv, JournalSound, AssertSound
    <3>6. journal.kind # "execution_complete"
      BY <3>2, <3>3 DEF LifecycleInv, JournalLifecycle, RecordOf, RanSealed
    <3>7. journal.kind = "approval_create"
      BY <3>2, <3>4, <3>5, <3>6 DEF OperationKinds, Deciding
    <3>8. journal.reserved = reservations[a]
      BY <1>1, <3>2, <3>7 DEF StoreInv, JournalSound, CreateSound
    <3>9. JournalExpectsUnboundReservation(a)
      BY <3>2, <3>7, <3>8 DEF JournalExpectsUnboundReservation, JournalIs
    <3> QED
      BY <2>1, <3>9 DEF ReservationOwned, ReservationGone
  <2> QED
    BY <2>2, <2>3
<1>3. CASE Is(a, ActiveApprovals)
  <2>1. HasApproval(a) /\ approvals[a].status \in ActiveApprovals
    BY <1>3 DEF Is
  <2>2. approvals[a].reserved = reservations[a]
    BY <1>1, <2>1 DEF ActionSound, ApprovalSound
  <2>3. ~Is(a, TerminalApprovals)
    BY <2>1 DEF Is, ActiveApprovals, TerminalApprovals
  <2> QED
    BY <1>3, <2>2, <2>3 DEF ReservationOwned, ReservationGone
<1>4. CASE HasApproval(a) /\ ~Is(a, ActiveApprovals)
  <2>1. approvals[a].status \in TerminalApprovals
    BY <1>4, ApprovalFound
    DEF ControlInv, TypeOK, Approval, ApprovalStatuses, Is, ActiveApprovals, TerminalApprovals
  <2>2. approvals[a].status # "consumed"
    BY <1>1, <1>4 DEF ActionAudit, ApprovalAudit, IsClosed
  <2>3. JournalIs(Deciding, a)
    <3>1. CASE approvals[a].status = "rejected"
      BY <1>1, <1>4, <3>1 DEF ActionAudit, ApprovalAudit
    <3>2. CASE approvals[a].status = "expired"
      <4>1. JournalIs(OperationKinds, a)
        BY <1>4, <3>2 DEF ExpiredUnjournaled, Is
      <4>2. /\ journal # NULL /\ journal.act = a /\ journal.kind \in OperationKinds
            /\ Repeats(journal)
        BY <4>1 DEF JournalIs, RecoveryInv
      <4>3. ~Is(a, {"executing"}) /\ ~Is(a, {"consumed"}) /\ ~Is(a, {"approved"})
        BY <3>2 DEF Is
      <4>4. journal.kind # "approval_create"
        BY <1>4, <3>2, <4>2, <4>3, PreparedPending DEF Repeats, CreateRepeats
      <4>5. journal.kind # "authorization_reconcile"
        BY <1>4, <4>2 DEF StoreInv, JournalSound, AssertSound
      <4>6. journal.kind # "execution_complete"
        BY <1>4, <4>2, <4>3
        DEF Repeats, CompletionRepeats, CanEnsureConsumed, CanConsume, IsConsumedBy
      <4>7. journal.kind \in Deciding
        BY <4>2, <4>4, <4>5, <4>6 DEF OperationKinds, Deciding
      <4> QED
        BY <4>2, <4>7 DEF JournalIs
    <3> QED
      BY <2>1, <2>2, <3>1, <3>2 DEF TerminalApprovals
  <2>4. journal # NULL /\ journal.act = a /\ journal.kind \in Deciding
    BY <2>3 DEF JournalIs
  <2>5. journal.reserved = approvals[a].reserved /\ approvals[a].reserved = reservations[a]
    BY <1>1, <1>4, <2>4 DEF StoreInv, JournalSound, DecideSound, ActionSound, ApprovalSound
  <2>6. JournalExpectsTerminalReservation(a)
    BY <1>4, <2>4, <2>5 DEF JournalExpectsTerminalReservation, JournalIs, Deciding
  <2> QED
    BY <1>4, <2>6 DEF ReservationOwned, ReservationGone
<1> QED
  BY <1>2, <1>3, <1>4

\* The other clauses about approvals and open authorizations.
LEMMA PresentAudit ==
    ASSUME ControlInv, LifecycleInv, StoreInv, RecoveryInv, AuditInv, NEW a \in Actions
    PROVE  /\ ReservationPresent(a) /\ ExecutingAccounted(a)
           /\ OpenAuthorizationKnown(a) /\ ConsumedByEvidence(a) /\ AssertedIsMarked(a)
<1>1. /\ ActionSound(a) /\ ActionAudit(a) /\ HeldSound(a)
      /\ reservations[a] \in Nat /\ EvidenceTypeOK /\ IdsArePlaces
  BY DEF StoreInv, AuditInv, RecoveryInv, ControlInv, TypeOK, LedgerTypeOK, LifecycleInv
<1>2. ReservationPresent(a)
  BY <1>1 DEF ReservationPresent, HeldSound, Held
<1>3. ExecutingAccounted(a)
  <2> SUFFICES ASSUME HasApproval(a), approvals[a].reserved > 0,
                      reservations[a] = 0, reconciliations[a] = NULL
               PROVE  Dispositions(a) # {}
    BY <1>1 DEF ExecutingAccounted, Is
  <2>1. Resolved(a)
    BY <1>1 DEF ActionSound, ApprovalSound, LedgerSound
  <2> QED
    BY <2>1 DEF Resolved, Dispositions, EntriesOf
<1>4. OpenAuthorizationKnown(a)
  <2> SUFFICES ASSUME IsOpen(a), ~HasApproval(a)
               PROVE  Authorization(a).decision = "allow"
    BY DEF OpenAuthorizationKnown
  <2>1. With(a, {"skipped"}) \subseteq 1..Len(evidence[a]) /\ Len(evidence[a]) \in Nat
    BY <1>1, EvidenceRead DEF With
  <2>2. Latest(With(a, {"skipped"})) \in With(a, {"skipped"})
    BY <2>1, LatestIn DEF IsOpen
  <2> QED
    BY <1>1, <2>2 DEF ActionAudit, AllowedAudit, Authorization
<1>5. ConsumedByEvidence(a)
  <2> SUFFICES ASSUME HasApproval(a), approvals[a].status = "consumed"
               PROVE  /\ HasRecord(a, approvals[a].record)
                      /\ RecordById(a, approvals[a].record).status \in TerminalResults
    BY DEF ConsumedByEvidence, Is
  <2>1. approvals[a].record \in Terminals(a)
    BY <1>1 DEF ActionAudit, ApprovalAudit
  <2>2. /\ approvals[a].record \in DOMAIN evidence[a]
        /\ evidence[a][approvals[a].record].status \in TerminalResults
    BY <2>1 DEF Terminals, With
  <2> QED
    BY <1>1, <2>2, AtItsPlace
<1>6. AssertedIsMarked(a)
  BY <1>1 DEF AssertedIsMarked, Is, ActionAudit, ApprovalAudit, AllowedAudit
<1> QED
  BY <1>2, <1>3, <1>4, <1>5, <1>6

\* A marker agrees with its approval, or with its authorization.
LEMMA MarkedAudit ==
    ASSUME ControlInv, LifecycleInv, StoreInv, AuditInv, NEW a \in Actions
    PROVE  MarkerBound(a)
<1> SUFFICES ASSUME reconciliations[a] # NULL PROVE MarkerBound(a)
  BY DEF MarkerBound
<1>1. /\ ActionSound(a) /\ ActionAudit(a)
      /\ reservations[a] \in Nat /\ EvidenceTypeOK /\ IdsArePlaces /\ LedgerTypeOK
  BY DEF StoreInv, AuditInv, ControlInv, TypeOK, LedgerTypeOK, LifecycleInv
<1>2. reservations[a] = 0
  BY <1>1 DEF ActionSound, LedgerSound
<1>3. reconciliations[a].outcome \in Outcomes /\ reconciliations[a].authority \in Nat
  BY <1>1 DEF LedgerTypeOK, Marker
<1>4. CASE HasApproval(a)
  <2>1. reconciliations[a].outcome = approvals[a].outcome
    BY <1>1, <1>4 DEF ActionSound, ApprovalSound
  <2>2. approvals[a].outcome # ""
    BY <1>3, <2>1 DEF Outcomes
  <2> QED
    BY <1>1, <1>2, <1>4, <2>1, <2>2 DEF MarkerBound, ActionAudit, ApprovalAudit
<1>5. CASE ~HasApproval(a)
  <2> DEFINE id == reconciliations[a].authority
  <2>1. MarkerAudit(a) /\ id \in With(a, {"skipped"})
    BY <1>1, <1>5 DEF ActionAudit, AllowedAudit, MarkerAudit
  <2>2. id \in DOMAIN evidence[a] /\ evidence[a][id].status = "skipped" /\ id # NoRecord
    <3>1. DOMAIN evidence[a] = 1..Len(evidence[a])
      BY <1>1, EvidenceRead
    <3>2. id \in DOMAIN evidence[a] /\ evidence[a][id].status \in {"skipped"}
      BY <2>1 DEF With
    <3> QED
      BY <3>1, <3>2 DEF NoRecord
  <2>3. HasRecord(a, id) /\ RecordById(a, id).status = "skipped"
    BY <1>1, <2>2, AtItsPlace
  <2>4. IsClosed(a) => Terminal(a).cost = IF reconciliations[a].outcome = "not_executed"
                                            THEN 0 ELSE reconciliations[a].expected
    BY <1>1, <1>5, <2>1, UnspentIs DEF ActionAudit, LedgerAudit, MarkerAudit
  <2>5. ~HasPriorDebit(a)
    BY <2>1 DEF MarkerAudit, Unspent, HasPriorDebit
  <2>6. AuthorizationMarked(a, reconciliations[a])
    BY <2>1, <2>2, <2>3, <2>4, <2>5 DEF AuthorizationMarked, MarkerAudit
  <2> QED
    BY <1>2, <1>5, <2>6 DEF MarkerBound
<1> QED
  BY <1>4, <1>5

\* The debit of a result is in the evidence, or in the journal; money() refuses what
\* is below zero.
LEMMA SettledAudit ==
    ASSUME AuditInv, NEW a \in Actions, ~Overrun(a), LedgerTypeOK
    PROVE  SettlementsEvidenced(a)
<1> SUFFICES ASSUME NEW i \in EntriesOf(a, {"debit"}), entries[a][i].record # NoRecord
             PROVE  SettlementEvidenced(a, entries[a][i])
  BY DEF SettlementsEvidenced
<1>1. ResultKnown(a, entries[a][i])
  BY DEF AuditInv, ActionAudit, LedgerAudit
<1>2. entries[a][i].after \in Int
  <2>1. entries[a] \in Seq(Entry) /\ i \in DOMAIN entries[a]
    BY DEF LedgerTypeOK, EntriesOf
  <2>2. entries[a][i] \in Entry
    BY <2>1
  <2> QED
    BY <2>2 DEF Entry
<1>3. entries[a][i].after >= 0
  BY <1>2 DEF Overrun
<1> QED
  BY <1>1, <1>3 DEF ResultKnown, SettlementEvidenced, SameMoney

LEMMA SettledOnceAudit ==
    ASSUME AuditInv, NEW a \in Actions
    PROVE  OneDebitPerResult(a)
BY DEF AuditInv, ActionAudit, LedgerAudit, OneSettlement, OneDebitPerResult

LEMMA AuditMeans ==
    ASSUME ControlInv, LifecycleInv, StoreInv, RecoveryInv, AuditInv
    PROVE  UnsafeOnlyKnown /\ ChargeMatchesEvidence
<1>1. UnsafeOnlyKnown
  <2> SUFFICES ASSUME NEW a \in Actions,
                      ~ReservedUnsealed(a), ~ExpiredUnjournaled(a), ~Overrun(a)
               PROVE  SafeFor(a)
    BY DEF UnsafeOnlyKnown
  <2>1. LedgerTypeOK
    BY DEF ControlInv, TypeOK
  <2> QED
    BY <2>1, OwnedAudit, PresentAudit, MarkedAudit, SettledAudit, SettledOnceAudit
    DEF SafeFor
<1>2. ChargeMatchesEvidence
  BY SpentIsCharged DEF ChargeMatchesEvidence, AuditInv, ActionAudit, LedgerAudit
<1> QED
  BY <1>1, <1>2

-----------------------------------------------------------------------------
(* What a step leaves alone *)

LEMMA InitAudit == ASSUME Init PROVE AuditInv
<1>1. journal = NULL
  BY DEF Init, JournalInit
<1>2. ASSUME NEW a \in Actions
      PROVE  /\ reservations[a] = 0 /\ reconciliations[a] = NULL /\ ~HasApproval(a)
             /\ entries[a] = << >> /\ evidence[a] = << >>
  BY DEF Init, LedgerInit, ApprovalInit, EvidenceInit, HasApproval
<1>3. ASSUME NEW a \in Actions
      PROVE  ActionAudit(a)
  <2>1. /\ \A kinds : EntriesOf(a, kinds) = {}
        /\ \A statuses : With(a, statuses) = {}
        /\ DOMAIN evidence[a] = {}
    BY <1>2 DEF EntriesOf, With
  <2>2. ~IsClosed(a) /\ Unspent(a)
    BY <2>1 DEF IsClosed, Terminals, Unspent
  <2>3. LedgerAudit(a)
    BY <1>2, <2>1, <2>2 DEF LedgerAudit, OneSettlement
  <2>4. ApprovalAudit(a) /\ AllowedAudit(a)
    BY <1>2, <2>1 DEF ApprovalAudit, AllowedAudit, MarkerAudit
  <2> QED
    BY <2>3, <2>4 DEF ActionAudit
<1> QED
  BY <1>1, <1>3 DEF AuditInv

\* What the audit reads of ledger and evidence.
LEMMA SameRead ==
    ASSUME NEW b \in Actions, SameRest(b)
    PROVE  /\ \A kinds : EntriesOf(b, kinds)' = EntriesOf(b, kinds)
           /\ \A statuses : With(b, statuses)' = With(b, statuses)
           /\ \A id : /\ HasRecord(b, id)' = HasRecord(b, id)
                      /\ RecordById(b, id)' = RecordById(b, id)
           /\ LastReserve(b)' = LastReserve(b)
           /\ Unspent(b)' = Unspent(b) /\ Spent(b)' = Spent(b)
           /\ Dispositions(b)' = Dispositions(b)
           /\ IsClosed(b)' = IsClosed(b) /\ Terminal(b)' = Terminal(b)
           /\ Terminals(b)' = Terminals(b) /\ Sealed(b)' = Sealed(b)
<1>1. /\ entries'[b] = entries[b] /\ reconciliations'[b] = reconciliations[b]
      /\ evidence'[b] = evidence[b]
  BY DEF SameRest
<1>2. /\ \A kinds : EntriesOf(b, kinds)' = EntriesOf(b, kinds)
      /\ \A statuses : With(b, statuses)' = With(b, statuses)
  BY <1>1 DEF EntriesOf, With
<1>3. \A id : /\ HasRecord(b, id)' = HasRecord(b, id)
              /\ RecordById(b, id)' = RecordById(b, id)
  BY <1>1 DEF HasRecord, RecordById
<1>4. LastReserve(b)' = LastReserve(b)
  BY <1>1, <1>2 DEF LastReserve
<1>5. Unspent(b)' = Unspent(b) /\ Dispositions(b)' = Dispositions(b)
  BY <1>2 DEF Unspent, Dispositions
<1>6. Spent(b)' = Spent(b)
  BY <1>1 DEF Spent
<1> QED
  BY <1>1, <1>2, <1>3, <1>4, <1>5, <1>6, RestRead

\* The journal excuses what it excused.
SameExcuses(b) == journal' = journal \/ ~JournalIs(OperationKinds, b)

LEMMA StillJournaled ==
    ASSUME NEW b \in Actions, SameExcuses(b), NEW kinds \in SUBSET OperationKinds,
           JournalIs(kinds, b)
    PROVE  JournalIs(kinds, b)' /\ journal' = journal
  BY DEF SameExcuses, JournalIs

LEMMA LedgerAuditKept ==
    ASSUME NEW b \in Actions, LedgerAudit(b), SameRest(b), SameExcuses(b)
    PROVE  LedgerAudit(b)'
<1>1. JournalIs({"execution_complete"}, b) =>
        JournalIs({"execution_complete"}, b)' /\ journal' = journal
  BY StillJournaled DEF OperationKinds
<1>2. /\ reservations'[b] = reservations[b] /\ reconciliations'[b] = reconciliations[b]
      /\ entries'[b] = entries[b]
  BY DEF SameRest
<1>3. ASSUME NEW i \in EntriesOf(b, {"debit"}), entries[b][i].record # NoRecord
      PROVE  ResultKnown(b, entries[b][i])'
  <2>1. PICK e : e = entries[b][i]
    OBVIOUS
  <2>2. e = entries'[b][i] /\ ResultKnown(b, e)
    BY <1>2, <1>3, <2>1 DEF LedgerAudit
  <2>3. PICK id : id = e.record
    OBVIOUS
  <2>4. HasRecord(b, id)' = HasRecord(b, id) /\ RecordById(b, id)' = RecordById(b, id)
    BY SameRead
  <2>5. CASE HasRecord(b, id)
    BY <1>2, <2>1, <2>2, <2>3, <2>4, <2>5 DEF ResultKnown
  <2>6. CASE ~HasRecord(b, id)
    BY <1>1, <1>2, <2>1, <2>2, <2>3, <2>4, <2>6 DEF ResultKnown
  <2> QED
    BY <2>5, <2>6
<1>4. EntriesOf(b, {"debit"})' = EntriesOf(b, {"debit"})
  BY SameRead
<1>5. OneSettlement(b)'
  BY <1>2, <1>4 DEF LedgerAudit, OneSettlement
<1> QED
  BY <1>1, <1>2, <1>3, <1>4, <1>5, SameRead DEF LedgerAudit

LEMMA ApprovalAuditKept ==
    ASSUME NEW b \in Actions, ApprovalAudit(b), SameRest(b), SameExcuses(b),
           approvals'[b] = approvals[b]
    PROVE  ApprovalAudit(b)'
<1>1. /\ JournalIs({"execution_complete"}, b) => JournalIs({"execution_complete"}, b)'
      /\ JournalIs(Deciding, b) => JournalIs(Deciding, b)'
  BY StillJournaled DEF OperationKinds, Deciding
<1>2. /\ reservations'[b] = reservations[b] /\ reconciliations'[b] = reconciliations[b]
      /\ HasApproval(b)' = HasApproval(b)
  BY DEF SameRest, HasApproval
<1> QED
  BY <1>1, <1>2, SameRead DEF ApprovalAudit, Observed

LEMMA AllowedAuditKept ==
    ASSUME NEW b \in Actions, AllowedAudit(b), SameRest(b), SameExcuses(b),
           HasApproval(b)' = HasApproval(b)
    PROVE  AllowedAudit(b)'
<1>1. JournalIs({"authorization_reconcile"}, b) =>
        JournalIs({"authorization_reconcile"}, b)' /\ journal' = journal
  BY StillJournaled DEF OperationKinds
<1>2. /\ reservations'[b] = reservations[b] /\ reconciliations'[b] = reconciliations[b]
      /\ evidence'[b] = evidence[b]
  BY DEF SameRest
<1>3. With(b, {"skipped"})' = With(b, {"skipped"})
  BY SameRead
<1>4. MarkerAudit(b) => MarkerAudit(b)'
  BY <1>1, <1>2, <1>3, SameRead DEF MarkerAudit
<1> QED
  BY <1>2, <1>3, <1>4, SameRead DEF AllowedAudit

LEMMA SameAudit ==
    ASSUME AuditInv, NEW b \in Actions, SameRest(b), SameExcuses(b),
           approvals'[b] = approvals[b]
    PROVE  ActionAudit(b)'
<1>1. LedgerAudit(b) /\ ApprovalAudit(b) /\ AllowedAudit(b)
  BY DEF AuditInv, ActionAudit
<1>2. HasApproval(b)' = HasApproval(b)
  BY DEF HasApproval
<1> QED
  BY <1>1, <1>2, LedgerAuditKept, ApprovalAuditKept, AllowedAuditKept DEF ActionAudit

\* The worker does not go on to where it would owe the journal more.
StaysBehind ==
    /\ worker'.pc = "evidence" => worker.pc = "evidence"
    /\ worker'.pc = "approval" => worker.pc = "approval" \/ journal.kind \in Deciding
    /\ worker'.pc = "finish" => worker.pc = "finish"

LEMMA JournalAuditKept ==
    ASSUME ControlInv, AuditInv, journal # NULL, journal' = journal, StaysBehind,
           SameRest(journal.act), Available' = Available,
           HasApproval(journal.act) => HasApproval(journal.act)',
           Is(journal.act, {"executing"})' => Is(journal.act, {"executing"})
    PROVE  JournalAudit(journal)'
<1>1. PICK a \in Actions : a = journal.act /\ a = journal'.act
  BY DEF ControlInv, TypeOK, JournalTypeOK, Operation
<1>2. /\ SameRest(a) /\ (HasApproval(a) => HasApproval(a)')
      /\ Is(a, {"executing"})' => Is(a, {"executing"})
      /\ JournalAudit(journal)
  BY <1>1 DEF AuditInv
<1>3. /\ reservations'[a] = reservations[a] /\ evidence'[a] = evidence[a]
      /\ Unspent(a)' = Unspent(a) /\ Spent(a)' = Spent(a)
      /\ LastReserve(a)' = LastReserve(a)
      /\ With(a, {"skipped"})' = With(a, {"skipped"})
      /\ IsClosed(a)' = IsClosed(a) /\ Dispositions(a)' = Dispositions(a)
  BY <1>2, SameRead DEF SameRest
<1>4. AssertAudit(journal)'
  BY <1>1, <1>2, <1>3 DEF JournalAudit, AssertAudit
<1>5. Appended(journal)' = Appended(journal) /\ Settles(journal)' = Settles(journal)
  BY <1>1, <1>3 DEF Appended, Settles
<1>6. PreviewSettlement(a, journal.reserved, journal.record.cost)' =
        PreviewSettlement(a, journal.reserved, journal.record.cost)
  BY DEF PreviewSettlement
<1>7. CompleteAudit(journal)'
  <2>1. journal.kind = "execution_complete" => CompleteAudit(journal)
    BY <1>2 DEF JournalAudit
  <2>2. journal.kind \in Deciding => journal.kind # "execution_complete"
    BY DEF Deciding
  <2> QED
    BY <1>1, <1>2, <1>3, <1>5, <1>6, <2>1, <2>2 DEF CompleteAudit, StaysBehind
<1>8. /\ (journal.kind # "authorization_reconcile" => journal.record.outcome = "")'
      /\ (journal.kind = "approval_create" /\ worker.pc = "evidence"
            => HasApproval(journal.act))'
      /\ (journal.kind \in Deciding =>
            /\ journal.record.cost = 0
            /\ worker.pc = "finish" => reservations[journal.act] = 0)'
  BY <1>1, <1>2, <1>3 DEF JournalAudit, StaysBehind
<1> QED
  BY <1>4, <1>7, <1>8 DEF JournalAudit

-----------------------------------------------------------------------------
(* Steps that write to no store *)

LEMMA MoveAudits ==
    ASSUME ControlInv, AuditInv, Unwritten, StaysBehind
    PROVE  AuditInv'
<1>1. /\ UNCHANGED <<reservations, entries, reconciliations, approvals, evidence, journal>>
      /\ Available' = Available
  BY DEF Unwritten, Available
<1>2. \A b \in Actions : SameRest(b) /\ SameExcuses(b)
  BY <1>1 DEF SameRest, SameExcuses
<1>3. \A b \in Actions : ActionAudit(b)'
  BY <1>1, <1>2, SameAudit
<1>4. journal # NULL => journal.act \in Actions
  BY DEF ControlInv, TypeOK, JournalTypeOK, Operation
<1>5. journal # NULL => JournalAudit(journal)'
  BY <1>1, <1>2, <1>4, JournalAuditKept DEF Is, HasApproval
<1> QED
  BY <1>1, <1>3, <1>5 DEF AuditInv

LEMMA EnterAudits ==
    ASSUME ControlInv, AuditInv,
           \/ \E full \in BOOLEAN : Enter(full)
           \/ RefuseUnsafe \/ Admit \/ Leave \/ RefuseRecovery \/ Answer \/ ToolRaises
           \/ Crash \/ Recover
           \/ \E a \in Actions, by \in Operators : ResumeApproved(a, by)
    PROVE  AuditInv'
<1>1. UNCHANGED stores
  BY DEF Enter, RefuseUnsafe, Admit, Leave, RefuseRecovery, Answer, ToolRaises, Crash,
         Recover, ResumeApproved
<1>2. worker'.pc \in {"idle", "entry", "ready", "begin"}
      \/ Recover
  <2>1. CASE \E full \in BOOLEAN : Enter(full)
    BY <2>1 DEF Enter, Idle
  <2>2. CASE RefuseUnsafe \/ Leave \/ RefuseRecovery \/ Answer \/ ToolRaises \/ Crash
    BY <2>2 DEF RefuseUnsafe, Leave, RefuseRecovery, Answer, ToolRaises, Crash, Return, Idle
  <2>3. CASE Admit \/ \E a \in Actions, by \in Operators : ResumeApproved(a, by)
    BY <2>3 DEF Admit, ResumeApproved, GoTo, ControlInv, TypeOK, Worker
  <2> QED
    BY <2>1, <2>2, <2>3
<1>3. StaysBehind
  <2>1. CASE Recover
    <3>1. worker'.pc = FirstStage(journal.kind) /\ journal.kind \in OperationKinds
      BY <2>1 DEF Recover, ControlInv, TypeOK, Worker, JournalTypeOK, Operation
    <3>2. /\ worker'.pc \in {"budget", "approval"}
          /\ worker'.pc = "approval" => journal.kind \in Deciding
      BY <3>1 DEF FirstStage, Route, OperationKinds, Deciding
    <3> QED
      BY <3>2 DEF StaysBehind
  <2>2. CASE worker'.pc \in {"idle", "entry", "ready", "begin"}
    BY <2>2 DEF StaysBehind
  <2> QED
    BY <1>2, <2>1, <2>2
<1> QED
  BY <1>1, <1>3, StoresUnwritten, MoveAudits

LEMMA RunAudits ==
    ASSUME ControlInv, AuditInv, NEW a \in Actions,
           Execute \/ RunnerRuns(a) \/ TimePasses(a) \/ UNCHANGED vars
    PROVE  AuditInv'
<1>1. /\ Unwritten
      /\ worker' = worker \/ (worker.pc = "execute" /\ worker'.pc = "complete")
  BY StoresUnwritten
  DEF Execute, RunnerRuns, TimePasses, TtlRunsOut, vars, stores, ledgerVars, approvalVars,
      Unwritten, At, GoTo, ControlInv, TypeOK, Worker
<1>2. StaysBehind
  BY <1>1 DEF StaysBehind
<1> QED
  BY <1>1, <1>2, MoveAudits

-----------------------------------------------------------------------------
(* Evidence is added *)

\* What a new record has to agree with.
Agrees(a, record) ==
    /\ JournalIs({"execution_complete"}, a) =>
         record = journal.record /\ record.status \in {"succeeded", "failed"}
    /\ record.status \in TerminalResults =>
         /\ ~IsClosed(a) /\ Spent(a) = record.cost
         /\ Is(a, {"executing"}) /\ reconciliations[a] = NULL =>
              Observed(record) = "not_executed" \/ JournalIs({"execution_complete"}, a)
    /\ ~HasApproval(a) =>
         /\ record.status \in TerminalResults \cup {"skipped"}
         /\ record.status = "skipped" => record.decision = "allow"
         /\ reconciliations[a] = NULL => record.outcome = ""
         /\ reconciliations[a] # NULL /\ record.status \in TerminalResults =>
              /\ record.status = reconciliations[a].outcome
              /\ record.outcome = reconciliations[a].outcome
              /\ record.reconciledBy = reconciliations[a].by

LEMMA RecordAdded ==
    ASSUME EvidenceTypeOK, IdsArePlaces, NEW a \in Actions, NEW record \in EvidenceRecord,
           AppendRecord(a, record), record.id = Len(evidence[a]) + 1
    PROVE  /\ \A b \in Actions \ {a} : evidence'[b] = evidence[b]
           /\ DOMAIN evidence'[a] = DOMAIN evidence[a] \cup {record.id}
           /\ record.id \notin DOMAIN evidence[a]
           /\ \A i \in DOMAIN evidence[a] : evidence'[a][i] = evidence[a][i]
           /\ evidence'[a][record.id] = record
           /\ \A id : HasRecord(a, id)' <=> HasRecord(a, id) \/ id = record.id
           /\ \A id : HasRecord(a, id) => RecordById(a, id)' = RecordById(a, id)
           /\ RecordById(a, record.id)' = record
<1> DEFINE n == Len(evidence[a])
<1>1. /\ evidence'[a] = Append(evidence[a], record)
      /\ \A b \in Actions \ {a} : evidence'[b] = evidence[b]
  BY DEF EvidenceTypeOK, AppendRecord
<1>2. /\ n \in Nat
      /\ DOMAIN evidence[a] = 1..n
      /\ DOMAIN evidence'[a] = 1..(n + 1)
      /\ \A i \in 1..n : evidence'[a][i] = evidence[a][i]
      /\ evidence'[a][n + 1] = record
  BY <1>1 DEF EvidenceTypeOK
<1>3. 1..(n + 1) = 1..n \cup {n + 1} /\ n + 1 \notin 1..n /\ record.id = n + 1
  BY <1>2
<1> HIDE DEF n
<1>4. EvidenceTypeOK' /\ IdsArePlaces'
  BY PlacesKept, RecordAppended
<1>5. PICK new : new = record.id
  OBVIOUS
<1>6. /\ \A id : HasRecord(a, id) <=> id \in 1..n
      /\ \A id : HasRecord(a, id) => RecordById(a, id) = evidence[a][id]
  BY <1>2, AtItsPlace
<1>7. \A i \in DOMAIN evidence'[a] : evidence'[a][i].id = i
  BY <1>4 DEF IdsArePlaces
<1>8. ASSUME NEW id
      PROVE  /\ HasRecord(a, id)' <=> id \in 1..(n + 1)
             /\ HasRecord(a, id)' => RecordById(a, id)' = evidence'[a][id]
  BY <1>2, <1>7 DEF HasRecord, RecordById
<1>9. \A id : HasRecord(a, id)' <=> HasRecord(a, id) \/ id = new
  BY <1>3, <1>5, <1>6, <1>8
<1>10. \A id : HasRecord(a, id) => RecordById(a, id)' = RecordById(a, id)
  BY <1>2, <1>3, <1>5, <1>6, <1>8
<1>11. RecordById(a, record.id)' = record
  <2>1. RecordById(a, new)' = record
    BY <1>2, <1>3, <1>5, <1>8
  <2>2. record' = record
    OBVIOUS
  <2> QED
    BY <1>5, <2>1
<1> QED
  BY <1>1, <1>2, <1>3, <1>5, <1>9, <1>10, <1>11

LEMMA LedgerAudited ==
    ASSUME ControlInv, LifecycleInv, StoreInv, AuditInv, NEW a \in Actions,
           NEW record \in EvidenceRecord, AppendRecord(a, record),
           record.id = Len(evidence[a]) + 1, OnlyEvidence, Agrees(a, record)
    PROVE  LedgerAudit(a)'
<1>1. /\ EvidenceTypeOK /\ IdsArePlaces /\ LedgerAudit(a) /\ LedgerTypeOK
      /\ \A b \in Actions : OnceEnded(b)
  BY DEF ControlInv, TypeOK, LifecycleInv, AuditInv, ActionAudit, StoreInv, ActionSound
<1>2. /\ reservations' = reservations /\ reconciliations' = reconciliations
      /\ entries' = entries /\ journal' = journal
      /\ JournalIs({"execution_complete"}, a)' = JournalIs({"execution_complete"}, a)
      /\ EntriesOf(a, {"debit"})' = EntriesOf(a, {"debit"})
      /\ Unspent(a)' = Unspent(a) /\ Spent(a)' = Spent(a)
      /\ LastReserve(a)' = LastReserve(a)
  BY DEF OnlyEvidence, JournalIs, EntriesOf, Unspent, Spent, LastReserve
<1>3. ASSUME NEW i \in EntriesOf(a, {"debit"}), entries[a][i].record # NoRecord
      PROVE  ResultKnown(a, entries[a][i])'
  <2>1. PICK e : e = entries[a][i]
    OBVIOUS
  <2>2. e = entries'[a][i] /\ ResultKnown(a, e)
    BY <1>1, <1>2, <1>3, <2>1 DEF LedgerAudit
  <2>3. PICK id : id = e.record
    OBVIOUS
  <2>4. /\ HasRecord(a, id)' <=> HasRecord(a, id) \/ id = record.id
        /\ HasRecord(a, id) => RecordById(a, id)' = RecordById(a, id)
        /\ RecordById(a, record.id)' = record
    BY <1>1, RecordAdded
  <2>5. CASE HasRecord(a, id)
    BY <1>2, <2>1, <2>2, <2>3, <2>4, <2>5 DEF ResultKnown
  <2>6. CASE ~HasRecord(a, id)
    <3>1. /\ record = journal.record /\ record.status \in {"succeeded", "failed"}
          /\ record.id = id /\ record.cost = e.amount /\ record.remaining = e.after
      BY <2>2, <2>3, <2>6 DEF ResultKnown, Agrees
    <3>2. HasRecord(a, id)' /\ RecordById(a, id)' = record
      <4>1. PICK new : new = record.id
        OBVIOUS
      <4>2. RecordById(a, new)' = RecordById(a, id)'
        BY <3>1, <4>1
      <4> QED
        BY <2>4, <3>1
    <3> QED
      BY <1>2, <2>1, <2>2, <2>3, <3>1, <3>2 DEF ResultKnown
  <2> QED
    BY <2>5, <2>6
<1>4. /\ record.status \in TerminalResults => IsClosed(a)' /\ Terminal(a)' = record
      /\ record.status \notin TerminalResults =>
           /\ IsClosed(a)' = IsClosed(a)
           /\ IsClosed(a) => Terminal(a)' = Terminal(a)
  BY <1>1, AppendedEnds DEF Agrees
<1>5. IsClosed(a)' => Spent(a)' = Terminal(a)'.cost
  BY <1>1, <1>2, <1>4 DEF LedgerAudit, Agrees
<1>6. ~IsClosed(a)' /\ ~Unspent(a)' => JournalIs({"execution_complete"}, a)'
  BY <1>1, <1>2, <1>4 DEF LedgerAudit
<1>7. OneSettlement(a)'
  BY <1>1, <1>2 DEF LedgerAudit, OneSettlement
<1> QED
  BY <1>1, <1>2, <1>3, <1>5, <1>6, <1>7 DEF LedgerAudit

LEMMA ApprovalAudited ==
    ASSUME ControlInv, LifecycleInv, StoreInv, AuditInv, NEW a \in Actions,
           NEW record \in EvidenceRecord, AppendRecord(a, record),
           record.id = Len(evidence[a]) + 1, OnlyEvidence, Agrees(a, record)
    PROVE  ApprovalAudit(a)' /\ AllowedAudit(a)'
<1>1. /\ EvidenceTypeOK /\ IdsArePlaces /\ ApprovalAudit(a) /\ AllowedAudit(a)
      /\ \A b \in Actions : OnceEnded(b)
  BY DEF ControlInv, TypeOK, LifecycleInv, AuditInv, ActionAudit, StoreInv, ActionSound
<1>2. /\ reservations' = reservations /\ reconciliations' = reconciliations
      /\ approvals' = approvals /\ journal' = journal
      /\ \A kinds : JournalIs(kinds, a)' = JournalIs(kinds, a)
      /\ HasApproval(a)' = HasApproval(a) /\ LastReserve(a)' = LastReserve(a)
      /\ Unspent(a)' = Unspent(a)
  BY DEF OnlyEvidence, JournalIs, HasApproval, EntriesOf, Unspent, LastReserve
<1>3. /\ record.status \in TerminalResults =>
           IsClosed(a)' /\ Terminal(a)' = record /\ ~IsClosed(a)
      /\ record.status \notin TerminalResults =>
           /\ IsClosed(a)' = IsClosed(a)
           /\ IsClosed(a) => Terminal(a)' = Terminal(a)
  BY <1>1, AppendedEnds DEF Agrees
<1>4. /\ DOMAIN evidence'[a] = DOMAIN evidence[a] \cup {record.id}
      /\ \A i \in DOMAIN evidence[a] : evidence'[a][i] = evidence[a][i]
      /\ evidence'[a][record.id] = record /\ record.id \notin DOMAIN evidence[a]
  BY <1>1, RecordAdded
<1>5. /\ Terminals(a) \subseteq Terminals(a)'
      /\ With(a, {"skipped"}) \subseteq With(a, {"skipped"})'
      /\ \A i \in With(a, {"skipped"})' :
           i \in With(a, {"skipped"}) \/ (i = record.id /\ record.status = "skipped")
      /\ record.status = "skipped" => Sealed(a)'
      /\ Sealed(a) => Sealed(a)'
  BY <1>4 DEF Terminals, With, Sealed
<1>6. ApprovalAudit(a)'
  <2> SUFFICES ASSUME HasApproval(a)
               PROVE  ApprovalAudit(a)'
    BY <1>2 DEF ApprovalAudit
  <2>1. ASSUME approvals[a].status = "executing", IsClosed(a)', reconciliations[a] = NULL
        PROVE  Observed(Terminal(a))' = "not_executed" \/ JournalIs({"execution_complete"}, a)
    <3>1. CASE record.status \in TerminalResults
      <4>1. Observed(Terminal(a))' = Observed(record)
        BY <1>3, <3>1 DEF Observed
      <4>2. Is(a, {"executing"})
        BY <2>1 DEF Is
      <4> QED
        BY <2>1, <3>1, <4>1, <4>2 DEF Agrees
    <3>2. CASE record.status \notin TerminalResults
      BY <1>1, <1>3, <2>1, <3>2 DEF ApprovalAudit, Observed
    <3> QED
      BY <3>1, <3>2
  <2> QED
    BY <1>1, <1>2, <1>5, <2>1 DEF ApprovalAudit
<1>7. AllowedAudit(a)'
  <2> SUFFICES ASSUME ~HasApproval(a)
               PROVE  AllowedAudit(a)'
    BY <1>2 DEF AllowedAudit
  <2>1. Sealed(a)' \/ IsClosed(a)'
    BY <1>3, <1>5 DEF Agrees
  <2>2. \A i \in With(a, {"skipped"})' : evidence'[a][i].decision = "allow"
    <3> SUFFICES ASSUME NEW i \in With(a, {"skipped"})'
                 PROVE  evidence'[a][i].decision = "allow"
      OBVIOUS
    <3>1. CASE i \in With(a, {"skipped"})
      <4>1. i \in DOMAIN evidence[a] /\ evidence[a][i].decision = "allow"
        BY <1>1, <3>1 DEF AllowedAudit, With
      <4> QED
        BY <1>4, <4>1
    <3>2. CASE i = record.id /\ record.status = "skipped"
      BY <1>4, <3>2 DEF Agrees
    <3> QED
      BY <1>5, <3>1, <3>2
  <2>3. reconciliations[a] = NULL => \A i \in DOMAIN evidence'[a] : evidence'[a][i].outcome = ""
    BY <1>1, <1>4 DEF AllowedAudit, Agrees
  <2>4. MarkerAudit(a)'
    <3> SUFFICES ASSUME reconciliations[a] # NULL PROVE MarkerAudit(a)'
      BY <1>2 DEF MarkerAudit
    <3>1. MarkerAudit(a)
      BY <1>1 DEF AllowedAudit
    <3>2. reconciliations[a].authority \in With(a, {"skipped"})'
      BY <1>5, <3>1 DEF MarkerAudit
    <3>3. CASE record.status \in TerminalResults
      BY <1>2, <1>3, <3>1, <3>2, <3>3 DEF MarkerAudit, Agrees
    <3>4. CASE record.status \notin TerminalResults
      BY <1>2, <1>3, <3>1, <3>2, <3>4 DEF MarkerAudit
    <3> QED
      BY <3>3, <3>4
  <2> QED
    BY <1>2, <2>1, <2>2, <2>3, <2>4 DEF AllowedAudit
<1> QED
  BY <1>6, <1>7

LEMMA AppendAudited ==
    ASSUME ControlInv, LifecycleInv, StoreInv, AuditInv, NEW a \in Actions,
           NEW record \in EvidenceRecord, AppendRecord(a, record),
           record.id = Len(evidence[a]) + 1, OnlyEvidence, Agrees(a, record)
    PROVE  \A b \in Actions : ActionAudit(b)'
<1>1. ActionAudit(a)'
  BY LedgerAudited, ApprovalAudited DEF ActionAudit
<1>2. \A b \in Actions \ {a} : SameRest(b) /\ approvals'[b] = approvals[b] /\ SameExcuses(b)
  <2>1. \A b \in Actions \ {a} : evidence'[b] = evidence[b]
    BY DEF AppendRecord, ControlInv, TypeOK, EvidenceTypeOK
  <2> QED
    BY <2>1 DEF OnlyEvidence, SameRest, SameExcuses
<1> QED
  BY <1>1, <1>2, SameAudit

\* With no operation under way.
LEMMA AloneAudited ==
    ASSUME ControlInv, LifecycleInv, StoreInv, AuditInv, NEW a \in Actions,
           NEW record \in EvidenceRecord, AppendRecord(a, record),
           record.id = Len(evidence[a]) + 1, OnlyEvidence, journal = NULL,
           record.status \in TerminalResults =>
             /\ ~IsClosed(a)
             /\ Spent(a) = record.cost
             /\ Is(a, {"executing"}) /\ reconciliations[a] = NULL =>
                  Observed(record) = "not_executed",
           ~HasApproval(a) =>
             /\ reconciliations[a] = NULL
             /\ record.status \in TerminalResults \cup {"skipped"}
             /\ record.status = "skipped" => record.decision = "allow"
             /\ record.outcome = ""
    PROVE  AuditInv'
<1>1. Agrees(a, record)
  BY DEF Agrees, JournalIs
<1>2. journal' = NULL
  BY DEF OnlyEvidence
<1> QED
  BY <1>1, <1>2, AppendAudited DEF AuditInv

\* Without a debit and without a marker, nothing is spent.
LEMMA NothingSpent ==
    ASSUME ControlInv, AuditInv, NEW a \in Actions, journal = NULL, ~IsClosed(a)
    PROVE  /\ Unspent(a)
           /\ reconciliations[a] = NULL => Spent(a) = 0
           /\ reconciliations[a] # NULL => Spent(a) = reconciliations[a].charged
<1>1. Unspent(a)
  BY DEF AuditInv, ActionAudit, LedgerAudit, JournalIs
<1> QED
  BY <1>1, UnspentIs DEF ControlInv, TypeOK

LEMMA HandleBlockedAudits ==
    ASSUME ControlInv, LifecycleInv, StoreInv, AuditInv, NEW a \in Actions, HandleBlocked(a)
    PROVE  AuditInv'
<1> DEFINE record == Make(a, "blocked", "block", NULL)
<1>1. record \in EvidenceRecord
  BY ReservedNow, MakeTyped DEF ResultStatuses, Decisions
<1>2. /\ record.id = Len(evidence[a]) + 1 /\ record.status = "blocked" /\ record.cost = 0
      /\ record.outcome = ""
  BY Zenon DEF Make
<1>3. /\ AppendRecord(a, record) /\ OnlyEvidence /\ journal = NULL
  BY NoJournalActing DEF HandleBlocked, At, ledgerVars, approvalVars, OnlyEvidence
<1> HIDE DEF record
<1>4. ~HasApproval(a) /\ ~IsClosed(a) /\ reconciliations[a] = NULL
  BY FreshSound, FreshLife, Unmarked DEF HandleBlocked
<1>5. Spent(a) = record.cost
  BY <1>2, <1>3, <1>4, NothingSpent
<1> QED
  BY <1>1, <1>2, <1>3, <1>4, <1>5, AloneAudited DEF TerminalResults, Is

LEMMA AuthorizeAudits ==
    ASSUME ControlInv, LifecycleInv, StoreInv, AuditInv, Authorize
    PROVE  AuditInv'
<1>1. worker.pc = "authorize" /\ OnlyEvidence
  BY DEF Authorize, At, ledgerVars, approvalVars, OnlyEvidence
<1>2. journal = NULL /\ worker.act \in Actions /\ worker.by \in Operators \cup {NULL}
  BY <1>1, NoJournalActing DEF Acting, ControlInv, TypeOK, Worker
<1>3. PICK a \in Actions : a = worker.act
  BY <1>2
<1> DEFINE record == Make(a, "skipped", DecisionFor(a), worker.by)
<1>4. /\ record \in EvidenceRecord
      /\ record.id = Len(evidence[a]) + 1 /\ record.status = "skipped"
      /\ record.decision = DecisionFor(a) /\ record.outcome = ""
  <2>1. DecisionFor(a) \in Decisions
    BY DEF Decisions, DecisionFor
  <2>2. record \in EvidenceRecord
    BY <1>2, <2>1, ReservedNow, MakeTyped DEF ResultStatuses
  <2> QED
    BY <2>2, Zenon DEF Make
<1>5. AppendRecord(a, record)
  BY <1>3 DEF Authorize
<1> HIDE DEF record
<1>6. ~HasApproval(a) => record.decision = "allow" /\ reconciliations[a] = NULL
  BY <1>1, <1>3, <1>4, Unmarked DEF DecisionFor, LifecycleInv, WorkerLifecycle
<1> QED
  BY <1>1, <1>2, <1>4, <1>5, <1>6, AloneAudited DEF TerminalResults

LEMMA RecordBlockedAudits ==
    ASSUME ControlInv, LifecycleInv, StoreInv, AuditInv, RecordBlocked
    PROVE  AuditInv'
<1>1. worker.pc = "blocked" /\ OnlyEvidence
  BY DEF RecordBlocked, At, ledgerVars, approvalVars, OnlyEvidence
<1>2. journal = NULL /\ worker.act \in Actions /\ worker.by \in Operators \cup {NULL}
  BY <1>1, NoJournalActing DEF Acting, ControlInv, TypeOK, Worker
<1>3. PICK a \in Actions : a = worker.act
  BY <1>2
<1> DEFINE record == Make(a, "blocked", "block", worker.by)
<1>4. /\ record \in EvidenceRecord
      /\ record.id = Len(evidence[a]) + 1 /\ record.status = "blocked" /\ record.cost = 0
      /\ record.outcome = ""
  <2>1. record \in EvidenceRecord
    BY <1>2, ReservedNow, MakeTyped DEF ResultStatuses, Decisions
  <2> QED
    BY <2>1, Zenon DEF Make
<1>5. AppendRecord(a, record)
  BY <1>3 DEF RecordBlocked
<1> HIDE DEF record
<1>6. ~IsClosed(a) /\ ~Sealed(a) /\ (HasApproval(a) => approvals[a].outcome = "")
  BY <1>1, <1>3 DEF LifecycleInv, WorkerLifecycle, StoreInv, WorkerSound, Spending
<1>7. reconciliations[a] = NULL
  <2>1. CASE ~HasApproval(a)
    BY <1>6, <2>1, Unmarked
  <2>2. CASE HasApproval(a)
    <3>1. reconciliations[a] # NULL => reconciliations[a].outcome \in Outcomes
      BY DEF ControlInv, TypeOK, LedgerTypeOK, Marker
    <3>2. reconciliations[a] # NULL => reconciliations[a].outcome = ""
      BY <1>6, <2>2 DEF StoreInv, ActionSound, ApprovalSound
    <3> QED
      BY <3>1, <3>2 DEF Outcomes
  <2> QED
    BY <2>1, <2>2
<1>8. Spent(a) = record.cost
  BY <1>2, <1>4, <1>6, <1>7, NothingSpent
<1>9. Observed(record) = "not_executed"
  BY <1>4 DEF Observed
<1> QED
  BY <1>1, <1>2, <1>4, <1>5, <1>6, <1>7, <1>8, <1>9, AloneAudited DEF TerminalResults

LEMMA RecordAssertedAudits ==
    ASSUME ControlInv, LifecycleInv, StoreInv, AuditInv, RecordAsserted
    PROVE  AuditInv'
<1>1. worker.pc = "assert" /\ OnlyEvidence
  BY DEF RecordAsserted, At, ledgerVars, approvalVars, OnlyEvidence
<1>2. journal = NULL /\ worker.act \in Actions
  BY <1>1, NoJournalActing DEF Acting
<1>3. PICK a \in Actions :
         a = worker.act /\ Asserted(a) /\ reconciliations[a] # NULL
  BY <1>1, <1>2 DEF ControlInv, WorkerInv, WorkerAssertion
<1> DEFINE made == Make(a, approvals[a].outcome, "approval_required",
                        approvals[a].decidedBy)
           record == [made EXCEPT !.cost = reconciliations[a].charged,
                                  !.outcome = approvals[a].outcome,
                                  !.reconciledBy = approvals[a].reconciledBy]
<1>4. /\ approvals[a].outcome \in Outcomes
      /\ approvals[a].decidedBy \in Operators \cup {NULL}
      /\ approvals[a].reconciledBy \in Operators
  BY <1>3, ReservedNow DEF Asserted, Approval
<1>5. reconciliations[a].charged \in Nat
  BY <1>3, ReservedNow DEF LedgerTypeOK, Marker
<1>6. /\ made \in EvidenceRecord /\ made.id = Len(evidence[a]) + 1
  <2>1. approvals[a].outcome \in ResultStatuses
    BY <1>4 DEF Outcomes, ResultStatuses
  <2>2. "approval_required" \in Decisions
    BY DEF Decisions
  <2>3. made \in EvidenceRecord
    BY <1>4, <2>1, <2>2, ReservedNow, MakeTyped
  <2> QED
    BY <2>3, Zenon DEF Make
<1>7. AppendRecord(a, record)
  BY <1>3 DEF RecordAsserted
<1> HIDE DEF made
<1>8. /\ record \in EvidenceRecord /\ record.id = Len(evidence[a]) + 1
      /\ record.cost = reconciliations[a].charged
  BY <1>4, <1>5, <1>6 DEF EvidenceRecord
<1> HIDE DEF record
<1>9. ~IsClosed(a) /\ HasApproval(a)
  BY <1>1, <1>3 DEF LifecycleInv, WorkerLifecycle, Asserted
<1>10. Spent(a) = record.cost
  BY <1>2, <1>3, <1>8, <1>9, NothingSpent
<1> QED
  BY <1>1, <1>2, <1>3, <1>7, <1>8, <1>9, <1>10, AloneAudited

-----------------------------------------------------------------------------
(* Approvals move on *)

LEMMA ApprovalAudits ==
    ASSUME ControlInv, AuditInv, NEW a \in Actions, OnlyApprovals,
           \A b \in Actions \ {a} : approvals'[b] = approvals[b],
           HasApproval(a), HasApproval(a)', ApprovalAudit(a)',
           journal = NULL \/ (StaysBehind /\ ~Is(a, {"executing"})')
    PROVE  AuditInv'
<1>1. \A b \in Actions : SameRest(b) /\ SameExcuses(b)
  BY OnlyApprovalsRest DEF OnlyApprovals, SameExcuses
<1>2. ActionAudit(a)'
  <2>1. LedgerAudit(a) /\ AllowedAudit(a) /\ SameRest(a) /\ SameExcuses(a)
    BY <1>1 DEF AuditInv, ActionAudit
  <2>2. HasApproval(a)' = HasApproval(a)
    OBVIOUS
  <2> QED
    BY <2>1, <2>2, LedgerAuditKept, AllowedAuditKept DEF ActionAudit
<1>3. \A b \in Actions \ {a} : ActionAudit(b)'
  BY <1>1, SameAudit
<1>4. journal' = journal /\ Available' = Available
  BY DEF OnlyApprovals, Available
<1>5. ASSUME journal # NULL
      PROVE  JournalAudit(journal)'
  <2>1. journal.act \in Actions
    BY <1>5 DEF ControlInv, TypeOK, JournalTypeOK, Operation
  <2>2. PICK c \in Actions : c = journal.act
    BY <2>1
  <2>3. CASE c = a
    BY <1>1, <1>4, <1>5, <2>2, <2>3, JournalAuditKept
  <2>4. CASE c # a
    <3>1. /\ HasApproval(c) => HasApproval(c)'
          /\ Is(c, {"executing"})' => Is(c, {"executing"})
      BY <2>4 DEF HasApproval, Is
    <3> QED
      BY <1>1, <1>4, <1>5, <2>2, <3>1, JournalAuditKept
  <2> QED
    BY <2>3, <2>4
<1> QED
  BY <1>2, <1>3, <1>4, <1>5 DEF AuditInv

\* Neither spent nor rejected.
LEMMA StatusAudited ==
    ASSUME AuditInv, NEW a \in Actions, OnlyApprovals, HasApproval(a),
           approvals'[a].reserved = approvals[a].reserved,
           approvals'[a].reconciledBy = approvals[a].reconciledBy,
           approvals'[a].status \in {"approved", "executing", "expired"},
           approvals'[a].status = "executing" => ~IsClosed(a)
    PROVE  ApprovalAudit(a)'
<1>1. IsClosed(a)' = IsClosed(a)
  BY OnlyApprovalsRest, SameRead
<1> QED
  BY <1>1 DEF AuditInv, ActionAudit, ApprovalAudit, OnlyApprovals

LEMMA PutFields ==
    ASSUME ApprovalTypeOK, NEW a \in Actions, NEW new \in Approval, Put(a, new)
    PROVE  /\ approvals'[a] = new /\ HasApproval(a)'
           /\ \A b \in Actions \ {a} : approvals'[b] = approvals[b]
<1>1. /\ approvals'[a] = new
      /\ \A b \in Actions \ {a} : approvals'[b] = approvals[b]
  BY DEF Put, ApprovalTypeOK
<1> QED
  BY <1>1, ApprovalAssumption DEF HasApproval

LEMMA ApprovedAudits ==
    ASSUME ControlInv, AuditInv, NEW a \in Actions, NEW by \in Operators,
           Decide(a, TRUE, by), OnlyApprovals, journal = NULL \/ StaysBehind
    PROVE  AuditInv'
<1> DEFINE new == [approvals[a] EXCEPT !.status = "approved", !.decidedBy = by]
<1>1. HasApproval(a) /\ approvals[a] \in Approval /\ ApprovalTypeOK
  BY ReservedNow DEF Decide, CanDecide, Is
<1>2. /\ new \in Approval /\ new.status = "approved"
      /\ new.reserved = approvals[a].reserved
      /\ new.reconciledBy = approvals[a].reconciledBy
  BY <1>1 DEF Approval, ApprovalStatuses
<1>3. Put(a, new)
  BY DEF Decide
<1> HIDE DEF new
<1>4. /\ approvals'[a] = new /\ HasApproval(a)'
      /\ \A b \in Actions \ {a} : approvals'[b] = approvals[b]
  BY <1>1, <1>2, <1>3, PutFields
<1>5. ApprovalAudit(a)' /\ ~Is(a, {"executing"})'
  BY <1>1, <1>2, <1>4, StatusAudited DEF Is
<1> QED
  BY <1>1, <1>4, <1>5, ApprovalAudits

LEMMA DecideAudits ==
    ASSUME ControlInv, AuditInv, NEW a \in Actions, NEW by \in Operators,
           ResumePending(a, by) \/ ExternalApprove(a, by)
    PROVE  AuditInv'
<1>1. /\ Decide(a, TRUE, by) /\ OnlyApprovals
      /\ worker.pc = "ready" \/ worker' = worker
  BY DEF ResumePending, ExternalApprove, ledgerVars, OnlyApprovals, At
<1>2. journal = NULL \/ StaysBehind
  BY <1>1, NoJournalActing DEF StaysBehind
<1> QED
  BY <1>1, <1>2, ApprovedAudits

LEMMA BeginAudits ==
    ASSUME ControlInv, LifecycleInv, AuditInv,
           BeginTooLate \/ \E allowed \in BOOLEAN : Begin(allowed)
    PROVE  AuditInv'
<1>1. worker.pc = "begin" /\ OnlyApprovals
  BY DEF Begin, BeginTooLate, ledgerVars, OnlyApprovals, At
<1>2. journal = NULL /\ worker.act \in Actions
  BY <1>1, NoJournalActing DEF Acting
<1>3. PICK a \in Actions : a = worker.act
  BY <1>2
<1>4. Is(a, {"approved"}) /\ HasApproval(a) /\ approvals[a] \in Approval /\ ApprovalTypeOK
  BY <1>3, ReservedNow
  DEF Begin, BeginTooLate, BeginExecution, BeginExecutionTooLate, CanBegin, Is
<1>5. PICK status \in {"executing", "expired"} :
         Put(a, [approvals[a] EXCEPT !.status = status])
  BY <1>3 DEF Begin, BeginTooLate, BeginExecution, BeginExecutionTooLate
<1> DEFINE new == [approvals[a] EXCEPT !.status = status]
<1>6. /\ new \in Approval /\ new.status = status
      /\ new.reserved = approvals[a].reserved
      /\ new.reconciledBy = approvals[a].reconciledBy
  BY <1>4 DEF Approval, ApprovalStatuses
<1> HIDE DEF new
<1>7. /\ approvals'[a] = new /\ HasApproval(a)'
      /\ \A b \in Actions \ {a} : approvals'[b] = approvals[b]
  BY <1>4, <1>5, <1>6, PutFields DEF new
<1>8. ~IsClosed(a)
  BY <1>4 DEF LifecycleInv, HeldUnsealed, Is, Held
<1>9. ApprovalAudit(a)'
  BY <1>1, <1>4, <1>6, <1>7, <1>8, StatusAudited
<1> QED
  BY <1>1, <1>2, <1>4, <1>7, <1>9, ApprovalAudits

\* The last terminal record stands at its place.
LEMMA TerminalPlaced ==
    ASSUME ControlInv, LifecycleInv, NEW a \in Actions, IsClosed(a)
    PROVE  Terminal(a).id \in Terminals(a) /\ Terminal(a).id \in Nat
<1>1. EvidenceTypeOK /\ IdsArePlaces
  BY DEF ControlInv, TypeOK, LifecycleInv
<1>2. PICK i \in Terminals(a) : Terminal(a) = evidence[a][i]
  BY <1>1, TerminalFound
<1>3. i \in DOMAIN evidence[a] /\ evidence[a][i].id = i
  BY <1>1 DEF Terminals, With, IdsArePlaces
<1>4. i \in Nat
  BY <1>1, <1>3, EvidenceRead
<1> QED
  BY <1>2, <1>3, <1>4

\* What an approval looks like when it has been spent on a record.
LEMMA SpentAudited ==
    ASSUME AuditInv, NEW a \in Actions, HasApproval(a), NEW record \in Terminals(a),
           SameRest(a), approvals'[a].reserved = approvals[a].reserved,
           approvals'[a].outcome = approvals[a].outcome,
           approvals'[a].reconciledBy = approvals[a].reconciledBy,
           approvals'[a].status = "consumed", approvals'[a].record = record,
           approvals[a].outcome # "" => reconciliations[a] # NULL
    PROVE  ApprovalAudit(a)'
<1>1. Terminals(a)' = Terminals(a)
  BY SameRead
<1> QED
  BY <1>1 DEF AuditInv, ActionAudit, ApprovalAudit, SameRest

LEMMA ConsumedFields ==
    ASSUME ApprovalTypeOK, NEW a \in Actions, HasApproval(a), NEW record \in Nat,
           Put(a, [approvals[a] EXCEPT !.status = "consumed", !.record = record])
    PROVE  /\ HasApproval(a)'
           /\ \A b \in Actions \ {a} : approvals'[b] = approvals[b]
           /\ approvals'[a].reserved = approvals[a].reserved
           /\ approvals'[a].outcome = approvals[a].outcome
           /\ approvals'[a].reconciledBy = approvals[a].reconciledBy
           /\ approvals'[a].status = "consumed" /\ approvals'[a].record = record
<1> DEFINE new == [approvals[a] EXCEPT !.status = "consumed", !.record = record]
<1>1. approvals[a] \in Approval
  BY ApprovalFound
<1>2. /\ new \in Approval /\ new.status = "consumed" /\ new.record = record
      /\ new.reserved = approvals[a].reserved /\ new.outcome = approvals[a].outcome
      /\ new.reconciledBy = approvals[a].reconciledBy
  BY <1>1 DEF Approval, ApprovalStatuses
<1>3. Put(a, new)
  OBVIOUS
<1> HIDE DEF new
<1> QED
  BY <1>2, <1>3, PutFields

LEMMA ConsumeAudits ==
    ASSUME ControlInv, LifecycleInv, AuditInv, Consume \/ CloseAsserted
    PROVE  AuditInv'
<1>1. worker.pc \in {"consume", "close"} /\ OnlyApprovals
  BY DEF Consume, CloseAsserted, ledgerVars, OnlyApprovals, At
<1>2. journal = NULL /\ worker.act \in Actions
  BY <1>1, NoJournalActing DEF Acting
<1>3. PICK a \in Actions : a = worker.act
  BY <1>2
<1>4. IsClosed(a)
  BY <1>1, <1>3 DEF ControlInv, WorkerInv, WorkerEvidence
<1>5. PICK record \in Nat : record = Terminal(a).id /\ record \in Terminals(a)
  BY <1>4, TerminalPlaced
<1>6. /\ HasApproval(a)
      /\ Put(a, [approvals[a] EXCEPT !.status = "consumed", !.record = record])
      /\ approvals[a].outcome = "" \/ worker.pc = "close"
  BY <1>3, <1>5
  DEF Consume, CloseAsserted, MarkConsumed, MarkReconciled, CanConsume, CanMarkReconciled,
      Is, At
<1>7. approvals[a].outcome # "" => reconciliations[a] # NULL
  BY <1>3, <1>6 DEF ControlInv, WorkerInv, WorkerAssertion
<1>8. ApprovalTypeOK
  BY DEF ControlInv, TypeOK
<1>9. ApprovalAudit(a)'
  BY <1>1, <1>5, <1>6, <1>7, <1>8, ConsumedFields, SpentAudited, OnlyApprovalsRest
<1> QED
  BY <1>1, <1>2, <1>6, <1>8, <1>9, ConsumedFields, ApprovalAudits

LEMMA ReconcileExecutionAudits ==
    ASSUME ControlInv, StoreInv, AuditInv, NEW a \in Actions, NEW outcome \in Outcomes,
           NEW by \in Operators, ReconcileExecution(a, outcome, by)
    PROVE  AuditInv'
<1>1. worker.pc = "ready" /\ OnlyApprovals /\ HasApproval(a)
  BY DEF ReconcileExecution, ledgerVars, OnlyApprovals, At
<1>2. journal = NULL
  BY <1>1, NoJournalActing
<1>3. CASE UNCHANGED approvals
  <2>1. Unwritten
    BY <1>1, <1>3 DEF OnlyApprovals, Unwritten
  <2>2. worker'.pc = "charge"
    BY DEF ReconcileExecution, ControlInv, TypeOK, Worker
  <2> QED
    BY <2>1, <2>2, MoveAudits DEF StaysBehind
<1>4. CASE /\ CanConsume(a)
           /\ Put(a, [approvals[a] EXCEPT !.outcome = outcome, !.reconciledBy = by])
  <2> DEFINE new == [approvals[a] EXCEPT !.outcome = outcome, !.reconciledBy = by]
  <2>1. /\ approvals[a] \in Approval /\ ApprovalTypeOK
        /\ approvals[a].status = "executing" /\ approvals[a].outcome = ""
    BY <1>1, <1>4, ReservedNow DEF CanConsume, Is
  <2>2. new \in Approval /\ new.status = "executing"
    BY <2>1 DEF Approval
  <2>3. Put(a, new)
    BY <1>4
  <2> HIDE DEF new
  <2>4. /\ approvals'[a] = new /\ HasApproval(a)'
        /\ \A b \in Actions \ {a} : approvals'[b] = approvals[b]
    BY <2>1, <2>2, <2>3, PutFields
  <2>5. reconciliations[a] = NULL
    <3>1. reconciliations[a] # NULL => reconciliations[a].outcome \in Outcomes
      BY DEF ControlInv, TypeOK, LedgerTypeOK, Marker
    <3>2. reconciliations[a] # NULL => reconciliations[a].outcome = ""
      BY <1>1, <2>1 DEF StoreInv, ActionSound, ApprovalSound
    <3> QED
      BY <3>1, <3>2 DEF Outcomes
  <2>6. IsClosed(a)' = IsClosed(a) /\ Terminal(a)' = Terminal(a)
    BY <1>1, OnlyApprovalsRest, SameRead
  <2>7. IsClosed(a) => Observed(Terminal(a)) = "not_executed"
    BY <1>1, <1>2, <2>1, <2>5 DEF AuditInv, ActionAudit, ApprovalAudit, JournalIs
  <2>8. ApprovalAudit(a)'
    BY <1>1, <2>2, <2>4, <2>5, <2>6, <2>7
    DEF ApprovalAudit, OnlyApprovals, Observed
  <2> QED
    BY <1>1, <1>2, <2>4, <2>8, ApprovalAudits
<1> QED
  BY <1>3, <1>4 DEF ReconcileExecution, BeginReconciliation, approvalVars

-----------------------------------------------------------------------------
(* The ledger is written *)

\* No debit is added, and no one else's rows.
DebitsStay(a) ==
    /\ \A b \in Actions \ {a} : /\ reservations'[b] = reservations[b]
                                /\ entries'[b] = entries[b]
                                /\ reconciliations'[b] = reconciliations[b]
    /\ EntriesOf(a, {"debit"})' = EntriesOf(a, {"debit"})
    /\ \A i \in EntriesOf(a, {"debit"}) : entries'[a][i] = entries[a][i]

LEMMA RowRead ==
    ASSUME LedgerTypeOK, NEW a \in Actions, NEW e \in Entry,
           entries' = [entries EXCEPT ![a] = Append(@, e)]
    PROVE  /\ EntriesOf(a, {"debit"})' =
                EntriesOf(a, {"debit"})
                \cup (IF e.kind = "debit" THEN {Len(entries[a]) + 1} ELSE {})
           /\ \A i \in EntriesOf(a, {"debit"}) : entries'[a][i] = entries[a][i]
           /\ entries'[a][Len(entries[a]) + 1] = e
           /\ LastReserve(a)' = IF e.kind = "reserve" THEN e.amount ELSE LastReserve(a)
           /\ Dispositions(a)' # {} <=> Dispositions(a) # {} \/ e.kind # "reserve"
           /\ \A b \in Actions \ {a} : entries'[b] = entries[b]
<1>1. /\ EntriesOf(a, {"debit"})' =
           EntriesOf(a, {"debit"})
           \cup (IF e.kind \in {"debit"} THEN {Len(entries[a]) + 1} ELSE {})
      /\ \A i \in EntriesOf(a, {"debit"}) : entries'[a][i] = entries[a][i]
      /\ entries'[a][Len(entries[a]) + 1] = e
      /\ \A b \in Actions \ {a} : entries'[b] = entries[b]
  <2> DEFINE kinds == {"debit"}
  <2> HIDE DEF kinds
  <2>1. /\ EntriesOf(a, kinds)' =
             EntriesOf(a, kinds)
             \cup (IF e.kind \in kinds THEN {Len(entries[a]) + 1} ELSE {})
        /\ \A b \in Actions \ {a} : entries'[b] = entries[b]
        /\ \A i \in EntriesOf(a, kinds) : entries'[a][i] = entries[a][i]
        /\ entries'[a][Len(entries[a]) + 1] = e
    BY EntryAdded
  <2> QED
    BY <2>1 DEF kinds
<1>2. Dispositions(a)' =
        Dispositions(a)
        \cup (IF e.kind \in {"debit", "release", "reconcile"}
                THEN {Len(entries[a]) + 1} ELSE {})
  <2> DEFINE kinds == {"debit", "release", "reconcile"}
  <2> HIDE DEF kinds
  <2>1. EntriesOf(a, kinds)' =
          EntriesOf(a, kinds)
          \cup (IF e.kind \in kinds THEN {Len(entries[a]) + 1} ELSE {})
    BY EntryAdded
  <2> QED
    BY <2>1 DEF kinds, Dispositions
<1>3. e.kind \in {"debit", "release", "reconcile"} <=> e.kind # "reserve"
  BY DEF Entry, EntryKinds
<1>4. LastReserve(a)' = IF e.kind = "reserve" THEN e.amount ELSE LastReserve(a)
  <2> DEFINE R == EntriesOf(a, {"reserve"})
             n == Len(entries[a]) + 1
  <2>1. /\ R' = R \cup (IF e.kind \in {"reserve"} THEN {n} ELSE {})
        /\ \A i \in R : entries'[a][i] = entries[a][i]
        /\ entries'[a][n] = e
    <3> DEFINE kinds == {"reserve"}
    <3> HIDE DEF kinds
    <3>1. /\ EntriesOf(a, kinds)' =
               EntriesOf(a, kinds)
               \cup (IF e.kind \in kinds THEN {Len(entries[a]) + 1} ELSE {})
          /\ \A i \in EntriesOf(a, kinds) : entries'[a][i] = entries[a][i]
          /\ entries'[a][Len(entries[a]) + 1] = e
      BY EntryAdded
    <3> QED
      BY <3>1 DEF kinds
  <2>2. /\ Len(entries[a]) \in Nat /\ DOMAIN entries[a] = 1..Len(entries[a])
    BY DEF LedgerTypeOK
  <2>3. R \subseteq 1..(n - 1) /\ n \in Nat
    BY <2>2 DEF EntriesOf
  <2>4. CASE e.kind = "reserve"
    <3>1. R' = R \cup {n}
      BY <2>1, <2>4
    <3> HIDE DEF n, R
    <3>2. n \in R \cup {n} /\ \A j \in R \cup {n} : j <= n
      BY <2>3
    <3>3. \A i \in R \cup {n} : (\A j \in R \cup {n} : j <= i) => i = n
      BY <2>3, <3>2
    <3>4. Latest(R \cup {n}) = n
      BY <3>2, <3>3 DEF Latest
    <3>5. LastReserve(a)' = e.amount
      <4>1. /\ EntriesOf(a, {"reserve"})' = R \cup {n}
            /\ EntriesOf(a, {"reserve"})' # {}
        BY <3>1 DEF R
      <4> QED
        BY <2>1, <3>4, <4>1 DEF LastReserve
    <3> QED
      BY <2>4, <3>5
  <2>5. CASE e.kind # "reserve"
    <3>1. R' = R
      BY <2>1, <2>5
    <3>2. R # {} => Latest(R) \in R
      BY EntryAmount
    <3>3. CASE R = {}
      BY <2>5, <3>1, <3>3 DEF LastReserve
    <3>4. CASE R # {}
      <4>1. entries'[a][Latest(R)] = entries[a][Latest(R)]
        BY <2>1, <3>2, <3>4
      <4>2. Latest(R)' = Latest(R)
        BY <3>1
      <4> HIDE DEF R
      <4>3. LastReserve(a)' = entries'[a][Latest(R)'].amount
        BY <3>1, <3>4 DEF LastReserve, R
      <4>4. LastReserve(a) = entries[a][Latest(R)].amount
        BY <3>4 DEF LastReserve, R
      <4> QED
        BY <2>5, <4>1, <4>2, <4>3, <4>4
    <3> QED
      BY <3>3, <3>4
  <2> QED
    BY <2>4, <2>5
<1>5. Dispositions(a)' # {} <=> Dispositions(a) # {} \/ e.kind # "reserve"
  BY <1>2, <1>3
<1> QED
  BY <1>1, <1>4, <1>5

LEMMA ReserveRead ==
    ASSUME LedgerTypeOK, NEW a \in Actions, NEW amount \in Nat, AddReservation(a, amount)
    PROVE  /\ DebitsStay(a) /\ reservations'[a] = amount
           /\ reconciliations' = reconciliations
           /\ LastReserve(a)' = amount /\ Spent(a)' = Spent(a)
           /\ Dispositions(a)' # {} <=> Dispositions(a) # {}
<1> DEFINE e == [kind |-> "reserve", amount |-> amount, reserved |-> 0,
                 after |-> 0, record |-> NoRecord]
<1>1. e \in Entry /\ e.kind = "reserve" /\ e.amount = amount
  BY DEF Entry, NoRecord, EntryKinds
<1>2. /\ entries' = [entries EXCEPT ![a] = Append(@, e)]
      /\ reservations' = [reservations EXCEPT ![a] = amount]
      /\ reconciliations' = reconciliations
  BY DEF AddReservation, Record
<1> HIDE DEF e
<1>3. /\ reservations'[a] = amount
      /\ \A b \in Actions \ {a} : reservations'[b] = reservations[b]
  BY <1>2 DEF LedgerTypeOK
<1>4. Spent(a)' = Spent(a)
  <2>1. ChargeOf(entries'[a], reconciliations'[a])
          = ChargeOf(entries[a], reconciliations[a]) + IF e.kind = "debit" THEN e.amount ELSE 0
    BY <1>1, <1>2, RowAccounted
  <2>2. ChargeOf(entries[a], reconciliations[a]) \in Int
    BY SumsTyped
  <2> QED
    BY <1>1, <2>1, <2>2 DEF Spent
<1>5. /\ EntriesOf(a, {"debit"})' =
           EntriesOf(a, {"debit"})
           \cup (IF e.kind = "debit" THEN {Len(entries[a]) + 1} ELSE {})
      /\ \A i \in EntriesOf(a, {"debit"}) : entries'[a][i] = entries[a][i]
      /\ LastReserve(a)' = IF e.kind = "reserve" THEN e.amount ELSE LastReserve(a)
      /\ Dispositions(a)' # {} <=> Dispositions(a) # {} \/ e.kind # "reserve"
      /\ \A b \in Actions \ {a} : entries'[b] = entries[b]
  BY <1>1, <1>2, RowRead
<1> QED
  BY <1>1, <1>2, <1>3, <1>4, <1>5 DEF DebitsStay

LEMMA ReleaseRead ==
    ASSUME LedgerTypeOK, NEW a \in Actions, DropReservation(a)
    PROVE  /\ DebitsStay(a) /\ reservations'[a] = 0
           /\ reconciliations' = reconciliations
           /\ LastReserve(a)' = LastReserve(a) /\ Spent(a)' = Spent(a)
<1> DEFINE e == [kind |-> "release", amount |-> reservations[a], reserved |-> 0,
                 after |-> 0, record |-> NoRecord]
<1>1. e \in Entry /\ e.kind = "release"
  BY LedgerRows DEF Entry, NoRecord, EntryKinds
<1>2. /\ entries' = [entries EXCEPT ![a] = Append(@, e)]
      /\ reservations' = [reservations EXCEPT ![a] = 0]
      /\ reconciliations' = reconciliations
  BY DEF DropReservation, Record
<1> HIDE DEF e
<1>3. /\ reservations'[a] = 0
      /\ \A b \in Actions \ {a} : reservations'[b] = reservations[b]
  BY <1>2 DEF LedgerTypeOK
<1>4. Spent(a)' = Spent(a)
  <2>1. ChargeOf(entries'[a], reconciliations'[a])
          = ChargeOf(entries[a], reconciliations[a]) + IF e.kind = "debit" THEN e.amount ELSE 0
    BY <1>1, <1>2, RowAccounted
  <2>2. ChargeOf(entries[a], reconciliations[a]) \in Int
    BY SumsTyped
  <2> QED
    BY <1>1, <2>1, <2>2 DEF Spent
<1>5. /\ EntriesOf(a, {"debit"})' =
           EntriesOf(a, {"debit"})
           \cup (IF e.kind = "debit" THEN {Len(entries[a]) + 1} ELSE {})
      /\ \A i \in EntriesOf(a, {"debit"}) : entries'[a][i] = entries[a][i]
      /\ LastReserve(a)' = IF e.kind = "reserve" THEN e.amount ELSE LastReserve(a)
      /\ \A b \in Actions \ {a} : entries'[b] = entries[b]
  BY <1>1, <1>2, RowRead
<1> QED
  BY <1>1, <1>2, <1>3, <1>4, <1>5 DEF DebitsStay

\* A reconciliation without a debit charges what the marker expects.
LEMMA ReconcileRead ==
    ASSUME LedgerTypeOK, NEW a \in Actions, NEW expected \in Nat, NEW outcome \in Outcomes,
           NEW by \in Operators, NEW authority \in Nat, reconciliations[a] = NULL,
           AddReconciliation(a, expected, outcome, by, authority)
    PROVE  /\ DebitsStay(a) /\ reservations'[a] = 0
           /\ reconciliations'[a] # NULL
           /\ reconciliations'[a].outcome = outcome /\ reconciliations'[a].by = by
           /\ reconciliations'[a].expected = expected
           /\ reconciliations'[a].authority = authority
           /\ LastReserve(a)' = LastReserve(a)
           /\ Spent(a)' = Spent(a) + reconciliations'[a].charged
           /\ outcome = "not_executed" => reconciliations'[a].charged = 0
           /\ Unspent(a) /\ outcome # "not_executed" =>
                reconciliations'[a].charged = expected
<1> DEFINE charged == ReconcileCharge(a, expected, outcome)
           released == IF outcome = "not_executed" THEN reservations[a] ELSE 0
           e == [kind |-> "reconcile", amount |-> charged + released, reserved |-> 0,
                 after |-> 0, record |-> NoRecord]
           marker == [outcome |-> outcome, by |-> by, expected |-> expected,
                      charged |-> charged, released |-> released,
                      authority |-> authority]
<1>1. charged \in Nat /\ released \in Nat
  BY LedgerRows DEF ReconcileCharge
<1>2. outcome = "not_executed" => charged = 0
  BY DEF ReconcileCharge
<1>3. ASSUME Unspent(a), outcome # "not_executed"
      PROVE  charged = expected
  <2> DEFINE P == EntriesOf(a, {"debit", "release"})
  <2>1. P # {} => Latest(P) \in P
    BY EntryAmount
  <2>2. P # {} => entries[a][Latest(P)].kind # "debit"
    BY <1>3, <2>1 DEF Unspent, EntriesOf
  <2>3. LatestDisposition(a) # "debit"
    BY <2>2 DEF LatestDisposition
  <2> QED
    BY <1>3, <2>3 DEF ReconcileCharge
<1> HIDE DEF charged, released
<1>4. /\ entries' = [entries EXCEPT ![a] = Append(@, e)]
      /\ reservations' = [reservations EXCEPT ![a] = 0]
      /\ reconciliations' = [reconciliations EXCEPT ![a] = marker]
  BY DEF AddReconciliation, Record, charged, released
<1>5. e \in Entry /\ e.kind = "reconcile"
  BY <1>1 DEF Entry, NoRecord, EntryKinds
<1>6. /\ marker \in Marker /\ marker.outcome = outcome /\ marker.charged = charged
      /\ marker.by = by /\ marker.expected = expected /\ marker.authority = authority
  BY <1>1 DEF Marker
<1> HIDE DEF e, marker
<1>7. marker # NULL
  BY <1>6, MarkerAssumption
<1>8. /\ reservations'[a] = 0 /\ reconciliations'[a] = marker
      /\ \A b \in Actions \ {a} : /\ reservations'[b] = reservations[b]
                                  /\ reconciliations'[b] = reconciliations[b]
  BY <1>4 DEF LedgerTypeOK
<1>9. /\ EntriesOf(a, {"debit"})' =
           EntriesOf(a, {"debit"})
           \cup (IF e.kind = "debit" THEN {Len(entries[a]) + 1} ELSE {})
      /\ \A i \in EntriesOf(a, {"debit"}) : entries'[a][i] = entries[a][i]
      /\ LastReserve(a)' = IF e.kind = "reserve" THEN e.amount ELSE LastReserve(a)
      /\ \A b \in Actions \ {a} : entries'[b] = entries[b]
  BY <1>4, <1>5, RowRead
<1>10. Spent(a)' = Spent(a) + charged
  <2>1. entries'[a] = Append(entries[a], e) /\ entries[a] \in Seq(Entry)
    BY <1>4 DEF LedgerTypeOK
  <2>2. RowsSum(entries'[a], {"debit"}) =
          RowsSum(entries[a], {"debit"}) + IF e.kind \in {"debit"} THEN e.amount ELSE 0
    BY <1>5, <2>1, RowAdded
  <2>3. RowsSum(entries[a], {"debit"}) \in Int
    BY <2>1, RowsSumType
  <2> QED
    BY <1>1, <1>5, <1>6, <1>7, <1>8, <2>2, <2>3 DEF Spent, ChargeOf
<1> QED
  BY <1>2, <1>3, <1>5, <1>6, <1>7, <1>8, <1>9, <1>10 DEF DebitsStay

\* A new marker agrees with whatever asserted it.
NewlyMarked(a) ==
    /\ reconciliations[a] = NULL /\ reconciliations'[a] # NULL
    /\ Unspent(a) =>
         reconciliations'[a].charged =
           IF reconciliations'[a].outcome = "not_executed" THEN 0
           ELSE reconciliations'[a].expected
    /\ IsClosed(a) => Spent(a)' = Terminal(a).cost
    /\ HasApproval(a) =>
         /\ reconciliations'[a].by = approvals[a].reconciledBy
         /\ reconciliations'[a].expected = approvals[a].reserved
    /\ ~HasApproval(a) => MarkerAudit(a)'

SameMarked(a) ==
    /\ reconciliations'[a] = reconciliations[a] /\ Spent(a)' = Spent(a)
    /\ reconciliations[a] # NULL => LastReserve(a)' = LastReserve(a)

\* A write on behalf of a that pays nothing.
LEMMA RowsAudited ==
    ASSUME AuditInv, NEW a \in Actions, OnlyLedger, DebitsStay(a),
           reservations'[a] > 0 => reservations'[a] = LastReserve(a)',
           reservations'[a] \in {0, reservations[a]} \/ ~Is(a, {"rejected"}),
           SameMarked(a) \/ NewlyMarked(a)
    PROVE  \A b \in Actions : ActionAudit(b)'
<1>1. /\ LedgerAudit(a) /\ ApprovalAudit(a) /\ AllowedAudit(a)
      /\ approvals' = approvals /\ evidence' = evidence /\ journal' = journal
  BY DEF AuditInv, ActionAudit, OnlyLedger
<1>2. /\ \A kinds : JournalIs(kinds, a)' = JournalIs(kinds, a)
      /\ \A statuses : With(a, statuses)' = With(a, statuses)
      /\ \A id : HasRecord(a, id)' = HasRecord(a, id)
      /\ \A id : RecordById(a, id)' = RecordById(a, id)
      /\ HasApproval(a)' = HasApproval(a) /\ Sealed(a)' = Sealed(a)
      /\ Terminals(a)' = Terminals(a) /\ IsClosed(a)' = IsClosed(a)
      /\ Terminal(a)' = Terminal(a)
  BY <1>1 DEF JournalIs, With, HasRecord, RecordById, HasApproval, Sealed, Terminals, IsClosed,
              Terminal
<1>3. Unspent(a)' = Unspent(a) /\ EntriesOf(a, {"debit"})' = EntriesOf(a, {"debit"})
  BY DEF DebitsStay, Unspent
<1>4. ASSUME NEW i \in EntriesOf(a, {"debit"}), entries'[a][i].record # NoRecord
      PROVE  ResultKnown(a, entries[a][i])'
  <2>1. PICK e : e = entries[a][i]
    OBVIOUS
  <2>2. e = entries'[a][i] /\ ResultKnown(a, e)
    BY <1>1, <1>4, <2>1 DEF LedgerAudit, DebitsStay
  <2>3. PICK id : id = e.record
    OBVIOUS
  <2>4. HasRecord(a, id)' = HasRecord(a, id) /\ RecordById(a, id)' = RecordById(a, id)
    BY <1>2
  <2>5. CASE HasRecord(a, id)
    BY <1>1, <1>2, <2>1, <2>2, <2>3, <2>4, <2>5 DEF ResultKnown
  <2>6. CASE ~HasRecord(a, id)
    BY <1>1, <1>2, <2>1, <2>2, <2>3, <2>4, <2>6 DEF ResultKnown
  <2> QED
    BY <2>5, <2>6
<1>5. LedgerAudit(a)'
  <2>1. reconciliations'[a] # NULL /\ Unspent(a)' =>
          reconciliations'[a].charged =
            IF reconciliations'[a].outcome = "not_executed" THEN 0
            ELSE reconciliations'[a].expected
    BY <1>1, <1>3 DEF LedgerAudit, SameMarked, NewlyMarked
  <2>2. IsClosed(a)' => Spent(a)' = Terminal(a)'.cost
    BY <1>1, <1>2 DEF LedgerAudit, SameMarked, NewlyMarked
  <2>3. OneSettlement(a)'
    BY <1>1, <1>3 DEF LedgerAudit, OneSettlement, DebitsStay
  <2> QED
    BY <1>1, <1>2, <1>3, <1>4, <2>1, <2>2, <2>3 DEF LedgerAudit
<1>6. ApprovalAudit(a)'
  <2>1. approvals[a].status = "rejected" /\ HasApproval(a) /\ reservations'[a] > 0 =>
          JournalIs(Deciding, a)'
    BY <1>1, <1>2 DEF ApprovalAudit, Is
  <2>2. reconciliations'[a] = NULL => reconciliations[a] = NULL
    BY DEF SameMarked, NewlyMarked
  <2>3. HasApproval(a) /\ reconciliations'[a] # NULL =>
          /\ reconciliations'[a].by = approvals[a].reconciledBy
          /\ reconciliations'[a].expected = approvals[a].reserved
    BY <1>1 DEF ApprovalAudit, SameMarked, NewlyMarked
  <2> QED
    BY <1>1, <1>2, <2>1, <2>2, <2>3 DEF ApprovalAudit, Observed
<1>7. AllowedAudit(a)'
  <2>1. ~HasApproval(a) => MarkerAudit(a)'
    <3>1. CASE SameMarked(a)
      BY <1>1, <1>2, <1>3, <3>1 DEF AllowedAudit, MarkerAudit, SameMarked
    <3>2. CASE NewlyMarked(a)
      BY <3>2 DEF NewlyMarked
    <3> QED
      BY <3>1, <3>2
  <2>2. reconciliations'[a] = NULL => reconciliations[a] = NULL
    BY DEF SameMarked, NewlyMarked
  <2> QED
    BY <1>1, <1>2, <2>1, <2>2 DEF AllowedAudit
<1>8. \A b \in Actions \ {a} : SameRest(b) /\ SameExcuses(b) /\ approvals'[b] = approvals[b]
  BY <1>1 DEF DebitsStay, SameRest, SameExcuses
<1> QED
  BY <1>5, <1>6, <1>7, <1>8, SameAudit DEF ActionAudit

\* Nothing is written after all.
LEMMA NoRowsAudited ==
    ASSUME AuditInv, NEW a \in Actions, OnlyLedger, UNCHANGED ledgerVars
    PROVE  \A b \in Actions : ActionAudit(b)'
<1>1. \A b \in Actions : SameRest(b) /\ SameExcuses(b) /\ approvals'[b] = approvals[b]
  BY DEF OnlyLedger, ledgerVars, SameRest, SameExcuses
<1> QED
  BY <1>1, SameAudit

LEMMA ReserveAudited ==
    ASSUME LedgerTypeOK, AuditInv, NEW a \in Actions, NEW amount \in Nat, OnlyLedger,
           AddReservation(a, amount), reconciliations[a] = NULL, ~Is(a, {"rejected"})
    PROVE  \A b \in Actions : ActionAudit(b)'
<1>1. /\ DebitsStay(a) /\ reservations'[a] = amount
      /\ reconciliations' = reconciliations
      /\ LastReserve(a)' = amount /\ Spent(a)' = Spent(a)
  BY ReserveRead
<1> QED
  BY <1>1, RowsAudited DEF SameMarked

LEMMA ReleaseAudited ==
    ASSUME LedgerTypeOK, AuditInv, NEW a \in Actions, OnlyLedger, DropReservation(a)
    PROVE  \A b \in Actions : ActionAudit(b)'
<1>1. /\ DebitsStay(a) /\ reservations'[a] = 0
      /\ reconciliations' = reconciliations
      /\ LastReserve(a)' = LastReserve(a) /\ Spent(a)' = Spent(a)
  BY ReleaseRead
<1>2. ~(reservations'[a] > 0)
  BY <1>1
<1> QED
  BY <1>1, <1>2, RowsAudited DEF SameMarked

LEMMA HandleAllowAudits ==
    ASSUME ControlInv, StoreInv, AuditInv, NEW a \in Actions, NEW estimate \in Estimates,
           NEW external \in BOOLEAN, HandleAllow(a, estimate, external)
    PROVE  AuditInv'
<1>1. /\ worker.pc = "ready" /\ OnlyLedger /\ estimate \in Nat /\ LedgerTypeOK
  BY LoopAssumption DEF HandleAllow, At, OnlyLedger, approvalVars, ControlInv, TypeOK
<1>2. ~HasApproval(a) /\ reconciliations[a] = NULL
  BY FreshSound, FreshLife, Unmarked DEF HandleAllow
<1>3. \A b \in Actions : ActionAudit(b)'
  <2>1. CASE estimate > 0
    BY <1>1, <1>2, <2>1, ReserveAudited DEF HandleAllow, Reserve, Is
  <2>2. CASE ~(estimate > 0)
    BY <1>1, <2>2, NoRowsAudited DEF HandleAllow
  <2> QED
    BY <2>1, <2>2
<1>4. journal' = NULL
  BY <1>1, NoJournalActing DEF OnlyLedger
<1> QED
  BY <1>3, <1>4 DEF AuditInv

LEMMA UnreserveAudits ==
    ASSUME ControlInv, AuditInv, Unreserve
    PROVE  AuditInv'
<1>1. worker.pc = "unreserve" /\ OnlyLedger /\ LedgerTypeOK
  BY DEF Unreserve, At, OnlyLedger, approvalVars, ControlInv, TypeOK
<1>2. journal = NULL /\ worker.act \in Actions
  BY <1>1, NoJournalActing DEF Acting
<1>3. PICK a \in Actions : a = worker.act
  BY <1>2
<1>4. \A b \in Actions : ActionAudit(b)'
  <2>1. CASE reservations[a] > 0
    BY <1>1, <1>3, <2>1, ReleaseAudited DEF Unreserve, ReservationFor, Release
  <2>2. CASE ~(reservations[a] > 0)
    BY <1>1, <1>3, <2>2, NoRowsAudited DEF Unreserve, ReservationFor
  <2> QED
    BY <2>1, <2>2
<1> QED
  BY <1>1, <1>2, <1>4 DEF AuditInv, OnlyLedger

\* An assertion about an approved call that is already closed charges nothing: only a
\* call that never ran was closed without its approval having been consumed.
LEMMA ChargeAssertedAudits ==
    ASSUME ControlInv, LifecycleInv, StoreInv, AuditInv, ChargeAsserted
    PROVE  AuditInv'
<1>1. worker.pc = "charge" /\ OnlyLedger /\ LedgerTypeOK
  BY DEF ChargeAsserted, At, OnlyLedger, approvalVars, ControlInv, TypeOK
<1>2. journal = NULL /\ worker.act \in Actions
  BY <1>1, NoJournalActing DEF Acting
<1>3. PICK a \in Actions : a = worker.act
  BY <1>2
<1>4. Asserted(a) /\ HasApproval(a)
  BY <1>1, <1>3 DEF ControlInv, WorkerInv, WorkerAssertion, Asserted
<1>5. approvals[a] \in Approval
  BY <1>4, ReservedNow
<1>6. PICK reserved \in Nat, outcome \in Outcomes, by \in Operators :
         /\ reserved = approvals[a].reserved /\ outcome = approvals[a].outcome
         /\ by = approvals[a].reconciledBy
  BY <1>4, <1>5 DEF Approval, Asserted
<1>7. ReconcileReservation(a, reserved, outcome, by, NoRecord)
  BY <1>3, <1>6 DEF ChargeAsserted
<1>8. ASSUME reconciliations[a] # NULL
      PROVE  \A b \in Actions : ActionAudit(b)'
  BY <1>1, <1>7, <1>8, NoRowsAudited DEF ReconcileReservation
<1>9. ASSUME reconciliations[a] = NULL
      PROVE  \A b \in Actions : ActionAudit(b)'
  <2>1. AddReconciliation(a, reserved, outcome, by, NoRecord) /\ NoRecord \in Nat
    BY <1>7, <1>9 DEF ReconcileReservation, NoRecord
  <2>2. /\ DebitsStay(a) /\ reservations'[a] = 0
        /\ reconciliations'[a] # NULL
        /\ reconciliations'[a].outcome = outcome /\ reconciliations'[a].by = by
        /\ reconciliations'[a].expected = reserved
        /\ LastReserve(a)' = LastReserve(a)
        /\ Spent(a)' = Spent(a) + reconciliations'[a].charged
        /\ outcome = "not_executed" => reconciliations'[a].charged = 0
        /\ Unspent(a) /\ outcome # "not_executed" =>
             reconciliations'[a].charged = reserved
    BY <1>1, <1>9, <2>1, ReconcileRead
  <2>3. ASSUME IsClosed(a)
        PROVE  Spent(a)' = Terminal(a).cost
    <3>1. approvals[a].outcome # ""
      BY <1>4 DEF Asserted
    <3>2. approvals[a].status = "executing"
      <4>1. approvals[a].status \notin Early
        BY <1>1, <1>3, <1>4 DEF LifecycleInv, WorkerLifecycle, Is
      <4>2. approvals[a].status # "consumed"
        BY <1>4, <1>9, <3>1 DEF AuditInv, ActionAudit, ApprovalAudit
      <4> QED
        BY <1>5, <4>1, <4>2 DEF Approval, ApprovalStatuses, Early
    <3>3. Observed(Terminal(a)) = "not_executed"
      BY <1>2, <1>4, <1>9, <2>3, <3>2 DEF AuditInv, ActionAudit, ApprovalAudit, JournalIs
    <3>4. Observed(Terminal(a)) = approvals[a].outcome
      BY <1>4, <2>3, <3>1 DEF StoreInv, ActionSound, ApprovalSound
    <3>5. reconciliations'[a].charged = 0
      BY <1>6, <2>2, <3>3, <3>4
    <3>6. Spent(a) = Terminal(a).cost
      BY <2>3 DEF AuditInv, ActionAudit, LedgerAudit
    <3>7. Spent(a) \in Int
      BY <1>1, SumsTyped DEF Spent
    <3> QED
      BY <2>2, <3>5, <3>6, <3>7
  <2>4. NewlyMarked(a)
    BY <1>4, <1>6, <1>9, <2>2, <2>3 DEF NewlyMarked
  <2>5. ~(reservations'[a] > 0)
    BY <2>2
  <2> QED
    BY <1>1, <2>2, <2>4, <2>5, RowsAudited
<1>10. \A b \in Actions : ActionAudit(b)'
  BY <1>8, <1>9
<1> QED
  BY <1>1, <1>2, <1>10 DEF AuditInv, OnlyLedger

-----------------------------------------------------------------------------
(* Preparing an operation *)

\* What the stores must say for the audit to accept what the operation will write.
MayAudit(kind, a, record, reserved, authority) ==
    /\ kind # "authorization_reconcile" => record.outcome = ""
    /\ kind \in Deciding => record.cost = 0
    /\ kind = "authorization_reconcile" =>
         /\ Unspent(a) /\ reserved = LastReserve(a)
         /\ record.cost = IF record.outcome = "not_executed" THEN 0 ELSE reserved
         /\ authority \in With(a, {"skipped"})
    /\ kind = "execution_complete" =>
         /\ record.id = Len(evidence[a]) + 1
         /\ reserved > 0 \/ record.cost > 0 =>
              /\ Dispositions(a) = {}
              /\ record.remaining = PreviewSettlement(a, reserved, record.cost)

LEMMA PreparedAudits ==
    ASSUME ControlInv, AuditInv, NEW kind \in OperationKinds, NEW a \in Actions,
           NEW record, NEW reserved, NEW owner, NEW authority, NEW approved,
           NEW back \in {"idle", "entry"},
           MayAudit(kind, a, record, reserved, authority),
           Prepare(kind, a, record, reserved, owner, authority, approved),
           Apply(kind, a, back),
           UNCHANGED <<ledgerVars, approvalVars, evidence>>
    PROVE  AuditInv'
<1> DEFINE op == [kind |-> kind, act |-> a, record |-> record,
                  reserved |-> reserved, owner |-> owner,
                  authority |-> authority, approved |-> approved]
<1>1. /\ journal' = op /\ journal = NULL
      /\ op.kind = kind /\ op.act = a /\ op.record = record /\ op.reserved = reserved
      /\ op.authority = authority
  BY DEF Prepare
<1> HIDE DEF op
<1>2. /\ worker'.pc \in {"budget", "approval"}
      /\ worker'.pc = "approval" => kind \in Deciding
  BY DEF ControlInv, TypeOK, Worker, Apply, FirstStage, Route, OperationKinds, Deciding
<1>3. UNCHANGED <<balance, held, reservations, entries, reconciliations, approvals, evidence>>
  BY DEF ledgerVars, approvalVars
<1>4. \A b \in Actions : SameRest(b) /\ SameExcuses(b) /\ approvals'[b] = approvals[b]
  BY <1>1, <1>3 DEF SameRest, SameExcuses, JournalIs
<1>5. \A b \in Actions : ActionAudit(b)'
  BY <1>4, SameAudit
<1>6. /\ Unspent(a)' = Unspent(a) /\ LastReserve(a)' = LastReserve(a)
      /\ Dispositions(a)' = Dispositions(a) /\ IsClosed(a)' = IsClosed(a)
      /\ With(a, {"skipped"})' = With(a, {"skipped"})
      /\ Available' = Available /\ evidence'[a] = evidence[a]
  BY <1>3, <1>4, SameRead DEF Available
<1>7. AssertAudit(journal)'
  BY <1>1, <1>6 DEF MayAudit, AssertAudit
<1>8. CompleteAudit(journal)'
  <2> SUFFICES ASSUME kind = "execution_complete"
               PROVE  CompleteAudit(journal)'
    BY <1>1 DEF CompleteAudit
  <2>1. worker'.pc = "budget"
    BY <1>2 DEF Deciding
  <2>2. ~Appended(journal)'
    <3>1. Len(evidence[a]) \in Nat /\ record.id = Len(evidence[a]) + 1
      BY EvidenceRead DEF ControlInv, TypeOK, MayAudit
    <3>2. Len(evidence[a]) # record.id
      BY <3>1
    <3> QED
      BY <1>1, <1>6, <3>2 DEF Appended
  <2>3. ~IsClosed(a) => Unspent(a)
    BY <1>1, NothingSpent
  <2>4. Settles(journal)' => reserved > 0 \/ record.cost > 0
    BY <1>1 DEF Settles
  <2>5. Settles(journal)' =>
          /\ Dispositions(a)' = {}
          /\ journal'.record.remaining =
               PreviewSettlement(journal.act, journal.reserved, journal.record.cost)'
    BY <1>1, <1>6, <2>4 DEF MayAudit, PreviewSettlement
  <2> QED
    BY <1>1, <1>6, <2>1, <2>2, <2>3, <2>5 DEF CompleteAudit
<1>9. JournalAudit(journal)'
  BY <1>1, <1>2, <1>7, <1>8 DEF JournalAudit, MayAudit
<1> QED
  BY <1>5, <1>9 DEF AuditInv

LEMMA DecisionsAudit ==
    ASSUME ControlInv, AuditInv, NEW a \in Actions,
           Expire(a) \/ \E by \in Operators : Reject(a, by)
    PROVE  AuditInv'
<1> DEFINE reserved == approvals[a].reserved
<1>1. UNCHANGED <<ledgerVars, approvalVars, evidence>>
  BY DEF Expire, Reject
<1>2. CASE Expire(a)
  <2> DEFINE record == Make(a, "expired", "approval_required", NULL)
  <2>1. record.cost = 0 /\ record.outcome = ""
    BY Zenon DEF Make
  <2>2. /\ Prepare("approval_expire", a, record, reserved, "local", 0, TRUE)
        /\ Apply("approval_expire", a, "entry")
    BY <1>2 DEF Expire
  <2> HIDE DEF record, reserved
  <2>3. MayAudit("approval_expire", a, record, reserved, 0)
    BY <2>1 DEF MayAudit, Deciding
  <2> QED
    BY <1>1, <2>2, <2>3, PreparedAudits DEF OperationKinds
<1>3. CASE \E by \in Operators : Reject(a, by)
  <2>1. PICK by \in Operators : Reject(a, by)
    BY <1>3
  <2> DEFINE record == Make(a, "rejected", "approval_required", by)
  <2>2. record.cost = 0 /\ record.outcome = ""
    BY Zenon DEF Make
  <2>3. /\ Prepare("approval_reject", a, record, reserved, "local", 0, TRUE)
        /\ Apply("approval_reject", a, "idle")
    BY <2>1 DEF Reject
  <2> HIDE DEF record, reserved
  <2>4. MayAudit("approval_reject", a, record, reserved, 0)
    BY <2>2 DEF MayAudit, Deciding
  <2> QED
    BY <1>1, <2>3, <2>4, PreparedAudits DEF OperationKinds
<1> QED
  BY <1>2, <1>3

LEMMA HoldAudits ==
    ASSUME ControlInv, AuditInv, NEW a \in Actions, NEW estimate \in Estimates, NEW owner,
           HandleHold(a, estimate, owner)
    PROVE  AuditInv'
<1> DEFINE record == Make(a, "pending_approval", "approval_required", NULL)
<1>1. record.outcome = ""
  BY Zenon DEF Make
<1>2. /\ Prepare("approval_create", a, record, estimate, owner, 0, TRUE)
      /\ Apply("approval_create", a, "idle")
      /\ UNCHANGED <<ledgerVars, approvalVars, evidence>>
  BY DEF HandleHold
<1> HIDE DEF record
<1>3. MayAudit("approval_create", a, record, estimate, 0)
  BY <1>1 DEF MayAudit, Deciding
<1> QED
  BY <1>2, <1>3, PreparedAudits DEF OperationKinds

LEMMA CompletionPreparedAudits ==
    ASSUME ControlInv, AuditInv, NEW a \in Actions, NEW status, NEW cost, NEW by,
           CompleteKnownResult(a, status, cost, by),
           UNCHANGED <<ledgerVars, approvalVars, evidence>>
    PROVE  AuditInv'
<1> DEFINE settles == ReservationFor(a) > 0 \/ cost > 0
           remaining == IF settles THEN PreviewSettlement(a, ReservationFor(a), cost)
                                   ELSE Available
           made == Make(a, status, DecisionFor(a), by)
           record == [made EXCEPT !.cost = cost, !.remaining = remaining]
<1>1. /\ Prepare("execution_complete", a, record, ReservationFor(a), "local",
                 Authorization(a).id, HasApproval(a))
      /\ Apply("execution_complete", a, "idle")
      /\ settles => Dispositions(a) = {}
  BY DEF CompleteKnownResult, CanPreviewSettlement
<1>2. settles => remaining = PreviewSettlement(a, ReservationFor(a), cost)
  OBVIOUS
<1> HIDE DEF remaining
<1>3. /\ record.cost = cost /\ record.remaining = remaining
      /\ record.id = Len(evidence[a]) + 1
  BY DEF Make
<1>4. record.outcome = ""
  BY Zenon DEF Make
<1> HIDE DEF record
<1>5. MayAudit("execution_complete", a, record, ReservationFor(a), Authorization(a).id)
  BY <1>1, <1>2, <1>3, <1>4 DEF MayAudit, Deciding
<1> QED
  BY <1>1, <1>5, PreparedAudits DEF OperationKinds

LEMMA CompletionsAudit ==
    ASSUME ControlInv, AuditInv,
           \/ \E status \in {"succeeded", "failed"}, cost \in Costs,
                 dryRun \in BOOLEAN : Complete(status, cost, dryRun)
           \/ \E a \in Actions : CompleteExternal(a)
    PROVE  AuditInv'
<1>1. ASSUME NEW status \in {"succeeded", "failed"}, NEW cost \in Costs,
             NEW dryRun \in BOOLEAN, Complete(status, cost, dryRun)
      PROVE  AuditInv'
  <2>1. PICK a \in Actions : a = worker.act
    BY <1>1 DEF Complete, At, ControlInv, WorkerInv, WorkerAction, Acting
  <2> QED
    BY <1>1, <2>1, CompletionPreparedAudits DEF Complete
<1>2. ASSUME NEW a \in Actions, CompleteExternal(a)
      PROVE  AuditInv'
  BY <1>2, CompletionPreparedAudits DEF CompleteExternal
<1> QED
  BY <1>1, <1>2

\* An open authorization without an operation under way has not been paid for.
LEMMA AssertionPreparedAudits ==
    ASSUME ControlInv, LifecycleInv, AuditInv, NEW a \in Actions,
           NEW outcome \in Outcomes, NEW by \in Operators,
           ReconcileAuthorization(a, outcome, by)
    PROVE  AuditInv'
<1> DEFINE cost == CASE HasPriorDebit(a) -> PriorDebit(a)
                     [] ~HasPriorDebit(a) /\ outcome = "not_executed" -> 0
                     [] OTHER -> ExposureFor(a)
           made == Make(a, outcome, "allow", NULL)
           record == [made EXCEPT !.cost = cost, !.outcome = outcome, !.reconciledBy = by]
<1>1. /\ Prepare("authorization_reconcile", a, record, ExposureFor(a), "local",
                 Authorization(a).id, FALSE)
      /\ Apply("authorization_reconcile", a, "idle")
      /\ UNCHANGED <<ledgerVars, approvalVars, evidence>>
      /\ IsOpen(a) /\ ~IsClosed(a) /\ journal = NULL
  BY DEF ReconcileAuthorization, IsOpen, Prepare
<1>2. Unspent(a)
  BY <1>1, NothingSpent
<1>3. cost = IF outcome = "not_executed" THEN 0 ELSE ExposureFor(a)
  <2>1. ~HasPriorDebit(a)
    BY <1>2 DEF Unspent, HasPriorDebit
  <2> QED
    BY <2>1
<1> HIDE DEF cost
<1>4. record.cost = cost /\ record.outcome = outcome
  BY DEF Make
<1> HIDE DEF record
<1>5. ExposureFor(a) = LastReserve(a)
  BY ExposureIs DEF ControlInv, TypeOK, AuditInv, ActionAudit
<1>6. Authorization(a).id \in With(a, {"skipped"})
  <2>1. EvidenceTypeOK /\ IdsArePlaces
    BY DEF ControlInv, TypeOK, LifecycleInv
  <2>2. With(a, {"skipped"}) \subseteq 1..Len(evidence[a]) /\ Len(evidence[a]) \in Nat
    BY <2>1, EvidenceRead DEF With
  <2>3. Latest(With(a, {"skipped"})) \in With(a, {"skipped"})
    BY <1>1, <2>2, LatestIn DEF IsOpen
  <2> QED
    BY <2>1, <2>3 DEF Authorization, IdsArePlaces, With
<1>7. MayAudit("authorization_reconcile", a, record, ExposureFor(a), Authorization(a).id)
  BY <1>2, <1>3, <1>4, <1>5, <1>6 DEF MayAudit, Deciding
<1> QED
  BY <1>1, <1>7, PreparedAudits DEF OperationKinds
-----------------------------------------------------------------------------
(* The budget stage *)

LEMMA CreationReservedAudits ==
    ASSUME ControlInv, LifecycleInv, StoreInv, RecoveryInv, AuditInv, Advance,
           worker.pc = "budget", journal.kind = "approval_create"
    PROVE  AuditInv'
<1>1. PICK a \in Actions : a = journal.act
  BY Applied
<1>2. PICK reserved \in Nat : reserved = journal.reserved
  BY Applied DEF Operation
<1>3. /\ OnlyLedger /\ worker'.pc = "approval" /\ journal # NULL
      /\ IF reserved > 0 THEN EnsureReservation(a, reserved) ELSE UNCHANGED ledgerVars
  BY <1>1, <1>2, BudgetMoves DEF WriteBudget
<1>4. ~Sealed(a) /\ (HasApproval(a) => Is(a, Early))
  BY <1>1, <1>3, Applied DEF MayEnd, StoreInv, JournalSound, CreateSound
<1>5. LedgerTypeOK /\ reconciliations[a] = NULL
  BY <1>4, Unmarked DEF ControlInv, TypeOK
<1>6. ~Is(a, {"rejected"})
  <2>1. HasApproval(a) =>
          approvals[a] = Prepared(journal.owner, journal.reserved) \/ Is(a, {"approved"})
    BY <1>1, <1>3 DEF RecoveryInv, Repeats, CreateRepeats
  <2> QED
    BY <2>1, PreparedPending DEF Is
<1>7. \A b \in Actions : ActionAudit(b)'
  <2>1. CASE UNCHANGED ledgerVars
    BY <1>3, <2>1, NoRowsAudited
  <2>2. CASE AddReservation(a, reserved)
    BY <1>3, <1>5, <1>6, <2>2, ReserveAudited
  <2> QED
    BY <1>3, <2>1, <2>2 DEF EnsureReservation
<1>8. journal' = journal /\ journal.record.outcome = ""
  BY <1>3 DEF OnlyLedger, AuditInv, JournalAudit
<1>9. JournalAudit(journal)'
  BY <1>3, <1>8 DEF JournalAudit, AssertAudit, CompleteAudit, Deciding
<1> QED
  BY <1>7, <1>9 DEF AuditInv

LEMMA DecisionReleasedAudits ==
    ASSUME ControlInv, LifecycleInv, StoreInv, AuditInv, Advance,
           worker.pc = "budget", journal.kind \in Deciding
    PROVE  AuditInv'
<1>1. PICK a \in Actions : a = journal.act
  BY Applied
<1>2. PICK reserved \in Nat : reserved = journal.reserved
  BY Applied DEF Operation
<1>3. /\ OnlyLedger /\ worker'.pc = "evidence" /\ journal # NULL
      /\ IF reserved > 0 THEN EnsureRelease(a, reserved) ELSE UNCHANGED ledgerVars
  BY <1>1, <1>2, BudgetMoves DEF WriteBudget, Deciding
<1>4. LedgerTypeOK
  BY DEF ControlInv, TypeOK
<1>5. \A b \in Actions : ActionAudit(b)'
  <2>1. CASE UNCHANGED ledgerVars
    BY <1>3, <2>1, NoRowsAudited
  <2>2. CASE DropReservation(a)
    BY <1>3, <1>4, <2>2, ReleaseAudited
  <2> QED
    BY <1>3, <2>1, <2>2 DEF EnsureRelease
<1>6. journal' = journal /\ journal.record.outcome = "" /\ journal.record.cost = 0
  BY <1>3 DEF OnlyLedger, AuditInv, JournalAudit, Deciding
<1>7. JournalAudit(journal)'
  BY <1>3, <1>6 DEF JournalAudit, AssertAudit, CompleteAudit, Deciding
<1> QED
  BY <1>5, <1>7 DEF AuditInv

\* The marker repeats what the operation was prepared with.
LEMMA AssertionChargedAudits ==
    ASSUME ControlInv, LifecycleInv, StoreInv, RecoveryInv, AuditInv, Advance,
           worker.pc = "budget", journal.kind = "authorization_reconcile"
    PROVE  AuditInv'
<1>1. PICK a \in Actions : a = journal.act
  BY Applied
<1>2. /\ OnlyLedger /\ worker'.pc = "evidence" /\ journal # NULL /\ journal' = journal
      /\ WriteBudget(journal) /\ LedgerTypeOK
  BY BudgetMoves DEF OnlyLedger, ControlInv, TypeOK
<1>3. PICK reserved \in Nat, outcome \in Outcomes, by \in Operators, authority \in Nat :
         /\ reserved = journal.reserved /\ outcome = journal.record.outcome
         /\ by = journal.record.reconciledBy /\ authority = journal.authority
  BY <1>2, Applied DEF Operation, EvidenceRecord, ControlInv, JournalAssertion
<1>4. ReconcileReservation(a, reserved, outcome, by, authority)
  BY <1>1, <1>2, <1>3 DEF WriteBudget
<1>5. /\ Unspent(a) /\ reserved = LastReserve(a)
      /\ journal.record.cost = IF outcome = "not_executed" THEN 0 ELSE reserved
      /\ authority \in With(a, {"skipped"})
  BY <1>1, <1>2, <1>3 DEF AuditInv, JournalAudit, AssertAudit
<1>6. With(a, {"skipped"})' = With(a, {"skipped"})
  BY <1>2 DEF OnlyLedger, With
<1>7. /\ \A b \in Actions : ActionAudit(b)'
      /\ Unspent(a)' /\ LastReserve(a)' = LastReserve(a)
  <2>1. CASE UNCHANGED ledgerVars
    <3>1. entries' = entries
      BY <2>1 DEF ledgerVars
    <3>2. Unspent(a)' /\ LastReserve(a)' = LastReserve(a)
      BY <1>5, <3>1 DEF Unspent, LastReserve, EntriesOf
    <3> QED
      BY <1>2, <2>1, <3>2, NoRowsAudited
  <2>2. ASSUME reconciliations[a] = NULL,
               AddReconciliation(a, reserved, outcome, by, authority)
        PROVE  /\ \A b \in Actions : ActionAudit(b)'
               /\ Unspent(a)' /\ LastReserve(a)' = LastReserve(a)
    <3>1. /\ DebitsStay(a) /\ reservations'[a] = 0
          /\ reconciliations'[a] # NULL
          /\ reconciliations'[a].outcome = outcome /\ reconciliations'[a].by = by
          /\ reconciliations'[a].expected = reserved
          /\ reconciliations'[a].authority = authority
          /\ LastReserve(a)' = LastReserve(a)
          /\ outcome = "not_executed" => reconciliations'[a].charged = 0
          /\ Unspent(a) /\ outcome # "not_executed" =>
               reconciliations'[a].charged = reserved
      BY <1>2, <2>2, ReconcileRead
    <3>2. ~HasApproval(a) /\ ~Appended(journal)
      BY <1>1, <1>2, <2>2 DEF StoreInv, JournalSound, AssertSound
    <3>3. ~IsClosed(a)
      BY <1>1, <1>2, <3>2, Applied DEF RecoveryInv, Repeats, AssertionRepeats
    <3>4. Unspent(a)'
      BY <1>5, <3>1 DEF DebitsStay, Unspent
    <3>5. MarkerAudit(a)'
      <4>1. IsClosed(a)' = IsClosed(a)
        BY <1>2 DEF OnlyLedger, IsClosed, Terminals, With
      <4>2. JournalIs({"authorization_reconcile"}, a)' /\ journal'.authority = authority
        BY <1>1, <1>2, <1>3 DEF JournalIs
      <4> QED
        BY <1>5, <1>6, <3>1, <3>3, <3>4, <4>1, <4>2 DEF MarkerAudit
    <3>6. NewlyMarked(a)
      BY <1>5, <2>2, <3>1, <3>2, <3>3, <3>5 DEF NewlyMarked
    <3>7. ~(reservations'[a] > 0)
      BY <3>1
    <3> QED
      BY <1>2, <3>1, <3>4, <3>6, <3>7, RowsAudited
  <2> QED
    BY <1>4, <2>1, <2>2 DEF ReconcileReservation
<1>8. AssertAudit(journal)'
  BY <1>1, <1>2, <1>3, <1>5, <1>6, <1>7 DEF AssertAudit
<1>9. JournalAudit(journal)'
  BY <1>2, <1>8 DEF JournalAudit, CompleteAudit, Deciding
<1> QED
  BY <1>7, <1>9 DEF AuditInv

LEMMA DebitRead ==
    ASSUME LedgerTypeOK, NEW a \in Actions, NEW actual \in Nat, NEW record \in Nat \ {0},
           Debit(a, actual, record), Unspent(a)
    PROVE  /\ \A b \in Actions \ {a} : /\ reservations'[b] = reservations[b]
                                       /\ entries'[b] = entries[b]
                                       /\ reconciliations'[b] = reconciliations[b]
           /\ reservations'[a] = 0 /\ reconciliations'[a] = reconciliations[a]
           /\ Spent(a)' = Spent(a) + actual
           /\ Dispositions(a)' # {} /\ ~Unspent(a)'
           /\ \A i, j \in EntriesOf(a, {"debit"})' : i = j
           /\ \A i \in EntriesOf(a, {"debit"})' :
                /\ entries'[a][i].amount = actual /\ entries'[a][i].record = record
                /\ entries'[a][i].after = PreviewSettlement(a, reservations[a], actual)
<1> DEFINE left == Available + reservations[a] - actual
           e == [kind |-> "debit", amount |-> actual, reserved |-> reservations[a],
                 after |-> left, record |-> record]
<1>1. reservations[a] \in Nat /\ left \in Int
  BY LedgerRows
<1>2. left = PreviewSettlement(a, reservations[a], actual)
  BY DEF PreviewSettlement
<1>3. /\ entries' = [entries EXCEPT ![a] = Append(@, e)]
      /\ reservations' = [reservations EXCEPT ![a] = 0]
      /\ reconciliations' = reconciliations
  BY DEF Debit, NoRecord
<1> HIDE DEF left
<1>4. /\ e \in Entry /\ e.kind = "debit" /\ e.amount = actual /\ e.after = left
      /\ e.record = record
  BY <1>1 DEF Entry, EntryKinds
<1> HIDE DEF e
<1>5. /\ reservations'[a] = 0
      /\ \A b \in Actions \ {a} : reservations'[b] = reservations[b]
  BY <1>3 DEF LedgerTypeOK
<1>6. Spent(a)' = Spent(a) + actual
  <2>1. ChargeOf(entries'[a], reconciliations'[a])
          = ChargeOf(entries[a], reconciliations[a]) + IF e.kind = "debit" THEN e.amount ELSE 0
    BY <1>3, <1>4, RowAccounted
  <2> QED
    BY <1>4, <2>1 DEF Spent
<1>7. /\ EntriesOf(a, {"debit"})' =
           EntriesOf(a, {"debit"})
           \cup (IF e.kind = "debit" THEN {Len(entries[a]) + 1} ELSE {})
      /\ entries'[a][Len(entries[a]) + 1] = e
      /\ Dispositions(a)' # {} <=> Dispositions(a) # {} \/ e.kind # "reserve"
      /\ \A b \in Actions \ {a} : entries'[b] = entries[b]
  BY <1>3, <1>4, RowRead
<1>8. PICK last : /\ EntriesOf(a, {"debit"})' = EntriesOf(a, {"debit"}) \cup {last}
                  /\ entries'[a][last] = e
  BY <1>4, <1>7
<1>9. EntriesOf(a, {"debit"})' = {last} /\ ~Unspent(a)'
  BY <1>4, <1>8 DEF Unspent
<1>10. \A i \in EntriesOf(a, {"debit"})' : entries'[a][i] = e
  BY <1>8, <1>9
<1>11. \A i, j \in EntriesOf(a, {"debit"})' : i = j
  BY <1>9
<1> QED
  BY <1>2, <1>3, <1>4, <1>5, <1>6, <1>7, <1>9, <1>10, <1>11

\* Nothing is asserted of a call whose result is being stored.
LEMMA CompletionUnmarked ==
    ASSUME ControlInv, StoreInv, AuditInv, NEW a \in Actions, journal # NULL,
           journal.kind = "execution_complete", journal.act = a, ~IsClosed(a)
    PROVE  reconciliations[a] = NULL
<1>1. CASE HasApproval(a)
  <2>1. approvals[a].outcome = ""
    BY <1>1 DEF StoreInv, JournalSound, CompleteSound
  <2>2. reconciliations[a] # NULL => reconciliations[a].outcome \in Outcomes
    BY DEF ControlInv, TypeOK, LedgerTypeOK, Marker
  <2> QED
    BY <1>1, <2>1, <2>2 DEF StoreInv, ActionSound, ApprovalSound, Outcomes
<1>2. CASE ~HasApproval(a)
  BY <1>2 DEF AuditInv, ActionAudit, AllowedAudit, MarkerAudit, JournalIs
<1> QED
  BY <1>1, <1>2

\* The debit of a result that no one has recorded or asserted yet.
LEMMA CompletionPaid ==
    ASSUME ControlInv, LifecycleInv, StoreInv, AuditInv, Advance, worker.pc = "budget",
           journal.kind = "execution_complete", Settles(journal),
           Dispositions(journal.act) = {}
    PROVE  AuditInv'
<1>1. PICK a \in Actions : a = journal.act
  BY Applied
<1>2. PICK reserved \in Nat, cost \in Nat, id \in Nat \ {0} :
         reserved = journal.reserved /\ cost = journal.record.cost /\ id = journal.record.id
  BY Applied DEF Operation, EvidenceRecord
<1>3. /\ OnlyLedger /\ worker'.pc = "evidence" /\ journal # NULL /\ LedgerTypeOK
      /\ journal' = journal /\ evidence' = evidence /\ approvals' = approvals
      /\ CanWriteBudget(journal) /\ WriteBudget(journal)
  BY BudgetMoves DEF OnlyLedger, ControlInv, TypeOK
<1>4. EnsureSettlement(a, reserved, cost, id)
  BY <1>1, <1>2, <1>3 DEF WriteBudget
<1>5. reservations[a] = reserved /\ Debit(a, cost, id)
  BY <1>1, <1>4 DEF EnsureSettlement, CanEnsureSettlement, IsSettledBy
<1>6. Unspent(a)
  BY <1>1 DEF Dispositions, EntriesOf, Unspent
<1>7. /\ \A b \in Actions \ {a} : /\ reservations'[b] = reservations[b]
                                  /\ entries'[b] = entries[b]
                                  /\ reconciliations'[b] = reconciliations[b]
      /\ reservations'[a] = 0 /\ reconciliations'[a] = reconciliations[a]
      /\ Spent(a)' = Spent(a) + cost
      /\ Dispositions(a)' # {} /\ ~Unspent(a)'
      /\ \A i, j \in EntriesOf(a, {"debit"})' : i = j
      /\ \A i \in EntriesOf(a, {"debit"})' :
           /\ entries'[a][i].amount = cost /\ entries'[a][i].record = id
           /\ entries'[a][i].after = PreviewSettlement(a, reserved, cost)
  BY <1>3, <1>5, <1>6, DebitRead
<1>8. journal.record.remaining = PreviewSettlement(a, reserved, cost) /\ ~Appended(journal)
  BY <1>1, <1>2, <1>3 DEF AuditInv, JournalAudit, CompleteAudit
<1>9. ~IsClosed(a)
  BY <1>1, <1>3, <1>8, Applied, NoConflict DEF CanWriteBudget
<1>10. ~HasRecord(a, id)
  <2>1. EvidenceTypeOK /\ IdsArePlaces
    BY DEF ControlInv, TypeOK, LifecycleInv
  <2>2. DOMAIN evidence[a] = 1..Len(evidence[a]) /\ Len(evidence[a]) \in Nat
    BY <2>1 DEF EvidenceTypeOK
  <2>3. id = Len(evidence[a]) + 1
    BY <1>1, <1>2, <1>8, Applied DEF Unappended
  <2>4. id \notin DOMAIN evidence[a]
    BY <2>2, <2>3
  <2> QED
    BY <2>1, <2>4, AtItsPlace
<1>11. JournalIs({"execution_complete"}, a)'
  BY <1>1, <1>3 DEF JournalIs
<1>12. reconciliations[a] = NULL
  BY <1>1, <1>3, <1>9, CompletionUnmarked
<1>13. Spent(a)' = cost
  BY <1>3, <1>6, <1>7, <1>12, UnspentIs
<1>14. /\ \A kinds : JournalIs(kinds, a)' = JournalIs(kinds, a)
       /\ With(a, {"skipped"})' = With(a, {"skipped"})
       /\ HasRecord(a, id)' = HasRecord(a, id)
       /\ HasApproval(a)' = HasApproval(a) /\ Sealed(a)' = Sealed(a)
       /\ Terminals(a)' = Terminals(a) /\ IsClosed(a)' = IsClosed(a)
  BY <1>3 DEF JournalIs, With, HasRecord, HasApproval, Sealed, Terminals, IsClosed
<1>15. LedgerAudit(a)'
  <2>1. ASSUME NEW i \in EntriesOf(a, {"debit"})'
        PROVE  ResultKnown(a, entries[a][i])'
    <3>1. PICK e : e = entries'[a][i]
      OBVIOUS
    <3>2. e.amount = cost /\ e.record = id /\ e.after = PreviewSettlement(a, reserved, cost)
      BY <1>7, <3>1
    <3> QED
      BY <1>2, <1>3, <1>8, <1>10, <1>11, <1>14, <3>1, <3>2 DEF ResultKnown
  <2>2. ~(reservations'[a] > 0)
    BY <1>7
  <2>3. OneSettlement(a)'
    BY <1>7 DEF OneSettlement
  <2> QED
    BY <1>7, <1>9, <1>11, <1>14, <2>1, <2>2, <2>3 DEF LedgerAudit
<1>16. ActionAudit(a)
  BY DEF AuditInv
<1>17. ApprovalAudit(a)'
  <2>1. ~(reservations'[a] > 0)
    BY <1>7
  <2> QED
    BY <1>3, <1>7, <1>9, <1>12, <1>14, <1>16, <2>1 DEF ApprovalAudit, ActionAudit
<1>18. AllowedAudit(a)'
  BY <1>3, <1>7, <1>12, <1>14, <1>16 DEF AllowedAudit, ActionAudit, MarkerAudit
<1>19. \A b \in Actions \ {a} : SameRest(b) /\ SameExcuses(b) /\ approvals'[b] = approvals[b]
  BY <1>3, <1>7 DEF SameRest, SameExcuses
<1>20. \A b \in Actions : ActionAudit(b)'
  BY <1>15, <1>17, <1>18, <1>19, SameAudit DEF ActionAudit
<1>21. CompleteAudit(journal)'
  <2>1. Settles(journal)'
    BY <1>3 DEF Settles
  <2> QED
    BY <1>1, <1>2, <1>3, <1>7, <1>13, <2>1 DEF CompleteAudit
<1>22. JournalAudit(journal)'
  BY <1>3, <1>21 DEF AuditInv, JournalAudit, AssertAudit, Deciding
<1> QED
  BY <1>20, <1>22 DEF AuditInv

LEMMA CompletionBudgetAudits ==
    ASSUME ControlInv, LifecycleInv, StoreInv, AuditInv, Advance, worker.pc = "budget",
           journal.kind = "execution_complete"
    PROVE  AuditInv'
<1>1. PICK a \in Actions : a = journal.act
  BY Applied
<1>2. /\ OnlyLedger /\ worker'.pc = "evidence" /\ journal # NULL
      /\ journal' = journal /\ evidence' = evidence /\ approvals' = approvals
      /\ WriteBudget(journal)
  BY BudgetMoves DEF OnlyLedger
<1>3. ASSUME ~(Settles(journal) /\ Dispositions(a) = {})
      PROVE  AuditInv'
  <2>1. UNCHANGED ledgerVars
    BY <1>1, <1>2, <1>3 DEF WriteBudget, EnsureSettlement
  <2>2. \A b \in Actions : ActionAudit(b)'
    BY <1>2, <2>1, NoRowsAudited
  <2>3. SameRest(a)
    BY <1>2, <2>1 DEF SameRest, ledgerVars
  <2>4. /\ Unspent(a)' = Unspent(a) /\ Spent(a)' = Spent(a)
        /\ Dispositions(a)' = Dispositions(a) /\ IsClosed(a)' = IsClosed(a)
        /\ Settles(journal)' = Settles(journal)
    BY <1>2, <2>3, SameRead DEF Settles
  <2>5. CompleteAudit(journal)'
    <3>1. CompleteAudit(journal)
      BY <1>2 DEF AuditInv, JournalAudit
    <3> QED
      BY <1>1, <1>2, <1>3, <2>4, <3>1 DEF CompleteAudit
  <2>6. JournalAudit(journal)'
    BY <1>2, <2>5 DEF AuditInv, JournalAudit, AssertAudit, Deciding
  <2> QED
    BY <2>2, <2>6 DEF AuditInv
<1> QED
  BY <1>1, <1>3, CompletionPaid

LEMMA BudgetAudits ==
    ASSUME ControlInv, LifecycleInv, StoreInv, RecoveryInv, AuditInv, Advance,
           worker.pc = "budget"
    PROVE  AuditInv'
<1>1. journal.kind \in OperationKinds
  BY Applied
<1> QED
  BY <1>1, CreationReservedAudits, DecisionReleasedAudits, AssertionChargedAudits,
     CompletionBudgetAudits DEF OperationKinds, Deciding

-----------------------------------------------------------------------------
(* The approval stage *)

LEMMA StoredAudits ==
    ASSUME AuditInv, NEW a \in Actions, OnlyApprovals,
           \A b \in Actions \ {a} : approvals'[b] = approvals[b],
           HasApproval(a)', ApprovalAudit(a)'
    PROVE  \A b \in Actions : ActionAudit(b)'
<1>1. \A b \in Actions : SameRest(b) /\ SameExcuses(b)
  BY OnlyApprovalsRest DEF OnlyApprovals, SameExcuses
<1>2. LedgerAudit(a)'
  BY <1>1, LedgerAuditKept DEF AuditInv, ActionAudit
<1>3. AllowedAudit(a)'
  BY DEF AllowedAudit
<1> QED
  BY <1>1, <1>2, <1>3, SameAudit DEF ActionAudit

LEMMA CreationStoredAudits ==
    ASSUME ControlInv, LifecycleInv, StoreInv, AuditInv, Advance,
           worker.pc = "approval", journal.kind = "approval_create"
    PROVE  AuditInv'
<1>1. PICK a \in Actions : a = journal.act
  BY Applied
<1>2. PICK reserved \in Nat, owner \in Owners :
         reserved = journal.reserved /\ owner = journal.owner
  BY Applied DEF Operation
<1> DEFINE new == Prepared(owner, reserved)
<1>3. /\ OnlyApprovals /\ journal # NULL /\ worker'.pc = "evidence"
      /\ Put(a, new)
  BY <1>1, <1>2, ApprovalMoves, StageOrder DEF WriteApproval, CreatePrepared
<1>4. new \in Approval /\ new.status = "pending"
  BY DEF Prepared, Approval, ApprovalStatuses
<1> HIDE DEF new
<1>5. /\ approvals'[a] = new /\ HasApproval(a)'
      /\ \A b \in Actions \ {a} : approvals'[b] = approvals[b]
  BY <1>3, <1>4, PutFields DEF ControlInv, TypeOK
<1>6. ~Sealed(a) /\ (HasApproval(a) => Is(a, Early))
  BY <1>1, <1>3, Applied DEF MayEnd, StoreInv, JournalSound, CreateSound
<1>7. reconciliations'[a] = NULL
  BY <1>3, <1>6, Unmarked DEF OnlyApprovals
<1>8. ApprovalAudit(a)'
  BY <1>4, <1>5, <1>7 DEF ApprovalAudit
<1>9. \A b \in Actions : ActionAudit(b)'
  BY <1>3, <1>5, <1>8, StoredAudits
<1>10. JournalAudit(journal)'
  BY <1>1, <1>3, <1>5
  DEF OnlyApprovals, AuditInv, JournalAudit, AssertAudit, CompleteAudit, Deciding
<1> QED
  BY <1>9, <1>10 DEF AuditInv

LEMMA DecisionStoredAudits ==
    ASSUME ControlInv, LifecycleInv, StoreInv, AuditInv, Advance,
           worker.pc = "approval", journal.kind \in Deciding
    PROVE  AuditInv'
<1>1. PICK a \in Actions : a = journal.act
  BY Applied
<1>2. PICK by \in Operators \cup {NULL} : by = journal.record.by
  BY Applied DEF EvidenceRecord
<1>3. /\ OnlyApprovals /\ worker'.pc = "budget" /\ journal' = journal /\ journal # NULL
      /\ EnsureRejected(a, by) \/ ExpireOne(a)
  BY <1>1, <1>2, ApprovalMoves, StageOrder DEF WriteApproval, Deciding, OnlyApprovals
<1>4. Is(a, Early) /\ ~Sealed(a) /\ HasApproval(a)
  BY <1>1, <1>3, Applied DEF MayEnd, StoreInv, JournalSound, DecideSound, Is
<1>5. reconciliations'[a] = NULL
  BY <1>3, <1>4, Unmarked DEF OnlyApprovals
<1>6. ApprovalTypeOK /\ approvals[a] \in Approval
  BY <1>4, ApprovalFound DEF ControlInv, TypeOK
<1>7. /\ HasApproval(a)' /\ approvals'[a].status \in {"rejected", "expired"}
      /\ \A b \in Actions \ {a} : approvals'[b] = approvals[b]
  <2>1. CASE Decide(a, FALSE, by)
    <3> DEFINE new == [approvals[a] EXCEPT !.status = "rejected", !.decidedBy = by]
    <3>1. new \in Approval /\ new.status = "rejected"
      BY <1>6 DEF Approval, ApprovalStatuses
    <3>2. Put(a, new)
      BY <2>1 DEF Decide
    <3> HIDE DEF new
    <3> QED
      BY <1>6, <3>1, <3>2, PutFields
  <2>2. CASE IsRejectedBy(a, by) /\ UNCHANGED approvalVars
    BY <2>2 DEF IsRejectedBy, approvalVars, Is, HasApproval
  <2>3. CASE ExpireOne(a)
    <3> DEFINE new == [approvals[a] EXCEPT !.status = "expired"]
    <3>1. new \in Approval /\ new.status = "expired"
      BY <1>6 DEF Approval, ApprovalStatuses
    <3>2. Put(a, new)
      BY <2>3 DEF ExpireOne
    <3> HIDE DEF new
    <3> QED
      BY <1>6, <3>1, <3>2, PutFields
  <2> QED
    BY <1>3, <2>1, <2>2, <2>3 DEF EnsureRejected
<1>8. ApprovalAudit(a)'
  <2>1. JournalIs(Deciding, a)'
    BY <1>1, <1>3 DEF JournalIs, Deciding
  <2> QED
    BY <1>5, <1>7, <2>1 DEF ApprovalAudit
<1>9. \A b \in Actions : ActionAudit(b)'
  BY <1>3, <1>7, <1>8, StoredAudits
<1>10. JournalAudit(journal)'
  BY <1>3 DEF AuditInv, JournalAudit, AssertAudit, CompleteAudit, Deciding
<1> QED
  BY <1>9, <1>10 DEF AuditInv

\* The approval is spent on the record that the stage before appended.
LEMMA CompletionStoredAudits ==
    ASSUME ControlInv, LifecycleInv, StoreInv, RecoveryInv, AuditInv, Advance,
           worker.pc = "approval", journal.kind = "execution_complete"
    PROVE  AuditInv'
<1>1. PICK a \in Actions : a = journal.act
  BY Applied
<1>2. PICK record \in Nat : record = journal.record.id
  BY Applied DEF EvidenceRecord
<1>3. /\ OnlyApprovals /\ worker'.pc = "finish" /\ journal' = journal /\ journal # NULL
      /\ IF journal.approved THEN EnsureConsumed(a, record) ELSE UNCHANGED approvalVars
      /\ ApprovalTypeOK
  BY <1>1, <1>2, ApprovalMoves, StageOrder
  DEF WriteApproval, OnlyApprovals, ControlInv, TypeOK
<1>4. /\ Appended(journal) /\ CompleteAudit(journal)
      /\ journal.approved = HasApproval(a)
      /\ HasApproval(a) => approvals[a].outcome = ""
  BY <1>1, <1>3
  DEF AuditInv, JournalAudit, CompleteAudit, RecoveryInv, Repeats, CompletionRepeats,
      StoreInv, JournalSound, CompleteSound
<1>5. record \in Terminals(a)
  <2>1. /\ Len(evidence[a]) = record /\ evidence[a][record] = journal.record
        /\ journal.record.status \in {"succeeded", "failed"} /\ record \in Nat \ {0}
    BY <1>1, <1>2, <1>4, Applied DEF Appended, RecordOf, EvidenceRecord
  <2>2. record \in DOMAIN evidence[a]
    <3>1. DOMAIN evidence[a] = 1..Len(evidence[a])
      BY DEF ControlInv, TypeOK, EvidenceTypeOK
    <3> QED
      BY <2>1, <3>1
  <2> QED
    BY <2>1, <2>2 DEF Terminals, With, TerminalResults
<1>6. SameRest(a)
  BY <1>3, OnlyApprovalsRest
<1>7. (\A b \in Actions : ActionAudit(b)') /\ ~Is(a, {"executing"})'
  <2>1. CASE MarkConsumed(a, record)
    <3>1. /\ HasApproval(a)
          /\ Put(a, [approvals[a] EXCEPT !.status = "consumed", !.record = record])
      BY <2>1 DEF MarkConsumed, CanConsume, Is
    <3>2. /\ HasApproval(a)'
          /\ \A b \in Actions \ {a} : approvals'[b] = approvals[b]
          /\ approvals'[a].reserved = approvals[a].reserved
          /\ approvals'[a].outcome = approvals[a].outcome
          /\ approvals'[a].reconciledBy = approvals[a].reconciledBy
          /\ approvals'[a].status = "consumed" /\ approvals'[a].record = record
      BY <1>3, <3>1, ConsumedFields
    <3>3. ApprovalAudit(a)'
      BY <1>4, <1>5, <1>6, <3>1, <3>2, SpentAudited
    <3> QED
      BY <1>3, <3>2, <3>3, StoredAudits DEF Is
  <2>2. ASSUME UNCHANGED approvals, ~Is(a, {"executing"})
        PROVE  (\A b \in Actions : ActionAudit(b)') /\ ~Is(a, {"executing"})'
    <3>1. \A b \in Actions : SameRest(b) /\ SameExcuses(b)
      BY <1>3, OnlyApprovalsRest DEF SameExcuses
    <3> QED
      BY <2>2, <3>1, SameAudit DEF Is, HasApproval
  <2>3. CASE ~MarkConsumed(a, record)
    <3>1. UNCHANGED approvals /\ ~Is(a, {"executing"})
      BY <1>3, <1>4, <2>3 DEF EnsureConsumed, IsConsumedBy, Is, approvalVars
    <3> QED
      BY <2>2, <3>1
  <2> QED
    BY <2>1, <2>3
<1>8. /\ Unspent(a)' = Unspent(a) /\ Spent(a)' = Spent(a)
      /\ Dispositions(a)' = Dispositions(a) /\ IsClosed(a)' = IsClosed(a)
      /\ Settles(journal)' = Settles(journal) /\ Appended(journal)'
  BY <1>1, <1>3, <1>4, <1>6, SameRead DEF Settles, Appended, SameRest
<1>9. CompleteAudit(journal)'
  BY <1>1, <1>3, <1>4, <1>7, <1>8 DEF CompleteAudit
<1>10. JournalAudit(journal)'
  BY <1>3, <1>9 DEF AuditInv, JournalAudit, AssertAudit, Deciding
<1> QED
  BY <1>7, <1>10 DEF AuditInv

LEMMA StoringAudits ==
    ASSUME ControlInv, LifecycleInv, StoreInv, RecoveryInv, AuditInv, Advance,
           worker.pc = "approval"
    PROVE  AuditInv'
<1>1. journal.kind \in OperationKinds /\ journal.kind # "authorization_reconcile"
  BY Applied, ApprovalMoves
<1> QED
  BY <1>1, CreationStoredAudits, DecisionStoredAudits, CompletionStoredAudits
  DEF OperationKinds, Deciding

-----------------------------------------------------------------------------
(* The evidence stage *)

\* What the prepared record says is what the stores say.
LEMMA PreparedAgrees ==
    ASSUME ControlInv, LifecycleInv, StoreInv, RecoveryInv, AuditInv, Advance,
           worker.pc = "evidence", Unappended(journal)
    PROVE  Agrees(journal.act, journal.record)
<1>1. PICK a \in Actions : a = journal.act
  BY Applied
<1>2. PICK record \in EvidenceRecord : record = journal.record
  BY Applied
<1>3. /\ ~IsClosed(a) /\ RecordOf(journal) /\ MayEnd(journal) /\ journal # NULL
      /\ LedgerTypeOK /\ record.cost \in Nat
  BY <1>1, Applied DEF StageReached, ControlInv, TypeOK, EvidenceRecord
<1>4. /\ DecideSound(journal) /\ AssertSound(journal)
      /\ JournalAudit(journal) /\ ActionAudit(a)
  BY <1>3 DEF StoreInv, JournalSound, AuditInv
<1>5. CASE journal.kind = "approval_create"
  <2>1. HasApproval(a)
    BY <1>1, <1>4, <1>5 DEF JournalAudit
  <2>2. record.status \notin TerminalResults
    BY <1>2, <1>3, <1>5 DEF RecordOf, TerminalResults
  <2> QED
    BY <1>1, <1>2, <1>5, <2>1, <2>2 DEF Agrees, JournalIs
<1>6. CASE journal.kind \in Deciding
  <2>1. Is(a, Early) /\ ~Sealed(a) /\ HasApproval(a) /\ record.cost = 0
    BY <1>1, <1>2, <1>3, <1>4, <1>6 DEF MayEnd, DecideSound, JournalAudit, Is
  <2>2. reconciliations[a] = NULL
    BY <2>1, Unmarked
  <2>3. ~JournalIs({"execution_complete"}, a)
    BY <1>6 DEF JournalIs, Deciding
  <2>4. Unspent(a)
    BY <1>3, <1>4, <2>3 DEF ActionAudit, LedgerAudit
  <2>5. Spent(a) = record.cost
    BY <1>3, <2>1, <2>2, <2>4, UnspentIs
  <2>6. ~Is(a, {"executing"})
    BY <2>1 DEF Is, Early
  <2> QED
    BY <1>1, <1>2, <1>3, <2>1, <2>3, <2>5, <2>6 DEF Agrees
<1>7. CASE journal.kind = "authorization_reconcile"
  <2>1. /\ ~HasApproval(a) /\ reconciliations[a] # NULL
        /\ record.status = record.outcome
    BY <1>1, <1>2, <1>4, <1>7 DEF AssertSound
  <2>2. /\ Unspent(a)
        /\ record.cost = IF record.outcome = "not_executed" THEN 0 ELSE journal.reserved
    BY <1>1, <1>2, <1>4, <1>7 DEF JournalAudit, AssertAudit
  <2>3. SameInput(reconciliations[a], record.outcome, record.reconciledBy,
                  journal.reserved, journal.authority)
    BY <1>1, <1>2, <1>3, <1>7, <2>1 DEF RecoveryInv, Repeats, AssertionRepeats
  <2>4. reconciliations[a].charged = record.cost
    BY <1>4, <2>1, <2>2, <2>3 DEF ActionAudit, LedgerAudit, SameInput
  <2>5. Spent(a) = record.cost
    BY <1>3, <2>1, <2>2, <2>4, UnspentIs
  <2>6. ~JournalIs({"execution_complete"}, a) /\ ~Is(a, {"executing"})
    BY <1>7, <2>1 DEF JournalIs, Is
  <2>7. record.status \in Outcomes
    BY <1>2, <1>3, <1>7 DEF RecordOf
  <2>8. record.status \in TerminalResults /\ record.status # "skipped"
    BY <2>7 DEF Outcomes, TerminalResults
  <2> QED
    BY <1>1, <1>2, <1>3, <2>1, <2>3, <2>5, <2>6, <2>8 DEF Agrees, SameInput
<1>8. CASE journal.kind = "execution_complete"
  <2>1. record.status \in {"succeeded", "failed"}
    BY <1>2, <1>3, <1>8 DEF RecordOf
  <2>2. reconciliations[a] = NULL
    BY <1>1, <1>3, <1>8, CompletionUnmarked
  <2>3. JournalIs({"execution_complete"}, a) /\ record.outcome = ""
    BY <1>1, <1>2, <1>3, <1>4, <1>8 DEF JournalIs, JournalAudit
  <2>4. CompleteAudit(journal)
    BY <1>4 DEF JournalAudit
  <2>5. Spent(a) = record.cost
    <3>1. CASE Settles(journal)
      BY <1>1, <1>2, <1>8, <2>4, <3>1 DEF CompleteAudit
    <3>2. CASE ~Settles(journal)
      <4>1. record.cost = 0
        BY <1>2, <1>3, <3>2 DEF Settles
      <4>2. Unspent(a)
        BY <1>1, <1>3, <1>8, <2>4, <3>2 DEF CompleteAudit
      <4> QED
        BY <1>3, <2>2, <4>1, <4>2, UnspentIs
    <3> QED
      BY <3>1, <3>2
  <2>6. record.status \in TerminalResults
    BY <2>1 DEF TerminalResults
  <2> QED
    BY <1>1, <1>2, <1>3, <2>1, <2>2, <2>3, <2>5, <2>6 DEF Agrees
<1> QED
  BY <1>5, <1>6, <1>7, <1>8, Applied DEF OperationKinds, Deciding

\* Behind the evidence stage the record is there.
LEMMA EvidenceJournaled ==
    ASSUME ControlInv, LifecycleInv, StoreInv, AuditInv, Advance,
           worker.pc = "evidence", OnlyEvidence, Appended(journal)',
           IsClosed(journal.act) => IsClosed(journal.act)',
           With(journal.act, {"skipped"}) \subseteq With(journal.act, {"skipped"})'
    PROVE  JournalAudit(journal)'
<1>1. PICK a \in Actions : a = journal.act /\ a = journal'.act
  BY Applied DEF OnlyEvidence
<1>2. /\ journal # NULL /\ journal' = journal
      /\ worker'.pc = IF journal.kind = "execution_complete" THEN "approval" ELSE "finish"
  <2>1. worker'.pc = StageAfter(journal.kind, "evidence")
    BY StageMoves
  <2>2. journal.kind # "execution_complete" => worker'.pc = "finish"
    BY <2>1, Applied, StageOrder DEF OperationKinds, Deciding
  <2>3. journal.kind = "execution_complete" => worker'.pc = "approval"
    BY <2>1, StageOrder
  <2> QED
    BY <2>2, <2>3, Applied DEF OnlyEvidence
<1>3. /\ Unspent(a)' = Unspent(a) /\ Spent(a)' = Spent(a)
      /\ LastReserve(a)' = LastReserve(a) /\ Dispositions(a)' = Dispositions(a)
      /\ reservations' = reservations /\ Settles(journal)' = Settles(journal)
  BY DEF OnlyEvidence, Unspent, Spent, LastReserve, Dispositions, EntriesOf, Settles
<1>4. With(a, {"skipped"}) \subseteq With(a, {"skipped"})' /\ (IsClosed(a) => IsClosed(a)')
  <2>1. /\ With(journal.act, {"skipped"})' = With(a, {"skipped"})'
        /\ IsClosed(journal.act)' = IsClosed(a)'
    BY <1>1 DEF With, IsClosed, Terminals
  <2> QED
    BY <1>1, <2>1
<1>5. JournalAudit(journal) /\ DecideSound(journal)
  BY <1>2 DEF AuditInv, StoreInv, JournalSound
<1>6. AssertAudit(journal)'
  BY <1>1, <1>2, <1>3, <1>4, <1>5 DEF JournalAudit, AssertAudit
<1>7. CompleteAudit(journal)'
  BY <1>1, <1>2, <1>3, <1>4, <1>5 DEF JournalAudit, CompleteAudit
<1>8. journal.kind \in Deciding => reservations'[a] = 0
  BY <1>1, <1>3, <1>5 DEF DecideSound
<1> QED
  BY <1>1, <1>2, <1>5, <1>6, <1>7, <1>8 DEF JournalAudit, Deciding

LEMMA EvidenceAudits ==
    ASSUME ControlInv, LifecycleInv, StoreInv, RecoveryInv, AuditInv, Advance,
           worker.pc = "evidence"
    PROVE  AuditInv'
<1>1. PICK a \in Actions : a = journal.act
  BY Applied
<1>2. PICK record \in EvidenceRecord : record = journal.record
  BY Applied
<1>3. OnlyEvidence /\ EvidenceTypeOK /\ IdsArePlaces
  BY StageMoves
  DEF Advance, WriteStage, ledgerVars, approvalVars, OnlyEvidence, ControlInv, TypeOK,
      LifecycleInv
<1>4. CASE Appended(journal)
  <2>1. record.id \in Nat \ {0}
    BY DEF EvidenceRecord
  <2>2. /\ Len(evidence[a]) = record.id /\ evidence[a][record.id] = record
        /\ AppendOnce(a, record)
    BY <1>1, <1>2, <1>4 DEF Appended, Advance, WriteStage
  <2>3. HasRecord(a, record.id)
    <3>1. record.id \in DOMAIN evidence[a]
      BY <1>3, <2>1, <2>2, EvidenceRead
    <3> QED
      BY <2>2, <3>1 DEF HasRecord
  <2>4. UNCHANGED evidence
    BY <2>2, <2>3 DEF AppendOnce
  <2>5. \A b \in Actions : SameRest(b) /\ SameExcuses(b) /\ approvals'[b] = approvals[b]
    BY <1>3, <2>4 DEF OnlyEvidence, SameRest, SameExcuses
  <2>6. \A b \in Actions : ActionAudit(b)'
    BY <2>5, SameAudit
  <2>7. /\ Appended(journal)'
        /\ IsClosed(journal.act) => IsClosed(journal.act)'
        /\ With(journal.act, {"skipped"}) \subseteq With(journal.act, {"skipped"})'
    BY <1>3, <1>4, <2>4 DEF OnlyEvidence, Appended, IsClosed, Terminals, With
  <2>8. JournalAudit(journal)'
    BY <1>3, <2>7, EvidenceJournaled
  <2> QED
    BY <2>6, <2>8 DEF AuditInv
<1>5. CASE Unappended(journal)
  <2>1. AppendRecord(a, record) /\ Appended(journal)' /\ record.id = Len(evidence[a]) + 1
    BY <1>1, <1>2, <1>5, EvidenceAppended DEF Unappended
  <2>2. Agrees(a, record)
    BY <1>1, <1>2, <1>5, PreparedAgrees
  <2>3. \A b \in Actions : ActionAudit(b)'
    BY <1>3, <2>1, <2>2, AppendAudited
  <2>4. With(a, {"skipped"}) \subseteq With(a, {"skipped"})'
    <3>1. /\ DOMAIN evidence[a] \subseteq DOMAIN evidence'[a]
          /\ \A i \in DOMAIN evidence[a] : evidence'[a][i] = evidence[a][i]
      BY <1>3, <2>1, RecordAdded
    <3> QED
      BY <3>1 DEF With
  <2>5. IsClosed(journal.act) => IsClosed(journal.act)'
    BY <1>5, Applied DEF StageReached
  <2>6. With(journal.act, {"skipped"})' = With(a, {"skipped"})'
    BY <1>1, <1>3 DEF OnlyEvidence, With
  <2>7. JournalAudit(journal)'
    BY <1>1, <1>3, <2>1, <2>4, <2>5, <2>6, EvidenceJournaled
  <2> QED
    BY <2>3, <2>7 DEF AuditInv
<1> QED
  BY <1>4, <1>5, Applied

-----------------------------------------------------------------------------
(* The last stage *)

\* What the journal still excused has been done by now.
LEMMA FinishAudits ==
    ASSUME ControlInv, LifecycleInv, StoreInv, AuditInv, Advance, worker.pc = "finish"
    PROVE  AuditInv'
<1>1. /\ journal' = NULL /\ journal # NULL
      /\ UNCHANGED <<reservations, entries, reconciliations, approvals, evidence>>
  BY Applied DEF Advance, WriteStage, Finish, ledgerVars, approvalVars
<1>2. JournalAudit(journal) /\ AssertSound(journal) /\ EvidenceTypeOK
  BY <1>1 DEF AuditInv, StoreInv, JournalSound, ControlInv, TypeOK
<1>3. ASSUME NEW b \in Actions, journal.act = b, Appended(journal),
             journal.record.status \in TerminalResults
      PROVE  IsClosed(b) /\ HasRecord(b, journal.record.id)
  <2>1. PICK id \in Nat \ {0} : id = journal.record.id
    BY Applied DEF EvidenceRecord
  <2>2. evidence[b][id] = journal.record /\ Len(evidence[b]) = id
    BY <1>3, <2>1 DEF Appended
  <2>3. id \in DOMAIN evidence[b]
    BY <1>2, <2>1, <2>2, EvidenceRead
  <2> QED
    BY <1>3, <2>1, <2>2, <2>3 DEF IsClosed, Terminals, With, HasRecord
<1>4. ASSUME NEW b \in Actions
      PROVE  /\ JournalIs({"execution_complete"}, b) =>
                  IsClosed(b) /\ HasRecord(b, journal.record.id) /\ ~Is(b, {"executing"})
             /\ JournalIs({"authorization_reconcile"}, b) => IsClosed(b)
             /\ JournalIs(Deciding, b) => reservations[b] = 0
  <2>1. CASE JournalIs({"execution_complete"}, b)
    <3>1. /\ journal.act = b /\ journal.kind = "execution_complete"
          /\ Appended(journal) /\ ~Is(b, {"executing"})
      BY <1>2, <2>1 DEF JournalIs, JournalAudit, CompleteAudit
    <3>2. journal.record.status \in TerminalResults
      BY <3>1, Applied DEF RecordOf, TerminalResults
    <3> QED
      BY <1>3, <2>1, <3>1, <3>2 DEF JournalIs, Deciding
  <2>2. CASE JournalIs({"authorization_reconcile"}, b)
    <3>1. /\ journal.act = b /\ journal.kind = "authorization_reconcile"
          /\ Appended(journal)
      BY <1>2, <2>2 DEF JournalIs, AssertSound
    <3>2. journal.record.status \in TerminalResults
      BY <3>1, Applied DEF RecordOf, TerminalResults, Outcomes
    <3> QED
      BY <1>3, <2>2, <3>1, <3>2 DEF JournalIs, Deciding
  <2>3. JournalIs(Deciding, b) => reservations[b] = 0
    BY <1>2 DEF JournalIs, JournalAudit
  <2> QED
    BY <2>1, <2>2, <2>3
<1>5. ASSUME NEW b \in Actions
      PROVE  ActionAudit(b)'
  <2>1. /\ SameRest(b) /\ approvals'[b] = approvals[b]
        /\ HasApproval(b)' = HasApproval(b)
        /\ LedgerAudit(b) /\ ApprovalAudit(b) /\ AllowedAudit(b)
    BY <1>1 DEF SameRest, HasApproval, AuditInv, ActionAudit
  <2>2. /\ EntriesOf(b, {"debit"})' = EntriesOf(b, {"debit"})
        /\ With(b, {"skipped"})' = With(b, {"skipped"})
        /\ LastReserve(b)' = LastReserve(b)
        /\ Unspent(b)' = Unspent(b) /\ Spent(b)' = Spent(b)
        /\ IsClosed(b)' = IsClosed(b) /\ Terminal(b)' = Terminal(b)
        /\ Terminals(b)' = Terminals(b) /\ Sealed(b)' = Sealed(b)
    BY <2>1, SameRead
  <2>3. ASSUME NEW i \in EntriesOf(b, {"debit"}), entries[b][i].record # NoRecord
        PROVE  ResultKnown(b, entries[b][i])'
    <3>1. PICK e : e = entries[b][i]
      OBVIOUS
    <3>2. e = entries'[b][i] /\ ResultKnown(b, e)
      BY <1>1, <2>1, <2>3, <3>1 DEF LedgerAudit
    <3>3. PICK id : id = e.record
      OBVIOUS
    <3>4. HasRecord(b, id)' = HasRecord(b, id) /\ RecordById(b, id)' = RecordById(b, id)
      BY <2>1, SameRead
    <3>5. HasRecord(b, id)
      BY <1>4, <3>2, <3>3 DEF ResultKnown
    <3> QED
      BY <3>1, <3>2, <3>3, <3>4, <3>5 DEF ResultKnown
  <2>7. OneSettlement(b)'
    BY <1>1, <2>1, <2>2 DEF LedgerAudit, OneSettlement
  <2>4. LedgerAudit(b)'
    BY <1>1, <1>4, <2>1, <2>2, <2>3, <2>7 DEF LedgerAudit
  <2>5. ApprovalAudit(b)'
    <3>1. HasApproval(b) /\ approvals[b].status = "rejected" => ~(reservations[b] > 0)
      BY <1>4, <2>1 DEF ApprovalAudit
    <3>2. HasApproval(b) /\ approvals[b].status = "executing" =>
            ~JournalIs({"execution_complete"}, b)
      BY <1>4 DEF Is
    <3> QED
      BY <1>1, <2>1, <2>2, <3>1, <3>2 DEF ApprovalAudit
  <2>6. AllowedAudit(b)'
    BY <1>1, <1>4, <2>1, <2>2 DEF AllowedAudit, MarkerAudit
  <2> QED
    BY <2>4, <2>5, <2>6 DEF ActionAudit
<1> QED
  BY <1>1, <1>5 DEF AuditInv

LEMMA AdvanceAudits ==
    ASSUME ControlInv, LifecycleInv, StoreInv, RecoveryInv, AuditInv, Advance
    PROVE  AuditInv'
<1>1. worker.pc \in Stages
  BY DEF Advance
<1> QED
  BY <1>1, BudgetAudits, StoringAudits, EvidenceAudits, FinishAudits DEF Stages

-----------------------------------------------------------------------------
(* Every step *)

LEMMA NextAudit ==
    ASSUME ControlInv, LifecycleInv, StoreInv, RecoveryInv, AuditInv, Next
    PROVE  AuditInv'
<1>1. CASE Entering
  BY <1>1, EnterAudits, DecisionsAudit DEF Entering
<1>2. CASE Applying
  BY <1>2, AdvanceAudits, EnterAudits DEF Applying
<1>3. CASE Handling
  BY <1>3, HandleBlockedAudits, AuthorizeAudits, HoldAudits, HandleAllowAudits, EnterAudits
  DEF Handling
<1>4. CASE Completing
  <2>1. CASE Execute
    <3>1. PICK a \in Actions : a = worker.act
      BY <2>1 DEF Execute, At, ControlInv, WorkerInv, WorkerAction, Acting
    <3> QED
      BY <2>1, RunAudits
  <2> QED
    BY <1>4, <2>1, EnterAudits, CompletionsAudit DEF Completing
<1>5. CASE Resuming
  BY <1>5, DecideAudits, EnterAudits, DecisionsAudit, BeginAudits, UnreserveAudits,
     RecordBlockedAudits, ConsumeAudits
  DEF Resuming
<1>6. CASE Reconciling
  BY <1>6, ReconcileExecutionAudits, AssertionPreparedAudits, ChargeAssertedAudits,
     RecordAssertedAudits, ConsumeAudits
  DEF Reconciling
<1>7. CASE Outside
  BY <1>7, DecideAudits, RunAudits DEF Outside
<1>8. CASE Crash
  BY <1>8, EnterAudits
<1> QED
  BY <1>1, <1>2, <1>3, <1>4, <1>5, <1>6, <1>7, <1>8 DEF Next

LEMMA StutterAudit ==
    ASSUME ControlInv, AuditInv, UNCHANGED vars
    PROVE  AuditInv'
<1>1. UNCHANGED stores /\ worker' = worker
  BY DEF vars, stores
<1> QED
  BY <1>1, StoresUnwritten, MoveAudits DEF StaysBehind

LEMMA AuditInvariant == Spec => []AuditInv
<1>1. /\ ControlInv /\ LifecycleInv /\ StoreInv /\ RecoveryInv /\ AuditInv /\ [Next]_vars
      => AuditInv'
  BY NextAudit, StutterAudit
<1>2. Init => AuditInv
  BY InitAudit
<1> QED
  BY <1>1, <1>2, ControlInvariant, LifecycleInvariant, StoreInvariant, RecoveryInvariant,
     PTL DEF Spec

\* What the terminal record says an action cost is what settle, ensure_settlement and
\* reconcile_reservation took from the balance for it, whichever of them it was and
\* whatever crashed in between.
THEOREM PaidAsEvidenced == Spec => []ChargeMatchesEvidence
<1>1. ControlInv /\ LifecycleInv /\ StoreInv /\ RecoveryInv /\ AuditInv =>
        ChargeMatchesEvidence
  BY AuditMeans
<1> QED
  BY <1>1, ControlInvariant, LifecycleInvariant, StoreInvariant, RecoveryInvariant,
     AuditInvariant, PTL

\* Whatever the moment, audit_state_integrity calls the state critical only where a
\* reservation is not followed by its authorization yet, where an approval ran out
\* outside an operation, or where a cost went beyond the balance.
THEOREM CriticalOnlyKnown == Spec => []UnsafeOnlyKnown
<1>1. ControlInv /\ LifecycleInv /\ StoreInv /\ RecoveryInv /\ AuditInv => UnsafeOnlyKnown
  BY AuditMeans
<1> QED
  BY <1>1, ControlInvariant, LifecycleInvariant, StoreInvariant, RecoveryInvariant,
     AuditInvariant, PTL

=============================================================================
