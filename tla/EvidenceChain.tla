--------------------------- MODULE EvidenceChain --------------------------
(***************************************************************************)
(* evidence.jsonl at the level of its physical lines, the durable head     *)
(* checkpoint evidence_head.json, and the external signed witness of that  *)
(* head: evidence/store.py, evidence_head.py, evidence_witness.py.  One    *)
(* process appends at a time (it holds the authority lock); it can stop    *)
(* inside a write, the file system can fail a write part of the way, and   *)
(* older copies of the files can be put back while nothing runs.           *)
(* A record hash is the number of the write that sealed the record.        *)
(***************************************************************************)
EXTENDS Naturals, Sequences, FiniteSets

CONSTANTS
    NULL,
    MaxRecords,    \* bound on the records ever prepared
    MaxBatch,      \* bound on the records one audited operation appends
    MaxLag,        \* max_unwitnessed_records
    MaxFaults,     \* bound on the stops and the failed writes
    MaxRestores    \* bound on the copies that are put back

ASSUME ChainAssumption ==
    /\ {MaxRecords, MaxBatch, MaxLag, MaxFaults, MaxRestores} \subseteq Nat
    /\ NULL \notin Nat

VARIABLES
    log,        \* the lines of evidence.jsonl
    head,       \* evidence_head.json, or NULL
    journal,    \* the record a pending journaled operation must append, or NULL
    proc,       \* the owning process
    witness,    \* the newest external witness, or NULL
    required,   \* the enrolled profile requires a witness
    sentinels,  \* .lock files that outlived their writer
    clock,      \* the newest record hash
    ids,        \* the record ids given out
    faults,
    copy,       \* a copy of the two files, or NULL
    restored,   \* what was put back from it
    sealed,     \* every record an append has reported as written
    witnessed   \* every hash that was witnessed before a restore

files == <<log, head>>
history == <<copy, restored, sealed, witnessed>>
vars == <<log, head, journal, proc, witness, required, sentinels, clock, ids,
          faults, copy, restored, sealed, witnessed>>

GENESIS == 0
LOG == "evidence.jsonl"
HEAD == "evidence_head.json"

Forms == {"whole", "unterminated", "garbage"}
Lines == [id : Nat, hash : Nat, prev : Nat, form : Forms]
Positions == [count : Nat, hash : Nat]

ASSUME NullAssumption == NULL \notin Positions

Down == [pc |-> "down", id |-> NULL, left |-> 0, doc |-> NULL]

TypeOK ==
    /\ log \in Seq(Lines)
    /\ head \in Positions \cup {NULL}
    /\ journal \in Nat \cup {NULL}
    /\ proc \in [pc : {"down", "up", "append", "advance", "clear"},
                 id : Nat \cup {NULL}, left : Nat,
                 doc : Positions \cup {NULL}]
    /\ witness \in Positions \cup {NULL}
    /\ required \in BOOLEAN
    /\ sentinels \subseteq {LOG, HEAD}
    /\ clock \in Nat /\ ids \in Nat /\ faults \in Nat
    /\ restored \subseteq {"log", "head", "witness"}
    /\ sealed \subseteq Lines
    /\ witnessed \subseteq Nat

Init ==
    /\ log = << >>
    /\ head = NULL
    /\ journal = NULL
    /\ proc = Down
    /\ witness = NULL
    /\ required = FALSE
    /\ sentinels = {}
    /\ clock = GENESIS /\ ids = 0 /\ faults = 0
    /\ copy = NULL
    /\ restored = {}
    /\ sealed = {}
    /\ witnessed = {}

-----------------------------------------------------------------------------
(* Reading.                                                                 *)

\* verify_evidence_records over _read_existing.  A last line without its
\* newline is read like any other line.
Verified(lines) ==
    \A i \in DOMAIN lines :
        /\ lines[i].form # "garbage"
        /\ lines[i].prev = IF i = 1 THEN GENESIS ELSE lines[i - 1].hash

\* evidence_position.
Position(lines) ==
    [count |-> Len(lines),
     hash  |-> IF lines = << >> THEN GENESIS ELSE lines[Len(lines)].hash]

\* assess_evidence_head, and _assess_position for a witness.
Assess(at, lines) ==
    LET here == Position(lines) IN
    IF here.count = at.count
    THEN IF here.hash = at.hash THEN "verified" ELSE "diverged"
    ELSE IF here.count < at.count THEN "rollback"
    ELSE IF at.count = 0
    THEN IF at.hash = GENESIS THEN "forward_recovery" ELSE "diverged"
    ELSE IF lines[at.count].hash = at.hash THEN "forward_recovery"
    ELSE "diverged"

\* Mutant of HeadUsable: a chain behind its checkpoint is accepted as well.
HeadUsableBehind ==
    head # NULL => Assess(head, log) \in {"verified", "forward_recovery", "rollback"}

\* Mutant of HeadUsable: a chain that extends its checkpoint is refused.
HeadExact == head # NULL => Assess(head, log) = "verified"

\* What reconcile_for_authority accepts.
HeadUsable ==
    head # NULL => Assess(head, log) \in {"verified", "forward_recovery"}

\* assess_witness with the enrolled lag bound.
WitnessOk(doc) ==
    /\ doc # NULL
    /\ Assess(doc, log) \in {"verified", "forward_recovery"}
    /\ Len(log) - doc.count <= MaxLag

\* The audit of these files: _audit_locks, _load_evidence (which also refuses
\* a record id it has seen), _audit_evidence_head, _audit_evidence_witness.
LocksClean == sentinels = {}
EvidenceTrusted ==
    /\ Verified(log)
    /\ \A i, j \in DOMAIN log : log[i].id = log[j].id => i = j
WitnessAudit == required => WitnessOk(proc.doc)
Safe == LocksClean /\ EvidenceTrusted /\ HeadUsable /\ WitnessAudit

-----------------------------------------------------------------------------
(* The owning process.                                                      *)

Free(fs) == fs \cap sentinels = {}

\* build_harness: the head and witness preflights, then the store's own
\* reconciliation, which writes the head.  The profile decides whether a
\* witness is required; rotating to one that does needs it at once.
StartProcess(require) ==
    /\ proc.pc = "down"
    /\ Free({LOG, HEAD})
    /\ Verified(log)
    /\ HeadUsable
    /\ required => require
    /\ require => head # NULL /\ WitnessOk(witness)
    /\ required' = require
    /\ head' = Position(log)
    /\ proc' = [pc |-> "up", id |-> NULL, left |-> 0, doc |-> witness]
    /\ UNCHANGED <<log, journal, witness, sentinels, clock, ids, faults, history>>

Shutdown ==
    /\ proc.pc = "up"
    /\ proc' = Down
    /\ UNCHANGED <<files, journal, witness, required, sentinels, clock, ids,
                   faults, history>>

\* An operation audits once and then appends up to MaxBatch records; only the
\* journaled ones are repeated after a stop.
Operate(batch, journaled) ==
    /\ proc.pc = "up"
    /\ journal = NULL
    /\ Safe
    /\ ids + batch <= MaxRecords
    /\ ids' = ids + 1
    /\ proc' = [proc EXCEPT !.pc = "append", !.id = ids', !.left = batch - 1]
    /\ journal' = IF journaled THEN ids' ELSE NULL
    /\ UNCHANGED <<files, witness, required, sentinels, clock, faults, history>>

\* recover_operation, before anything else is done.
Recover ==
    /\ proc.pc = "up"
    /\ journal # NULL
    /\ proc' = [proc EXCEPT !.pc = "append", !.id = journal, !.left = 0]
    /\ UNCHANGED <<files, journal, witness, required, sentinels, clock, ids,
                   faults, history>>

\* append, first: the head is brought up to a chain it lags behind.
Reconcile ==
    /\ proc.pc = "append"
    /\ Free({LOG, HEAD})
    /\ Verified(log)
    /\ head # NULL /\ Assess(head, log) = "forward_recovery"
    /\ head' = Position(log)
    /\ UNCHANGED <<log, journal, proc, witness, required, sentinels, clock, ids,
                   faults, history>>

Appendable ==
    /\ Free({LOG, HEAD})
    /\ Verified(log)
    /\ head # NULL /\ Assess(head, log) = "verified"

Present(id) == \E i \in DOMAIN log : log[i].id = id

\* append_idempotent recognises its own record.
Recognise ==
    /\ proc.pc = "append"
    /\ Appendable
    /\ journal = proc.id
    /\ Present(proc.id)
    /\ proc' = [proc EXCEPT !.pc = "clear"]
    /\ sealed' = sealed \cup {log[i] : i \in {j \in DOMAIN log :
                                            log[j].id = proc.id}}
    /\ UNCHANGED <<files, journal, witness, required, sentinels, clock, ids,
                   faults, copy, restored, witnessed>>

\* The bytes that go to the file: the line of the record, whole or cut off.
\* They are appended to what is there, so behind a line without its newline
\* they make one line that is no record.
NewLine(form) ==
    [id |-> proc.id, hash |-> clock + 1, prev |-> Position(log).hash,
     form |-> form]
Appended(form) ==
    IF log # << >> /\ log[Len(log)].form # "whole"
    THEN [log EXCEPT ![Len(log)].form = "garbage"]
    ELSE Append(log, NewLine(form))

\* Mutant of Writes: a journaled record is not looked for first.
WritesBlindly == proc.pc = "append" /\ Appendable

\* append and append_idempotent write a record that is not there.
Writes ==
    /\ proc.pc = "append"
    /\ Appendable
    /\ ~(journal = proc.id /\ Present(proc.id))

\* Mutant of WriteLine: the line stays in a buffer that is never flushed.
WriteUnflushed ==
    /\ Writes
    /\ clock' = clock + 1
    /\ proc' = [proc EXCEPT !.pc = "advance"]
    /\ UNCHANGED <<files, journal, witness, required, sentinels, ids, faults,
                   history>>

WriteLine ==
    /\ Writes
    /\ log' = Appended("whole")
    /\ clock' = clock + 1
    /\ proc' = [proc EXCEPT !.pc = "advance"]
    /\ UNCHANGED <<head, journal, witness, required, sentinels, ids, faults,
                   history>>

\* The write fails part of the way, for want of space, and append raises.
FailLine(form) ==
    /\ Writes
    /\ faults < MaxFaults
    /\ faults' = faults + 1
    /\ log' = Appended(form)
    /\ clock' = clock + 1
    /\ proc' = [proc EXCEPT !.pc = "up"]
    /\ UNCHANGED <<head, journal, witness, required, sentinels, ids, history>>

\* EvidenceHeadStateStore.advance, inside the log's own lock.  The record that
\* was sealed is what append returns.
AdvanceHead ==
    /\ proc.pc = "advance"
    /\ Free({HEAD})
    /\ head' = [count |-> head.count + 1, hash |-> clock]
    /\ sealed' = sealed \cup
          {[id |-> proc.id, hash |-> clock, prev |-> head.hash, form |-> "whole"]}
    /\ proc' = [proc EXCEPT !.pc = "clear"]
    /\ UNCHANGED <<log, journal, witness, required, sentinels, clock, ids,
                   faults, copy, restored, witnessed>>

\* The operation goes on: its journal entry is done with (external), and the
\* next record of the batch is appended without another audit.
Continue ==
    /\ proc.pc = "clear"
    /\ journal' = NULL
    /\ IF proc.left = 0
       THEN proc' = [proc EXCEPT !.pc = "up"] /\ UNCHANGED ids
       ELSE /\ ids' = ids + 1
            /\ proc' = [proc EXCEPT !.pc = "append", !.id = ids',
                                    !.left = @ - 1]
    /\ UNCHANGED <<files, witness, required, sentinels, clock, faults, history>>

\* append raises: a sentinel, a broken chain, a head that does not fit, or a
\* head write that fails.
Raise ==
    /\ \/ proc.pc = "append" /\ ~Appendable
          /\ ~(Free({LOG, HEAD}) /\ Verified(log) /\ HeadUsable)
          /\ UNCHANGED faults
       \/ proc.pc = "advance" /\ faults < MaxFaults /\ faults' = faults + 1
    /\ proc' = [proc EXCEPT !.pc = "up"]
    /\ UNCHANGED <<files, journal, witness, required, sentinels, clock, ids,
                   history>>

\* The process dies between two writes, or inside a lock.
Die ==
    /\ proc.pc # "down"
    /\ faults < MaxFaults
    /\ faults' = faults + 1
    /\ \E left \in CASE proc.pc = "append" -> {{}, {LOG}, {LOG, HEAD}}
                     [] proc.pc = "advance" -> {{LOG}, {LOG, HEAD}}
                     [] OTHER -> {{}} :
          sentinels' = sentinels \cup left
    /\ proc' = Down
    /\ UNCHANGED <<files, journal, witness, required, clock, ids, history>>

\* The process dies inside the write of a line.
DieWriting(form) ==
    /\ Writes
    /\ faults < MaxFaults
    /\ faults' = faults + 1
    /\ log' = Appended(form)
    /\ clock' = clock + 1
    /\ sentinels' = sentinels \cup {LOG}
    /\ proc' = Down
    /\ UNCHANGED <<head, journal, witness, required, ids, history>>

-----------------------------------------------------------------------------
(* The operator.                                                            *)

RemoveSentinel(f) ==
    /\ proc.pc = "down"
    /\ f \in sentinels
    /\ sentinels' = sentinels \ {f}
    /\ UNCHANGED <<files, journal, proc, witness, required, clock, ids, faults,
                   history>>

\* build_witness_payload.
Witnessable == head # NULL /\ Verified(log) /\ Assess(head, log) = "verified"

\* create_current_witness, under the authority lock.  A running process goes on
\* with the document it was started with.
CreateWitness ==
    /\ proc.pc \in {"down", "up"}
    /\ Witnessable
    /\ witness' = head
    /\ IF restored = {}
       THEN witnessed' = witnessed \cup {head.hash} /\ UNCHANGED restored
       ELSE restored' = restored \cup {"witness"} /\ UNCHANGED witnessed
    /\ UNCHANGED <<files, journal, proc, required, sentinels, clock, ids, faults,
                   copy, sealed>>

TakeCopy ==
    /\ MaxRestores > 0
    /\ proc.pc = "down"
    /\ copy = NULL /\ head # NULL
    /\ copy' = [log |-> log, head |-> head]
    /\ UNCHANGED <<files, journal, proc, witness, required, sentinels, clock, ids,
                   faults, restored, sealed, witnessed>>

Restore(parts) ==
    /\ proc.pc = "down"
    /\ copy # NULL /\ restored = {}
    /\ copy.log # log
    /\ restored' = parts
    /\ log' = IF "log" \in parts THEN copy.log ELSE log
    /\ head' = IF "head" \in parts THEN copy.head ELSE head
    /\ UNCHANGED <<journal, proc, witness, required, sentinels, clock, ids, faults,
                   copy, sealed, witnessed>>

Next ==
    \/ \E require \in BOOLEAN : StartProcess(require)
    \/ Shutdown
    \/ \E batch \in 1..MaxBatch, journaled \in BOOLEAN : Operate(batch, journaled)
    \/ Recover \/ Reconcile \/ Recognise \/ WriteLine
    \/ \E form \in {"unterminated", "garbage"} : FailLine(form)
    \/ AdvanceHead \/ Continue \/ Raise
    \/ Die
    \/ \E form \in {"unterminated", "garbage"} : DieWriting(form)
    \/ \E f \in {LOG, HEAD} : RemoveSentinel(f)
    \/ CreateWitness
    \/ TakeCopy
    \/ \E parts \in (SUBSET {"log", "head"}) \ {{}} : Restore(parts)

Spec == Init /\ [][Next]_vars

===========================================================================
