---------------------------- MODULE EvidenceLog ----------------------------
(***************************************************************************)
(* evidence/store.py as the control loop uses it: the records of one       *)
(* action, in the order in which they were sealed.                         *)
(***************************************************************************)
EXTENDS Contracts

VARIABLE evidence     \* action -> its sealed records, oldest first

EvidenceRecord ==
    [id : Nat \ {0}, status : ResultStatuses, decision : Decisions,
     by : Operators \cup {NULL},            \* approved_by
     cost : Nat, remaining : Int,           \* cost_usd, budget_remaining_usd
     outcome : Outcomes \cup {""},          \* reconciliation_outcome
     reconciledBy : Operators \cup {NULL}]

EvidenceTypeOK == evidence \in [Actions -> Seq(EvidenceRecord)]

EvidenceInit == evidence = [a \in Actions |-> << >>]

\* A record as _make_record prepares it.  Its record_id is fresh; the place it
\* is prepared for serves as one, since nothing else is appended for the same
\* action between the preparation and the append.
Make(a, status, decision, by) ==
    [id |-> Len(evidence[a]) + 1, status |-> status, decision |-> decision,
     by |-> by, cost |-> 0, remaining |-> 0, outcome |-> "",
     reconciledBy |-> NULL]

\* by_action, filtered by status.
With(a, statuses) ==
    {i \in DOMAIN evidence[a] : evidence[a][i].status \in statuses}

Terminals(a) == With(a, TerminalResults)
IsClosed(a) == Terminals(a) # {}

\* open_authorizations: sealed, and no terminal record closes it.
IsOpen(a) == With(a, {"skipped"}) # {} /\ ~IsClosed(a)

Authorization(a) == evidence[a][Latest(With(a, {"skipped"}))]
Terminal(a) == evidence[a][Latest(Terminals(a))]

HasRecord(a, id) == \E i \in DOMAIN evidence[a] : evidence[a][i].id = id
RecordById(a, id) ==
    evidence[a][CHOOSE i \in DOMAIN evidence[a] : evidence[a][i].id = id]

AppendRecord(a, record) ==
    evidence' = [evidence EXCEPT ![a] = Append(@, record)]

\* append_idempotent recognises its own record and refuses another record
\* that has its id.
CanAppendOnce(a, record) ==
    HasRecord(a, record.id) => RecordById(a, record.id) = record
\* Mutant of AppendOnce: a replayed record is appended again.
AppendAgain(a, record) == CanAppendOnce(a, record) /\ AppendRecord(a, record)


AppendOnce(a, record) ==
    /\ CanAppendOnce(a, record)
    /\ \/ HasRecord(a, record.id) /\ UNCHANGED evidence
       \/ ~HasRecord(a, record.id) /\ AppendRecord(a, record)

=============================================================================
