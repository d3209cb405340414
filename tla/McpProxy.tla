------------------------------ MODULE McpProxy ------------------------------
(***************************************************************************)
(* mcp/proxy.py: proxies of one MCP server over one state directory.       *)
(*                                                                         *)
(* A proxy handles one client message at a time.  For tools/call it expires*)
(* what is due, looks the exact call up among the approvals, and then      *)
(* answers, handles it as new, or resumes it; the second and the third run *)
(* under the authority lock, which is held while the upstream tool runs.   *)
(* Only an ApprovalError of resume is caught; a busy lock, a critical audit*)
(* or a duplicate that cannot be rejected ends the proxy.  The steps of the*)
(* harness are ControlLoop's, one step each here.                          *)
(***************************************************************************)
EXTENDS Naturals, Sequences

CONSTANTS
    Proxies,       \* processes with one execution_owner
    Params,        \* normalised params of tools/call: what execution_key hashes
    NULL,
    MaxApprovals,  \* bound: approvals
    MaxCrashes     \* bound: proxies killed

ASSUME ProxyAssumption ==
    /\ NULL \notin Proxies \cup Params
    /\ MaxApprovals \in Nat \ {0} /\ MaxCrashes \in Nat

VARIABLES
    approvals,     \* the approvals of this owner, oldest first
    proxies,       \* proxy -> what it is doing
    lock,          \* the proxy in the harness that waits for the upstream
    signed,        \* decisions need an operator's signature
    crashes        \* how many proxies were killed

vars == <<approvals, proxies, lock, signed, crashes>>

-----------------------------------------------------------------------------
(* State *)

Statuses ==
    {"pending", "approved", "rejected", "expired", "executing", "consumed"}

\* legacy: its execution_key still hashes a progress token.  reserved: it holds
\* a budget reservation.  decider: who approved or rejected it.  late: it was
\* overdue when begin_execution looked.  runs: how often the upstream ran it.
Approval ==
    [params : Params, legacy : BOOLEAN, status : Statuses, due : BOOLEAN,
     reserved : BOOLEAN, decider : {"operator", "defiant-dedup", NULL},
     late : BOOLEAN, by : Proxies \cup {NULL}, runs : Nat]

Locations ==
    {"ready", "expire", "find", "handle", "resume", "upstream", "dedup",
     "reject", "refusal", "ended"}

\* dups: the duplicates it read and has still to reject.
Proxy ==
    [pc : Locations, params : Params \cup {NULL}, found : 0..MaxApprovals,
     dups : SUBSET (1..MaxApprovals)]

Ready == [pc |-> "ready", params |-> NULL, found |-> 0, dups |-> {}]

TypeOK ==
    /\ approvals \in Seq(Approval) /\ Len(approvals) <= MaxApprovals
    /\ proxies \in [Proxies -> Proxy]
    /\ lock \in Proxies \cup {NULL}
    /\ signed \in BOOLEAN
    /\ crashes \in 0..MaxCrashes

Held(params, by, reserved, legacy) ==
    [params |-> params, legacy |-> legacy, status |-> "pending",
     due |-> FALSE, reserved |-> reserved, decider |-> NULL, late |-> FALSE,
     by |-> by, runs |-> 0]

\* A directory may hold approvals from before progress tokens were left out.
Init ==
    /\ \/ approvals = << >>
       \/ \E params \in Params, reserved \in BOOLEAN :
            approvals = <<Held(params, NULL, reserved, TRUE)>>
    /\ proxies = [p \in Proxies |-> Ready]
    /\ lock = NULL
    /\ signed \in BOOLEAN
    /\ crashes = 0

At(p, pc) == proxies[p].pc = pc

GoTo(p, pc) == proxies' = [proxies EXCEPT ![p].pc = pc]

Reply(p) == proxies' = [proxies EXCEPT ![p] = Ready]

Die(p) == proxies' = [proxies EXCEPT ![p] = [Ready EXCEPT !.pc = "ended"]]

Free == lock = NULL

\* require_safe: a terminal approval with a reservation is critical.
Safe ==
    \A a \in 1..Len(approvals) :
      approvals[a].status \in {"rejected", "expired", "consumed"} =>
        ~approvals[a].reserved

\* Mutant of ExpireDue: the reservation is kept.
ExpireKept(apps) ==
    [a \in 1..Len(apps) |->
       IF apps[a].status \in {"pending", "approved"} /\ apps[a].due
       THEN [apps[a] EXCEPT !.status = "expired"] ELSE apps[a]]

\* reconcile_expired_approvals, at the start of every entry point too.
ExpireDue(apps) ==
    [a \in 1..Len(apps) |->
       IF apps[a].status \in {"pending", "approved"} /\ apps[a].due
       THEN [apps[a] EXCEPT !.status = "expired", !.reserved = FALSE]
       ELSE apps[a]]

-----------------------------------------------------------------------------
(* accept_line *)

\* tools/call
Receive(p, params) ==
    /\ At(p, "ready")
    /\ proxies' = [proxies EXCEPT ![p] =
                     [pc |-> "expire", params |-> params, found |-> 0, dups |-> {}]]
    /\ UNCHANGED <<approvals, lock, signed, crashes>>

\* A method that is not permitted is refused, after an evidence record of no
\* action was appended under the lock.
RefuseMethod(p) ==
    /\ At(p, "ready")
    /\ GoTo(p, "refusal")
    /\ UNCHANGED <<approvals, lock, signed, crashes>>

\* The error that cites the record, or AuthorityLockError.
AnswerRefusal(p) ==
    /\ At(p, "refusal")
    /\ IF Free THEN Reply(p) ELSE Die(p)
    /\ UNCHANGED <<approvals, lock, signed, crashes>>

\* The first call of the harness expires what is due.
Expire(p) ==
    /\ At(p, "expire") /\ Free /\ Safe
    /\ approvals' = ExpireDue(approvals)
    /\ GoTo(p, "find")
    /\ UNCHANGED <<lock, signed, crashes>>

\* AuthorityLockError or StateIntegrityError: nothing catches them.
Ends(p) ==
    /\ proxies[p].pc \in {"expire", "handle", "resume"}
    /\ ~(Free /\ Safe)
    /\ Die(p)
    /\ UNCHANGED <<approvals, lock, signed, crashes>>

-----------------------------------------------------------------------------
(* _handle_tool_request *)

Unexpired(a) == approvals[a].status = "executing" \/ ~approvals[a].due

Newest(set) == CHOOSE a \in set : \A b \in set : b <= a

\* find_execution
Matches(params) ==
    {a \in 1..Len(approvals) :
       /\ approvals[a].params = params /\ ~approvals[a].legacy
       /\ approvals[a].status \in {"pending", "approved", "rejected", "executing"}
       /\ Unexpired(a)}

\* _find_legacy_progress_execution: executing before approved before pending.
Compatible(params) ==
    {a \in 1..Len(approvals) :
       /\ approvals[a].params = params
       /\ approvals[a].status \in {"pending", "approved", "executing"}
       /\ Unexpired(a)}

Priority(a) ==
    CASE approvals[a].status = "executing" -> 3
      [] approvals[a].status = "approved" -> 2
      [] approvals[a].status = "pending" -> 1

Preferred(set) ==
    Newest({a \in set : \A b \in set : Priority(b) <= Priority(a)})

\* Mutant of FindExisting: only what may be resumed is looked up.
FindApproved(params) ==
    LET found == {a \in Matches(params) : approvals[a].status = "approved"}
    IN  IF found = {} THEN 0 ELSE Newest(found)

FindExisting(params) ==
    IF Matches(params) # {} THEN Newest(Matches(params))
    ELSE IF Compatible(params) # {} THEN Preferred(Compatible(params))
    ELSE 0

\* Both lookups run without the lock.  What is pending, rejected or executing
\* is answered at once.
Find(p) ==
    LET found == FindExisting(proxies[p].params) IN
    /\ At(p, "find")
    /\ CASE found = 0 -> GoTo(p, "handle")
         [] found # 0 /\ approvals[found].status = "approved" ->
              proxies' = [proxies EXCEPT ![p].pc = "resume", ![p].found = found]
         [] found # 0 /\ approvals[found].status # "approved" -> Reply(p)
    /\ UNCHANGED <<approvals, lock, signed, crashes>>

\* handle_call: blocked, or allowed and run without an approval.
Handle(p) ==
    /\ At(p, "handle") /\ Free /\ Safe
    /\ approvals' = ExpireDue(approvals)
    /\ Reply(p)
    /\ UNCHANGED <<lock, signed, crashes>>

\* handle_call: held for approval.
Hold(p, reserved) ==
    /\ At(p, "handle") /\ Free /\ Safe /\ Len(approvals) < MaxApprovals
    /\ approvals' = Append(ExpireDue(approvals),
                           Held(proxies[p].params, p, reserved, FALSE))
    /\ Reply(p)
    /\ UNCHANGED <<lock, signed, crashes>>

\* Mutant of Resume: the status that Find read is trusted.
ResumeUnchecked(p) ==
    LET a == proxies[p].found IN
    /\ At(p, "resume") /\ Free /\ Safe
    /\ approvals' = [ExpireDue(approvals) EXCEPT ![a].status = "executing"]
    /\ lock' = p
    /\ GoTo(p, "upstream")
    /\ UNCHANGED <<signed, crashes>>

\* harness.resume: begin_execution, then the upstream is called.
Resume(p) ==
    LET a == proxies[p].found IN
    /\ At(p, "resume") /\ Free /\ Safe
    /\ ExpireDue(approvals)[a].status = "approved"
    /\ approvals' = [ExpireDue(approvals) EXCEPT ![a].status = "executing"]
    /\ lock' = p
    /\ GoTo(p, "upstream")
    /\ UNCHANGED <<signed, crashes>>

\* The ruleset changed, or policy blocks it now.
ResumeBlocked(p) ==
    LET a == proxies[p].found IN
    /\ At(p, "resume") /\ Free /\ Safe
    /\ ExpireDue(approvals)[a].status = "approved"
    /\ approvals' = [ExpireDue(approvals) EXCEPT
                       ![a].status = "consumed", ![a].reserved = FALSE]
    /\ GoTo(p, "dedup")
    /\ UNCHANGED <<lock, signed, crashes>>

\* ApprovalError: another proxy resumed it, or it expired.
ResumeRefused(p) ==
    /\ At(p, "resume") /\ Free /\ Safe
    /\ ExpireDue(approvals)[proxies[p].found].status # "approved"
    /\ approvals' = ExpireDue(approvals)
    /\ Reply(p)
    /\ UNCHANGED <<lock, signed, crashes>>

\* ApprovalError: it fell due after the expiry, and begin_execution writes it
\* expired alone, with no operation, release or evidence.
ResumeOverdue(p) ==
    LET a == proxies[p].found IN
    /\ At(p, "resume") /\ Free /\ Safe
    /\ ExpireDue(approvals)[a].status = "approved"
    /\ approvals' = [ExpireDue(approvals) EXCEPT
                       ![a].status = "expired", ![a].due = TRUE, ![a].late = TRUE]
    /\ Reply(p)
    /\ UNCHANGED <<lock, signed, crashes>>

\* The upstream ran the tool, or failed to: _complete_known_result.
Complete(p, ran) ==
    LET a == proxies[p].found IN
    /\ At(p, "upstream")
    /\ approvals' = [approvals EXCEPT ![a].status = "consumed",
                                      ![a].reserved = FALSE,
                                      ![a].runs = @ + (IF ran THEN 1 ELSE 0)]
    /\ lock' = NULL
    /\ GoTo(p, "dedup")
    /\ UNCHANGED <<signed, crashes>>

-----------------------------------------------------------------------------
(* _reject_duplicate_pending, without the lock *)

Duplicates(p) ==
    {a \in 1..Len(approvals) :
       /\ a # proxies[p].found
       /\ approvals[a].params = proxies[p].params
       /\ approvals[a].status = "pending" /\ ~approvals[a].due}

\* list_pending reads the file once.
ListDuplicates(p) ==
    /\ At(p, "dedup")
    /\ proxies' = [proxies EXCEPT ![p].pc = "reject", ![p].dups = Duplicates(p)]
    /\ UNCHANGED <<approvals, lock, signed, crashes>>

\* They are rejected oldest first.
NextDuplicate(p, a) ==
    /\ At(p, "reject")
    /\ a \in proxies[p].dups /\ \A b \in proxies[p].dups : a <= b

\* decide takes a decision without a signature on what is pending and in time.
Rejectable(a) == approvals[a].status = "pending" /\ ~approvals[a].due /\ ~signed

\* approvals.decide alone: no journaled operation, no release, no evidence.
RejectDuplicate(p, a) ==
    /\ NextDuplicate(p, a) /\ Rejectable(a)
    /\ approvals' = [approvals EXCEPT ![a].status = "rejected",
                                      ![a].decider = "defiant-dedup"]
    /\ proxies' = [proxies EXCEPT ![p].dups = @ \ {a}]
    /\ UNCHANGED <<lock, signed, crashes>>

\* It was decided or fell due meanwhile, or decisions are signed: nothing
\* catches the ApprovalError, and the call stays unanswered.
DecideRefused(p, a) ==
    /\ NextDuplicate(p, a) /\ ~Rejectable(a)
    /\ Die(p)
    /\ UNCHANGED <<approvals, lock, signed, crashes>>

Answer(p) ==
    /\ At(p, "reject") /\ proxies[p].dups = {}
    /\ Reply(p)
    /\ UNCHANGED <<approvals, lock, signed, crashes>>

-----------------------------------------------------------------------------
(* Operators, time, processes *)

\* The CLI approves without the lock.
Approve(a) ==
    /\ approvals[a].status = "pending" /\ ~approvals[a].due
    /\ approvals' = [approvals EXCEPT ![a].status = "approved",
                                      ![a].decider = "operator"]
    /\ UNCHANGED <<proxies, lock, signed, crashes>>

\* It rejects through the harness: reservation released, evidence sealed.
Reject(a) ==
    /\ Free /\ Safe
    /\ approvals[a].status = "pending" /\ ~approvals[a].due
    /\ approvals' = [ExpireDue(approvals) EXCEPT
                       ![a].status = "rejected", ![a].decider = "operator",
                       ![a].reserved = FALSE]
    /\ UNCHANGED <<proxies, lock, signed, crashes>>

\* The operator asserts what became of an execution without an outcome.
Reconcile(a) ==
    /\ Free /\ Safe
    /\ approvals[a].status = "executing"
    /\ approvals' = [approvals EXCEPT ![a].status = "consumed",
                                      ![a].reserved = FALSE]
    /\ UNCHANGED <<proxies, lock, signed, crashes>>

TimePasses(a) ==
    /\ ~approvals[a].due
    /\ approvals[a].status \in {"pending", "approved", "rejected"}
    /\ approvals' = [approvals EXCEPT ![a].due = TRUE]
    /\ UNCHANGED <<proxies, lock, signed, crashes>>

\* A proxy is killed; the kernel drops its lock.  The upstream may have run.
Crash(p, ran) ==
    /\ proxies[p].pc \notin {"ready", "ended"} /\ crashes < MaxCrashes
    /\ crashes' = crashes + 1
    /\ ran => lock = p
    /\ approvals' = IF ran THEN [approvals EXCEPT ![proxies[p].found].runs = @ + 1]
                           ELSE approvals
    /\ lock' = IF lock = p THEN NULL ELSE lock
    /\ Die(p)
    /\ UNCHANGED <<signed>>

\* build_harness takes the lock and audits.
Restart(p) ==
    /\ At(p, "ended") /\ Free /\ Safe
    /\ Reply(p)
    /\ UNCHANGED <<approvals, lock, signed, crashes>>

-----------------------------------------------------------------------------
Next ==
    \/ \E p \in Proxies :
         \/ \E params \in Params : Receive(p, params)
         \/ RefuseMethod(p) \/ AnswerRefusal(p)
         \/ Expire(p) \/ Ends(p) \/ Find(p)
         \/ Handle(p) \/ (\E reserved \in BOOLEAN : Hold(p, reserved))
         \/ Resume(p) \/ ResumeBlocked(p) \/ ResumeRefused(p) \/ ResumeOverdue(p)
         \/ \E ran \in BOOLEAN : Complete(p, ran) \/ Crash(p, ran)
         \/ ListDuplicates(p) \/ Answer(p)
         \/ \E a \in 1..Len(approvals) : RejectDuplicate(p, a) \/ DecideRefused(p, a)
         \/ Restart(p)
    \/ \E a \in 1..Len(approvals) :
         Approve(a) \/ Reject(a) \/ Reconcile(a) \/ TimePasses(a)

Spec == Init /\ [][Next]_vars

=============================================================================
