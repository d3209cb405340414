------------------------------ MODULE HookGate ------------------------------
(***************************************************************************)
(* hooks/copilot.py, hooks/codex.py and hooks/state.py: the gate that an   *)
(* agent runtime calls before and after a tool of its own.                 *)
(*                                                                         *)
(* Every event starts a process that reads the approvals, makes one call   *)
(* of the harness, writes hook_executions.json and answers; any number of  *)
(* them run at once, and each may fail or be killed between two of these.  *)
(* A call of the harness is one step here: ControlLoop is about its parts. *)
(***************************************************************************)
EXTENDS Naturals, FiniteSets, Sequences

CONSTANTS
    Calls,         \* tool calls of the runtime
    Keys,          \* exact calls: session, model, native name and input
    Allowed,       \* the keys that policy allows,
    Held,          \* holds for approval,
    Delegated,     \* or allows as calls of the MCP proxy, which governs them
    NULL,
    MaxActions,    \* bound: authorizations and approvals
    MaxFailures,   \* bound: processes that fail or are killed
    MaxRepeats     \* bound: reports that the runtime delivers again

ASSUME HookAssumption ==
    /\ Allowed \subseteq Keys /\ Held \subseteq Keys /\ Delegated \subseteq Keys
    /\ Allowed \cap Held = {} /\ Delegated \cap (Allowed \cup Held) = {}
    /\ {MaxActions, MaxFailures, MaxRepeats} \subseteq Nat
    /\ NULL \notin Keys \cup Calls

VARIABLES
    calls,         \* call -> where it stands, as the runtime knows
    hooks,         \* call -> the process of its event
    actions,       \* the actions the harness recorded, oldest first
    executions,    \* hook_executions.json: tool_use_id -> HookExecution
    failures,      \* how many processes failed
    unmarked,      \* the authorizations that were sealed by a process that
                   \*   failed before mark_completed
    repeats        \* the calls whose report was delivered again

vars == <<calls, hooks, actions, executions, failures, unmarked, repeats>>

-----------------------------------------------------------------------------
(* State *)

\* The runtime names a call, or the gate derives a name from its key.
UseIds == Calls \cup Keys

Stages == {"new", "asked", "denied", "allowed", "ran", "reported"}

Call ==
    [stage : Stages, key : Keys \cup {NULL}, id : UseIds \cup {NULL},
     auth : 0..MaxActions]

\* An action with its approval or sealed authorization.  call: for whom it
\* was opened last.
Statuses ==
    {"pending", "approved", "rejected", "expired", "open", "blocked",
     "succeeded", "asserted"}

Action ==
    [key : Keys, held : BOOLEAN, status : Statuses, due : BOOLEAN,
     call : Calls \cup {NULL}]

HookExecution ==
    [key : Keys, auth : 1..MaxActions, status : {"authorized", "completed"}]

ASSUME NullAssumption == NULL \notin HookExecution

Locations ==
    {"none", "find", "preflight", "resume", "remember", "answer",
     "correlate", "complete", "mark"}

\* auth: the action that the process looked up or was authorized for.
Process == [pc : Locations, auth : 0..MaxActions]

NoProcess == [pc |-> "none", auth |-> 0]

TypeOK ==
    /\ calls \in [Calls -> Call]
    /\ hooks \in [Calls -> Process]
    /\ actions \in Seq(Action) /\ Len(actions) <= MaxActions
    /\ executions \in [UseIds -> HookExecution \cup {NULL}]
    /\ failures \in 0..MaxFailures
    /\ unmarked \subseteq 1..MaxActions
    /\ repeats \subseteq Calls

Init ==
    /\ calls = [c \in Calls |->
                  [stage |-> "new", key |-> NULL, id |-> NULL, auth |-> 0]]
    /\ hooks = [c \in Calls |-> NoProcess]
    /\ actions = << >>
    /\ executions = [i \in UseIds |-> NULL]
    /\ failures = 0
    /\ unmarked = {}
    /\ repeats = {}

At(c, pc) == hooks[c].pc = pc

GoTo(c, pc, auth) == hooks' = [hooks EXCEPT ![c] = [pc |-> pc, auth |-> auth]]

End(c) == GoTo(c, "none", 0)

SetStage(c, stage) == calls' = [calls EXCEPT ![c].stage = stage]

Deny(c) == SetStage(c, "denied") /\ End(c)

-----------------------------------------------------------------------------
(* The harness, one call of it at a time *)

\* find_execution: a held action of the key that is still of interest.
IsActive(a, key) ==
    /\ actions[a].key = key /\ actions[a].held
    /\ \/ actions[a].status = "open"
       \/ actions[a].status \in {"pending", "approved", "rejected"}
          /\ ~actions[a].due

\* The newest one, or 0.
FindExecution(key) ==
    LET active == {a \in 1..Len(actions) : IsActive(a, key)}
    IN  IF active = {} THEN 0
        ELSE CHOOSE a \in active : \A b \in active : b <= a

\* reconcile_expired_approvals, at the start of every entry point.
ExpireDue(acts) ==
    [a \in 1..Len(acts) |->
       IF acts[a].status \in {"pending", "approved"} /\ acts[a].due
       THEN [acts[a] EXCEPT !.status = "expired"] ELSE acts[a]]

NewAction(c, held, status) ==
    [key |-> calls[c].key, held |-> held, status |-> status, due |-> FALSE,
     call |-> IF status = "open" THEN c ELSE NULL]

\* preflight_external_call.  Policy allows: a sealed authorization.
PreflightAllow(c) ==
    /\ At(c, "preflight") /\ Len(actions) < MaxActions
    /\ calls[c].key \in Allowed \cup Delegated
    /\ actions' = Append(ExpireDue(actions), NewAction(c, FALSE, "open"))
    /\ GoTo(c, IF calls[c].key \in Delegated THEN "answer" ELSE "remember",
            Len(actions) + 1)
    /\ UNCHANGED <<calls, executions, failures, unmarked, repeats>>

\* Policy holds the call: an approval.
PreflightHold(c) ==
    /\ At(c, "preflight") /\ Len(actions) < MaxActions
    /\ calls[c].key \in Held
    /\ actions' = Append(ExpireDue(actions), NewAction(c, TRUE, "pending"))
    /\ Deny(c)
    /\ UNCHANGED <<executions, failures, unmarked, repeats>>

\* Policy, a contract or the budget blocks it.
PreflightBlock(c) ==
    /\ At(c, "preflight")
    /\ calls[c].key \notin Allowed \cup Delegated \cup Held
    /\ actions' = ExpireDue(actions)
    /\ Deny(c)
    /\ UNCHANGED <<executions, failures, unmarked, repeats>>

Open(acts, a, c) == [acts EXCEPT ![a].status = "open", ![a].call = c]

\* Mutant of ResumeExternal: what was approved when it was looked up is taken
\* as approved now.
ResumeUnchecked(c) ==
    /\ At(c, "resume")
    /\ actions' = Open(ExpireDue(actions), hooks[c].auth, c)
    /\ GoTo(c, "remember", hooks[c].auth)
    /\ UNCHANGED <<calls, executions, failures, unmarked, repeats>>

\* resume_external: the approval that was found is still approved.
ResumeExternal(c) ==
    /\ At(c, "resume")
    /\ ExpireDue(actions)[hooks[c].auth].status = "approved"
    /\ actions' = Open(ExpireDue(actions), hooks[c].auth, c)
    /\ GoTo(c, "remember", hooks[c].auth)
    /\ UNCHANGED <<calls, executions, failures, unmarked, repeats>>

\* The ruleset changed, or policy or the budget blocks it now.
ResumeBlocked(c) ==
    /\ At(c, "resume")
    /\ ExpireDue(actions)[hooks[c].auth].status = "approved"
    /\ actions' = [ExpireDue(actions) EXCEPT ![hooks[c].auth].status = "blocked"]
    /\ Deny(c)
    /\ UNCHANGED <<executions, failures, unmarked, repeats>>

\* ApprovalError: it is executing, consumed, or expired.
ResumeRefused(c) ==
    /\ At(c, "resume")
    /\ ExpireDue(actions)[hooks[c].auth].status # "approved"
    /\ actions' = ExpireDue(actions)
    /\ Deny(c)
    /\ UNCHANGED <<executions, failures, unmarked, repeats>>

\* complete_external_call: the authorization has no terminal outcome yet.
CompleteExternal(c) ==
    /\ At(c, "complete")
    /\ actions[hooks[c].auth].status = "open"
    /\ actions' = [actions EXCEPT ![hooks[c].auth].status = "succeeded"]
    /\ GoTo(c, "mark", hooks[c].auth)
    /\ UNCHANGED <<calls, executions, failures, unmarked, repeats>>

\* ToolContractError or ApprovalError.
CompleteRefused(c) ==
    /\ At(c, "complete")
    /\ actions[hooks[c].auth].status # "open"
    /\ End(c)
    /\ UNCHANGED <<calls, actions, executions, failures, unmarked, repeats>>

-----------------------------------------------------------------------------
(* PreToolUse *)

\* The runtime asks, with a tool_use_id of its own or without one.
PreToolUse(c, key, id) ==
    /\ calls[c].stage = "new" /\ At(c, "none")
    /\ calls' = [calls EXCEPT ![c] =
                   [stage |-> "asked", key |-> key, id |-> id, auth |-> 0]]
    /\ GoTo(c, "find", 0)
    /\ UNCHANGED <<actions, executions, failures, unmarked, repeats>>

\* find_execution, without the authority lock, and _pre_existing.
Find(c) ==
    LET found == FindExecution(calls[c].key) IN
    /\ At(c, "find")
    /\ CASE found = 0 -> GoTo(c, "preflight", 0) /\ UNCHANGED calls
         [] found # 0 /\ actions[found].status = "approved" ->
              GoTo(c, "resume", found) /\ UNCHANGED calls
         [] found # 0 /\ actions[found].status # "approved" -> Deny(c)
    /\ UNCHANGED <<actions, executions, failures, unmarked, repeats>>

\* Mutant of CanCreate: an identical call takes the name over at any time.
CanCreateAny(prior, new) == prior # NULL => prior.key = new.key

Same(prior, new) ==
    prior # NULL /\ prior.key = new.key /\ prior.auth = new.auth

\* HookExecutionStore.create: the name is free, it is this authorization's
\* already, or its last call is complete and was identical.
CanCreate(prior, new) ==
    \/ prior = NULL
    \/ Same(prior, new)
    \/ prior # NULL /\ prior.status = "completed" /\ prior.key = new.key

\* _remember_authorization
Remember(c) ==
    LET new == [key |-> calls[c].key, auth |-> hooks[c].auth,
                status |-> "authorized"]
    IN  /\ At(c, "remember")
        /\ CanCreate(executions[calls[c].id], new)
        /\ executions' = [executions EXCEPT ![calls[c].id] =
                            IF Same(@, new) THEN @ ELSE new]
        /\ GoTo(c, "answer", hooks[c].auth)
        /\ UNCHANGED <<calls, actions, failures, unmarked, repeats>>

\* "was already authorized": the call is denied, its authorization stays open.
RememberRefused(c) ==
    /\ At(c, "remember")
    /\ ~CanCreate(executions[calls[c].id],
                  [key |-> calls[c].key, auth |-> hooks[c].auth,
                   status |-> "authorized"])
    /\ Deny(c)
    /\ UNCHANGED <<actions, executions, failures, unmarked, repeats>>

\* _pre_output: "allow" reaches the runtime.
Answer(c) ==
    /\ At(c, "answer")
    /\ calls' = [calls EXCEPT ![c].stage = "allowed", ![c].auth = hooks[c].auth]
    /\ End(c)
    /\ UNCHANGED <<actions, executions, failures, unmarked, repeats>>

-----------------------------------------------------------------------------
(* PostToolUse *)

\* The runtime reports a tool that ran, perhaps again.
PostToolUse(c) ==
    /\ calls[c].stage \in {"ran", "reported"} /\ At(c, "none")
    /\ \/ calls[c].stage = "ran" /\ UNCHANGED repeats
       \/ /\ calls[c].stage = "reported" /\ c \notin repeats
          /\ Cardinality(repeats) < MaxRepeats
          /\ repeats' = repeats \cup {c}
    /\ GoTo(c, "correlate", 0)
    /\ UNCHANGED <<calls, actions, executions, failures, unmarked>>

\* The remembered authorization is for this very input and native name.
Correlated(c) ==
    LET execution == executions[calls[c].id]
    IN  execution # NULL /\ execution.key = calls[c].key

Correlate(c) ==
    LET execution == executions[calls[c].id] IN
    /\ At(c, "correlate")
    /\ CASE calls[c].key \in Delegated ->
              SetStage(c, "reported") /\ End(c)
         [] calls[c].key \notin Delegated /\ ~Correlated(c) ->
              End(c) /\ UNCHANGED calls
         [] calls[c].key \notin Delegated /\ Correlated(c)
            /\ execution.status = "completed" ->
              SetStage(c, "reported") /\ End(c)
         [] calls[c].key \notin Delegated /\ Correlated(c)
            /\ execution.status # "completed" ->
              GoTo(c, "complete", execution.auth) /\ UNCHANGED calls
    /\ UNCHANGED <<actions, executions, failures, unmarked, repeats>>

\* Mutant of Mark: the execution is not marked completed.
MarkForgotten(c) ==
    /\ At(c, "mark")
    /\ SetStage(c, "reported")
    /\ End(c)
    /\ UNCHANGED <<actions, executions, failures, unmarked, repeats>>

\* mark_completed and _post_output
Mark(c) ==
    /\ At(c, "mark")
    /\ executions' = [executions EXCEPT ![calls[c].id].status = "completed"]
    /\ SetStage(c, "reported")
    /\ End(c)
    /\ UNCHANGED <<actions, failures, unmarked, repeats>>

-----------------------------------------------------------------------------
(* Failures, the runtime and the operator *)

\* The process is killed, or an exception (a busy lock, a storage error) makes
\* main answer "deny" or report a failure.
Fail(c) ==
    /\ hooks[c].pc # "none" /\ failures < MaxFailures
    /\ failures' = failures + 1
    /\ unmarked' = IF At(c, "mark") THEN unmarked \cup {hooks[c].auth} ELSE unmarked
    /\ IF calls[c].stage = "asked" THEN Deny(c) ELSE End(c) /\ UNCHANGED calls
    /\ UNCHANGED <<actions, executions, repeats>>

\* An allowed tool runs.
Run(c) ==
    /\ calls[c].stage = "allowed"
    /\ SetStage(c, "ran")
    /\ UNCHANGED <<hooks, actions, executions, failures, unmarked, repeats>>

\* The operator approves or rejects what is pending.
Decide(a, status) ==
    /\ actions[a].status = "pending" /\ ~actions[a].due
    /\ actions' = [actions EXCEPT ![a].status = status]
    /\ UNCHANGED <<calls, hooks, executions, failures, unmarked, repeats>>

\* The operator settles an authorization that has no outcome.
Reconcile(a) ==
    /\ actions[a].status = "open"
    /\ actions' = [actions EXCEPT ![a].status = "asserted"]
    /\ UNCHANGED <<calls, hooks, executions, failures, unmarked, repeats>>

TimePasses(a) ==
    /\ actions[a].status \in {"pending", "approved", "rejected"}
    /\ ~actions[a].due
    /\ actions' = [actions EXCEPT ![a].due = TRUE]
    /\ UNCHANGED <<calls, hooks, executions, failures, unmarked, repeats>>

-----------------------------------------------------------------------------
Next ==
    \/ \E c \in Calls :
         \/ \E key \in Keys, id \in UseIds :
              id \in {c, key} /\ PreToolUse(c, key, id)
         \/ Find(c)
         \/ PreflightAllow(c) \/ PreflightHold(c) \/ PreflightBlock(c)
         \/ ResumeExternal(c) \/ ResumeBlocked(c) \/ ResumeRefused(c)
         \/ Remember(c) \/ RememberRefused(c) \/ Answer(c)
         \/ Run(c)
         \/ PostToolUse(c) \/ Correlate(c)
         \/ CompleteExternal(c) \/ CompleteRefused(c) \/ Mark(c)
         \/ Fail(c)
    \/ \E a \in 1..Len(actions) :
         \/ \E status \in {"approved", "rejected"} : Decide(a, status)
         \/ Reconcile(a)
         \/ TimePasses(a)

Spec == Init /\ [][Next]_vars

=============================================================================
