------------------------- MODULE HookGateProperties -------------------------
(* What the native hook gate promises: properties of HookGate.             *)
EXTENDS HookGate

MayReport(c) == calls[c].stage \in {"allowed", "ran"}

\* The report of an earlier call of this name was delivered again.
Repeated(id) == \E c \in repeats : calls[c].id = id

\* A call that was allowed can have its result sealed: until it is reported,
\* its name stays bound to the authorization it was allowed by, which no other
\* call was allowed by (create refuses a name in use, resume_external looks at
\* the approval again).  The exception: calls without a tool_use_id share a
\* name with identical ones, and a report of an earlier one that is delivered
\* again seals the call that is under way.
AllowedCanComplete ==
    \A c \in Calls : MayReport(c) /\ calls[c].key \notin Delegated =>
      LET execution == executions[calls[c].id] IN
        /\ actions[calls[c].auth].call = c
        /\ ~Repeated(calls[c].id) =>
             /\ execution # NULL
             /\ execution.auth = calls[c].auth /\ execution.key = calls[c].key

\* A report that was accepted is sealed under the authorization of the very
\* call that it reports, and evidence never says that a call succeeded which
\* has not run, with the same exception.
SealedForItsCall ==
    /\ \A c \in Calls :
         calls[c].stage = "reported" /\ calls[c].key \notin Delegated =>
           actions[calls[c].auth].status = "succeeded"
    /\ \A a \in 1..Len(actions) : actions[a].status = "succeeded" =>
         \/ calls[actions[a].call].stage \in {"ran", "reported"}
         \/ Repeated(calls[actions[a].call].id)

Marking(a) ==
    \E c \in Calls : hooks[c].pc = "mark" /\ hooks[c].auth = a

\* A name that is still bound to an authorization with an outcome refuses every
\* later call.  For each such name one of these happened to its own
\* authorization: the process that sealed it is about to mark the name, or
\* failed between complete_external_call and mark_completed; or an operator
\* settled it, which does not write hook_executions.json.  No failure of any
\* other process leaves a name behind.
StuckNameOnlyKnown ==
    \A id \in UseIds :
      LET execution == executions[id] IN
        execution # NULL /\ execution.status = "authorized" =>
          \/ actions[execution.auth].status \in {"open", "asserted"}
          \/ Marking(execution.auth)
          \/ execution.auth \in unmarked

=============================================================================
