----------------------------- MODULE Contracts -----------------------------
(***************************************************************************)
(* The vocabulary shared by the stores of the Defiant Agent Harness.       *)
(*                                                                         *)
(* An action is one proposed tool call (ProposedAction).  It belongs to    *)
(* one request for its whole life and keeps one authorization hash, so the *)
(* action alone names the pair (request_id, action_id) and the hash that   *)
(* the stores bind their rows to.                                          *)
(***************************************************************************)
EXTENDS Integers, Sequences, FiniteSets

CONSTANTS
    Actions,      \* the proposed actions
    Operators,    \* the human identities that decide and reconcile
    NULL          \* "no row", "no identity"

ASSUME NullAssumption == NULL \notin Actions \cup Operators

\* The outcomes an operator may assert for an uncertain execution.
Outcomes == {"succeeded", "failed", "not_executed"}

\* ResultStatus: what one evidence record says happened.
ResultStatuses ==
    {"succeeded", "failed", "blocked", "skipped", "pending_approval",
     "expired", "rejected", "not_executed"}

\* The statuses after which an authorization is closed.
TerminalResults ==
    {"succeeded", "failed", "blocked", "rejected", "expired", "not_executed"}

Decisions == {"allow", "block", "approval_required"}

\* The last of some positions of a log.
Latest(S) == CHOOSE i \in S : \A j \in S : j <= i

=============================================================================
