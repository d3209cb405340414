------------------------- MODULE McpProxyProperties -------------------------
(* What proxies of one server promise: properties of McpProxy.             *)
EXTENDS McpProxy

Live(a) == approvals[a].status \in {"pending", "approved", "executing"}

\* However many proxies look the same call up at once, an approval runs the
\* upstream tool at most once, and only after an operator approved it
\* (_handle_existing acts on what find_execution read without the lock).
ApprovalRunsOnce ==
    \A a \in 1..Len(approvals) :
      /\ approvals[a].runs <= 1
      /\ approvals[a].runs = 1 => approvals[a].decider = "operator"

\* An exact call is waiting for one decision only, so that a retry cannot
\* collect a second approval: two live approvals of one call were created by
\* two proxies that both found nothing.
DuplicatesOnlyRaced ==
    \A a, b \in 1..Len(approvals) :
      a # b /\ Live(a) /\ Live(b) /\ approvals[a].params = approvals[b].params
        => approvals[a].by # approvals[b].by

\* Which approvals make the audit critical, after which every proxy ends at its
\* next call and none starts: those that ended with their reservation live.  The
\* proxies leave two kinds behind: a duplicate that was rejected by decide alone,
\* and an approval that fell due between the expiry and begin_execution.
UnsafeOnlyNamed ==
    \A a \in 1..Len(approvals) :
      approvals[a].status \in {"rejected", "expired", "consumed"} /\ approvals[a].reserved
        => \/ approvals[a].status = "rejected" /\ approvals[a].decider = "defiant-dedup"
           \/ approvals[a].status = "expired" /\ approvals[a].late

=============================================================================
