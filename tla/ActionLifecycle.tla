-------------------------- MODULE ActionLifecycle --------------------------
(***************************************************************************)
(* What the harness promises about one proposed action, without a word     *)
(* about stores, locks, journals or crashes: an action is authorized at    *)
(* most once, runs at most once and only when authorized, and ends at most *)
(* once.  An action that is refused was never authorized.  A reported      *)
(* result is the result of a run; only an operator may end an action       *)
(* without one.                                                            *)
(***************************************************************************)
CONSTANT Actions

VARIABLES
    authorized,    \* action -> a sealed authorization exists
    ran,           \* action -> how often its side effect happened
    ending         \* action -> how its evidence ends

vars == <<authorized, ran, ending>>

Open == "open"
Refusals == {"blocked", "rejected", "expired"}
Results == {"succeeded", "failed"}
Assertions == {"asserted"}

Init ==
    /\ authorized = [a \in Actions |-> FALSE]
    /\ ran = [a \in Actions |-> 0]
    /\ ending = [a \in Actions |-> Open]

Authorize(a) ==
    /\ ending[a] = Open /\ ~authorized[a]
    /\ authorized' = [authorized EXCEPT ![a] = TRUE]
    /\ UNCHANGED <<ran, ending>>

\* An external runtime may run late, after an operator has ended the action.
Run(a) ==
    /\ authorized[a] /\ ran[a] = 0
    /\ ran' = [ran EXCEPT ![a] = 1]
    /\ UNCHANGED <<authorized, ending>>

End(a, how) ==
    /\ ending[a] = Open
    /\ how \in Refusals => ~authorized[a]
    /\ how \in Results => ran[a] = 1
    /\ ending' = [ending EXCEPT ![a] = how]
    /\ UNCHANGED <<authorized, ran>>

Next ==
    \E a \in Actions :
        \/ Authorize(a)
        \/ Run(a)
        \/ \E how \in Refusals \cup Results \cup Assertions : End(a, how)

Spec == Init /\ [][Next]_vars

=============================================================================
