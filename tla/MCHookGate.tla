----------------------------- MODULE MCHookGate -----------------------------
EXTENDS HookGateProperties, TLC

\* Calls differ only in their names.
CallSymmetry == Permutations(Calls)

=============================================================================
