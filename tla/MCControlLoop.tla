--------------------------- MODULE MCControlLoop ---------------------------
EXTENDS ControlLoopProperties, TLC

\* Nothing tells one action, or one operator, from another.
Symmetry == Permutations(Actions) \cup Permutations(Operators)
=============================================================================
