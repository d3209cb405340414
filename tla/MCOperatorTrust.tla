--------------------------- MODULE MCOperatorTrust ---------------------------
EXTENDS OperatorTrustProperties, TLC

TrustSymmetry == 
    Permutations(Procs) \cup Permutations(Operators) \cup Permutations(Keys)

=============================================================================
