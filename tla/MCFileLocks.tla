---------------------------- MODULE MCFileLocks ----------------------------
EXTENDS FileLocksProperties, TLC

\* Processes, and threads of a process, differ only in their names.
LockSymmetry == Permutations(Procs) \cup Permutations(Names)

\* Two instances in one: the authority lock among all processes, until a store
\* is first written; from then on at most two processes run, without leaks.
TwoWrite == updates.started > 0 => Cardinality(alive) <= 2 /\ leaked = {}

=============================================================================
