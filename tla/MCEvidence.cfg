\* Operations of one or two records, a witness that may lag by one record, and
\* one restore.
SPECIFICATION Spec
CONSTANTS
    NULL = NULL
    MaxRecords = 4
    MaxBatch = 2
    MaxLag = 1
    MaxFaults = 2
    MaxRestores = 1
INVARIANTS AcknowledgedKept RecordedOnce ChainDoesNotFork StuckOnlyKnown
CHECK_DEADLOCK FALSE
