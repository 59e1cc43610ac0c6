SPECIFICATION Spec
CONSTANTS
    MaxPass = 2
    MaxView = 2
    Ranges <- MCRanges
INVARIANTS
    WriteConflictsReported
CHECK_DEADLOCK FALSE
