SPECIFICATION MCSpec
CONSTANTS
    Max = 3
    Recursive = TRUE
    Sleeps = 3
INVARIANTS FinalCount RwReaderLeavesLast CancelKept
PROPERTIES ThreadsEnd
CHECK_DEADLOCK FALSE
