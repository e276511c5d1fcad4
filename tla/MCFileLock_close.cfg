SPECIFICATION MCSpec
CONSTANTS
    Proc = {1}
    Args <- Calls
    FlockProc = {1}
INVARIANTS Fd1StaysLocked
CHECK_DEADLOCK FALSE
