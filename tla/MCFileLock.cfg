SPECIFICATION MCSpec
CONSTANTS
    Proc = {1, 2, 3}
    Args <- Calls
    FlockProc = {1, 2}
INVARIANTS NoWaitCycle TwiceGranted FlockTests
PROPERTIES LockersEnd
CHECK_DEADLOCK FALSE
