SPECIFICATION FairSpec
CONSTANTS
    Proc = {p1, p2, p3}
    None = None
    UIntMax = 3
    MaxDead = 1
    MaxSpurious = 1
INVARIANTS NoLostWakeup
PROPERTIES IsExclusive Terminates
CHECK_DEADLOCK FALSE
