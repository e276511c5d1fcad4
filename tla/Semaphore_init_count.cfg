SPECIFICATION Spec
CONSTANTS
    Proc = {p1, p2, p3}
    None = None
    UIntMax = 3
    MaxDead = 0
    MaxSpurious = 0
INVARIANTS InitCountIsOne
CHECK_DEADLOCK FALSE
