SPECIFICATION FairSpec
CONSTANTS
    Proc = {p1, p2, p3}
    Polls = 3
INVARIANTS UsedInitialised UnitConserved
PROPERTIES AllEnd
CHECK_DEADLOCK FALSE
