SPECIFICATION MCSpec
CONSTANTS
    Proc = {p1, p2, p3}
    None = None
    MaxTestCount = 2
    MaxDead = 1
    MqProc = {p1, p2, p3}
    SemProc = {p1, p2, p3}
    NoSem = NoSem
    MaxMsg = 2
    MaxKilled = 1
INVARIANTS NothingLost SysVLifetime WaitsForTaken UnitsMatch
PROPERTIES IpcEnds
CHECK_DEADLOCK FALSE
