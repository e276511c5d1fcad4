SPECIFICATION MCSpec
CONSTANTS
    PollTimeouts = 5
    EpollTimeouts = 3
    CloseAt = 2
    Filled = 2
    ReadMax = 2
    MaxInput = 3
    MaxWrites = 4
    MaxWrite = 3
    TotalSize = 5
    BufferSize = 2
    Limits = {3, 4, 5, 9}
    MaxFull = 2
    MapProg = {m1, m2}
    MapSize = 2
    TimerValueSec = 2
    TimerIntervalSec = 2
    CallbackCostTime = 5
    MaxCallbackCount = 2
    MaxThreads = 5
    FdValueSec = 3
    FdIntervalSec = 3
    FdMaxCallbackCount = 4
    EpollTimeout = 2
    MaxUnread = 2
    Second = 2
    SleepTimes = {0, 1, 3, 4}
    Rounding = 1
    MaxSignals = 2
    MaxLate = 2
INVARIANTS DrainedBeforeClose NeverShort SizeReported ShowsMapping
INVARIANTS ExitAfterMax CallbackPerExpiry SleepsAsAsked
PROPERTIES LoopsEnd TimersEnd
CHECK_DEADLOCK FALSE
