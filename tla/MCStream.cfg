SPECIFICATION MCSpec
CONSTANTS
    Client = {c1, c2}
    Messages <- SomeMessages
    BuffSize = 3
    None = None
    Nobody = Nobody
    HostAddrs = 3
    ReadLimit = 6
    StreamServer = {s1, s2}
    StreamClient = {c1, c2}
    InputSizes = {0, 2}
    ChunkSize = 2
    Room = 1
    Backlog = 1
    FifoReader = {r1, r2}
    FifoWriter = {w1, w2}
    MsgLen = 2
INVARIANTS EchoCorrect OneLineSucceeds HeadOnly WholeInputs EofOnlyShared
PROPERTIES StreamsEnd
CHECK_DEADLOCK FALSE
