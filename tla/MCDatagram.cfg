SPECIFICATION MCSpec
CONSTANTS
    c1 = c1
    c2 = c2
    c3 = c3
    Client = {c1, c2}
    UnixClient = {c1, c2, c3}
    AddrLen <- PidLengths
    Port = {q1, q2}
    Lengths <- TwoArgs
    BuffSize = 2
    MaxDup = 1
    SockaddrLen = 5
    Args = 3
    QueueLen = 1
    None = None
INVARIANTS InetInStep UnixInStep
PROPERTIES AnswersCome
CHECK_DEADLOCK FALSE
