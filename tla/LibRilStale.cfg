\* One request answered while its client gives way to the next.
CONSTANTS
    Req = {r1}
    Thread = {u1}
    Fd = {f1, f2}
    MaxConn = 2
    MaxNitz = 1
    DebugUsed = FALSE
    NoReq = NoReq
    NoFd = NoFd
SPECIFICATION Spec
CHECK_DEADLOCK FALSE
INVARIANT AnswersReachTheirClient
