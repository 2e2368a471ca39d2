\* Two clients in turn, two requests, two vendor threads, one NITZ report;
\* no symmetry, for liveness.
CONSTANTS
    Req = {r1, r2}
    Thread = {u1, u2}
    Fd = {f1, f2}
    MaxConn = 2
    MaxNitz = 1
    DebugUsed = TRUE
    NoReq = NoReq
    NoFd = NoFd
SPECIFICATION FairSpec
CHECK_DEADLOCK FALSE
INVARIANTS
    
    CancelReachesListed
    RequestInfoOwned
PROPERTIES
    HangUpNoticed
