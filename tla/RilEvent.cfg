\* Exactly as many slots as libril has events; one timer, two clients.
CONSTANTS
    MAX_FD_EVENTS = 4
    Fd <- MCFd
    Timer = {t1}
    Delay = {0, 1}
    MaxTime = 2
    MaxConn = 2
    NoEvent = NoEvent
SPECIFICATION FairSpec
CHECK_DEADLOCK FALSE
INVARIANTS
    TableConsistent
    OneClientAtATime
    MutexKept
PROPERTIES
    TimersFire
    ReadyServed
