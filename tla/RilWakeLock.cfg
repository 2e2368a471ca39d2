\* Two vendor threads, four responses, blocks scarce enough to be reused.
CONSTANTS
    Thread = {u1, u2}
    Info = {i1, i2, i3}
    MaxMsg = 4
    NoInfo = NoInfo
SPECIFICATION FairSpec
CHECK_DEADLOCK FALSE
INVARIANTS
    LockHasReleaser
    TimersAllocated
PROPERTIES
    LockReleased
