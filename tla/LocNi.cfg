CONSTANTS
    Req = {r1, r2, r3}
    ThreadMayFail = TRUE
    None = None
SPECIFICATION FairSpec
CHECK_DEADLOCK FALSE
INVARIANTS
    OneSession
PROPERTIES
    SessionEnds
