\* One busy TID whose sequence numbers 14, 15, 0, 1 wrap, one that shares its timer.
CONSTANTS
    Tid = {"be", "vo"}
    SeqSpace = 16
    WinSz = 2
    FirstFrame = 14
    LastFrame <- MCLastFrame
SPECIFICATION Spec
CHECK_DEADLOCK FALSE
INVARIANTS
    
    
    HeldHasTimer
