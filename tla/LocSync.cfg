\* Three calls on two slots; one call may find the pool full.
CONSTANTS
    c1 = c1
    c2 = c2
    c3 = c3
    Call = {c1, c2, c3}
    TypeOf <- MCTypeOf
    SIZE = 2
    MaySpurious = FALSE
    NoCall = NoCall
SPECIFICATION FairSpec
CHECK_DEADLOCK FALSE
INVARIANTS
    SlotsOwned
    NoSleepAfterArrival
    
PROPERTIES
    BusyReturns
