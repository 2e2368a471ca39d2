\* Six credits: the normal share of VI is above its minimum, and the pool
\* is still too small for all the packets at once.
CONSTANTS
    TotalCredits = 6
    PerMaxMsg = 1
    Thread = {u1, u2}
    MaxPkts <- MCMaxPkts
    MaxTxQueueDepth = 1
    NoThread = NoThread
SYMMETRY Symmetry
SPECIFICATION Spec
CHECK_DEADLOCK FALSE
INVARIANTS
    
    IssuedInOrder
    NoStall
    MinKept
