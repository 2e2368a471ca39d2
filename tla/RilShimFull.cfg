\* Two requests compete for one slot; allocation may fail.
CONSTANTS
    Token = {t1, t2}
    Block = {b1, b2}
    Aid = {a1}
    Worker = {w1, w2}
    Issued = {"GET_SIM_STATUS", "SETUP_DATA_CALL", "DATA_CALL_LIST", "GET_IMSI", "PIN", "SIM_IO", "OTHER"}
    MAX_PENDING = 1
    MallocFails = TRUE
    StrdupFails = TRUE
    NoToken = NoToken
    NoBlock = NoBlock
    NoAid = NoAid
SPECIFICATION Spec
SYMMETRY Symmetry
INVARIANTS
    SlotsMatchLibril
    
    ParamsLiveUntilAnswer
    FreedOnce
    LeakOnlyWhenFull
    IInv
