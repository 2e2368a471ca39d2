\* Three events of the modem, so that a request to open and one to close can
\* meet a third event, and two calls of the framework.
CONSTANTS
    MaxEvents = 3
    MaxCalls = 2
    None = None
SPECIFICATION FairSpec
CHECK_DEADLOCK FALSE
INVARIANTS
    WakeHeld
    AtlInOrder
PROPERTIES
    StopDone
