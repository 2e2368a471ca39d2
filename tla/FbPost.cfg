\* Three pages, as on the Y210's 480 x 1440 framebuffer; fb0 opened up to three times.
CONSTANTS
    Page = {p1, p2, p3}
    NoPage = NoPage
    MaxOpen = 3
SPECIFICATION FairSpec
CHECK_DEADLOCK FALSE
INVARIANTS
    NoTearing
PROPERTIES
    NoFrameDropped
    SurfaceFlingerReturns
    PanHappens
