SPECIFICATION FairSpec
CONSTANTS
    Plugins = {p1, p2}
    Nobody = Nobody
    FDs = {f1, f2}
    MAX_IPC_CLIENTS = 2
    MaxFrames = 1
INVARIANTS
    LivePluginsStay
    ListenersKeepToTheirOwn
    SlotsAreOpen
PROPERTIES
    HungUpIsClosed
    EveryFrameIsAnswered
CHECK_DEADLOCK FALSE
