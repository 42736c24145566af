SPECIFICATION FairSpec
CONSTANTS
    Clients = {c, s}
    TLS = {s}
    Nobody = Nobody
    BodyLen = 2
    Room = 1
    MAX_EVENTS = 1
    MaxUnits <- MCMaxUnits
INVARIANTS
    TypeOK
    FramesStayWhole
CHECK_DEADLOCK FALSE
PROPERTIES
    EveryFrameIsHandled
    EveryHangupIsNoticed
