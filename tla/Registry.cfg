SPECIFICATION Spec
CONSTANTS
    Users = {u1, u2}
    NoUser = NoUser
    FDs = {f1, f2}
    NoFD = NoFD
    MAX_CLIENTS = 2
    MAX_EVENTS = 2
    MaxConns = 3
SYMMETRY Symmetry
INVARIANTS
    SlotsMatchSockets
    BatchIsFresh
    IdentityMatches
    PushReachesOwner
    OnlineIsReachable
CHECK_DEADLOCK FALSE
