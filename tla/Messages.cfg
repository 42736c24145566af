SPECIFICATION Spec
CONSTANTS
    Users = {u1, u2}
    Ids = {m1, m2, m3}
    NULL = NULL
    LIMIT = 1
    MaxTime = 1
    MaxFaults = 1
SYMMETRY Symmetry
INVARIANTS
    NothingStale
    NothingMissing
    RepliesPointBack
