SPECIFICATION Spec
CONSTANTS
    Users = {1, 2}
    NoUser = NoUser
    FDs = {f1, f2}
    NoFD = NoFD
    Friendships <- MCFriendships
    Texts = {t1, t2}
    Name = Name
    NULL = NULL
    MaxUpdates = 3
SYMMETRY Symmetry
INVARIANTS
    OnlineFriendsAreSeen
    ProfileIsKept
    CopiesAreCurrent
