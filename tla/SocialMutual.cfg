SPECIFICATION Spec
CONSTANTS
    Users = {u1, u2}
    NameOf <- MCNameOf
    Strangers = {x}
    MaxRequests = 2
INVARIANT
    OneFriendshipPerPair
