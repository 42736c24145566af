SPECIFICATION Spec
CONSTANTS
    Users = {u1, u2}
    NameOf <- MCNameOf
    Strangers = {x}
    MaxRequests = 2
SYMMETRY Symmetry
INVARIANTS
    FriendshipRowsUnique
    FriendshipWasAsked
    RequestsAreKept
    AcceptedAreFriends
    FriendViewMatches
    DMUnique
