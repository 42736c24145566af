SPECIFICATION Spec
CONSTANTS
    Users = {u1, u2}
    Names = {general, other}
    General = general
    AskedPos <- MCAskedPos
    NoList = NoList
    MaxSpaces = 2
    MaxChannels = 3
    MaxFaults = 1
SYMMETRY Symmetry
INVARIANTS
    DistinctPositions
    DensePositions
    ListsAreCurrent
    PromisedSpacesHaveMembers
    SpacesAreInOrder
