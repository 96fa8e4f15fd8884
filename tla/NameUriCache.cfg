SPECIFICATION Spec
CONSTANTS
    u1 = u1
    u2 = u2
    a = a
    b = b
    c = c
    o1 = o1
    Uri <- MCUri
    Name <- MCName
    Object <- MCObject
    Unborn = Unborn
    Gone = Gone
    NoUri = NoUri
    NoName = NoName
    MaxChan = 2
SYMMETRY Symmetry
INVARIANTS
    StalenessBounded
    FollowsOwnChanges
