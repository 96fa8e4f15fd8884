SPECIFICATION Spec
CONSTANTS
    c1 = c1
    c2 = c2
    e1 = e1
    e2 = e2
    e3 = e3
    a1 = a1
    a2 = a2
    dA = dA
    dB = dB
    dC = dC
    u1 = u1
    Client <- MCClient
    Elem <- MCElem
    Adapter <- MCAdapter
    Pool <- MCPool
    UserDevno <- MCUserDevno
    MaxCalls = 5
SYMMETRY MCSymmetry
INVARIANTS
    TypeOK
    RelationsAgree
    DevnosDistinct
    OwnDeletesFollow
CHECK_DEADLOCK FALSE
