SPECIFICATION InventorySpec
CONSTANTS
    c1 = c1
    c2 = c2
    g1 = g1
    t1 = t1
    u1 = u1
    u2 = u2
    r1 = r1
    s1 = s1
    p1 = p1
    p2 = p2
    w1 = w1
    k1 = k1
    k2 = k2
    v1 = v1
    v2 = v2
    a1 = a1
    a2 = a2
    l1 = l1
    m1 = m1
    o1 = o1
    y1 = y1
    x1 = x1
    q1 = q1
    val0 = val0
    val1 = val1
    Client <- MCClient
    Group <- MCGroup
    Template <- MCTemplate
    User <- MCUser
    PatternUser <- MCPatternUser
    Role <- MCRole
    SystemRole <- MCSystemRole
    Pattern <- MCPattern
    Rule <- MCRule
    CapGroup <- MCCapGroup
    LdapDef <- MCLdapDef
    MfaDef <- MCMfaDef
    SsoDef <- MCSsoDef
    CustomGroup <- MCCustomGroup
    Member <- MCMember
    Obj <- MCObj
    World <- MCWorld
    Vol <- MCVol
    Port <- MCPort
    Target <- MCTarget
    CapPartition <- MCPartition
    Val <- MCVal
    InitVal = val0
    MaxCalls = 4
    MaxRequests = 2
    MaxReorder = 2
SYMMETRY MCSymmetry
INVARIANTS
    InventoryTypeOK
    InventoryConsistent
    ClientsFollow
CHECK_DEADLOCK FALSE
