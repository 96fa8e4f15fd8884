SPECIFICATION PartitionsSpec
CONSTANTS
    c1 = c1
    c2 = c2
    p1 = p1
    p2 = p2
    d1 = d1
    Client <- MCClient
    Limited <- MCLimited
    Partition <- MCPartition
    Domain <- MCDomain
    MaxCalls = 3
INVARIANTS
    PartitionsTypeOK
    StatusReached
    UsageExclusive
CHECK_DEADLOCK FALSE
