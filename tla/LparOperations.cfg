SPECIFICATION FairSpec
CONSTANTS
    c1 = c1
    c2 = c2
    Client <- MCClient
    Level = 4
    Limited <- MCOne
    Tolerant <- MCOne
    AutoUpdated = FALSE
    AutoLoad = FALSE
    MaxCalls = 2
INVARIANTS
    TypeOK
    WaitOutcomeHonest
PROPERTIES
    WaitEnds
CHECK_DEADLOCK FALSE
