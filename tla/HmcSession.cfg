SPECIFICATION FairSpec
CONSTANTS
    h1 = h1
    h2 = h2
    Host <- Hosts
    HostLists <- OneOrTwo
    NoHost = NoHost
    BusyRetries = 1
    HasTimeout = TRUE
    MaxTokens = 2
INVARIANTS
    TypeOK
    AtMostOnce
    ReportsHonest
    SessionKept
PROPERTIES
    CallsEnd
CHECK_DEADLOCK FALSE
