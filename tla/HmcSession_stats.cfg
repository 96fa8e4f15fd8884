SPECIFICATION Spec
CONSTANTS
    h1 = h1
    h2 = h2
    Host <- Hosts
    HostLists <- OneHost
    NoHost = NoHost
    BusyRetries = 0
    HasTimeout = TRUE
    MaxTokens = 2
INVARIANTS
    MeasurementsEnded
CHECK_DEADLOCK FALSE
