SPECIFICATION FairSpec
CONSTANTS
    o1 = o1
    o2 = o2
    m = m
    u1 = u1
    u2 = u2
    Object <- MCObject
    Manager <- MCManager
    Uri <- MCUri
    UriOf <- MCUriOf
    MaxTopics = 2
    MaxChan = 1
INVARIANTS
    RegistryExact
    AutoIsServed
PROPERTIES
    NotificationsReach
