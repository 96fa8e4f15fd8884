SPECIFICATION FairSpec
CONSTANTS
    u1 = u1
    u2 = u2
    Uri <- MCUri
    Filter <- WithSmall
INVARIANTS
    LagIsPending
PROPERTIES
    ChangesNoticed
    ImplementsMirror
