SPECIFICATION FairSpec
CONSTANTS
    status = status
    name = name
    Prop <- MCProp
    Names <- MCNames
    Listed <- MCListed
    Writable <- MCWritable
    Query <- MCQuery
    MaxVersion = 2
INVARIANTS
    SyncedIsPending
    SelfKnowledge
PROPERTIES
    CatchesUp
