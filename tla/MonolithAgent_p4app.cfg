SPECIFICATION Spec
CONSTANTS
    Clients = {c1, c2}
    Rejected = Rejected
    Configs <- MCConfigs
    InitialConfig <- OneLink
    Requests <- MCRequests
    Target <- MCTarget
    Tables <- MCTables
    PairsOf <- MCPairsOf
    DebugPairs <- MCDebugPairs
    Backend = "p4app"
    Consistency = "STRICT_DEVICE"
    StartupPolicy = "REAPPLY_DESIRED"
    ForeignTables <- OneForeign
    LeaseTicks = 2
    MaxRevision = 2
    MaxLeases = 2
INVARIANTS
    StatusTruth
    WriterIsHolder
PROPERTIES
    CommitsFromKnownState
    StrictWritesStartInSync
