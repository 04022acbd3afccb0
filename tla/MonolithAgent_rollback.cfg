SPECIFICATION Spec
CONSTANTS
    Clients = {c1}
    Rejected = Rejected
    Configs <- MCConfigs
    InitialConfig <- OneLink
    Requests <- MCRequests
    Target <- MCTarget
    Tables <- MCTables
    PairsOf <- MCPairsOf
    DebugPairs <- MCDebugPairs
    Backend = "p4app"
    Consistency = "CACHED_SYNC"
    StartupPolicy = "REAPPLY_DESIRED"
    ForeignTables <- NoForeign
    LeaseTicks = 1
    MaxRevision = 1
    MaxLeases = 1
INVARIANTS
    CacheTruth
