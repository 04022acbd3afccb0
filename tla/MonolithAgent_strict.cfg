SPECIFICATION Spec
CONSTANTS
    Clients = {c1}
    Rejected = Rejected
    Configs <- MCConfigs
    InitialConfig <- OneLink
    Requests <- MCRequests
    Target <- MCTarget
    Tables <- MCTables
    PairsOf <- MCPairsOf
    DebugPairs <- MCDebugPairs
    Backend = "bfrt"
    Consistency = "STRICT_DEVICE"
    StartupPolicy = "REAPPLY_DESIRED"
    ForeignTables <- OneForeign
    LeaseTicks = 1
    MaxRevision = 1
    MaxLeases = 1
PROPERTIES
    StrictWritesStartInSync
