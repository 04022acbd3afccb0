SPECIFICATION FairSpec
CONSTANTS
    Clients = {c1}
    Rejected = Rejected
    Configs <- MCConfigs
    InitialConfig <- OneLink
    Requests <- MCRequests
    Target <- MCTarget
    Tables <- MCTables
    PairsOf <- MCPairsOf
    DebugPairs <- MCDebugPairs
    Backend = "bfrt"
    Consistency = "CACHED_SYNC"
    StartupPolicy = "REQUIRE_MATCH"
    ForeignTables <- TwoForeign
    LeaseTicks = 1
    MaxRevision = 3
    MaxLeases = 2
INVARIANTS
    TypeOK
    CacheTruth
    StatusTruth
    StartupGate
PROPERTIES
    NoSilentAdoption
    DriftIsReported
