SPECIFICATION FairSpec
CONSTANTS
    Clients = {c1}
    NoClient = NoClient
    Rejected = Rejected
    Configs <- MCConfigs
    InitialConfig = "one"
    Requests <- MCRequests
    Target <- MCTarget
    Modes = {"ocs", "debug"}
    Tables <- ModeTables
    PairsOf <- MCPairsOf
    DebugPairs <- MCDebugPairs
    ForeignTables <- OneForeign
    Consistency = "CACHED_SYNC"
    Verify = TRUE
    StartupPolicy = "REAPPLY_DESIRED"
    Outlives = FALSE
    CallIds = {1, 2}
    MaxGeneration = 3
    MaxRevision = 2
INVARIANTS
    TypeOK
    WorkerCacheTruth
    AgreementIsTruth
    AppliesAreFenced
PROPERTIES
    DriftIsReported
