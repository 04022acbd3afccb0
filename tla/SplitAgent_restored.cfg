SPECIFICATION Spec
CONSTANTS
    Clients = {c1}
    NoClient = NoClient
    Rejected = Rejected
    Configs <- MCConfigs
    InitialConfig = "one"
    Requests <- MCRequests
    Target <- MCTarget
    Modes = {"ocs"}
    Tables <- SetTables
    PairsOf <- MCPairsOf
    DebugPairs <- Both
    ForeignTables <- NoForeign
    Consistency = "CACHED_SYNC"
    Verify = TRUE
    StartupPolicy = "REQUIRE_MATCH"
    Outlives = FALSE
    CallIds = {1}
    MaxGeneration = 2
    MaxRevision = 1
INVARIANTS
    ReadyMeansProgrammed
