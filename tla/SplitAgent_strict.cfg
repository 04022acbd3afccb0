SPECIFICATION Spec
CONSTANTS
    Clients = {c1, c2}
    NoClient = NoClient
    Rejected = Rejected
    Configs <- MCConfigs
    InitialConfig = "one"
    Requests <- MCRequests
    Target <- MCTarget
    Modes = {"ocs"}
    Tables <- SetTables
    PairsOf <- MCPairsOf
    DebugPairs <- Both
    ForeignTables <- OneForeign
    Consistency = "STRICT_DEVICE"
    Verify = TRUE
    StartupPolicy = "REQUIRE_MATCH"
    Outlives = TRUE
    CallIds = {1}
    MaxGeneration = 3
    MaxRevision = 2
INVARIANTS
    AgreementIsTruth
PROPERTIES
    StrictWritesStartInSync
    CommitsFromKnownState
