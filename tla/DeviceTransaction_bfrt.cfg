SPECIFICATION FairSpec
CONSTANTS
    Ports <- FourPorts
    Configurations <- MatchingConfigurations
    ForeignPairs <- Foreigners
    Backend = "bfrt"
    Verify = TRUE
    Transports = {"SEQUENTIAL", "NATIVE_BATCH"}
    Delays = {1}
INVARIANTS
    TypeOK
    BreakBeforeMake
    UnchangedEntriesPreserved
    RollbackOnlyAfterFault
PROPERTIES
    VerdictIsTruth
    ImplementsAtomic
    ApplyTerminates
