SPECIFICATION Spec
CONSTANTS
    Ports <- FourPorts
    Configurations <- MatchingConfigurations
    ForeignPairs <- NoForeigners
    Backend = "p4app"
    Verify = TRUE
    Transports = {"SEQUENTIAL"}
    Delays = {0, 1}
INVARIANTS
    RollbackOnlyAfterFault
