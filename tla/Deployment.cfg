SPECIFICATION Spec
CONSTANTS
    Ports <- MCPorts
    Absent = Absent
    Null = Null
    Rejected = Rejected
    Launchers = {l1, l2}
    Callers = {a, b}
    Nobody = Nobody
    Platforms = {"tofino", "p4app"}
    Files <- MCFiles
    MaxKills = 1
INVARIANTS
    TypeOK
    LoadersAgree
    WritesAreOwned
    OwnerIsAlone
PROPERTY
    TeardownEnds
CHECK_DEADLOCK FALSE
