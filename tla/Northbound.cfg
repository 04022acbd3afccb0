SPECIFICATION ServerSpec
CONSTANTS
    PortCount = 4
    link = link
    Names <- MCNames
    Initial <- MCInitial
    Targets <- MCTargets
    Sets <- MCSets
    Rejected = Rejected
    Absent = Absent
    Malformed = Malformed
    NoRequest = NoRequest
INVARIANTS
    TypeOK
    PairsFormMatching
    PermutationRoundTrip
    PermutationsAreExact
    ServerTypeOK
    SetIsLastWriterWins
    ConfigRoundTrip
    TreesAgree
    AnswersAreSafeToWriteFrom
PROPERTY
    SlotIsReleased
