CONSTANTS
    Nodes <- MCNodes
    Seeds <- MCSeeds
    T = 2
    NoFile = NoFile
    NoDeal = NoDeal
    MaxFaults = 3

SPECIFICATION FairSpec

INVARIANTS
    TypeOK
    OneInCustody
    NoMixedShares
    GoodFileHolds
    FailsOnlyByMisfortune

PROPERTIES
    CustodySpec
    RunsEnd

CHECK_DEADLOCK FALSE
