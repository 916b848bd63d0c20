SPECIFICATION Spec
CONSTANTS
    ChunkBits = 2
    ChunkCount = 2
    ByteBits = 2
    N = 4
    T = 3
    Seeds <- MCSeeds
    Rhos <- MCRhos
    Epochs = {1, 2}
    NoDeal = NoDeal
    MaxTrouble = 1
INVARIANTS
    AnyThresholdRecovers
    OnlyIntactSharesUsed
    BelowThresholdTellsNothing
    BoxAgrees
    TraceBlamesLeakers

CHECK_DEADLOCK FALSE
