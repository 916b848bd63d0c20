SPECIFICATION FairSpec
CONSTANTS
    MaxTries = 2
    MaxFaults = 3
INVARIANTS
    TypeOK
    BundleIsAnchored
    OldBundleDies
    FailsOnlyByMisfortune
PROPERTIES
    RunsEnd
CHECK_DEADLOCK FALSE
