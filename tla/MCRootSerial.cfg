SPECIFICATION Spec
CONSTANTS
    Ids = {i1, i2}
    Service = Service
    NoAddr = NoAddr
    Doc = Doc
    NoDoc = NoDoc
    Digest = Digest
    NoDigest = NoDigest
    NoRoot = NoRoot
    NoPath = NoPath
    Kinds = {"RegisteredZK", "RecoveredZK"}
    Waits = {TRUE}
    Background = {}
    MaxVersion = 1
    MaxFaults = 1
    MaxKills = 1
    MaxRecomputes = 0
    MaxQueue = 1
    MaxLog = 99
INVARIANTS
    TypeOK
    ServedRootIsActive
    ReadyStaysAnchored
    AnchoredLeavesExist
    MirrorFollowsChain
PROPERTIES
    RootsOnlyGrow
SYMMETRY Symmetry
CHECK_DEADLOCK FALSE
