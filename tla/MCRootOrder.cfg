SPECIFICATION Spec
CONSTANTS
    Ids = {i1}
    Service = Service
    NoAddr = NoAddr
    Doc = Doc
    NoDoc = NoDoc
    Digest = Digest
    NoDigest = NoDigest
    NoRoot = NoRoot
    NoPath = NoPath
    Kinds = {"UpdatedZK", "RecoveredZK"}
    Waits = {TRUE}
    Background = {}
    MaxVersion = 2
    MaxFaults = 0
    MaxKills = 1
    MaxRecomputes = 0
    MaxQueue = 1
    MaxLog = 99
INVARIANTS
    MirrorFollowsChain
CHECK_DEADLOCK FALSE
