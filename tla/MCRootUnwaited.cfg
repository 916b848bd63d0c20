SPECIFICATION Spec
CONSTANTS
    Ids = {i1}
    Service = Service
    NoAddr = NoAddr
    Doc = Doc
    NoDoc = NoDoc
    Digest = Digest
    NoDigest = NoDigest
    NoRoot = NoRoot
    NoPath = NoPath
    Kinds = {"UpdatedZK", "RecoveredZK"}
    Waits = {FALSE}
    Background = {}
    MaxVersion = 2
    MaxFaults = 1
    MaxKills = 0
    MaxRecomputes = 0
    MaxQueue = 1
    MaxLog = 99
INVARIANTS
    ServedRootIsActive
    AnchoredLeavesExist
PROPERTIES
    ConvergesToChain
CHECK_DEADLOCK FALSE
