SPECIFICATION Spec
CONSTANTS
    Ids = {i1, i2}
    Service = Service
    NoAddr = NoAddr
    Doc = Doc
    NoDoc = NoDoc
    Digest = Digest
    NoDigest = NoDigest
    NoRoot = NoRoot
    NoPath = NoPath
    Kinds = {"RecoveredZK"}
    Waits = {TRUE}
    Background = {}
    MaxVersion = 0
    MaxFaults = 0
    MaxKills = 0
    MaxRecomputes = 0
    MaxQueue = 1
    MaxLog = 99
INVARIANTS
    ServedPathsAuthenticate
CHECK_DEADLOCK FALSE
