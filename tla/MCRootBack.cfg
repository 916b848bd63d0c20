SPECIFICATION Spec
CONSTANTS
    Ids = {i1}
    Service = Service
    NoAddr = NoAddr
    Doc = Doc
    NoDoc = NoDoc
    Digest = Digest
    NoDigest = NoDigest
    NoRoot = NoRoot
    NoPath = NoPath
    Kinds = {"RecoveredZK"}
    Waits = {FALSE}
    Background = {}
    MaxVersion = 1
    MaxFaults = 0
    MaxKills = 0
    MaxRecomputes = 0
    MaxQueue = 1
    MaxLog = 99
INVARIANTS
    ReadyStaysAnchored
CHECK_DEADLOCK FALSE
