SPECIFICATION Spec
SYMMETRY Symmetry
CONSTANTS
    Ids = {i1, i2}
    Accounts = {adm, a}
    NoAddr = NoAddr
    Admin = adm
    Docs = {d1, d2}
    NoDoc = NoDoc
    Roots = {r1, r2}
    NoRoot = NoRoot
    Digests = {g}
    NoDigest = NoDigest
    MaxEpoch = 2
    MaxLog = 4
INVARIANTS
    TypeOK
    VersionsInOrder
    LogDeterminesRecord
    ControlFollowsHistory
    OneRootPerEpoch
    AnchorsCiteLiveState
CHECK_DEADLOCK FALSE
