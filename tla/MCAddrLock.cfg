SPECIFICATION Spec
CONSTANTS
    Calls = {c1, c2, c3}
    NoCall = NoCall
    Wallets = {a1, a2}
    NoWallet = NoWallet
    Outsider = Outsider
    Attempts = 2
    MaxOutside = 2
INVARIANTS
    TypeOK
    ServedInOrder
    OnlyOutsidersTakeNonces
    ChainOrderIsArrivalOrder
    StatsExact
PROPERTIES
    EveryCallSettles
CHECK_DEADLOCK FALSE
