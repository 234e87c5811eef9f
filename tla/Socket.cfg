SPECIFICATION FairSpec
CONSTANTS
    Calls = {k1, k2, k3}
    Closers = {d1, d2}
    Retries = 2
    NoCall = NoCall
INVARIANTS
    TypeOK
    SendTargetAlive
    GuardSuffices
PROPERTIES
    ConnectReturns
    DisconnectReturns
CHECK_DEADLOCK FALSE
