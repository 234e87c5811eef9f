SPECIFICATION FairSpec
CONSTANTS
    ann = ann
    bob = bob
    p = p
    q = q
    Tokens = {ann, bob}
    Callers = {ann, bob}
    NoSub = NoSub
    Limit = 1
    Processes = {p, q}
    Placements <- AnnAtP
    Points <- Places
    Requests <- Around
    MaxFixes <- TwoFixes
    MaxAsks <- TwoAsks
    MaxFaults = 1
INVARIANTS
    TypeOK
    InteriorHeard
    RoomFirst
    MapFresh
    CounterExpires
PROPERTIES
    NeverBack
    LimitedRecovers
CHECK_DEADLOCK FALSE
