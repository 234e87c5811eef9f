SPECIFICATION FairSpec
CONSTANTS
    Guests = {gus}
    Host = hal
    TTL = 2
    MaxOps = 4
    MaxFaults = 1
INVARIANTS
    TypeOK
    EveryKeyExpires
    KickSticks
PROPERTY
    Forgotten
CHECK_DEADLOCK FALSE
