SPECIFICATION Spec
CONSTANTS
    Guests = {gus}
    Host = hal
    TTL = 2
    MaxOps = 3
    MaxFaults = 0
INVARIANT
    DeletedIsGone
CHECK_DEADLOCK FALSE
