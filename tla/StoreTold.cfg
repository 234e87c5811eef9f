SPECIFICATION Spec
CONSTANTS
    Guests = {gus}
    Host = hal
    TTL = 2
    MaxOps = 3
    MaxFaults = 0
INVARIANT
    AllTold
CHECK_DEADLOCK FALSE
