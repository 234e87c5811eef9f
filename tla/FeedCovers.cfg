SPECIFICATION Spec
CONSTANTS
    ann = ann
    bob = bob
    p = p
    q = q
    Tokens = {ann, bob}
    Callers = {ann, bob}
    NoSub = NoSub
    Limit = 1
    Processes = {p, q}
    Placements <- AnnAtP
    Points <- Places
    Requests <- OffGrid
    MaxFixes <- NoFixes
    MaxAsks <- OneAsk
    MaxFaults = 0
INVARIANT
    CoversBox
CHECK_DEADLOCK FALSE
