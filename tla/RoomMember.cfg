SPECIFICATION Spec
CONSTANTS
    ann = ann
    bob = bob
    a1 = a1
    a2 = a2
    b1 = b1
    Users = {ann, bob}
    Conns = {a1, a2}
    UserOf <- Twinned
    NoToken = NoToken
    None = None
    Kinds = {"LOCATION_UPDATE"}
    MaxFrames = 1
    MaxFaults = 0
INVARIANT
    ConnectedIsMember
CHECK_DEADLOCK FALSE
