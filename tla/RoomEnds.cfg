SPECIFICATION FairSpec
CONSTANTS
    ann = ann
    bob = bob
    a1 = a1
    a2 = a2
    b1 = b1
    Users = {ann, bob}
    Conns = {a1, b1}
    UserOf <- Apart
    NoToken = NoToken
    None = None
    Kinds = {"LOCATION_UPDATE", "VIEWPORT_SUBSCRIBE", "VIEWPORT_UNSUBSCRIBE", "bad"}
    MaxFrames = 3
    MaxFaults = 1
INVARIANT
    TypeOK
PROPERTY
    DroppedEnds
CHECK_DEADLOCK FALSE
