SPECIFICATION Spec
CONSTANTS
    ann = ann
    bob = bob
    a1 = a1
    a2 = a2
    b1 = b1
    Users = {ann, bob}
    Conns = {a1, a2, b1}
    UserOf <- Reconnect
    NoToken = NoToken
    None = None
    Kinds = {"LOCATION_UPDATE", "VIEWPORT_SUBSCRIBE"}
    MaxFrames = 2
    MaxFaults = 1
SYMMETRY Twins
INVARIANTS
    RouteSound
    ServedAlone
    LocationOwned
    NoGhost
    ViewportReleased
    
PROPERTIES
    RouteTakenByTwin
    GhostOrigins
CHECK_DEADLOCK FALSE
