SPECIFICATION FairSpec
CONSTANTS
    ann = ann
    bob = bob
    a1 = a1
    a2 = a2
    b1 = b1
    Users = {ann, bob}
    Conns = {a1, a2, b1}
    UserOf <- AnnTwice
    NoToken = NoToken
    None = None
    All = All
    MaxSends <- BobSends
    MaxChat = 1
    MaxFaults = 1
INVARIANTS
    TypeOK
    StoredFirst
    DmRouted
    DmListedOnce
PROPERTIES
    InOrder
    Delivered
CHECK_DEADLOCK FALSE
