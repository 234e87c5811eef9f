SPECIFICATION FairSpec
CONSTANTS
    Joins = 2
    Retries = 1
    NoCall = NoCall
    NoStream = NoStream
INVARIANTS
    TypeOK
    OneStream
    HeardOnceSettled
PROPERTIES
    HeardAgain
    ImplementsSocket
CHECK_DEADLOCK FALSE
