SPECIFICATION Spec
CONSTANTS
    Joins = 1
    Retries = 2
    NoCall = NoCall
    NoStream = NoStream
INVARIANT SilentAfterLeave
CHECK_DEADLOCK FALSE
