SPECIFICATION Spec
CONSTANTS
    Peer = {p1, p2}
    Caller = {p1}
    NULL = NULL
    MaxConn = 2
    MaxMail = 1
    MaxListed = 2
CHECK_DEADLOCK FALSE
INVARIANTS TypeOK OneStepEach AllAreReached NobodyElseIsReached 
PROPERTY ThreadsEnd
