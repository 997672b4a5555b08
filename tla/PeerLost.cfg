SPECIFICATION Spec
CONSTANTS
    n1 = n1
    n2 = n2
    Name = {n1, n2}
    Sock = {s1, s2}
    NULL = NULL
    Registered <- FirstUser
    MaxTries = 1
    MaxWaiting = 1
    MayClose = FALSE
    MayRace = TRUE
    MayFail = FALSE
CHECK_DEADLOCK FALSE
INVARIANTS PeersAreKept
