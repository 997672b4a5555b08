SPECIFICATION FairSpec
CONSTANTS
    n1 = n1
    n2 = n2
    Name = {n1, n2}
    Sock = {s1, s2}
    NULL = NULL
    Registered <- FirstUser
    MaxTries = 2
    MaxWaiting = 1
    MayClose = TRUE
    MayRace = FALSE
    MayFail = FALSE
CHECK_DEADLOCK FALSE
PROPERTIES ListIsSent
