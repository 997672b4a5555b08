SPECIFICATION FairSpec
CONSTANTS
    n1 = n1
    n2 = n2
    Name = {n1, n2}
    Sock = {s1, s2}
    NULL = NULL
    Registered <- FirstUser
    MaxTries = 2
    MaxWaiting = 2
    MayClose = TRUE
    MayRace = FALSE
    MayFail = TRUE
CHECK_DEADLOCK FALSE
INVARIANTS TypeOK PeersAreKept OneReader ServedHaveUser ListCatchesUp 
 
