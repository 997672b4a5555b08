SPECIFICATION Spec
CONSTANTS
    Name = {1, 2}
    Room = {11}
    Sock = {s1, s2}
    RoomId = {i1, i2}
    NULL = NULL
    MaxListed = 2
    Cli = {"o", "or"}
    MaxMail = 2
    MayDie = FALSE
    MayHurry = FALSE
    MayReturn = FALSE
CHECK_DEADLOCK FALSE
INVARIANTS OneAtATime
