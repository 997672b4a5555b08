SPECIFICATION Spec
CONSTANTS
    Name = {1, 2, 3}
    Room = {}
    Sock = {s1, s2, s3}
    RoomId = {i1}
    NULL = NULL
    MaxListed = 0
    Cli = {"o", "cs", "d"}
    MaxMail = 2
    MayDie = TRUE
    MayHurry = FALSE
    MayReturn = FALSE
SYMMETRY Symmetry
VIEW Relevant
CHECK_DEADLOCK FALSE
INVARIANTS BusyInOneSession SessionIsKnown
