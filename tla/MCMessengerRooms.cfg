SPECIFICATION Spec
CONSTANTS
    Name = {1, 2, 3}
    Room = {11}
    Sock = {s1, s2, s3}
    RoomId = {i1, i2, i3, i4}
    NULL = NULL
    MaxListed = 3
    Cli = {"or", "cs", "d"}
    MaxMail = 2
    MayDie = FALSE
    MayHurry = FALSE
    MayReturn = FALSE
SYMMETRY Symmetry
VIEW Relevant
CHECK_DEADLOCK FALSE
INVARIANTS TypeOK RoomIsKnown PartnersAgree ClientsSurvive
