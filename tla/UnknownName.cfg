SPECIFICATION Spec
CONSTANTS
    Name = {1, 2}
    Room = {11}
    Sock = {s1, s2}
    RoomId = {i1, i2}
    NULL = NULL
    MaxListed = 2
CHECK_DEADLOCK FALSE
PROPERTIES UnknownNameIsAnswered
