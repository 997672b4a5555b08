SPECIFICATION Spec
CONSTANTS
    Name = {1, 2}
    Room = {2, 3}
    Sock = {s1, s2, s3}
    RoomId = {i1, i2, i3, i4}
    NULL = NULL
    MaxListed = 2
SYMMETRY Symmetry
VIEW Relevant
CHECK_DEADLOCK FALSE
INVARIANTS TypeOK  MemberIsListed OwnerIsListed OwnerHoldsLiveRoom 
           RemoveIsLoop OthersKeepTheirPlace
PROPERTIES MembersHearOfClosing ClosedOnlyByOwner DirectorySpec
