------------------------------ MODULE RoomProofs ------------------------------
(***************************************************************************)
(* What the dispatcher keeps of its rooms, on top of the invariant of      *)
(* DispatcherProofs: it implements RoomDirectory, a room is closed only by *)
(* its owner, whoever points to a room is in its vector, and whoever       *)
(* points to a room that is closed is told.  What it writes to each user   *)
(* says how the room of that user has changed.                             *)
(***************************************************************************)
EXTENDS DispatcherProofs

-------------------------------------------------------------------------------
(* The room directory.  Which of its steps a handler is depends on the room    *)
(* that a name finds.                                                          *)

\* Erasing a member's name from a vector changes no room's owner.
LEMMA OwnersKept ==
    ASSUME TypeOK, NEW users \in Seq(Name), NEW i \in RoomId,
           rooms' = [rooms EXCEPT ![i].users = users],
           UNCHANGED chatrooms_map
    PROVE  Creator' = Creator
<1>1. \A j \in RoomId : rooms'[j].owner = rooms[j].owner
    BY DEF TypeOK, ChatRoomObject
<1>2. \A r \in Room : chatrooms_map[r] # NULL => chatrooms_map[r] \in RoomId
    BY DEF TypeOK
<1> QED
    BY <1>1, <1>2 DEF Creator

\* A user that is gone is gone from the directory, and nobody else is.
LEMMA OneLogsOut ==
    ASSUME TypeOK, NEW s \in Sock, NEW u \in Name, users_map[u] = s, UserGone(s, u)
    PROVE  u \in Connected /\ Connected' = Connected \ {u}
BY NullIsNothing DEF UserGone, Connected, TypeOK

\* Erasing an owner's room takes exactly that room out of the directory.
LEMMA OneRoomCloses ==
    ASSUME TypeOK, RoomInv, NEW u \in Name, NEW i \in RoomId,
           connectedToChatRoom[u] = i, Owns(u, i),
           chatrooms_map' = RoomErased(i),
           \A j \in RoomId : rooms'[j].owner = rooms[j].owner
    PROVE  /\ rooms[i].name \in Room
           /\ Directory!Closed(u, rooms[i].name)
           /\ \A r \in Room : chatrooms_map[r] \notin {NULL, chatrooms_map'[r]}
                                => rooms[chatrooms_map[r]].owner = u
<1> DEFINE name == rooms[i].name
<1>1. /\ name \in Room
      /\ chatrooms_map[name] = i
      /\ chatrooms_map'[name] = NULL
      /\ \A r \in Room : r # name => chatrooms_map'[r] = chatrooms_map[r]
    BY RoomErasedByOwner
<1>2. rooms[i].owner = u /\ i # NULL
    BY NullIsNothing DEF Owns
<1> HIDE DEF name
<1>3. Creator[name] = u
    BY <1>1, <1>2 DEF Creator
<1>4. \A r \in Room : Creator'[r] = IF r = name THEN NULL ELSE Creator[r]
    BY <1>1 DEF Creator, TypeOK
<1>5. Creator' = [Creator EXCEPT ![name] = NULL]
    BY <1>4 DEF Creator
<1>6. Directory!Closed(u, name)
    BY <1>3, <1>5 DEF Directory!Closed
<1> QED
    BY <1>1, <1>2, <1>6 DEF name

\* The owner's own leaving, as the directory sees it.
LEMMA LeaveAsOwnerCloses ==
    ASSUME IInv, NEW s \in Sock, LeaveAsOwner(s), ~Crash
    PROVE  /\ \E r \in Room : Directory!Close(UserOf(s), r)
           /\ \A r \in Room : chatrooms_map[r] \notin {NULL, chatrooms_map'[r]}
                 => users_map[rooms[chatrooms_map[r]].owner] = s
<1> DEFINE u == UserOf(s)
           i == connectedToChatRoom[u]
<1>1. /\ TypeOK /\ RoomInv
      /\ u \in Name /\ u \in Connected /\ users_map[u] = s
    BY SenderFound, IInvParts DEF LeaveAsOwner
<1>2. i \in RoomId /\ Owns(u, i)
    BY <1>1 DEF LeaveAsOwner, InRoom, TypeOK
<1>3. chatrooms_map' = RoomErased(i) /\ rooms' = UserRemoved(u, i)
      /\ UNCHANGED users_map
    BY DEF LeaveAsOwner
<1>4. \A j \in RoomId : rooms'[j].owner = rooms[j].owner
    BY <1>1, <1>2, <1>3 DEF UserRemoved, TypeOK, ChatRoomObject
<1>5. /\ rooms[i].name \in Room
      /\ Directory!Closed(u, rooms[i].name)
      /\ \A r \in Room : chatrooms_map[r] \notin {NULL, chatrooms_map'[r]}
                            => rooms[chatrooms_map[r]].owner = u
    BY <1>1, <1>2, <1>3, <1>4, OneRoomCloses
<1>6. Connected' = Connected
    BY <1>3 DEF Connected
<1> QED
    BY <1>1, <1>5, <1>6 DEF Directory!Close

\* The owner's exit, as the directory sees it.
LEMMA ExitAsOwnerCloses ==
    ASSUME IInv, NEW s \in Sock, ExitAsOwner(s), ~Crash
    PROVE  /\ Directory!Logout(UserOf(s))
           /\ \A r \in Room : chatrooms_map[r] \notin {NULL, chatrooms_map'[r]}
                 => users_map[rooms[chatrooms_map[r]].owner] = s
<1> DEFINE u == UserOf(s)
           i == connectedToChatRoom[u]
<1>1. TypeOK /\ RoomInv /\ u \in Name /\ users_map[u] = s
    BY SenderFound, IInvParts DEF ExitAsOwner
<1>2. i \in RoomId /\ Owns(u, i)
    BY <1>1 DEF ExitAsOwner, InRoom, TypeOK
<1>3. chatrooms_map' = RoomErased(i) /\ rooms' = rooms /\ UserGone(s, u)
    BY DEF ExitAsOwner
<1>4. \A j \in RoomId : rooms'[j].owner = rooms[j].owner
    BY <1>3
<1>5. /\ rooms[i].name \in Room
      /\ Directory!Closed(u, rooms[i].name)
      /\ \A r \in Room : chatrooms_map[r] \notin {NULL, chatrooms_map'[r]}
                            => rooms[chatrooms_map[r]].owner = u
    BY <1>1, <1>2, <1>3, <1>4, OneRoomCloses
<1>6. u \in Connected /\ Connected' = Connected \ {u}
    BY <1>1, <1>3, OneLogsOut
<1> QED
    BY <1>1, <1>5, <1>6 DEF Directory!Logout

\* Creating a room, as the directory sees it.
LEMMA CreateOpens ==
    ASSUME IInv, NEW s \in Sock, NEW r \in Room, CreateChatroom(s, r)
    PROVE  Directory!Open(UserOf(s), r)
<1> DEFINE u == UserOf(s)
           room == [name |-> r, owner |-> u, users |-> <<u>>]
<1>1. TypeOK /\ u \in Name /\ u \in Connected
    BY SenderFound, IInvParts DEF CreateChatroom
<1>2. PICK i \in RoomId :
         /\ Fresh(i)
         /\ chatrooms_map' = [chatrooms_map EXCEPT ![r] = i]
         /\ rooms' = [rooms EXCEPT ![i] = room]
         /\ Enter(u, i)
    BY DEF CreateChatroom
<1>3. chatrooms_map[r] = NULL
    BY DEF CreateChatroom
<1>4. room.owner = u
    OBVIOUS
<1> HIDE DEF u, room
<1>5. /\ rooms'[i].owner = u
      /\ \A j \in RoomId : j # i => rooms'[j] = rooms[j]
      /\ chatrooms_map'[r] = i /\ i # NULL
      /\ \A q \in Room : q # r => chatrooms_map'[q] = chatrooms_map[q]
    BY <1>1, <1>2, <1>4, NullIsNothing DEF TypeOK
<1>6. \A q \in Room : chatrooms_map[q] # i
    BY <1>2 DEF Fresh
<1>7. \A q \in Room : Creator'[q] = IF q = r THEN u ELSE Creator[q]
    BY <1>1, <1>5, <1>6 DEF Creator, TypeOK
<1>8. Creator' = [Creator EXCEPT ![r] = u]
    BY <1>7 DEF Creator
<1>9. Creator[r] = NULL
    BY <1>3 DEF Creator
<1>10. Connected' = Connected
    BY <1>2 DEF Enter, Connected
<1> QED
    BY <1>1, <1>8, <1>9, <1>10 DEF Directory!Open, u

-------------------------------------------------------------------------------
(* Steps the directory does not see. *)

\* A handler that touches neither the map of users nor the rooms.
LEMMA NothingSeen ==
    ASSUME UNCHANGED <<users_map, roomVars>>
    PROVE  /\ UNCHANGED <<Connected, Creator>>
           /\ UNCHANGED chatrooms_map
BY DEF Connected, Creator, roomVars

\* Entering a room, or leaving one without owning it.
LEMMA MembershipUnseen ==
    ASSUME IInv, NEW s \in Sock, ~Crash,
           LeaveAsMember(s) \/ \E r \in Room : JoinChatroom(s, r)
    PROVE  /\ UNCHANGED <<Connected, Creator>>
           /\ UNCHANGED chatrooms_map
<1> DEFINE u == UserOf(s)
<1>1. CASE LeaveAsMember(s)
  <2> DEFINE i == connectedToChatRoom[u]
  <2>1. TypeOK /\ u \in Name
      BY <1>1, SenderFound DEF IInv, LeaveAsMember
  <2>2. i \in RoomId
      BY <1>1, <2>1 DEF LeaveAsMember, InRoom, TypeOK
  <2>3. remove_user(rooms[i].users, u) \in Seq(Name)
      BY <2>1, <2>2, RemoveUserKeepsOthers DEF TypeOK, ChatRoomObject
  <2>4. /\ rooms' = [rooms EXCEPT ![i].users = remove_user(rooms[i].users, u)]
        /\ UNCHANGED <<chatrooms_map, users_map>>
      BY <1>1 DEF LeaveAsMember, UserRemoved
  <2> QED
      BY <2>1, <2>2, <2>3, <2>4, OwnersKept DEF Connected
<1>2. ASSUME NEW r \in Room, JoinChatroom(s, r)
      PROVE  UNCHANGED <<Connected, Creator, chatrooms_map>>
  <2> DEFINE i == chatrooms_map[r]
             more == add_user(rooms[i].name, rooms[i].users, u)
  <2>1. TypeOK /\ u \in Name
      BY <1>2, SenderFound DEF IInv, JoinChatroom
  <2>2. i \in RoomId
      BY <1>2, <2>1 DEF JoinChatroom, TypeOK
  <2>3. more \in Seq(Name)
      BY <2>1, <2>2, AddUserLists DEF TypeOK, ChatRoomObject
  <2>4. /\ rooms' = [rooms EXCEPT ![i].users = more]
        /\ UNCHANGED <<chatrooms_map, users_map>>
      BY <1>2 DEF JoinChatroom, Enter
  <2> HIDE DEF i, more
  <2> QED
      BY <2>1, <2>2, <2>3, <2>4, OwnersKept DEF Connected
<1> QED
    BY <1>1, <1>2

\* An exit that closes no room is a plain logout.
LEMMA QuietExit ==
    ASSUME IInv, NEW s \in Sock, ~Crash,
           ExitAsMember(s) \/ ExitFromSession(s) \/ ExitIdle(s)
    PROVE  /\ Directory!Logout(UserOf(s))
           /\ UNCHANGED chatrooms_map
<1> DEFINE u == UserOf(s)
           i == connectedToChatRoom[u]
<1>1. TypeOK /\ u \in Name /\ users_map[u] = s
    BY SenderFound DEF IInv, ExitAsMember, ExitFromSession, ExitIdle
<1>2. UserGone(s, u) /\ UNCHANGED chatrooms_map
    BY DEF ExitAsMember, ExitFromSession, ExitIdle, roomVars
<1>3. u \in Connected /\ Connected' = Connected \ {u}
    BY <1>1, <1>2, OneLogsOut
<1>4. Creator' = Creator
  <2>1. CASE ExitAsMember(s)
    <3>1. i \in RoomId
        BY <1>1, <2>1 DEF ExitAsMember, InRoom, TypeOK
    <3>2. remove_user(rooms[i].users, u) \in Seq(Name)
        BY <1>1, <3>1, RemoveUserKeepsOthers DEF TypeOK, ChatRoomObject
    <3>3. rooms' = [rooms EXCEPT ![i].users = remove_user(rooms[i].users, u)]
        BY <2>1 DEF ExitAsMember, UserRemoved
    <3> QED
        BY <1>1, <1>2, <3>1, <3>2, <3>3, OwnersKept
  <2>2. CASE ExitFromSession(s) \/ ExitIdle(s)
      BY <2>2 DEF ExitFromSession, ExitIdle, Creator, roomVars
  <2> QED
      BY <2>1, <2>2
<1> QED
    BY <1>2, <1>3, <1>4 DEF Directory!Logout

\* A login.
LEMMA AddUserLogsIn ==
    ASSUME IInv, NEW s \in Sock, NEW n \in Name, AddUser(s, n)
    PROVE  /\ Directory!Login(n)
           /\ UNCHANGED chatrooms_map
<1>1. /\ n \notin Connected
      /\ Connected' = Connected \cup {n}
    BY NullIsNothing DEF IInv, TypeOK, AddUser, checkUser, Connected
<1>2. Creator' = Creator /\ UNCHANGED chatrooms_map
    BY DEF AddUser, Creator, roomVars
<1> QED
    BY <1>1, <1>2 DEF Directory!Login

-------------------------------------------------------------------------------
(* Both theorems about the directory. *)

\* Every step of the dispatcher is a step of the directory or none, and a room
\* that leaves the map does so as its owner's socket leaves or exits.
LEMMA StepMaps ==
    ASSUME IInv, Next
    PROVE  /\ Directory!Next \/ UNCHANGED <<Connected, Creator>>
           /\ \A r \in Room : chatrooms_map[r] \notin {NULL, chatrooms_map'[r]} =>
                 \E s \in Sock : /\ users_map[rooms[chatrooms_map[r]].owner] = s
                                 /\ LeaveChatroom(s) \/ UserExit(s)
<1>1. CASE Crash
  <2>1. UNCHANGED <<users_map, roomVars>>
      BY <1>1 DEF Crash, userVars
  <2> QED
      BY <2>1, NothingSeen
<1>2. ASSUME ~Crash, NEW s \in Sock, NEW n \in Name, AddUser(s, n)
      PROVE  Directory!Next /\ UNCHANGED chatrooms_map
    BY <1>2, AddUserLogsIn DEF Directory!Next
<1>3. ASSUME ~Crash, NEW s \in Sock, NEW r \in Room, CreateChatroom(s, r)
      PROVE  /\ Directory!Next
             /\ \A q \in Room : chatrooms_map[q] \in {NULL, chatrooms_map'[q]}
  <2>1. UserOf(s) \in Name
      BY <1>3, SenderFound DEF IInv, CreateChatroom
  <2>2. Directory!Open(UserOf(s), r)
      BY <1>3, CreateOpens
  <2>3. Directory!Next
      BY <2>1, <2>2 DEF Directory!Next
  <2>4. \A q \in Room : q # r => chatrooms_map'[q] = chatrooms_map[q]
      BY <1>3 DEF CreateChatroom, IInv, TypeOK
  <2> QED
      BY <1>3, <2>3, <2>4 DEF CreateChatroom
<1>4. ASSUME ~Crash, NEW s \in Sock,
             LeaveAsMember(s) \/ \E r \in Room : JoinChatroom(s, r)
      PROVE  UNCHANGED <<Connected, Creator, chatrooms_map>>
    BY <1>4, MembershipUnseen
<1>5. ASSUME ~Crash, NEW s \in Sock,
             ExitAsMember(s) \/ ExitFromSession(s) \/ ExitIdle(s)
      PROVE  Directory!Next /\ UNCHANGED chatrooms_map
  <2>1. UserOf(s) \in Name
      BY <1>5, SenderFound DEF IInv, ExitAsMember, ExitFromSession, ExitIdle
  <2> QED
      BY <1>5, <2>1, QuietExit DEF Directory!Next
<1>6. ASSUME ~Crash, NEW s \in Sock, LeaveAsOwner(s) \/ ExitAsOwner(s)
      PROVE  /\ Directory!Next
             /\ \A r \in Room : chatrooms_map[r] \notin {NULL, chatrooms_map'[r]} =>
                   /\ users_map[rooms[chatrooms_map[r]].owner] = s
                   /\ LeaveChatroom(s) \/ UserExit(s)
  <2>1. UserOf(s) \in Name
      BY <1>6, SenderFound DEF IInv, LeaveAsOwner, ExitAsOwner
  <2> QED
      BY <1>6, <2>1, LeaveAsOwnerCloses, ExitAsOwnerCloses
      DEF Directory!Next, LeaveChatroom, UserExit
<1>7. ASSUME ~Crash, NEW s \in Sock,
             \/ \E from, to \in Name : OpenSession(s, from, to)
             \/ CloseSession(s) \/ LeaveNothing(s) \/ ListUsers(s) \/ ListChatrooms(s)
             \/ \E r \in Room : ListChatroomUsers(s, r)
      PROVE  UNCHANGED <<Connected, Creator, chatrooms_map>>
  <2>1. UNCHANGED <<users_map, roomVars>>
      BY <1>7 DEF OpenSession, CloseSession, LeaveNothing, ListUsers, ListChatrooms,
                  ListChatroomUsers, Answer, userVars
  <2> QED
      BY <2>1, NothingSeen
<1> QED
    BY <1>1, <1>2, <1>3, <1>4, <1>5, <1>6, <1>7
    DEF Next, Handle, LeaveChatroom, UserExit, BrokenPipe

\* The dispatcher implements the room directory.
THEOREM Refinement == Spec => DirectorySpec
<1>1. Init => Directory!Init
  <2> SUFFICES ASSUME Init PROVE Directory!Init
      OBVIOUS
  <2>1. Connected = {}
      BY DEF Init, Connected
  <2>2. Creator = [r \in Room |-> NULL]
      BY DEF Init, Creator
  <2> QED
      BY <2>1, <2>2 DEF Directory!Init
<1>2. IInv /\ [Next]_vars => [Directory!Next]_<<Connected, Creator>>
  <2> SUFFICES ASSUME IInv, [Next]_vars
               PROVE  [Directory!Next]_<<Connected, Creator>>
      OBVIOUS
  <2>1. CASE Next
      BY <2>1, StepMaps
  <2>2. CASE UNCHANGED vars
      BY <2>2, NothingSeen DEF vars, userVars
  <2> QED
      BY <2>1, <2>2
<1> QED
    BY <1>1, <1>2, Invariance, PTL DEF Spec, DirectorySpec, Directory!Spec

\* A chat room is closed only by its creator.
THEOREM OnlyOwnersClose == Spec => ClosedOnlyByOwner
<1> DEFINE Ok == \A r \in Room : chatrooms_map[r] \notin {NULL, chatrooms_map'[r]} =>
                    \E s \in Sock : /\ users_map[rooms[chatrooms_map[r]].owner] = s
                                    /\ LeaveChatroom(s) \/ UserExit(s)
<1>1. IInv /\ [Next]_vars => [Ok]_vars
  <2> SUFFICES ASSUME IInv, Next PROVE Ok
      OBVIOUS
  <2> QED
      BY StepMaps
<1> QED
    BY <1>1, Invariance, PTL DEF Spec, ClosedOnlyByOwner

-------------------------------------------------------------------------------
(* Whoever points to a room is in its vector, if the room does not have the    *)
(* name of a user: add_user looks for the room's own name, so that a user who  *)
(* is listed under that name would keep everybody else off the list.           *)

\* A step that keeps the rooms and sets no pointer but to NULL.
LEMMA ListedWhenDropped ==
    ASSUME MemberIsListed, UNCHANGED rooms,
           \A n \in Name : connectedToChatRoom'[n] \in {NULL, connectedToChatRoom[n]}
    PROVE  MemberIsListed'
BY NullIsNothing DEF MemberIsListed

\* The creator of a room is its first user.
LEMMA ListedAfterCreate ==
    ASSUME IInv, MemberIsListed, NEW s \in Sock, NEW r \in Room, CreateChatroom(s, r)
    PROVE  MemberIsListed'
<1> DEFINE u == UserOf(s)
           room == [name |-> r, owner |-> u, users |-> <<u>>]
<1>1. TypeOK /\ u \in Name
    BY SenderFound DEF IInv, CreateChatroom
<1>2. PICK i \in RoomId : Fresh(i) /\ rooms' = [rooms EXCEPT ![i] = room] /\ Enter(u, i)
    BY DEF CreateChatroom
<1>3. u \in Range(room.users)
    BY DEF Range
<1> HIDE DEF u, room
<1>4. /\ rooms'[i] = room
      /\ \A j \in RoomId : j # i => rooms'[j] = rooms[j]
      /\ connectedToChatRoom'[u] = i
      /\ \A n \in Name : n # u => connectedToChatRoom'[n] = connectedToChatRoom[n]
    BY <1>1, <1>2 DEF TypeOK, Enter
<1> QED
    BY <1>2, <1>3, <1>4 DEF MemberIsListed, Fresh

\* A user who joins is appended, as nobody is listed under the room's name.
LEMMA ListedAfterJoin ==
    ASSUME IInv, MemberIsListed, NEW s \in Sock, NEW r \in Room, JoinChatroom(s, r)
    PROVE  MemberIsListed'
<1> DEFINE u == UserOf(s)
           i == chatrooms_map[r]
           users == rooms[i].users
           more == add_user(rooms[i].name, users, u)
<1>1. TypeOK /\ u \in Name
    BY SenderFound DEF IInv, JoinChatroom
<1>2. i \in RoomId
    BY <1>1 DEF JoinChatroom, TypeOK
<1>3. users \in Seq(Name) /\ rooms[i].name = r
    BY <1>1, <1>2, NullIsNothing DEF IInv, OwnerIsListed, TypeOK, ChatRoomObject
<1>4. r \notin Name => rooms[i].name \notin Range(users)
  <2>1. \A k \in DOMAIN users : users[k] \in Name
      BY <1>3
  <2> QED
      BY <1>3, <2>1 DEF Range
<1>5. Range(users) \subseteq Range(more) /\ (r \notin Name => u \in Range(more))
    BY <1>1, <1>3, <1>4, AddUserLists
<1>6. CASE Crash
    BY <1>6, ListedWhenDropped DEF Crash, userVars, roomVars
<1>7. CASE rooms' = [rooms EXCEPT ![i].users = more] /\ Enter(u, i)
  <2> HIDE DEF u, i, more
  <2>1. /\ rooms'[i].users = more
        /\ \A j \in RoomId : j # i => rooms'[j].users = rooms[j].users
        /\ \A j \in RoomId : rooms'[j].name = rooms[j].name
        /\ connectedToChatRoom'[u] = i
        /\ \A n \in Name : n # u => connectedToChatRoom'[n] = connectedToChatRoom[n]
      BY <1>1, <1>2, <1>7 DEF TypeOK, ChatRoomObject, Enter
  <2> SUFFICES ASSUME NEW n \in Name, NEW j \in RoomId, connectedToChatRoom'[n] = j,
                      rooms'[j].name \notin Name
               PROVE  n \in Range(rooms'[j].users)
      BY DEF MemberIsListed
  <2>2. CASE n = u
      BY <1>3, <1>5, <2>1, <2>2
  <2>3. CASE n # u
    <3>1. n \in Range(rooms[j].users)
        BY <2>1, <2>3 DEF MemberIsListed
    <3> QED
        BY <1>5, <2>1, <3>1
  <2> QED
      BY <2>2, <2>3
<1> QED
    BY <1>6, <1>7 DEF JoinChatroom

\* Whoever else points to the room a member leaves stays listed.
LEMMA ListedAfterRemoval ==
    ASSUME TypeOK, MemberIsListed, NEW u \in Name, NEW i \in RoomId,
           rooms' = UserRemoved(u, i),
           connectedToChatRoom' = [connectedToChatRoom EXCEPT ![u] = NULL]
    PROVE  MemberIsListed'
<1> DEFINE rest == remove_user(rooms[i].users, u)
<1>1. /\ rest \in Seq(Name)
      /\ Range(rooms[i].users) \ {u} \subseteq Range(rest)
    BY RemoveUserKeepsOthers DEF TypeOK, ChatRoomObject
<1> HIDE DEF rest
<1>2. rooms' = [rooms EXCEPT ![i].users = rest]
    BY DEF UserRemoved, rest
<1>3. /\ rooms'[i].users = rest
      /\ \A j \in RoomId : j # i => rooms'[j].users = rooms[j].users
      /\ \A j \in RoomId : rooms'[j].name = rooms[j].name
    BY <1>2 DEF TypeOK, ChatRoomObject
<1> SUFFICES ASSUME NEW n \in Name, NEW j \in RoomId, connectedToChatRoom'[n] = j,
                    rooms'[j].name \notin Name
             PROVE  n \in Range(rooms'[j].users)
    BY DEF MemberIsListed
<1>4. n # u /\ connectedToChatRoom[n] = j
    BY NullIsNothing DEF TypeOK
<1>5. n \in Range(rooms[j].users)
    BY <1>3, <1>4 DEF MemberIsListed
<1> QED
    BY <1>1, <1>3, <1>4, <1>5

\* When the owner leaves, everybody listed, hence everybody in the room, is out.
LEMMA ListedAfterOwnerLeaves ==
    ASSUME IInv, MemberIsListed, NEW s \in Sock, LeaveAsOwner(s)
    PROVE  MemberIsListed'
<1> DEFINE u == UserOf(s)
           i == connectedToChatRoom[u]
           users == rooms[i].users
<1>1. TypeOK /\ u \in Name
    BY SenderFound DEF IInv, LeaveAsOwner
<1>2. i \in RoomId
    BY <1>1 DEF LeaveAsOwner, InRoom, TypeOK
<1>3. CASE Crash
    BY <1>3, ListedWhenDropped DEF Crash, userVars, roomVars
<1>4. CASE connectedToChatRoom' = Disconnected(users) /\ rooms' = UserRemoved(u, i)
  <2>1. /\ \A j \in RoomId : j # i => rooms'[j].users = rooms[j].users
        /\ \A j \in RoomId : rooms'[j].name = rooms[j].name
      BY <1>1, <1>2, <1>4 DEF UserRemoved, TypeOK, ChatRoomObject
  <2>2. \A n \in Name : connectedToChatRoom'[n] =
                            IF n \in Range(users) THEN NULL ELSE connectedToChatRoom[n]
      BY <1>4 DEF Disconnected
  <2> HIDE DEF i
  <2> SUFFICES ASSUME NEW n \in Name, NEW j \in RoomId, connectedToChatRoom'[n] = j,
                      rooms'[j].name \notin Name
               PROVE  n \in Range(rooms'[j].users)
      BY DEF MemberIsListed
  <2>3. n \notin Range(users) /\ connectedToChatRoom[n] = j
      BY <2>2, NullIsNothing
  <2>4. n \in Range(rooms[j].users)
      BY <2>1, <2>3 DEF MemberIsListed
  <2> QED
      BY <2>1, <2>3, <2>4
<1> QED
    BY <1>3, <1>4 DEF LeaveAsOwner

\* Every step keeps everybody listed.
LEMMA ListedStep ==
    ASSUME IInv, MemberIsListed, Next
    PROVE  MemberIsListed'
<1>1. CASE Crash
    BY <1>1, ListedWhenDropped DEF Crash, userVars, roomVars
<1>2. ASSUME NEW s \in Sock, NEW n \in Name, AddUser(s, n)
      PROVE  MemberIsListed'
  <2>1. \A m \in Name : connectedToChatRoom'[m] \in {NULL, connectedToChatRoom[m]}
      BY <1>2 DEF AddUser, IInv, TypeOK
  <2> QED
      BY <1>2, <2>1, ListedWhenDropped DEF AddUser, roomVars
<1>3. ASSUME ~Crash, NEW s \in Sock, LeaveAsMember(s) \/ ExitAsMember(s)
      PROVE  MemberIsListed'
  <2> DEFINE u == UserOf(s)
             i == connectedToChatRoom[u]
  <2>1. TypeOK /\ u \in Name
      BY <1>3, SenderFound DEF IInv, LeaveAsMember, ExitAsMember
  <2>2. i \in RoomId
      BY <1>3, <2>1 DEF LeaveAsMember, ExitAsMember, InRoom, TypeOK
  <2>3. /\ rooms' = UserRemoved(u, i)
        /\ connectedToChatRoom' = [connectedToChatRoom EXCEPT ![u] = NULL]
      BY <1>3 DEF LeaveAsMember, ExitAsMember
  <2> QED
      BY <2>1, <2>2, <2>3, ListedAfterRemoval
<1>4. ASSUME ~Crash, NEW s \in Sock, ExitAsOwner(s) \/ ExitIdle(s)
      PROVE  MemberIsListed'
  <2>1. connectedToChatRoom' = [connectedToChatRoom EXCEPT ![UserOf(s)] = NULL]
        /\ UNCHANGED rooms
      BY <1>4 DEF ExitAsOwner, ExitIdle, roomVars
  <2>2. \A m \in Name : connectedToChatRoom'[m] \in {NULL, connectedToChatRoom[m]}
      BY <2>1 DEF IInv, TypeOK
  <2> QED
      BY <2>1, <2>2, ListedWhenDropped
<1>5. ASSUME ~Crash, NEW s \in Sock,
             \/ \E from, to \in Name : OpenSession(s, from, to)
             \/ CloseSession(s) \/ LeaveNothing(s) \/ ExitFromSession(s)
             \/ ListUsers(s) \/ ListChatrooms(s)
             \/ \E r \in Room : ListChatroomUsers(s, r)
      PROVE  MemberIsListed'
  <2>1. UNCHANGED <<connectedToChatRoom, rooms>>
      BY <1>5 DEF OpenSession, CloseSession, LeaveNothing, ExitFromSession, ListUsers,
                  ListChatrooms, ListChatroomUsers, Answer, userVars, roomVars
  <2> QED
      BY <2>1, ListedWhenDropped
<1> QED
    BY <1>1, <1>2, <1>3, <1>4, <1>5, ListedAfterCreate, ListedAfterJoin,
       ListedAfterOwnerLeaves
    DEF Next, Handle, LeaveChatroom, UserExit, BrokenPipe

\* Whoever points to a room is in its vector.
THEOREM MembersAreListed == Spec => []MemberIsListed
<1>1. Init => MemberIsListed
    BY NullIsNothing DEF Init, MemberIsListed
<1>2. IInv /\ MemberIsListed /\ [Next]_vars => MemberIsListed'
  <2> SUFFICES ASSUME IInv, MemberIsListed, [Next]_vars
               PROVE  MemberIsListed'
      OBVIOUS
  <2>1. CASE UNCHANGED vars
      BY <2>1, ListedWhenDropped DEF vars, userVars, roomVars
  <2>2. CASE Next
      BY <2>2, ListedStep
  <2> QED
      BY <2>1, <2>2
<1> QED
    BY <1>1, <1>2, Invariance, PTL DEF Spec

-------------------------------------------------------------------------------
(* Those who are listed hear of the closing. *)

\* A broadcast reaches whoever is listed and connected, at least once.
LEMMA ListedAreReached ==
    ASSUME TypeOK, NEW users \in Seq(Name), NEW n \in Range(users), NEW msg \in Message
    PROVE  msg \in Range(Broadcast(users, msg)[users_map[n]]) \/ users_map[n] = NULL
<1> DEFINE t == users_map[n]
           at == {i \in DOMAIN users : users_map[users[i]] = t}
           c == Cardinality(at)
<1> SUFFICES ASSUME t # NULL
             PROVE  msg \in Range(Broadcast(users, msg)[t])
    OBVIOUS
<1>1. n \in Name
    BY DEF Range
<1>2. t \in Sock
    BY <1>1 DEF TypeOK
<1>3. PICK k \in DOMAIN users : users[k] = n
    BY DEF Range
<1>4. k \in at
    BY <1>3
<1>5. DOMAIN users = 1..Len(users) /\ Len(users) \in Nat
    OBVIOUS
<1>6. IsFiniteSet(at)
    BY <1>5, PositionsAreFinite
<1>7. c \in Nat /\ c # 0
    BY <1>4, <1>6, FS_CardinalityType, FS_EmptySet
<1>8. Broadcast(users, msg)[t] = [j \in 1..c |-> msg]
    BY <1>2 DEF Broadcast
<1> HIDE DEF c, t
<1>9. 1 \in 1..c
    BY <1>7
<1> QED
    BY <1>8, <1>9 DEF Range

\* What is written first stays, whatever is written to a socket afterwards.
LEMMA FirstIsSent ==
    ASSUME NEW first \in Writes, NEW second \in Writes, NEW t \in Sock,
           NEW msg \in Range(first[t])
    PROVE  msg \in Range(Then(first, second)[t])
<1>1. first[t] \in Seq(Message) /\ second[t] \in Seq(Message)
    BY DEF Writes
<1>2. Then(first, second)[t] = first[t] \o second[t]
    BY DEF Then
<1>3. PICK k \in DOMAIN first[t] : first[t][k] = msg
    BY DEF Range
<1>4. k \in 1..Len(first[t] \o second[t]) /\ (first[t] \o second[t])[k] = msg
  <2> DEFINE a == first[t]
             b == second[t]
  <2>1. /\ Len(a \o b) = Len(a) + Len(b)
        /\ \A j \in 1..Len(a) + Len(b) :
              (a \o b)[j] = IF j <= Len(a) THEN a[j] ELSE b[j - Len(a)]
      BY <1>1, ConcatProperties
  <2>2. k \in 1..Len(a) /\ Len(a) \in Nat /\ Len(b) \in Nat
      BY <1>1, <1>3
  <2>3. a[k] = msg
      BY <1>3
  <2> HIDE DEF a, b
  <2>4. k \in 1..Len(a) + Len(b) /\ k <= Len(a)
      BY <2>2
  <2>5. k \in 1..Len(a \o b) /\ (a \o b)[k] = msg
      BY <2>1, <2>3, <2>4
  <2> QED
      BY <2>5 DEF a, b
<1>5. DOMAIN (first[t] \o second[t]) = 1..Len(first[t] \o second[t])
    BY <1>1, ConcatProperties
<1> QED
    BY <1>2, <1>4, <1>5 DEF Range

\* The room an owner erases is the one under that name, so its vector has
\* everybody who points there, and the vector is what the loop writes to.
LEMMA ClosingIsHeard ==
    ASSUME IInv, MemberIsListed, NEW s \in Sock, ~Crash,
           LeaveAsOwner(s) \/ ExitAsOwner(s),
           NEW n \in Connected, NEW r \in Room \ Name,
           connectedToChatRoom[n] = chatrooms_map[r],
           chatrooms_map[r] \notin {NULL, chatrooms_map'[r]}
    PROVE  Msg("CHATROOM_WAS_CLOSED", <<>>) \in Range(sent'[users_map[n]])
<1> DEFINE u == UserOf(s)
           i == connectedToChatRoom[u]
           users == rooms[i].users
           msg == Msg("CHATROOM_WAS_CLOSED", <<>>)
<1>1. TypeOK /\ RoomInv /\ u \in Name
    BY SenderFound, IInvParts DEF LeaveAsOwner, ExitAsOwner
<1>2. i \in RoomId /\ Owns(u, i) /\ chatrooms_map' = RoomErased(i)
    BY <1>1 DEF LeaveAsOwner, ExitAsOwner, InRoom, TypeOK
<1>3. r = rooms[i].name /\ chatrooms_map[r] = i
    BY <1>1, <1>2, RoomErasedByOwner
<1>4. users \in Seq(Name)
    BY <1>1, <1>2 DEF TypeOK, ChatRoomObject
<1>5. n \in Range(users)
    BY <1>2, <1>3 DEF MemberIsListed, Connected
<1>6. users_map[n] # NULL /\ users_map[n] \in Sock
    BY <1>1 DEF Connected, TypeOK
<1>7. msg \in Message /\ Msg("BYE_BYE_MSG", <<>>) \in Message
    BY MsgType DEF Naming, Listing, Bare
<1>8. sent' \in {Broadcast(users, msg), Then(Broadcast(users, msg), Bye(s))}
    BY DEF LeaveAsOwner, ExitAsOwner
<1>9. Broadcast(users, msg) \in Writes /\ Bye(s) \in Writes
    BY <1>4, <1>7, BroadcastType, ToType DEF Bye
<1> HIDE DEF msg, users
<1>10. msg \in Range(Broadcast(users, msg)[users_map[n]])
    BY <1>1, <1>4, <1>5, <1>6, <1>7, ListedAreReached
<1>11. msg \in Range(Then(Broadcast(users, msg), Bye(s))[users_map[n]])
    BY <1>6, <1>9, <1>10, FirstIsSent
<1> QED
    BY <1>8, <1>10, <1>11 DEF msg

\* No other handler takes a room out of the map.
LEMMA OnlyClosingErases ==
    ASSUME IInv, Next, NEW r \in Room, chatrooms_map[r] \notin {NULL, chatrooms_map'[r]}
    PROVE  ~Crash /\ \E s \in Sock : LeaveAsOwner(s) \/ ExitAsOwner(s)
<1>1. chatrooms_map' # chatrooms_map /\ chatrooms_map[r] # NULL
    OBVIOUS
<1>2. ~Crash
    BY <1>1 DEF Crash, roomVars
<1>3. ASSUME NEW s \in Sock, NEW q \in Room, CreateChatroom(s, q)
      PROVE  FALSE
  <2>1. chatrooms_map'[r] = chatrooms_map[r]
      BY <1>1, <1>3 DEF CreateChatroom, IInv, TypeOK
  <2> QED
      BY <2>1
<1>4. ASSUME NEW s \in Sock,
             \/ \E n \in Name : AddUser(s, n)
             \/ \E from, to \in Name : OpenSession(s, from, to)
             \/ CloseSession(s) \/ LeaveAsMember(s) \/ LeaveNothing(s)
             \/ ExitAsMember(s) \/ ExitFromSession(s) \/ ExitIdle(s)
             \/ ListUsers(s) \/ ListChatrooms(s)
             \/ \E q \in Room : JoinChatroom(s, q) \/ ListChatroomUsers(s, q)
      PROVE  FALSE
    BY <1>1, <1>2, <1>4
    DEF AddUser, OpenSession, CloseSession, LeaveAsMember, LeaveNothing, ExitAsMember,
        ExitFromSession, ExitIdle, ListUsers, ListChatrooms, JoinChatroom,
        ListChatroomUsers, Answer, roomVars
<1> QED
    BY <1>2, <1>3, <1>4 DEF Next, Handle, LeaveChatroom, UserExit, BrokenPipe

\* Nobody is left in a closed room without being told.
THEOREM MembersHear == Spec => MembersHearOfClosing
<1> DEFINE Ok == \A n \in Connected : \A r \in Room \ Name :
                    /\ connectedToChatRoom[n] = chatrooms_map[r]
                    /\ chatrooms_map[r] \notin {NULL, chatrooms_map'[r]}
                    => Msg("CHATROOM_WAS_CLOSED", <<>>) \in Range(sent'[users_map[n]])
<1>1. IInv /\ MemberIsListed /\ [Next]_vars => [Ok]_vars
  <2> SUFFICES ASSUME IInv, MemberIsListed, Next PROVE Ok
      OBVIOUS
  <2> QED
      BY OnlyClosingErases, ClosingIsHeard
<1> QED
    BY <1>1, Invariance, MembersAreListed, PTL DEF Spec, MembersHearOfClosing

-------------------------------------------------------------------------------
(* What a user hears of its room, while users do nothing but enter rooms, leave   *)
(* them and exit, and no room has the name of a user.                             *)

\* A vector in which nobody is twice loses the user who is removed, and nobody else.
LEMMA RemovedFromDistinct ==
    ASSUME NEW S, NEW users \in Seq(S), IsInjective(users), NEW user
    PROVE  /\ IsInjective(remove_user(users, user))
           /\ Range(remove_user(users, user)) = Range(users) \ {user}
<1> DEFINE len == Len(users)
           kept == Kept(users, user)
           card == Cardinality(kept)
           at(k) == CHOOSE i \in kept : Rank(kept, i) = k
           rest == remove_user(users, user)
<1>1. len \in Nat /\ kept \in SUBSET (1..len) /\ DOMAIN users = 1..len
    BY DEF Kept
<1>2. kept \in SUBSET Nat /\ IsFiniteSet(kept) /\ card \in Nat
    BY <1>1, PositionsAreFinite
<1>3. rest = [k \in 1..card |-> users[at(k)]]
    BY DEF remove_user, Picked
<1>4. \A i \in kept : users[i] # user
  <2> SUFFICES ASSUME NEW i \in 1..len, users[i] = user
               PROVE  Erased(users, user, i)
      BY <1>1 DEF Kept
  <2>1. 0 \in 0..(i - 1) /\ 0 % 2 = 0 /\ i - 0 = i /\ i..i = {i} /\ i - 0 - 1 = i - 1
      OBVIOUS
  <2>2. \A j \in (i - 0)..i : users[j] = user
      BY <2>1
  <2>3. i = 1 \/ users[i - 1] # user
    <3>1. i = 1 \/ (i - 1 \in 1..len /\ i - 1 # i)
        BY <1>1
    <3> QED
        BY <1>1, <3>1 DEF IsInjective
  <2> QED
      BY <2>1, <2>2, <2>3 DEF Erased
<1> HIDE DEF kept, len
<1>5. \A k \in 1..card : at(k) \in kept /\ Rank(kept, at(k)) = k
    BY <1>2, EveryRankIsTaken
<1>6. DOMAIN rest = 1..card
    BY <1>3
<1>7. \A k \in 1..card : rest[k] = users[at(k)] /\ rest[k] # user
    BY <1>3, <1>4, <1>5
<1>8. IsInjective(rest)
  <2> SUFFICES ASSUME NEW j \in 1..card, NEW k \in 1..card, rest[j] = rest[k]
               PROVE  j = k
      BY <1>6 DEF IsInjective
  <2>1. at(j) \in 1..len /\ at(k) \in 1..len /\ users[at(j)] = users[at(k)]
      BY <1>1, <1>5, <1>7
  <2>2. at(j) = at(k)
    <3> HIDE DEF at
    <3> QED
        BY <1>1, <2>1 DEF IsInjective
  <2>3. Rank(kept, at(j)) = j /\ Rank(kept, at(k)) = k
      BY <1>5
  <2> HIDE DEF at
  <2> QED
      BY <2>2, <2>3
<1>9. user \notin Range(rest)
    BY <1>6, <1>7 DEF Range
<1> HIDE DEF rest
<1>10. /\ Range(remove_user(users, user)) \subseteq Range(users)
       /\ Range(users) \ {user} \subseteq Range(remove_user(users, user))
    BY RemoveUserKeepsOthers
<1> QED
    BY <1>8, <1>9, <1>10 DEF rest

\* And one who is added is listed behind the others.
LEMMA AddedToDistinct ==
    ASSUME NEW S, NEW users \in Seq(S), IsInjective(users), NEW user \in S,
           user \notin Range(users), NEW name, name \notin Range(users)
    PROVE  /\ IsInjective(add_user(name, users, user))
           /\ Range(add_user(name, users, user)) = Range(users) \cup {user}
<1> DEFINE more == Append(users, user)
<1>1. /\ DOMAIN more = 1..(Len(users) + 1) /\ Len(users) \in Nat /\ DOMAIN users = 1..Len(users)
      /\ \A i \in 1..Len(users) : more[i] = users[i]
      /\ more[Len(users) + 1] = user
    OBVIOUS
<1> HIDE DEF more
<1>2. \A i \in 1..Len(users) : users[i] # user
    BY <1>1 DEF Range
<1>3. \A i \in 1..(Len(users) + 1) : i \in 1..Len(users) \/ i = Len(users) + 1
    BY <1>1
<1>4. IsInjective(more)
  <2> SUFFICES ASSUME NEW i \in 1..(Len(users) + 1), NEW j \in 1..(Len(users) + 1),
                      more[i] = more[j]
               PROVE  i = j
      BY <1>1 DEF IsInjective
  <2>1. CASE i \in 1..Len(users) /\ j \in 1..Len(users)
      BY <1>1, <2>1 DEF IsInjective
  <2> QED
      BY <1>1, <1>2, <1>3, <2>1
<1>5. Range(more) = Range(users) \cup {user}
    BY <1>1, <1>3 DEF Range
<1> QED
    BY <1>4, <1>5 DEF add_user, more

\* A broadcast to users of whom nobody is twice reaches each connected one once.
LEMMA ToldOnce ==
    ASSUME TypeOK, SocketsMatch, NEW users \in Seq(Name), IsInjective(users), NEW msg,
           NEW n \in Connected
    PROVE  Broadcast(users, msg)[users_map[n]] =
               IF n \in Range(users) THEN <<msg>> ELSE <<>>
<1> DEFINE t == users_map[n]
           at == {i \in DOMAIN users : users_map[users[i]] = t}
<1>1. n \in Name /\ t # NULL /\ t \in Sock
    BY DEF Connected, TypeOK
<1>2. Broadcast(users, msg)[t] = [k \in 1..Cardinality(at) |-> msg]
    BY <1>1 DEF Broadcast
<1>3. \A i \in DOMAIN users : users[i] \in Name
    OBVIOUS
<1>4. \A i \in DOMAIN users : i \in at <=> users[i] = n
    BY <1>1, <1>3 DEF SocketsMatch, Connected
<1> HIDE DEF at, t
<1>5. CASE n \in Range(users)
  <2>1. PICK k \in DOMAIN users : users[k] = n
      BY <1>5 DEF Range
  <2>2. at = {k}
      BY <1>4, <2>1 DEF at, IsInjective
  <2>3. Cardinality(at) = 1
      BY <2>2, FS_Singleton
  <2>4. [k2 \in 1..1 |-> msg] = <<msg>>
      OBVIOUS
  <2> QED
      BY <1>2, <1>5, <2>3, <2>4 DEF t
<1>6. CASE n \notin Range(users)
  <2>1. at = {}
      BY <1>4, <1>6 DEF at, Range
  <2>2. Cardinality(at) = 0
      BY <2>1, FS_EmptySet
  <2>3. [k \in 1..0 |-> msg] = <<>>
      OBVIOUS
  <2> QED
      BY <1>2, <1>6, <2>2, <2>3 DEF t
<1> QED
    BY <1>5, <1>6

\* What is written to one socket shows on no other.
LEMMA ToldApart ==
    ASSUME NEW s \in Sock, NEW t \in Sock, NEW msg, NEW w
    PROVE  /\ t # s /\ w[t] \o <<>> = w[t] => Then(w, To(s, msg))[t] = w[t]
           /\ t = s /\ w[t] = <<>> => Then(w, To(s, msg))[t] = <<msg>>
<1>1. To(s, msg)[t] = IF t = s THEN <<msg>> ELSE <<>>
    BY DEF Silent, To
<1>2. Then(w, To(s, msg))[t] = w[t] \o To(s, msg)[t]
    BY DEF Then
<1>3. <<msg>> \in Seq({msg})
    OBVIOUS
<1>4. <<>> \o <<msg>> = <<msg>>
    BY <1>3, ConcatEmptySeq
<1> QED
    BY <1>1, <1>2, <1>4

\* The room that user n points to is in the map.
OnMap(i) == \E r \in Room : chatrooms_map[r] = i

Housed(n) == connectedToChatRoom[n] # NULL /\ OnMap(connectedToChatRoom[n])

\* What user n ought to know of its room.
Inside(n) ==
    [housed |-> Housed(n),
     owns |-> Housed(n) /\ Owns(n, connectedToChatRoom[n]),
     mates |-> IF Housed(n) THEN Range(rooms[connectedToChatRoom[n]].users) \ {n} ELSE {}]

Outdoors == [housed |-> FALSE, owns |-> FALSE, mates |-> {}]

\* Nobody has opened a session; a user is busy while it points to a room; a room in the
\* map lists whoever points to it, once each; a room that is not lists its owner, who is
\* gone for good, so that nothing can be done there any more but crash.
Tidy(gone) ==
    /\ \A n \in Name : /\ in_session_with[n] = NULL
                       /\ connectedToChatRoom[n] # NULL => users_map[n] # NULL
                       /\ connectionStatus[n] <=> connectedToChatRoom[n] # NULL
    /\ \A i \in RoomId : OnMap(i) =>
          /\ IsInjective(rooms[i].users)
          /\ \A n \in Name : n \in Range(rooms[i].users) <=> connectedToChatRoom[n] = i
    /\ \A n \in Name : \A i \in RoomId : connectedToChatRoom[n] = i /\ ~OnMap(i) =>
          /\ rooms[i].owner \in Range(rooms[i].users) \ {n}
          /\ rooms[i].owner \in gone /\ users_map[rooms[i].owner] = NULL

\* What user n is told while its room was one and is another, in a step of user u.
Hears(n, u, was, told, is) ==
    \/ is = was /\ told = <<>>
    \/ is = was /\ \E cmd \in {"CONNECTION_ERROR", "OPEN_SESSION_ERROR2"} :
                      told = <<Msg(cmd, <<>>)>>
    \/ /\ n = u /\ was = Outdoors /\ told = <<Msg("CHATROOM_CREATED", <<>>)>>
       /\ is = [housed |-> TRUE, owns |-> TRUE, mates |-> {}]
    \/ /\ n = u /\ was = Outdoors
       /\ \E names \in Seq(Name) :
             /\ names # <<>> /\ IsInjective(names) /\ n \notin Range(names)
             /\ told = <<Msg("CHATROOM_LIST", names)>>
             /\ is = [housed |-> TRUE, owns |-> FALSE, mates |-> Range(names)]
    \/ /\ told \in {<<Msg("CHATROOM_WAS_CLOSED", <<>>)>>,
                    <<Msg("USER_HAS_LEFT_CHATROOM", <<n>>)>>}
       /\ is = Outdoors
    \/ /\ was.housed /\ n # u /\ u \notin was.mates
       /\ told = <<Msg("NEW_USER_TO_CHATROOM", <<u>>)>>
       /\ is = [housed |-> TRUE, owns |-> was.owns, mates |-> was.mates \cup {u}]
    \/ /\ was.housed /\ n # u /\ u \in was.mates
       /\ told = <<Msg("USER_HAS_LEFT_CHATROOM", <<u>>)>>
       /\ is = [housed |-> TRUE, owns |-> was.owns, mates |-> was.mates \ {u}]

\* Whoever stays on its socket hears what it ought to.
AllHear(u) ==
    \A n \in Connected : users_map'[n] = users_map[n] =>
        Hears(n, u, Inside(n), sent'[users_map[n]], Inside(n)')

\* What a user without a room ought to know, and one with room i.
LEMMA InsideIs ==
    ASSUME NEW n, NEW i, i # NULL
    PROVE  /\ ~Housed(n) => Inside(n) = Outdoors
           /\ ~Housed(n)' => Inside(n)' = Outdoors
           /\ connectedToChatRoom[n] = i /\ OnMap(i) =>
                 Inside(n) = [housed |-> TRUE, owns |-> rooms[i].owner = n,
                              mates |-> Range(rooms[i].users) \ {n}]
           /\ connectedToChatRoom'[n] = i /\ OnMap(i)' =>
                 Inside(n)' = [housed |-> TRUE, owns |-> rooms'[i].owner = n,
                               mates |-> Range(rooms'[i].users) \ {n}]
<1>1. ASSUME ~Housed(n) PROVE Inside(n) = Outdoors
    BY <1>1 DEF Housed, Inside, Outdoors
<1>2. ASSUME ~Housed(n)' PROVE Inside(n)' = Outdoors
    BY <1>2 DEF Housed, Inside, Outdoors
<1>3. ASSUME connectedToChatRoom[n] = i, OnMap(i)
      PROVE  Inside(n) = [housed |-> TRUE, owns |-> rooms[i].owner = n,
                          mates |-> Range(rooms[i].users) \ {n}]
  <2>1. Housed(n) = TRUE /\ (Housed(n) /\ rooms[i].owner = n) = (rooms[i].owner = n)
      BY <1>3 DEF Housed, OnMap
  <2> QED
      BY <1>3, <2>1 DEF Inside, Owns
<1>4. ASSUME connectedToChatRoom'[n] = i, OnMap(i)'
      PROVE  Inside(n)' = [housed |-> TRUE, owns |-> rooms'[i].owner = n,
                           mates |-> Range(rooms'[i].users) \ {n}]
  <2>1. Housed(n)' = TRUE /\ (Housed(n)' /\ rooms'[i].owner = n) = (rooms'[i].owner = n)
      BY <1>4 DEF Housed, OnMap
  <2> QED
      BY <1>4, <2>1 DEF Inside, Owns
<1> QED
    BY <1>1, <1>2, <1>3, <1>4

\* Nothing changes for a user whose room does not.
LEMMA StillInside ==
    ASSUME NEW n, connectedToChatRoom'[n] = connectedToChatRoom[n],
           NEW i, i = connectedToChatRoom[n],
           i # NULL => /\ OnMap(i)' = OnMap(i)
                       /\ OnMap(i) => /\ rooms'[i].owner = rooms[i].owner
                                      /\ rooms'[i].users = rooms[i].users
    PROVE  Inside(n)' = Inside(n)
<1>1. Housed(n)' = Housed(n)
    BY DEF Housed
<1>2. Housed(n) => /\ Owns(n, connectedToChatRoom[n])' = Owns(n, connectedToChatRoom[n])
                   /\ rooms'[connectedToChatRoom'[n]].users = rooms[connectedToChatRoom[n]].users
    BY DEF Housed, Owns
<1> QED
    BY <1>1, <1>2 DEF Inside

\* A crash, and an answer that says that there is no room.
LEMMA CrashUnheard ==
    ASSUME NEW gone, NEW u \in Name, TypeOK, Tidy(gone), Crash
    PROVE  Tidy(gone)' /\ AllHear(u)
<1>1. UNCHANGED <<users_map, connectionStatus, connectedToChatRoom, in_session_with,
                  chatrooms_map, rooms>>
    BY DEF Crash, userVars, roomVars
<1>2. Tidy(gone)'
    BY <1>1 DEF Tidy, OnMap
<1>3. \A n : Inside(n)' = Inside(n)
    BY <1>1 DEF Inside, Housed, OnMap, Owns
<1>4. \A n \in Connected : sent'[users_map[n]] = <<>>
    BY DEF Crash, Silent, Connected, TypeOK
<1> QED
    BY <1>2, <1>3, <1>4 DEF AllHear, Hears

LEMMA NothingLeft ==
    ASSUME NEW gone, IInv, Tidy(gone), NEW s \in Sock, NEW u \in Name, u = UserOf(s),
           LeaveNothing(s)
    PROVE  Tidy(gone)' /\ AllHear(u)
<1>0. TypeOK
    BY DEF IInv
<1>1. PICK cmd \in {"CONNECTION_ERROR", "OPEN_SESSION_ERROR2"} : Answer(s, Msg(cmd, <<>>))
    BY DEF LeaveNothing
<1>2. UNCHANGED <<users_map, connectionStatus, connectedToChatRoom, in_session_with,
                  chatrooms_map, rooms>>
    BY <1>1 DEF Answer, userVars, roomVars
<1>3. Tidy(gone)'
    BY <1>2 DEF Tidy, OnMap
<1>4. \A n : Inside(n)' = Inside(n)
    BY <1>2 DEF Inside, Housed, OnMap, Owns
<1>5. \A n \in Connected : sent'[users_map[n]] \in {<<>>, <<Msg(cmd, <<>>)>>}
    BY <1>0, <1>1 DEF Answer, To, Silent, Connected, TypeOK
<1> QED
    BY <1>3, <1>4, <1>5 DEF AllHear, Hears

\* A user logs in, whose name is not that of one who is gone.
LEMMA NewcomerUnheard ==
    ASSUME NEW gone, TypeOK, Tidy(gone), NEW s \in Sock, NEW n \in Name, n \notin gone,
           AddUser(s, n)
    PROVE  /\ Tidy(gone)'
           /\ \A m \in Name : Inside(m)' = Inside(m)
           /\ Inside(n) = Outdoors
<1>1. /\ users_map[n] = NULL /\ connectedToChatRoom[n] = NULL /\ ~connectionStatus[n]
      /\ s # NULL
    BY NullIsNothing DEF AddUser, checkUser, Tidy
<1>2. /\ connectionStatus' = connectionStatus /\ connectedToChatRoom' = connectedToChatRoom
      /\ UNCHANGED <<in_session_with, chatrooms_map, rooms>>
    BY <1>1 DEF AddUser, TypeOK, roomVars
<1>3. \A m \in Name : users_map'[m] = IF m = n THEN s ELSE users_map[m]
    BY DEF AddUser, TypeOK
<1>4. \A i : OnMap(i)' = OnMap(i)
    BY <1>2 DEF OnMap
<1>5. Tidy(gone)'
  <2>1. \A m \in Name : /\ in_session_with'[m] = NULL
                        /\ connectedToChatRoom'[m] # NULL => users_map'[m] # NULL
                        /\ connectionStatus'[m] <=> connectedToChatRoom'[m] # NULL
      BY <1>1, <1>2, <1>3 DEF Tidy
  <2>2. \A i \in RoomId : OnMap(i)' =>
            /\ IsInjective(rooms'[i].users)
            /\ \A m \in Name : m \in Range(rooms'[i].users) <=> connectedToChatRoom'[m] = i
      BY <1>2, <1>4 DEF Tidy
  <2>3. ASSUME NEW m \in Name, NEW i \in RoomId, connectedToChatRoom'[m] = i, ~OnMap(i)'
        PROVE  /\ rooms'[i].owner \in Range(rooms'[i].users) \ {m}
               /\ rooms'[i].owner \in gone /\ users_map'[rooms'[i].owner] = NULL
    <3>1. /\ rooms[i].owner \in Range(rooms[i].users) \ {m}
          /\ rooms[i].owner \in gone /\ users_map[rooms[i].owner] = NULL
        BY <1>2, <1>4, <2>3 DEF Tidy
    <3>2. rooms[i].owner \in Name
      <4>1. rooms[i].users \in Seq(Name)
          BY DEF TypeOK, ChatRoomObject
      <4> QED
          BY <3>1, <4>1 DEF Range
    <3> QED
        BY <1>2, <1>3, <3>1, <3>2
  <2> QED
      BY <2>1, <2>2, <2>3 DEF Tidy
<1>6. \A m \in Name : Inside(m)' = Inside(m)
    BY <1>2 DEF Inside, Housed, OnMap, Owns
<1>7. Inside(n) = Outdoors
    BY <1>1 DEF Inside, Housed, Outdoors
<1> QED
    BY <1>5, <1>6, <1>7

\* A room that is created has its creator in it and nobody else.
LEMMA CreatorHears ==
    ASSUME NEW gone, IInv, Tidy(gone), NEW s \in Sock, NEW u \in Name, u = UserOf(s),
           ~Housed(u), NEW r \in Room, CreateChatroom(s, r)
    PROVE  Tidy(gone)' /\ AllHear(u)
<1>1. /\ TypeOK /\ SocketsMatch /\ u \in Connected /\ users_map[u] = s
      /\ \A n \in Name : users_map[n] = s => n = u
    BY SenderFound, IInvParts DEF CreateChatroom
<1> DEFINE room == [name |-> r, owner |-> u, users |-> <<u>>]
<1>2. PICK i \in RoomId :
         /\ Fresh(i)
         /\ chatrooms_map' = [chatrooms_map EXCEPT ![r] = i]
         /\ rooms' = [rooms EXCEPT ![i] = room]
         /\ Enter(u, i)
    BY DEF CreateChatroom
<1>3. room.owner = u /\ room.users = <<u>> /\ Range(<<u>>) = {u} /\ IsInjective(<<u>>)
    BY DEF Range, IsInjective
<1> HIDE DEF room
<1>4. /\ rooms'[i].owner = u /\ rooms'[i].users = <<u>>
      /\ \A j \in RoomId : j # i => rooms'[j] = rooms[j]
    BY <1>1, <1>2, <1>3 DEF TypeOK
<1>5. i # NULL /\ \A j \in RoomId : j # NULL
    BY NullIsNothing
<1>6. OnMap(i)' /\ ~OnMap(i) /\ \A j \in RoomId : j # i => OnMap(j)' = OnMap(j)
  <2>1. /\ \A q \in Room : chatrooms_map'[q] = IF q = r THEN i ELSE chatrooms_map[q]
        /\ \A q \in Room : chatrooms_map[q] # i
        /\ chatrooms_map[r] = NULL
      BY <1>1, <1>2 DEF TypeOK, Fresh, CreateChatroom
  <2> QED
      BY <1>5, <2>1 DEF OnMap
<1>7. /\ UNCHANGED <<users_map, in_session_with>>
      /\ \A n \in Name : connectionStatus'[n] = IF n = u THEN TRUE ELSE connectionStatus[n]
      /\ \A n \in Name : connectedToChatRoom'[n] = IF n = u THEN i ELSE connectedToChatRoom[n]
      /\ \A n \in Name : connectedToChatRoom[n] # i
    BY <1>1, <1>2 DEF Enter, TypeOK, Fresh
<1>8. users_map[u] # NULL
    BY <1>1 DEF Connected
<1>9. Tidy(gone)'
  <2>1. \A n \in Name : /\ in_session_with'[n] = NULL
                        /\ connectedToChatRoom'[n] # NULL => users_map'[n] # NULL
                        /\ connectionStatus'[n] <=> connectedToChatRoom'[n] # NULL
      BY <1>5, <1>7, <1>8 DEF Tidy
  <2>2. ASSUME NEW j \in RoomId, OnMap(j)'
        PROVE  /\ IsInjective(rooms'[j].users)
               /\ \A n \in Name : n \in Range(rooms'[j].users) <=> connectedToChatRoom'[n] = j
    <3>1. CASE j = i
        BY <1>3, <1>4, <1>7, <3>1
    <3>2. CASE j # i
      <4>1. OnMap(j) /\ connectedToChatRoom[u] # j
          BY <1>5, <1>6, <2>2, <3>2 DEF Housed
      <4> QED
          BY <1>4, <1>7, <3>2, <4>1 DEF Tidy
    <3> QED
        BY <3>1, <3>2
  <2>3. \A n \in Name : \A j \in RoomId : connectedToChatRoom'[n] = j /\ ~OnMap(j)' =>
            /\ rooms'[j].owner \in Range(rooms'[j].users) \ {n}
            /\ rooms'[j].owner \in gone /\ users_map'[rooms'[j].owner] = NULL
    <3> SUFFICES ASSUME NEW n \in Name, NEW j \in RoomId, connectedToChatRoom'[n] = j, ~OnMap(j)'
                 PROVE  /\ rooms'[j].owner \in Range(rooms'[j].users) \ {n}
                        /\ rooms'[j].owner \in gone /\ users_map'[rooms'[j].owner] = NULL
        OBVIOUS
    <3>1. j # i /\ ~OnMap(j) /\ connectedToChatRoom[n] = j
        BY <1>6, <1>7
    <3> QED
        BY <1>4, <1>7, <3>1 DEF Tidy
  <2> QED
      BY <2>1, <2>2, <2>3 DEF Tidy
<1>10. Inside(u) = Outdoors
    BY <1>5, InsideIs
<1>11. Inside(u)' = [housed |-> TRUE, owns |-> TRUE, mates |-> {}]
  <2>1. Inside(u)' = [housed |-> TRUE, owns |-> rooms'[i].owner = u,
                      mates |-> Range(rooms'[i].users) \ {u}]
      BY <1>5, <1>6, <1>7, InsideIs
  <2>2. (rooms'[i].owner = u) = TRUE /\ Range(rooms'[i].users) \ {u} = {}
      BY <1>3, <1>4
  <2> QED
      BY <2>1, <2>2
<1>12. ASSUME NEW n \in Connected, n # u
       PROVE  Inside(n)' = Inside(n)
  <2>1. n \in Name /\ connectedToChatRoom'[n] = connectedToChatRoom[n]
        /\ connectedToChatRoom[n] # i /\ connectedToChatRoom[n] \in RoomId \cup {NULL}
      BY <1>1, <1>7, <1>12 DEF Connected, TypeOK
  <2> QED
      BY <1>4, <1>6, <2>1, StillInside
<1>13. \A t \in Sock : sent'[t] = IF t = s THEN <<Msg("CHATROOM_CREATED", <<>>)>> ELSE <<>>
    BY DEF CreateChatroom, To, Silent
<1>14. \A n \in Connected : users_map[n] \in Sock /\ (users_map[n] = s => n = u)
    BY <1>1 DEF Connected, TypeOK
<1>15. ASSUME NEW n \in Connected
       PROVE  Hears(n, u, Inside(n), sent'[users_map[n]], Inside(n)')
  <2>1. CASE n = u
    <3>1. sent'[users_map[n]] = <<Msg("CHATROOM_CREATED", <<>>)>>
        BY <1>1, <1>13, <2>1
    <3> QED
        BY <1>10, <1>11, <2>1, <3>1 DEF Hears
  <2>2. CASE n # u
      BY <1>12, <1>13, <1>14, <2>2 DEF Hears
  <2> QED
      BY <2>1, <2>2
<1> QED
    BY <1>9, <1>15 DEF AllHear

\* A user who joins gets the list of the others, and these hear of it.
LEMMA JoiningIsHeard ==
    ASSUME Name \cap Room = {}, NEW gone, IInv, Tidy(gone), NEW s \in Sock,
           NEW u \in Name, u = UserOf(s), ~Housed(u), NEW r \in Room, JoinChatroom(s, r)
    PROVE  Tidy(gone)' /\ AllHear(u)
<1>1. /\ TypeOK /\ SocketsMatch /\ u \in Connected /\ users_map[u] = s
      /\ \A n \in Name : users_map[n] = s => n = u
    BY SenderFound, IInvParts DEF JoinChatroom
<1>2. PICK i \in RoomId : i = chatrooms_map[r]
    BY <1>1 DEF JoinChatroom, TypeOK
<1>3. PICK users \in Seq(Name) : users = rooms[i].users
    BY <1>1 DEF TypeOK, ChatRoomObject
<1>4. /\ i # NULL /\ OnMap(i) /\ \A j \in RoomId : j # NULL
      /\ rooms[i].name = r /\ rooms[i].owner \in Range(users)
    BY <1>2, <1>3, NullIsNothing DEF OnMap, IInv, OwnerIsListed
<1>5. CASE Crash
    BY <1>1, <1>5, CrashUnheard
<1> DEFINE more == add_user(r, users, u)
<1>6. CASE /\ rooms' = [rooms EXCEPT ![i].users = more]
           /\ Enter(u, i)
           /\ sent' = Then(Broadcast(users, Msg("NEW_USER_TO_CHATROOM", <<u>>)),
                           To(s, Msg("CHATROOM_LIST", users)))
           /\ UNCHANGED chatrooms_map
  <2>1. /\ IsInjective(users)
        /\ \A n \in Name : n \in Range(users) <=> connectedToChatRoom[n] = i
      BY <1>3, <1>4 DEF Tidy
  <2>2. connectedToChatRoom[u] # i /\ u \notin Range(users)
      BY <1>4, <2>1 DEF Housed
  <2>3. r \notin Range(users)
    <3>1. Range(users) \subseteq Name
        BY DEF Range
    <3> QED
        BY <3>1
  <2>4. IsInjective(more) /\ Range(more) = Range(users) \cup {u}
      BY <2>1, <2>2, <2>3, AddedToDistinct
  <2> HIDE DEF more
  <2>5. /\ rooms'[i].users = more
        /\ \A j \in RoomId : j # i => rooms'[j].users = rooms[j].users
        /\ \A j \in RoomId : rooms'[j].owner = rooms[j].owner
      BY <1>1, <1>6 DEF TypeOK, ChatRoomObject
  <2>6. \A j : OnMap(j)' = OnMap(j)
      BY <1>6 DEF OnMap
  <2>7. /\ UNCHANGED <<users_map, in_session_with>>
        /\ \A n \in Name : connectionStatus'[n] = IF n = u THEN TRUE ELSE connectionStatus[n]
        /\ \A n \in Name : connectedToChatRoom'[n] = IF n = u THEN i ELSE connectedToChatRoom[n]
      BY <1>1, <1>6 DEF Enter, TypeOK
  <2>8. users_map[u] # NULL
      BY <1>1 DEF Connected
  <2>9. Tidy(gone)'
    <3>1. \A n \in Name : /\ in_session_with'[n] = NULL
                          /\ connectedToChatRoom'[n] # NULL => users_map'[n] # NULL
                          /\ connectionStatus'[n] <=> connectedToChatRoom'[n] # NULL
        BY <1>4, <2>7, <2>8 DEF Tidy
    <3>2. ASSUME NEW j \in RoomId, OnMap(j)'
          PROVE  /\ IsInjective(rooms'[j].users)
                 /\ \A n \in Name : n \in Range(rooms'[j].users) <=> connectedToChatRoom'[n] = j
      <4>1. CASE j = i
          BY <2>1, <2>4, <2>5, <2>7, <4>1
      <4>2. CASE j # i
        <5>1. OnMap(j) /\ connectedToChatRoom[u] # j
            BY <1>4, <2>6, <3>2 DEF Housed
        <5> QED
            BY <2>5, <2>7, <4>2, <5>1 DEF Tidy
      <4> QED
          BY <4>1, <4>2
    <3>3. ASSUME NEW n \in Name, NEW j \in RoomId, connectedToChatRoom'[n] = j, ~OnMap(j)'
          PROVE  /\ rooms'[j].owner \in Range(rooms'[j].users) \ {n}
                 /\ rooms'[j].owner \in gone /\ users_map'[rooms'[j].owner] = NULL
      <4>1. j # i /\ ~OnMap(j) /\ connectedToChatRoom[n] = j
          BY <1>4, <2>6, <2>7, <3>3
      <4> QED
          BY <2>5, <2>7, <4>1 DEF Tidy
    <3> QED
        BY <3>1, <3>2, <3>3 DEF Tidy
  <2>10. Inside(u) = Outdoors
      BY <1>4, InsideIs
  <2>11. Inside(u)' = [housed |-> TRUE, owns |-> FALSE, mates |-> Range(users)]
    <3>1. Inside(u)' = [housed |-> TRUE, owns |-> rooms'[i].owner = u,
                        mates |-> Range(rooms'[i].users) \ {u}]
        BY <1>4, <2>6, <2>7, InsideIs
    <3>2. (rooms'[i].owner = u) = FALSE
        BY <1>4, <2>2, <2>5
    <3>3. Range(rooms'[i].users) \ {u} = Range(users)
        BY <2>2, <2>4, <2>5
    <3> QED
        BY <3>1, <3>2, <3>3
  <2>12. ASSUME NEW n \in Connected, n # u, n \notin Range(users)
         PROVE  Inside(n)' = Inside(n)
    <3>1. n \in Name /\ connectedToChatRoom'[n] = connectedToChatRoom[n]
          /\ connectedToChatRoom[n] # i /\ connectedToChatRoom[n] \in RoomId \cup {NULL}
        BY <1>1, <2>1, <2>7, <2>12 DEF Connected, TypeOK
    <3> QED
        BY <2>5, <2>6, <3>1, StillInside
  <2>13. ASSUME NEW n \in Connected, n # u, n \in Range(users)
         PROVE  /\ Inside(n).housed /\ u \notin Inside(n).mates
                /\ Inside(n)' = [housed |-> TRUE, owns |-> Inside(n).owns,
                                mates |-> Inside(n).mates \cup {u}]
    <3>1. n \in Name /\ connectedToChatRoom'[n] = i /\ connectedToChatRoom[n] = i
        BY <2>1, <2>7, <2>13 DEF Connected
    <3>2. PICK own \in BOOLEAN : own = (rooms[i].owner = n)
        OBVIOUS
    <3>3. Inside(n) = [housed |-> TRUE, owns |-> own, mates |-> Range(users) \ {n}]
        BY <1>3, <1>4, <3>1, <3>2, InsideIs
    <3>4. Inside(n)' = [housed |-> TRUE, owns |-> own, mates |-> Range(more) \ {n}]
      <4>1. Inside(n)' = [housed |-> TRUE, owns |-> rooms'[i].owner = n,
                          mates |-> Range(rooms'[i].users) \ {n}]
          BY <1>4, <2>6, <3>1, InsideIs
      <4> QED
          BY <2>5, <3>2, <4>1
    <3>5. Range(more) \ {n} = (Range(users) \ {n}) \cup {u}
        BY <2>4, <2>13
    <3>6. u \notin Range(users) \ {n}
        BY <2>2
    <3>7. PICK mates : mates = Range(users) \ {n}
        OBVIOUS
    <3>8. Inside(n) = [housed |-> TRUE, owns |-> own, mates |-> mates]
          /\ Inside(n)' = [housed |-> TRUE, owns |-> own, mates |-> mates \cup {u}]
        BY <3>3, <3>4, <3>5, <3>7
    <3>9. Inside(n).housed /\ Inside(n).owns = own /\ Inside(n).mates = mates
        BY <3>8
    <3> QED
        BY <3>6, <3>7, <3>8, <3>9
  <2>14. \A n \in Connected : users_map[n] \in Sock /\ (users_map[n] = s => n = u)
      BY <1>1 DEF Connected, TypeOK
  <2> DEFINE news == Msg("NEW_USER_TO_CHATROOM", <<u>>)
             list == Msg("CHATROOM_LIST", users)
  <2>15. \A n \in Connected : Broadcast(users, news)[users_map[n]] =
                                  IF n \in Range(users) THEN <<news>> ELSE <<>>
      BY <1>1, <2>1, ToldOnce
  <2> HIDE DEF news, list
  <2>16. ASSUME NEW n \in Connected
         PROVE  sent'[users_map[n]] = IF n = u THEN <<list>>
                                      ELSE IF n \in Range(users) THEN <<news>> ELSE <<>>
    <3>1. PICK w, t : w = Broadcast(users, news) /\ t = users_map[n] /\ t \in Sock
        BY <2>14
    <3>2. /\ sent' = Then(w, To(s, list))
          /\ w[t] = IF n \in Range(users) THEN <<news>> ELSE <<>>
        BY <1>6, <2>15, <3>1 DEF news, list
    <3>3. t = s <=> n = u
        BY <1>1, <2>14, <3>1
    <3>4. w[t] \o <<>> = w[t]
      <4>1. <<>> \in Seq({news}) /\ <<news>> \in Seq({news})
          OBVIOUS
      <4> QED
          BY <3>2, <4>1, ConcatEmptySeq
    <3>5. /\ t # s => Then(w, To(s, list))[t] = w[t]
          /\ t = s /\ w[t] = <<>> => Then(w, To(s, list))[t] = <<list>>
        BY <3>1, <3>4, ToldApart
    <3>6. n = u => w[t] = <<>>
        BY <2>2, <3>2
    <3> QED
        BY <3>1, <3>2, <3>3, <3>5, <3>6
  <2>17. ASSUME NEW n \in Connected
         PROVE  Hears(n, u, Inside(n), sent'[users_map[n]], Inside(n)')
    <3>1. CASE n = u
      <4>1. users # <<>>
          BY <1>4 DEF Range
      <4>2. sent'[users_map[n]] = <<Msg("CHATROOM_LIST", users)>>
          BY <2>16, <3>1 DEF list
      <4> QED
          BY <2>1, <2>2, <2>10, <2>11, <3>1, <4>1, <4>2 DEF Hears
    <3>2. CASE n # u /\ n \in Range(users)
      <4>1. sent'[users_map[n]] = <<Msg("NEW_USER_TO_CHATROOM", <<u>>)>>
          BY <2>16, <3>2 DEF news
      <4> QED
          BY <2>13, <3>2, <4>1 DEF Hears
    <3>3. CASE n # u /\ n \notin Range(users)
        BY <2>12, <2>16, <3>3 DEF Hears
    <3> QED
        BY <3>1, <3>2, <3>3
  <2> QED
      BY <2>9, <2>17 DEF AllHear
<1> QED
    BY <1>2, <1>3, <1>4, <1>5, <1>6 DEF JoinChatroom

\* In a room that is not in the map its owner is listed and has no User object.
LEMMA NoWayOut ==
    ASSUME NEW gone, TypeOK, Tidy(gone), NEW u \in Name, NEW i \in RoomId,
           connectedToChatRoom[u] = i, ~OnMap(i)
    PROVE  /\ ~Owns(u, i) /\ Missing(rooms[i].users)
           /\ Missing(remove_user(rooms[i].users, u))
<1>1. /\ rooms[i].owner \in Range(rooms[i].users) \ {u}
      /\ users_map[rooms[i].owner] = NULL
    BY DEF Tidy
<1>2. rooms[i].users \in Seq(Name)
    BY DEF TypeOK, ChatRoomObject
<1>3. Range(rooms[i].users) \ {u} \subseteq Range(remove_user(rooms[i].users, u))
    BY <1>2, RemoveUserKeepsOthers
<1> QED
    BY <1>1, <1>3 DEF Owns, Missing

\* A member is out, and the others have one less to share the room with.
LEMMA MemberIsOut ==
    ASSUME NEW gone, TypeOK, Tidy(gone), NEW u \in Name, NEW i \in RoomId,
           connectedToChatRoom[u] = i, OnMap(i), ~Owns(u, i),
           rooms' = UserRemoved(u, i),
           connectionStatus' = [connectionStatus EXCEPT ![u] = FALSE],
           connectedToChatRoom' = [connectedToChatRoom EXCEPT ![u] = NULL],
           UNCHANGED <<in_session_with, chatrooms_map>>,
           users_map' \in {users_map, [users_map EXCEPT ![u] = NULL]}
    PROVE  /\ Tidy(gone)'
           /\ u \in Range(rooms[i].users)
           /\ Inside(u)' = Outdoors
           /\ \A n \in Name \ {u} : n \notin Range(rooms[i].users) => Inside(n)' = Inside(n)
           /\ \A n \in Name \ {u} : n \in Range(rooms[i].users) =>
                 /\ Inside(n).housed /\ u \in Inside(n).mates
                 /\ Inside(n)' = [housed |-> TRUE, owns |-> Inside(n).owns,
                                  mates |-> Inside(n).mates \ {u}]
<1>1. PICK users \in Seq(Name) : users = rooms[i].users
    BY DEF TypeOK, ChatRoomObject
<1>2. /\ IsInjective(users)
      /\ \A n \in Name : n \in Range(users) <=> connectedToChatRoom[n] = i
    BY <1>1 DEF Tidy
<1> DEFINE rest == remove_user(users, u)
<1>3. IsInjective(rest) /\ Range(rest) = Range(users) \ {u}
    BY <1>2, RemovedFromDistinct
<1>4. rooms' = [rooms EXCEPT ![i].users = rest]
    BY <1>1 DEF UserRemoved
<1> HIDE DEF rest
<1>5. /\ rooms'[i].users = rest
      /\ \A j \in RoomId : j # i => rooms'[j].users = rooms[j].users
      /\ \A j \in RoomId : rooms'[j].owner = rooms[j].owner
    BY <1>4 DEF TypeOK, ChatRoomObject
<1>6. \A j : OnMap(j)' = OnMap(j)
    BY DEF OnMap
<1>7. /\ \A n \in Name : connectionStatus'[n] = IF n = u THEN FALSE ELSE connectionStatus[n]
      /\ \A n \in Name : connectedToChatRoom'[n] = IF n = u THEN NULL ELSE connectedToChatRoom[n]
      /\ \A n \in Name : n # u => users_map'[n] = users_map[n]
      /\ users_map'[u] \in {users_map[u], NULL}
      /\ \A j \in RoomId : j # NULL
    BY NullIsNothing DEF TypeOK
<1>8. Tidy(gone)'
  <2>1. \A n \in Name : /\ in_session_with'[n] = NULL
                        /\ connectedToChatRoom'[n] # NULL => users_map'[n] # NULL
                        /\ connectionStatus'[n] <=> connectedToChatRoom'[n] # NULL
    <3> TAKE n \in Name
    <3>1. /\ in_session_with[n] = NULL
          /\ connectedToChatRoom[n] # NULL => users_map[n] # NULL
          /\ connectionStatus[n] <=> connectedToChatRoom[n] # NULL
        BY DEF Tidy
    <3>2. CASE n = u
        BY <1>7, <3>1, <3>2
    <3>3. CASE n # u
      <4>1. /\ connectionStatus'[n] = connectionStatus[n] /\ users_map'[n] = users_map[n]
            /\ connectedToChatRoom'[n] = connectedToChatRoom[n]
          BY <1>7, <3>3
      <4> QED
          BY <3>1, <4>1
    <3> QED
        BY <3>2, <3>3
  <2>2. ASSUME NEW j \in RoomId, OnMap(j)'
        PROVE  /\ IsInjective(rooms'[j].users)
               /\ \A n \in Name : n \in Range(rooms'[j].users) <=> connectedToChatRoom'[n] = j
    <3>1. CASE j = i
        BY <1>2, <1>3, <1>5, <1>7, <3>1
    <3>2. CASE j # i
        BY <1>5, <1>6, <1>7, <2>2, <3>2 DEF Tidy
    <3> QED
        BY <3>1, <3>2
  <2>3. ASSUME NEW n \in Name, NEW j \in RoomId, connectedToChatRoom'[n] = j, ~OnMap(j)'
        PROVE  /\ rooms'[j].owner \in Range(rooms'[j].users) \ {n}
               /\ rooms'[j].owner \in gone /\ users_map'[rooms'[j].owner] = NULL
    <3>1. j # i /\ ~OnMap(j) /\ connectedToChatRoom[n] = j
        BY <1>6, <1>7, <2>3
    <3>2. /\ rooms[j].owner \in Range(rooms[j].users) \ {n}
          /\ rooms[j].owner \in gone /\ users_map[rooms[j].owner] = NULL
        BY <3>1 DEF Tidy
    <3>3. rooms[j].owner \in Name
      <4>1. rooms[j].users \in Seq(Name)
          BY DEF TypeOK, ChatRoomObject
      <4> QED
          BY <3>2, <4>1 DEF Range
    <3> QED
        BY <1>5, <1>7, <3>1, <3>2, <3>3
  <2> QED
      BY <2>1, <2>2, <2>3 DEF Tidy
<1>9. Inside(u)' = Outdoors
  <2>1. ~Housed(u)'
      BY <1>7 DEF Housed
  <2> QED
      BY <1>7, <2>1, InsideIs
<1>10. ASSUME NEW n \in Name \ {u}, n \notin Range(users)
       PROVE  Inside(n)' = Inside(n)
  <2>1. connectedToChatRoom'[n] = connectedToChatRoom[n] /\ connectedToChatRoom[n] # i
        /\ connectedToChatRoom[n] \in RoomId \cup {NULL}
      BY <1>2, <1>7, <1>10 DEF TypeOK
  <2> QED
      BY <1>5, <1>6, <2>1, StillInside
<1>11. ASSUME NEW n \in Name \ {u}, n \in Range(users)
       PROVE  /\ Inside(n).housed /\ u \in Inside(n).mates
              /\ Inside(n)' = [housed |-> TRUE, owns |-> Inside(n).owns,
                               mates |-> Inside(n).mates \ {u}]
  <2>1. connectedToChatRoom'[n] = i /\ connectedToChatRoom[n] = i
      BY <1>2, <1>7, <1>11
  <2>2. PICK own, mates : /\ own \in BOOLEAN /\ own = (rooms[i].owner = n)
                          /\ mates = Range(users) \ {n}
      OBVIOUS
  <2>3. Inside(n) = [housed |-> TRUE, owns |-> own, mates |-> mates]
      BY <1>1, <1>7, <2>1, <2>2, InsideIs
  <2>4. Inside(n)' = [housed |-> TRUE, owns |-> own, mates |-> mates \ {u}]
    <3>1. Inside(n)' = [housed |-> TRUE, owns |-> rooms'[i].owner = n,
                        mates |-> Range(rooms'[i].users) \ {n}]
        BY <1>6, <1>7, <2>1, InsideIs
    <3>2. Range(rooms'[i].users) \ {n} = mates \ {u}
        BY <1>3, <1>5, <2>2
    <3> QED
        BY <1>5, <2>2, <3>1, <3>2
  <2>5. Inside(n).housed /\ Inside(n).owns = own /\ Inside(n).mates = mates
      BY <2>3
  <2>6. u \in mates
      BY <1>2, <1>11, <2>2
  <2> QED
      BY <2>4, <2>5, <2>6
<1> QED
    BY <1>1, <1>2, <1>8, <1>9, <1>10, <1>11

\* A member leaves: it hears that itself, and so does everybody else in the room.
LEMMA LeavingIsHeard ==
    ASSUME NEW gone, IInv, Tidy(gone), NEW s \in Sock, NEW u \in Name, u = UserOf(s),
           LeaveAsMember(s)
    PROVE  Tidy(gone)' /\ AllHear(u)
<1>1. /\ TypeOK /\ SocketsMatch /\ u \in Connected
    BY SenderFound, IInvParts DEF LeaveAsMember
<1>2. PICK i \in RoomId : i = connectedToChatRoom[u]
    BY <1>1 DEF LeaveAsMember, InRoom, TypeOK
<1>3. CASE Crash
    BY <1>1, <1>3, CrashUnheard
<1>4. CASE ~Crash
  <2>1. /\ ~Owns(u, i) /\ ~Missing(rooms[i].users)
        /\ rooms' = UserRemoved(u, i)
        /\ connectionStatus' = [connectionStatus EXCEPT ![u] = FALSE]
        /\ connectedToChatRoom' = [connectedToChatRoom EXCEPT ![u] = NULL]
        /\ sent' = Broadcast(rooms[i].users, Msg("USER_HAS_LEFT_CHATROOM", <<u>>))
        /\ UNCHANGED <<in_session_with, chatrooms_map, users_map>>
      BY <1>2, <1>4 DEF LeaveAsMember
  <2>2. OnMap(i)
      BY <1>1, <1>2, <2>1, NoWayOut
  <2>3. /\ Tidy(gone)'
        /\ u \in Range(rooms[i].users)
        /\ Inside(u)' = Outdoors
        /\ \A n \in Name \ {u} : n \notin Range(rooms[i].users) => Inside(n)' = Inside(n)
        /\ \A n \in Name \ {u} : n \in Range(rooms[i].users) =>
              /\ Inside(n).housed /\ u \in Inside(n).mates
              /\ Inside(n)' = [housed |-> TRUE, owns |-> Inside(n).owns,
                               mates |-> Inside(n).mates \ {u}]
      BY <1>1, <1>2, <2>1, <2>2, MemberIsOut
  <2>4. rooms[i].users \in Seq(Name) /\ IsInjective(rooms[i].users)
      BY <1>1, <2>2 DEF TypeOK, ChatRoomObject, Tidy
  <2>5. \A n \in Connected : sent'[users_map[n]] =
            IF n \in Range(rooms[i].users) THEN <<Msg("USER_HAS_LEFT_CHATROOM", <<u>>)>> ELSE <<>>
      BY <1>1, <2>1, <2>4, ToldOnce
  <2>6. ASSUME NEW n \in Connected
        PROVE  Hears(n, u, Inside(n), sent'[users_map[n]], Inside(n)')
    <3>1. n \in Name
        BY DEF Connected
    <3>2. CASE n = u
        BY <2>3, <2>5, <3>2 DEF Hears
    <3>3. CASE n # u /\ n \in Range(rooms[i].users)
        BY <2>3, <2>5, <3>1, <3>3 DEF Hears
    <3>4. CASE n # u /\ n \notin Range(rooms[i].users)
        BY <2>3, <2>5, <3>1, <3>4 DEF Hears
    <3> QED
        BY <3>2, <3>3, <3>4
  <2> QED
      BY <2>3, <2>6 DEF AllHear
<1> QED
    BY <1>3, <1>4

\* A member exits: those who stay hear it.
LEMMA ExitIsHeard ==
    ASSUME NEW gone, IInv, Tidy(gone), NEW s \in Sock, NEW u \in Name, u = UserOf(s),
           ExitAsMember(s)
    PROVE  Tidy(gone)' /\ AllHear(u)
<1>1. /\ TypeOK /\ SocketsMatch /\ u \in Connected /\ users_map[u] = s
      /\ \A n \in Name : users_map[n] = s => n = u
    BY SenderFound, IInvParts DEF ExitAsMember
<1>2. PICK i \in RoomId : i = connectedToChatRoom[u]
    BY <1>1 DEF ExitAsMember, InRoom, TypeOK
<1>3. CASE Crash
    BY <1>1, <1>3, CrashUnheard
<1>4. CASE ~Crash
  <2> DEFINE rest == remove_user(rooms[i].users, u)
             left == Msg("USER_HAS_LEFT_CHATROOM", <<u>>)
             bye == Msg("BYE_BYE_MSG", <<>>)
  <2>1. /\ ~Owns(u, i) /\ ~Missing(rest)
        /\ rooms' = UserRemoved(u, i)
        /\ connectionStatus' = [connectionStatus EXCEPT ![u] = FALSE]
        /\ connectedToChatRoom' = [connectedToChatRoom EXCEPT ![u] = NULL]
        /\ sent' = Then(Broadcast(rest, left), To(s, bye))
        /\ users_map' = [users_map EXCEPT ![u] = NULL]
        /\ UNCHANGED <<in_session_with, chatrooms_map>>
      BY <1>2, <1>4 DEF ExitAsMember, UserGone, Bye
  <2>2. OnMap(i)
      BY <1>1, <1>2, <2>1, NoWayOut
  <2>3. /\ Tidy(gone)'
        /\ \A n \in Name \ {u} : n \notin Range(rooms[i].users) => Inside(n)' = Inside(n)
        /\ \A n \in Name \ {u} : n \in Range(rooms[i].users) =>
              /\ Inside(n).housed /\ u \in Inside(n).mates
              /\ Inside(n)' = [housed |-> TRUE, owns |-> Inside(n).owns,
                               mates |-> Inside(n).mates \ {u}]
      BY <1>1, <1>2, <2>1, <2>2, MemberIsOut
  <2>4. rooms[i].users \in Seq(Name) /\ IsInjective(rooms[i].users)
      BY <1>1, <2>2 DEF TypeOK, ChatRoomObject, Tidy
  <2>5. rest \in Seq(Name) /\ IsInjective(rest) /\ Range(rest) = Range(rooms[i].users) \ {u}
      BY <2>4, RemoveUserKeepsOthers, RemovedFromDistinct
  <2> HIDE DEF rest, left, bye
  <2>6. \A n \in Connected : Broadcast(rest, left)[users_map[n]] =
                                 IF n \in Range(rest) THEN <<left>> ELSE <<>>
      BY <1>1, <2>5, ToldOnce
  <2>7. ASSUME NEW n \in Connected, n # u
        PROVE  sent'[users_map[n]] = IF n \in Range(rooms[i].users) THEN <<left>> ELSE <<>>
    <3>1. PICK w, t : w = Broadcast(rest, left) /\ t = users_map[n] /\ t \in Sock
        BY <1>1 DEF Connected, TypeOK
    <3>2. w[t] = IF n \in Range(rooms[i].users) THEN <<left>> ELSE <<>>
        BY <2>5, <2>6, <2>7, <3>1
    <3>3. w[t] \o <<>> = w[t]
      <4>1. <<>> \in Seq({left}) /\ <<left>> \in Seq({left})
          OBVIOUS
      <4> QED
          BY <3>2, <4>1, ConcatEmptySeq
    <3>4. t # s
        BY <1>1, <2>7, <3>1 DEF Connected
    <3>5. Then(w, To(s, bye))[t] = w[t]
        BY <3>1, <3>3, <3>4, ToldApart
    <3> QED
        BY <2>1, <3>1, <3>2, <3>5
  <2>8. ASSUME NEW n \in Connected, users_map'[n] = users_map[n]
        PROVE  Hears(n, u, Inside(n), sent'[users_map[n]], Inside(n)')
    <3>1. n \in Name /\ n # u
        BY <1>1, <2>1, <2>8 DEF Connected, TypeOK
    <3>2. CASE n \in Range(rooms[i].users)
      <4>1. sent'[users_map[n]] = <<Msg("USER_HAS_LEFT_CHATROOM", <<u>>)>>
          BY <2>7, <3>1, <3>2 DEF left
      <4> QED
          BY <2>3, <3>1, <3>2, <4>1 DEF Hears
    <3>3. CASE n \notin Range(rooms[i].users)
        BY <2>3, <2>7, <3>1, <3>3 DEF Hears
    <3> QED
        BY <3>2, <3>3
  <2> QED
      BY <2>3, <2>8 DEF AllHear
<1> QED
    BY <1>3, <1>4

\* An owner's room is in the map, and then that room and no other is not.
LEMMA RoomIsGone ==
    ASSUME NEW gone, TypeOK, RoomInv, Tidy(gone), NEW u \in Name, NEW i \in RoomId,
           connectedToChatRoom[u] = i, Owns(u, i), chatrooms_map' = RoomErased(i)
    PROVE  OnMap(i) /\ ~OnMap(i)' /\ \A j \in RoomId : j # i => OnMap(j)' = OnMap(j)
<1> DEFINE name == rooms[i].name
<1>1. /\ name \in Room
      /\ chatrooms_map[name] = i
      /\ chatrooms_map'[name] = NULL
      /\ \A r \in Room : r # name => chatrooms_map'[r] = chatrooms_map[r]
    BY RoomErasedByOwner
<1>2. \A j \in RoomId : j # NULL
    BY NullIsNothing
<1>3. \A r \in Room : chatrooms_map[r] = i => r = name
    BY <1>2 DEF RoomInv, OwnerIsListed
<1> HIDE DEF name
<1> QED
    BY <1>1, <1>2, <1>3 DEF OnMap

\* An owner leaves: everybody in the room hears that it was closed, and is out.
LEMMA OwnerLeavingIsHeard ==
    ASSUME NEW gone, IInv, Tidy(gone), NEW s \in Sock, NEW u \in Name, u = UserOf(s),
           LeaveAsOwner(s)
    PROVE  Tidy(gone)' /\ AllHear(u)
<1>1. /\ TypeOK /\ SocketsMatch /\ RoomInv /\ u \in Connected
    BY SenderFound, IInvParts DEF LeaveAsOwner
<1>2. PICK i \in RoomId : i = connectedToChatRoom[u]
    BY <1>1 DEF LeaveAsOwner, InRoom, TypeOK
<1>3. CASE Crash
    BY <1>1, <1>3, CrashUnheard
<1>4. CASE ~Crash
  <2>1. PICK users \in Seq(Name) : users = rooms[i].users
      BY <1>1 DEF TypeOK, ChatRoomObject
  <2>2. /\ Owns(u, i)
        /\ connectionStatus' = [n \in Name |-> n \notin Range(users) /\ connectionStatus[n]]
        /\ connectedToChatRoom' = Disconnected(users)
        /\ chatrooms_map' = RoomErased(i)
        /\ rooms' = UserRemoved(u, i)
        /\ sent' = Broadcast(users, Msg("CHATROOM_WAS_CLOSED", <<>>))
        /\ UNCHANGED <<users_map, in_session_with>>
      BY <1>2, <1>4, <2>1 DEF LeaveAsOwner
  <2>3. OnMap(i) /\ ~OnMap(i)' /\ \A j \in RoomId : j # i => OnMap(j)' = OnMap(j)
      BY <1>1, <1>2, <2>2, RoomIsGone
  <2>4. /\ IsInjective(users)
        /\ \A n \in Name : n \in Range(users) <=> connectedToChatRoom[n] = i
      BY <2>1, <2>3 DEF Tidy
  <2>5. /\ \A n \in Name : connectedToChatRoom'[n] =
              IF n \in Range(users) THEN NULL ELSE connectedToChatRoom[n]
        /\ \A n \in Name : connectionStatus'[n] <=> n \notin Range(users) /\ connectionStatus[n]
        /\ \A j \in RoomId : j # NULL
      BY <2>2, NullIsNothing DEF Disconnected
  <2>6. /\ \A j \in RoomId : j # i => rooms'[j].users = rooms[j].users
        /\ \A j \in RoomId : rooms'[j].owner = rooms[j].owner
      BY <1>1, <2>2 DEF UserRemoved, TypeOK, ChatRoomObject
  <2>7. Tidy(gone)'
    <3>1. \A n \in Name : /\ in_session_with'[n] = NULL
                          /\ connectedToChatRoom'[n] # NULL => users_map'[n] # NULL
                          /\ connectionStatus'[n] <=> connectedToChatRoom'[n] # NULL
      <4> TAKE n \in Name
      <4>1. /\ in_session_with[n] = NULL
            /\ connectedToChatRoom[n] # NULL => users_map[n] # NULL
            /\ connectionStatus[n] <=> connectedToChatRoom[n] # NULL
          BY DEF Tidy
      <4>2. CASE n \in Range(users)
          BY <2>2, <2>5, <4>1, <4>2
      <4>3. CASE n \notin Range(users)
          BY <2>2, <2>5, <4>1, <4>3
      <4> QED
          BY <4>2, <4>3
    <3>2. ASSUME NEW j \in RoomId, OnMap(j)'
          PROVE  /\ IsInjective(rooms'[j].users)
                 /\ \A n \in Name : n \in Range(rooms'[j].users) <=> connectedToChatRoom'[n] = j
      <4>1. j # i /\ OnMap(j)
          BY <2>3, <3>2
      <4> QED
          BY <2>4, <2>5, <2>6, <4>1 DEF Tidy
    <3>3. ASSUME NEW n \in Name, NEW j \in RoomId, connectedToChatRoom'[n] = j, ~OnMap(j)'
          PROVE  /\ rooms'[j].owner \in Range(rooms'[j].users) \ {n}
                 /\ rooms'[j].owner \in gone /\ users_map'[rooms'[j].owner] = NULL
      <4>1. connectedToChatRoom[n] = j /\ j # i
          BY <2>4, <2>5, <3>3
      <4>2. ~OnMap(j)
          BY <2>3, <3>3, <4>1
      <4> QED
          BY <2>2, <2>6, <4>1, <4>2 DEF Tidy
    <3> QED
        BY <3>1, <3>2, <3>3 DEF Tidy
  <2>8. \A n \in Connected : sent'[users_map[n]] =
            IF n \in Range(users) THEN <<Msg("CHATROOM_WAS_CLOSED", <<>>)>> ELSE <<>>
      BY <1>1, <2>2, <2>4, ToldOnce
  <2>9. ASSUME NEW n \in Connected
        PROVE  Hears(n, u, Inside(n), sent'[users_map[n]], Inside(n)')
    <3>1. n \in Name
        BY DEF Connected
    <3>2. CASE n \in Range(users)
      <4>1. ~Housed(n)'
          BY <2>5, <3>1, <3>2 DEF Housed
      <4>2. Inside(n)' = Outdoors
          BY <2>5, <4>1, InsideIs
      <4> QED
          BY <2>8, <3>2, <4>2 DEF Hears
    <3>3. CASE n \notin Range(users)
      <4>1. connectedToChatRoom'[n] = connectedToChatRoom[n] /\ connectedToChatRoom[n] # i
            /\ connectedToChatRoom[n] \in RoomId \cup {NULL}
          BY <1>1, <2>4, <2>5, <3>1, <3>3 DEF TypeOK
      <4>2. Inside(n)' = Inside(n)
          BY <2>3, <2>6, <4>1, StillInside
      <4> QED
          BY <2>8, <3>3, <4>2 DEF Hears
    <3> QED
        BY <3>2, <3>3
  <2> QED
      BY <2>7, <2>9 DEF AllHear
<1> QED
    BY <1>3, <1>4

\* An owner who has left for good exits: everybody in the room hears that it was
\* closed, and keeps a pointer to it.
LEMMA OwnerExitIsHeard ==
    ASSUME NEW gone, IInv, Tidy(gone), NEW s \in Sock, NEW u \in Name, u = UserOf(s),
           u \in gone, ExitAsOwner(s)
    PROVE  Tidy(gone)' /\ AllHear(u)
<1>1. /\ TypeOK /\ SocketsMatch /\ RoomInv /\ u \in Connected /\ users_map[u] = s
      /\ \A n \in Name : users_map[n] = s => n = u
    BY SenderFound, IInvParts DEF ExitAsOwner
<1>2. PICK i \in RoomId : i = connectedToChatRoom[u]
    BY <1>1 DEF ExitAsOwner, InRoom, TypeOK
<1>3. CASE Crash
    BY <1>1, <1>3, CrashUnheard
<1>4. CASE ~Crash
  <2> DEFINE closing == Msg("CHATROOM_WAS_CLOSED", <<>>)
             bye == Msg("BYE_BYE_MSG", <<>>)
  <2>1. PICK users \in Seq(Name) : users = rooms[i].users
      BY <1>1 DEF TypeOK, ChatRoomObject
  <2>2. /\ Owns(u, i)
        /\ connectionStatus' = [connectionStatus EXCEPT ![u] = FALSE]
        /\ connectedToChatRoom' = [connectedToChatRoom EXCEPT ![u] = NULL]
        /\ users_map' = [users_map EXCEPT ![u] = NULL]
        /\ chatrooms_map' = RoomErased(i)
        /\ sent' = Then(Broadcast(users, closing), To(s, bye))
        /\ UNCHANGED <<in_session_with, rooms>>
      BY <1>2, <1>4, <2>1 DEF ExitAsOwner, UserGone, Bye
  <2> HIDE DEF closing, bye
  <2>3. OnMap(i) /\ ~OnMap(i)' /\ \A j \in RoomId : j # i => OnMap(j)' = OnMap(j)
      BY <1>1, <1>2, <2>2, RoomIsGone
  <2>4. /\ IsInjective(users)
        /\ \A n \in Name : n \in Range(users) <=> connectedToChatRoom[n] = i
      BY <2>1, <2>3 DEF Tidy
  <2>5. /\ \A n \in Name : connectedToChatRoom'[n] =
              IF n = u THEN NULL ELSE connectedToChatRoom[n]
        /\ \A n \in Name : connectionStatus'[n] = IF n = u THEN FALSE ELSE connectionStatus[n]
        /\ \A n \in Name : users_map'[n] = IF n = u THEN NULL ELSE users_map[n]
        /\ \A j \in RoomId : j # NULL
      BY <1>1, <2>2, NullIsNothing DEF TypeOK
  <2>6. u \in Range(users) /\ rooms[i].owner = u
      BY <1>2, <2>2, <2>4 DEF Owns
  <2>7. Tidy(gone)'
    <3>1. \A n \in Name : /\ in_session_with'[n] = NULL
                          /\ connectedToChatRoom'[n] # NULL => users_map'[n] # NULL
                          /\ connectionStatus'[n] <=> connectedToChatRoom'[n] # NULL
      <4> TAKE n \in Name
      <4>1. /\ in_session_with[n] = NULL
            /\ connectedToChatRoom[n] # NULL => users_map[n] # NULL
            /\ connectionStatus[n] <=> connectedToChatRoom[n] # NULL
          BY DEF Tidy
      <4>2. CASE n = u
          BY <2>2, <2>5, <4>1, <4>2
      <4>3. CASE n # u
          BY <2>2, <2>5, <4>1, <4>3
      <4> QED
          BY <4>2, <4>3
    <3>2. ASSUME NEW j \in RoomId, OnMap(j)'
          PROVE  /\ IsInjective(rooms'[j].users)
                 /\ \A n \in Name : n \in Range(rooms'[j].users) <=> connectedToChatRoom'[n] = j
      <4>1. j # i /\ OnMap(j)
          BY <2>3, <3>2
      <4> QED
          BY <1>2, <2>2, <2>5, <4>1 DEF Tidy
    <3>3. ASSUME NEW n \in Name, NEW j \in RoomId, connectedToChatRoom'[n] = j, ~OnMap(j)'
          PROVE  /\ rooms'[j].owner \in Range(rooms'[j].users) \ {n}
                 /\ rooms'[j].owner \in gone /\ users_map'[rooms'[j].owner] = NULL
      <4>1. connectedToChatRoom[n] = j /\ n # u
          BY <2>5, <3>3
      <4>2. CASE j = i
          BY <2>1, <2>2, <2>5, <2>6, <4>1, <4>2
      <4>3. CASE j # i
        <5>1. ~OnMap(j)
            BY <2>3, <3>3, <4>3
        <5>2. /\ rooms[j].owner \in Range(rooms[j].users) \ {n}
              /\ rooms[j].owner \in gone /\ users_map[rooms[j].owner] = NULL
            BY <4>1, <5>1 DEF Tidy
        <5>3. rooms[j].owner \in Name
          <6>1. rooms[j].users \in Seq(Name)
              BY <1>1 DEF TypeOK, ChatRoomObject
          <6> QED
              BY <5>2, <6>1 DEF Range
        <5> QED
            BY <2>2, <2>5, <5>2, <5>3
      <4> QED
          BY <4>2, <4>3
    <3> QED
        BY <3>1, <3>2, <3>3 DEF Tidy
  <2>8. \A n \in Connected : Broadcast(users, closing)[users_map[n]] =
                                 IF n \in Range(users) THEN <<closing>> ELSE <<>>
      BY <1>1, <2>4, ToldOnce
  <2>9. ASSUME NEW n \in Connected, n # u
        PROVE  sent'[users_map[n]] = IF n \in Range(users) THEN <<closing>> ELSE <<>>
    <3>1. PICK w, t : w = Broadcast(users, closing) /\ t = users_map[n] /\ t \in Sock
        BY <1>1 DEF Connected, TypeOK
    <3>2. w[t] = IF n \in Range(users) THEN <<closing>> ELSE <<>>
        BY <2>8, <3>1
    <3>3. w[t] \o <<>> = w[t]
      <4>1. <<>> \in Seq({closing}) /\ <<closing>> \in Seq({closing})
          OBVIOUS
      <4> QED
          BY <3>2, <4>1, ConcatEmptySeq
    <3>4. t # s
        BY <1>1, <2>9, <3>1 DEF Connected
    <3>5. Then(w, To(s, bye))[t] = w[t]
        BY <3>1, <3>3, <3>4, ToldApart
    <3> QED
        BY <2>2, <3>1, <3>2, <3>5
  <2>10. ASSUME NEW n \in Connected, users_map'[n] = users_map[n]
         PROVE  Hears(n, u, Inside(n), sent'[users_map[n]], Inside(n)')
    <3>1. n \in Name /\ n # u
        BY <1>1, <2>5, <2>10 DEF Connected
    <3>2. CASE n \in Range(users)
      <4>1. ~Housed(n)'
          BY <2>3, <2>4, <2>5, <3>1, <3>2 DEF Housed
      <4>2. Inside(n)' = Outdoors
          BY <2>5, <4>1, InsideIs
      <4>3. sent'[users_map[n]] = <<Msg("CHATROOM_WAS_CLOSED", <<>>)>>
          BY <2>9, <3>1, <3>2 DEF closing
      <4> QED
          BY <4>2, <4>3 DEF Hears
    <3>3. CASE n \notin Range(users)
      <4>1. connectedToChatRoom'[n] = connectedToChatRoom[n] /\ connectedToChatRoom[n] # i
            /\ connectedToChatRoom[n] \in RoomId \cup {NULL}
          BY <1>1, <2>4, <2>5, <3>1, <3>3 DEF TypeOK
      <4>2. Inside(n)' = Inside(n)
          BY <2>2, <2>3, <4>1, StillInside
      <4> QED
          BY <2>9, <3>1, <3>3, <4>2 DEF Hears
    <3> QED
        BY <3>2, <3>3
  <2> QED
      BY <2>7, <2>10 DEF AllHear
<1> QED
    BY <1>3, <1>4

\* Who exits without a room is not missed by anybody.
LEMMA IdleExitIsUnheard ==
    ASSUME NEW gone, IInv, Tidy(gone), NEW s \in Sock, NEW u \in Name, u = UserOf(s),
           ExitIdle(s)
    PROVE  Tidy(gone)' /\ AllHear(u)
<1>1. /\ TypeOK /\ u \in Connected /\ users_map[u] = s
      /\ \A n \in Name : users_map[n] = s => n = u
    BY SenderFound, IInvParts DEF ExitIdle
<1>2. /\ connectedToChatRoom[u] = NULL /\ ~connectionStatus[u]
    BY DEF ExitIdle, InRoom, Tidy
<1>3. /\ UNCHANGED <<in_session_with, chatrooms_map, rooms>>
      /\ connectionStatus' = [connectionStatus EXCEPT ![u] = FALSE]
      /\ connectedToChatRoom' = [connectedToChatRoom EXCEPT ![u] = NULL]
      /\ users_map' = [users_map EXCEPT ![u] = NULL]
      /\ sent' = To(s, Msg("BYE_BYE_MSG", <<>>))
    BY <1>2 DEF ExitIdle, UserGone, Bye, roomVars
<1>4. /\ connectedToChatRoom' = connectedToChatRoom
      /\ \A n \in Name : connectionStatus'[n] <=> connectionStatus[n]
      /\ \A n \in Name : users_map'[n] = IF n = u THEN NULL ELSE users_map[n]
    BY <1>1, <1>2, <1>3 DEF TypeOK
<1>5. \A i : OnMap(i)' = OnMap(i)
    BY <1>3 DEF OnMap
<1>6. Tidy(gone)'
  <2>1. \A n \in Name : /\ in_session_with'[n] = NULL
                        /\ connectedToChatRoom'[n] # NULL => users_map'[n] # NULL
                        /\ connectionStatus'[n] <=> connectedToChatRoom'[n] # NULL
    <3> TAKE n \in Name
    <3>1. /\ in_session_with[n] = NULL
          /\ connectedToChatRoom[n] # NULL => users_map[n] # NULL
          /\ connectionStatus[n] <=> connectedToChatRoom[n] # NULL
        BY DEF Tidy
    <3>2. connectedToChatRoom[n] # NULL => n # u
        BY <1>2
    <3> QED
        BY <1>3, <1>4, <3>1, <3>2
  <2>2. \A i \in RoomId : OnMap(i)' =>
            /\ IsInjective(rooms'[i].users)
            /\ \A n \in Name : n \in Range(rooms'[i].users) <=> connectedToChatRoom'[n] = i
      BY <1>3, <1>4, <1>5 DEF Tidy
  <2>3. ASSUME NEW n \in Name, NEW i \in RoomId, connectedToChatRoom'[n] = i, ~OnMap(i)'
        PROVE  /\ rooms'[i].owner \in Range(rooms'[i].users) \ {n}
               /\ rooms'[i].owner \in gone /\ users_map'[rooms'[i].owner] = NULL
    <3>1. /\ rooms[i].owner \in Range(rooms[i].users) \ {n}
          /\ rooms[i].owner \in gone /\ users_map[rooms[i].owner] = NULL
        BY <1>4, <1>5, <2>3 DEF Tidy
    <3>2. rooms[i].owner \in Name
      <4>1. rooms[i].users \in Seq(Name)
          BY <1>1 DEF TypeOK, ChatRoomObject
      <4> QED
          BY <3>1, <4>1 DEF Range
    <3> QED
        BY <1>3, <1>4, <3>1, <3>2
  <2> QED
      BY <2>1, <2>2, <2>3 DEF Tidy
<1>7. \A n : Inside(n)' = Inside(n)
    BY <1>3, <1>4 DEF Inside, Housed, OnMap, Owns
<1>8. ASSUME NEW n \in Connected, users_map'[n] = users_map[n]
      PROVE  sent'[users_map[n]] = <<>>
  <2>1. users_map[n] \in Sock /\ users_map[n] # s
      BY <1>1, <1>4, <1>8 DEF Connected, TypeOK
  <2> QED
      BY <1>3, <2>1 DEF To, Silent
<1> QED
    BY <1>6, <1>7, <1>8 DEF AllHear, Hears

\* Every request that concerns rooms is heard as it should be.
LEMMA RoomsAreHeard ==
    ASSUME Name \cap Room = {}, NEW gone, IInv, Tidy(gone),
           NEW s \in Sock, NEW u \in Name, u = UserOf(s),
           \/ ~Housed(u) /\ \E r \in Room : JoinChatroom(s, r) \/ CreateChatroom(s, r)
           \/ LeaveChatroom(s)
           \/ u \in gone /\ UserExit(s)
    PROVE  Tidy(gone)' /\ AllHear(u)
<1>1. CASE ~Housed(u) /\ \E r \in Room : JoinChatroom(s, r) \/ CreateChatroom(s, r)
    BY <1>1, JoiningIsHeard, CreatorHears
<1>2. CASE LeaveChatroom(s)
    BY <1>2, OwnerLeavingIsHeard, LeavingIsHeard, NothingLeft DEF LeaveChatroom
<1>3. CASE u \in gone /\ UserExit(s)
  <2>1. CASE ExitFromSession(s)
      BY <2>1 DEF ExitFromSession, Tidy
  <2>2. CASE BrokenPipe(s)
      BY <2>2, CrashUnheard DEF BrokenPipe, IInv
  <2> QED
      BY <1>3, <2>1, <2>2, OwnerExitIsHeard, ExitIsHeard, IdleExitIsUnheard DEF UserExit
<1> QED
    BY <1>1, <1>2, <1>3

\* The more are gone, the tidier; and at the start there is nothing to keep tidy.
LEMMA TidyGrows ==
    ASSUME NEW gone, NEW more, gone \subseteq more, Tidy(gone)
    PROVE  Tidy(more)
BY DEF Tidy

LEMMA TidyAtFirst ==
    ASSUME NEW gone, Init
    PROVE  Tidy(gone) /\ \A n \in Name : Inside(n) = Outdoors
<1>1. \A i \in RoomId : i # NULL
    BY NullIsNothing
<1>2. \A i \in RoomId : ~OnMap(i)
    BY <1>1 DEF Init, OnMap
<1>3. Tidy(gone)
    BY <1>1, <1>2 DEF Init, Tidy
<1>4. \A n \in Name : Inside(n) = Outdoors
    BY DEF Init, Inside, Housed, Outdoors
<1> QED
    BY <1>3, <1>4

\* A broadcast does not reach a socket that no user has.
LEMMA NoUserNoBroadcast ==
    ASSUME NEW users \in Seq(Name), NEW msg, NEW t \in Sock,
           \A n \in Name : users_map[n] # t
    PROVE  Broadcast(users, msg)[t] = <<>>
<1> DEFINE at == {i \in DOMAIN users : users_map[users[i]] = t}
<1>1. Broadcast(users, msg)[t] = [k \in 1..Cardinality(at) |-> msg]
    BY DEF Broadcast
<1>2. at = {}
  <2>1. \A i \in DOMAIN users : users[i] \in Name
      OBVIOUS
  <2> QED
      BY <2>1
<1>3. Cardinality(at) = 0
    BY <1>2, FS_EmptySet
<1>4. [k \in 1..0 |-> msg] = <<>>
    OBVIOUS
<1> QED
    BY <1>1, <1>3, <1>4

\* No request that concerns rooms is answered on a socket that no user has.
LEMMA StrangersHearNothing ==
    ASSUME NEW gone, IInv, Tidy(gone), NEW s \in Sock, NEW t \in Sock,
           \A n \in Name : users_map[n] # t,
           \/ \E r \in Room : JoinChatroom(s, r) \/ CreateChatroom(s, r)
           \/ LeaveChatroom(s) \/ UserExit(s)
    PROVE  sent'[t] = <<>>
<1> DEFINE u == UserOf(s)
           i == connectedToChatRoom[u]
<1>0. TypeOK /\ SocketsMatch
    BY DEF IInv
<1>1. u \in Name /\ users_map[u] = s /\ t # s
    BY <1>0, SenderFound
    DEF JoinChatroom, CreateChatroom, LeaveChatroom, LeaveAsOwner, LeaveAsMember,
        LeaveNothing, UserExit, ExitAsOwner, ExitAsMember, ExitFromSession, ExitIdle,
        BrokenPipe
<1> HIDE DEF u
<1>2. \A msg : To(s, msg)[t] = <<>> /\ Bye(s)[t] = <<>>
    BY <1>1 DEF To, Silent, Bye
<1>3. \A users \in Seq(Name) : \A msg : Broadcast(users, msg)[t] = <<>>
    BY NoUserNoBroadcast
<1>4. Silent[t] = <<>>
    BY DEF Silent
<1>5. \A v, w : v[t] = <<>> /\ w[t] = <<>> => Then(v, w)[t] = <<>>
    BY DEF Then
<1>6. \A j \in RoomId : /\ rooms[j].users \in Seq(Name)
                        /\ remove_user(rooms[j].users, u) \in Seq(Name)
    BY <1>0, <1>1, RemoveUserKeepsOthers DEF TypeOK, ChatRoomObject
<1>7. i \in RoomId \/ ~InRoom(u)
    BY <1>0, <1>1 DEF InRoom, TypeOK
<1>8. CASE Crash
    BY <1>4, <1>8 DEF Crash
<1>9. ASSUME NEW r \in Room, JoinChatroom(s, r), ~Crash PROVE sent'[t] = <<>>
  <2>1. chatrooms_map[r] \in RoomId
      BY <1>0, <1>9 DEF JoinChatroom, TypeOK
  <2> QED
      BY <1>2, <1>3, <1>5, <1>6, <1>9, <2>1 DEF JoinChatroom
<1>10. ASSUME NEW r \in Room, CreateChatroom(s, r) PROVE sent'[t] = <<>>
    BY <1>2, <1>10 DEF CreateChatroom
<1>11. ASSUME LeaveChatroom(s), ~Crash PROVE sent'[t] = <<>>
    BY <1>2, <1>3, <1>6, <1>7, <1>11
    DEF LeaveChatroom, LeaveAsOwner, LeaveAsMember, LeaveNothing, Answer, u
<1>12. ASSUME UserExit(s), ~Crash PROVE sent'[t] = <<>>
  <2>1. ~ExitFromSession(s)
      BY <1>1 DEF ExitFromSession, Tidy, u
  <2>2. CASE ExitAsOwner(s)
      BY <1>2, <1>3, <1>5, <1>6, <1>7, <1>12, <2>2 DEF ExitAsOwner, u
  <2>3. CASE ExitAsMember(s)
      BY <1>2, <1>3, <1>5, <1>6, <1>7, <1>12, <2>3 DEF ExitAsMember, u
  <2>4. CASE ExitIdle(s)
      BY <1>2, <1>5, <2>4 DEF ExitIdle
  <2> QED
      BY <1>12, <2>1, <2>2, <2>3, <2>4 DEF UserExit, BrokenPipe
<1> QED
    BY <1>8, <1>9, <1>10, <1>11, <1>12
===============================================================================
