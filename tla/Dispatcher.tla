------------------------------ MODULE Dispatcher ------------------------------
(***************************************************************************)
(* The dispatcher thread of the server: it takes one request at a time     *)
(* from a logged-in socket and runs the handler of its command to the end. *)
(* A handler looks its sender up by socket, changes the maps of users,     *)
(* rooms and sessions, and writes commands to any number of sockets.       *)
(*                                                                         *)
(* A request may arrive from any served socket at any time, with any       *)
(* arguments: what a client will or will not send is another module's      *)
(* concern.  `sent' holds what the last handler wrote to each socket.      *)
(*                                                                         *)
(* A User object lives exactly as long as its entry of users_map, so its   *)
(* fields are functions of the name; connectedToUser is never read and is  *)
(* left out.  The address of a user stands for the socket it logged in on. *)
(***************************************************************************)
EXTENDS ChatRoom

CONSTANTS
    Name,       \* user names
    Room,       \* room names; they may coincide with user names
    Sock,       \* connections: one TCPSocket object each, never reused
    RoomId,     \* ChatRoom objects on the heap, as many as are ever reachable
    NULL,       \* the null pointer
    MaxListed   \* bound of the model: the length of a room's user vector

\* A string read off a socket has at most 300 characters: there are finitely
\* many, and they are ordered.
ASSUME NamesAreStrings == /\ Name \subseteq Nat /\ IsFiniteSet(Name)
                          /\ Room \subseteq Nat /\ IsFiniteSet(Room)
ASSUME NullIsNothing == NULL \notin Name \cup Room \cup Sock \cup RoomId
ASSUME MaxListedIsNat == MaxListed \in Nat

VARIABLES
    users_map,            \* users_map[n]: the socket of user n, NULL if none
    connectionStatus,     \* connectionStatus[n]: user n is said to be busy
    connectedToChatRoom,  \* connectedToChatRoom[n]: the room user n points to
    in_session_with,      \* in_session_with[n]: whom n opened a session with
    chatrooms_map,        \* chatrooms_map[r]: the room called r
    rooms,                \* the ChatRoom objects
    users_vector,         \* the sockets the dispatcher listens to
    closed,               \* the sockets whose client has sent EXIT and closed
    sent,                 \* what the last handler wrote to each socket
    crashed               \* the server process was killed by a signal

userVars == <<users_map, connectionStatus, connectedToChatRoom>>
roomVars == <<chatrooms_map, rooms>>
sockVars == <<users_vector, closed>>
vars == <<userVars, in_session_with, roomVars, sockVars, sent, crashed>>

-------------------------------------------------------------------------------
(* What handlers write. *)

\* Commands that carry one name, a list of names, and none.
Naming ==
    {"TARGET_IP_AND_PORT", "INCOMIMG_SESSION", "NEW_USER_TO_CHATROOM",
     "USER_HAS_LEFT_CHATROOM"}

Listing == {"CHATROOM_LIST", "CHATROOM_USERS_LIST", "USERS_LIST"}

Bare ==
    {"OPEN_SESSION_ERROR", "OPEN_SESSION_ERROR2", "OPEN_CONNECTION_ERROR",
     "CONNECTION_ERROR", "CLOSE_SESSION_ERROR", "SESSION_ENDED",
     "CHATROOM_CREATED", "CHATROOM_WAS_CLOSED", "CHATROOM_NAME_ERROR",
     "BYE_BYE_MSG"}

Message == [cmd : Naming, names : {<<n>> : n \in Name}]
           \cup [cmd : Listing, names : Seq(Name)]
           \cup [cmd : {"CHATROOMS_LIST"}, names : Seq(Room)]
           \cup [cmd : Bare, names : {<<>>}]

Msg(cmd, names) == [cmd |-> cmd, names |-> names]

Silent == [t \in Sock |-> <<>>]

To(s, msg) == [Silent EXCEPT ![s] = <<msg>>]

Then(first, second) == [t \in Sock |-> first[t] \o second[t]]

\* Variant: the loop ends one element early.
BroadcastShort(users, msg) ==
    [t \in Sock |->
        [k \in 1..Cardinality({i \in 1..(Len(users) - 1) : users_map[users[i]] = t})
            |-> msg]]

\* The loops over a room's user vector write once per element, so a name that
\* is listed twice is written to twice.
Broadcast(users, msg) ==
    [t \in Sock |->
        [k \in 1..Cardinality({i \in DOMAIN users : users_map[users[i]] = t})
            |-> msg]]

-------------------------------------------------------------------------------
(* Looking things up. *)

Connected == {n \in Name : users_map[n] # NULL}

\* Variant: a second login with the same name is not noticed.
checkUserNever(name) == FALSE

checkUser(name) == users_map[name] # NULL

Serving(s) == /\ ~crashed
              /\ s \in Range(users_vector) \ closed

\* The loop that opens every handler stops at the first user with the sender's
\* socket; when there is none it leaves _user at the last user of the map.
UserOf(s) ==
    LET match == {n \in Connected : users_map[n] = s}
    IN  IF match # {} THEN CHOOSE n \in match : \A m \in match : n <= m
                      ELSE CHOOSE n \in Connected : \A m \in Connected : m <= n

\* users_map[name] of a name that is not connected inserts a null User, which
\* the next expression dereferences: the process is gone.
Missing(users) == \E n \in Range(users) : users_map[n] = NULL

Crash == /\ crashed' = TRUE
         /\ sent' = Silent
         /\ UNCHANGED <<userVars, in_session_with, roomVars, sockVars>>

Answer(s, msg) ==
    /\ sent' = To(s, msg)
    /\ UNCHANGED <<userVars, in_session_with, roomVars, sockVars, crashed>>

Sorted(S) == [k \in 1..Cardinality(S) |-> CHOOSE n \in S : Rank(S, n) = k]

-------------------------------------------------------------------------------
(* The login thread hands a socket over. *)

AddUser(s, n) ==
    /\ ~crashed
    /\ s \notin Range(users_vector) \cup closed
    /\ ~checkUser(n)
    /\ users_map' = [users_map EXCEPT ![n] = s]
    /\ connectionStatus' = [connectionStatus EXCEPT ![n] = FALSE]
    /\ connectedToChatRoom' = [connectedToChatRoom EXCEPT ![n] = NULL]
    /\ users_vector' = Append(users_vector, s)
    /\ sent' = Silent
    /\ UNCHANGED <<in_session_with, roomVars, closed, crashed>>

-------------------------------------------------------------------------------
(* Sessions. *)

\* from is the name the client claims, to the peer it asks for.
OpenSession(s, from, to) ==
    /\ Serving(s)
    /\ LET u == UserOf(s)
           busy == connectionStatus[u] \/ connectionStatus[to]
       IN  \/ users_map[to] = NULL /\ Crash
           \/ /\ users_map[to] # NULL /\ busy
              /\ Answer(s, Msg("OPEN_CONNECTION_ERROR", <<>>))
           \/ /\ users_map[to] # NULL /\ ~busy /\ from = to
              /\ Answer(s, Msg("OPEN_SESSION_ERROR", <<>>))
           \/ /\ users_map[to] # NULL /\ ~busy /\ from # to
              /\ connectionStatus' =
                    [connectionStatus EXCEPT ![to] = TRUE, ![u] = TRUE]
              /\ in_session_with' = [in_session_with EXCEPT ![u] = to]
              /\ sent' = Then(To(s, Msg("TARGET_IP_AND_PORT", <<to>>)),
                              To(users_map[to], Msg("INCOMIMG_SESSION", <<u>>)))
              /\ UNCHANGED <<users_map, connectedToChatRoom, roomVars, sockVars,
                             crashed>>

\* The entries of in_session_with that name u on either side.
Entries(u) == {k \in Name : /\ in_session_with[k] # NULL
                            /\ k = u \/ in_session_with[k] = u}

\* The loop does not stop at a match: the last entry in map order decides.
Partner(u) ==
    LET last == CHOOSE k \in Entries(u) : \A j \in Entries(u) : j <= k
    IN  IF last = u THEN in_session_with[u] ELSE last

\* Variant: the entry is looked for only under the name of who closes.
EndedOwn(u) == [in_session_with EXCEPT ![u] = NULL]

\* The entry u started is erased if there is one, else the partner's.
Ended(u) ==
    [in_session_with EXCEPT
        ![IF in_session_with[u] # NULL THEN u ELSE Partner(u)] = NULL]

SessionOver(u) ==
    /\ connectionStatus' =
          [connectionStatus EXCEPT ![Partner(u)] = FALSE, ![u] = FALSE]
    /\ in_session_with' = Ended(u)

CloseSession(s) ==
    /\ Serving(s)
    /\ LET u == UserOf(s)
       IN  \/ /\ Entries(u) = {}
              /\ Answer(s, Msg("CLOSE_SESSION_ERROR", <<>>))
           \/ /\ Entries(u) # {} /\ users_map[Partner(u)] = NULL
              /\ Crash
           \/ /\ Entries(u) # {} /\ users_map[Partner(u)] # NULL
              /\ SessionOver(u)
              /\ sent' = To(users_map[Partner(u)], Msg("SESSION_ENDED", <<>>))
              /\ UNCHANGED <<users_map, connectedToChatRoom, roomVars, sockVars,
                             crashed>>

-------------------------------------------------------------------------------
(* Entering a room. *)

\* A ChatRoom object no pointer reaches: the one `new' returns.
Fresh(i) == /\ \A r \in Room : chatrooms_map[r] # i
            /\ \A n \in Name : connectedToChatRoom[n] # i

Enter(u, i) ==
    /\ connectionStatus' = [connectionStatus EXCEPT ![u] = TRUE]
    /\ connectedToChatRoom' = [connectedToChatRoom EXCEPT ![u] = i]
    /\ UNCHANGED <<users_map, in_session_with, sockVars, crashed>>

CreateChatroom(s, r) ==
    /\ Serving(s)
    /\ chatrooms_map[r] = NULL
    /\ \E i \in RoomId :
          /\ Fresh(i)
          /\ chatrooms_map' = [chatrooms_map EXCEPT ![r] = i]
          /\ rooms' = [rooms EXCEPT ![i] = [name |-> r, owner |-> UserOf(s),
                                            users |-> <<UserOf(s)>>]]
          /\ Enter(UserOf(s), i)
    /\ sent' = To(s, Msg("CHATROOM_CREATED", <<>>))

\* The present users hear of the new one, who gets their list, and only then is
\* the user added.  Neither connectionStatus nor an earlier room is looked at.
JoinChatroom(s, r) ==
    /\ Serving(s)
    /\ chatrooms_map[r] # NULL
    /\ LET u == UserOf(s)
           i == chatrooms_map[r]
           users == rooms[i].users
       IN  \/ Missing(users) /\ Crash
           \/ /\ ~Missing(users)
              /\ Len(users) < MaxListed
              /\ rooms' = [rooms EXCEPT ![i].users =
                              add_user(rooms[i].name, users, u)]
              /\ Enter(u, i)
              /\ sent' = Then(Broadcast(users, Msg("NEW_USER_TO_CHATROOM", <<u>>)),
                              To(s, Msg("CHATROOM_LIST", users)))
              /\ UNCHANGED chatrooms_map

-------------------------------------------------------------------------------
(* Leaving a room. *)

\* Variant: anyone in the room is taken for its owner.
OwnsAny(u, i) == TRUE

Owns(u, i) == rooms[i].owner = u

InRoom(u) == connectionStatus[u] /\ connectedToChatRoom[u] # NULL

\* The room is found again by its name, not by the pointer.
RoomErased(i) == [chatrooms_map EXCEPT ![rooms[i].name] = NULL]

\* Variant: the reset is forgotten, as it is in user_exit.
DisconnectedNone(users) == connectedToChatRoom

\* Leaving as the owner resets every listed user, wherever it is now.
Disconnected(users) ==
    [n \in Name |-> IF n \in Range(users) THEN NULL ELSE connectedToChatRoom[n]]

UserRemoved(u, i) == [rooms EXCEPT ![i].users = remove_user(rooms[i].users, u)]

LeaveAsOwner(s) ==
    LET u == UserOf(s)
        i == connectedToChatRoom[u]
        users == rooms[i].users
    IN  /\ Serving(s)
        /\ InRoom(u) /\ Owns(u, i)
        /\ \/ Missing(users) /\ Crash
           \/ /\ ~Missing(users)
              /\ connectionStatus' =
                    [n \in Name |-> n \notin Range(users) /\ connectionStatus[n]]
              /\ connectedToChatRoom' = Disconnected(users)
              /\ chatrooms_map' = RoomErased(i)
              /\ rooms' = UserRemoved(u, i)
              /\ sent' = Broadcast(users, Msg("CHATROOM_WAS_CLOSED", <<>>))
              /\ UNCHANGED <<users_map, in_session_with, sockVars, crashed>>

LeaveAsMember(s) ==
    LET u == UserOf(s)
        i == connectedToChatRoom[u]
        users == rooms[i].users
    IN  /\ Serving(s)
        /\ InRoom(u) /\ ~Owns(u, i)
        /\ \/ Missing(users) /\ Crash
           \/ /\ ~Missing(users)
              /\ connectionStatus' = [connectionStatus EXCEPT ![u] = FALSE]
              /\ connectedToChatRoom' = [connectedToChatRoom EXCEPT ![u] = NULL]
              /\ rooms' = UserRemoved(u, i)
              /\ sent' = Broadcast(users, Msg("USER_HAS_LEFT_CHATROOM", <<u>>))
              /\ UNCHANGED <<users_map, in_session_with, chatrooms_map, sockVars,
                             crashed>>

LeaveNothing(s) ==
    /\ Serving(s)
    /\ ~InRoom(UserOf(s))
    /\ Answer(s, Msg(IF connectionStatus[UserOf(s)] THEN "OPEN_SESSION_ERROR2"
                                                    ELSE "CONNECTION_ERROR", <<>>))

LeaveChatroom(s) == LeaveAsOwner(s) \/ LeaveAsMember(s) \/ LeaveNothing(s)

-------------------------------------------------------------------------------
(* EXIT.  The client closes its socket as soon as it has sent EXIT, so what    *)
(* the handler writes to it may raise SIGPIPE, which nothing handles; the      *)
(* socket stays in users_vector.                                               *)

UserGone(s, u) ==
    /\ users_map' = [users_map EXCEPT ![u] = NULL]
    /\ closed' = closed \cup {s}
    /\ UNCHANGED <<users_vector, crashed>>

Bye(s) == To(s, Msg("BYE_BYE_MSG", <<>>))

\* The User object of the exiting user is dropped, the others keep theirs.
ExitAsOwner(s) ==
    LET u == UserOf(s)
        i == connectedToChatRoom[u]
        users == rooms[i].users
    IN  /\ Serving(s)
        /\ InRoom(u) /\ Owns(u, i)
        /\ \/ Missing(users) /\ Crash
           \/ /\ ~Missing(users)
              /\ chatrooms_map' = RoomErased(i)
              /\ connectionStatus' = [connectionStatus EXCEPT ![u] = FALSE]
              /\ connectedToChatRoom' = [connectedToChatRoom EXCEPT ![u] = NULL]
              /\ UserGone(s, u)
              /\ sent' = Then(Broadcast(users, Msg("CHATROOM_WAS_CLOSED", <<>>)),
                              Bye(s))
              /\ UNCHANGED <<in_session_with, rooms>>

\* Here the user is removed first: it does not hear of its own leaving.
ExitAsMember(s) ==
    LET u == UserOf(s)
        i == connectedToChatRoom[u]
        rest == remove_user(rooms[i].users, u)
    IN  /\ Serving(s)
        /\ InRoom(u) /\ ~Owns(u, i)
        /\ \/ Missing(rest) /\ Crash
           \/ /\ ~Missing(rest)
              /\ rooms' = UserRemoved(u, i)
              /\ connectionStatus' = [connectionStatus EXCEPT ![u] = FALSE]
              /\ connectedToChatRoom' = [connectedToChatRoom EXCEPT ![u] = NULL]
              /\ UserGone(s, u)
              /\ sent' = Then(Broadcast(rest, Msg("USER_HAS_LEFT_CHATROOM", <<u>>)),
                              Bye(s))
              /\ UNCHANGED <<in_session_with, chatrooms_map>>

ExitFromSession(s) ==
    LET u == UserOf(s)
    IN  /\ Serving(s)
        /\ connectionStatus[u] /\ connectedToChatRoom[u] = NULL
        /\ Entries(u) # {}
        /\ \/ users_map[Partner(u)] = NULL /\ Crash
           \/ /\ users_map[Partner(u)] # NULL
              /\ SessionOver(u)
              /\ sent' = Then(To(users_map[Partner(u)], Msg("SESSION_ENDED", <<>>)),
                              Bye(s))
              /\ UserGone(s, u)
              /\ UNCHANGED <<connectedToChatRoom, roomVars>>

\* connectionStatus alone decides: an idle user may still point to a room.
ExitIdle(s) ==
    LET u == UserOf(s)
        noSession == connectionStatus[u] /\ connectedToChatRoom[u] = NULL
    IN  /\ Serving(s)
        /\ noSession => Entries(u) = {}
        /\ ~InRoom(u)
        /\ connectionStatus' = [connectionStatus EXCEPT ![u] = FALSE]
        /\ connectedToChatRoom' = [connectedToChatRoom EXCEPT ![u] = NULL]
        /\ sent' = IF noSession
                   THEN Then(To(s, Msg("CLOSE_SESSION_ERROR", <<>>)), Bye(s))
                   ELSE Bye(s)
        /\ UserGone(s, u)
        /\ UNCHANGED <<in_session_with, roomVars>>

\* It also stands for a message written to another client that has just closed.
BrokenPipe(s) == Serving(s) /\ Crash

UserExit(s) == \/ ExitAsOwner(s) \/ ExitAsMember(s)
               \/ ExitFromSession(s) \/ ExitIdle(s)
               \/ BrokenPipe(s)

-------------------------------------------------------------------------------
(* Lists, and the whole. *)

ListUsers(s) == Serving(s) /\ Answer(s, Msg("USERS_LIST", Sorted(Connected)))

ListChatrooms(s) ==
    /\ Serving(s)
    /\ Answer(s, Msg("CHATROOMS_LIST", Sorted({r \in Room : chatrooms_map[r] # NULL})))

\* The handler tests the connectionStatus of a fresh User object, which is
\* always false: a busy user is answered like any other.
ListChatroomUsers(s, r) ==
    /\ Serving(s)
    /\ Answer(s, IF chatrooms_map[r] = NULL
                 THEN Msg("CHATROOM_NAME_ERROR", <<>>)
                 ELSE Msg("CHATROOM_USERS_LIST", rooms[chatrooms_map[r]].users))

Init ==
    /\ users_map = [n \in Name |-> NULL]
    /\ connectionStatus = [n \in Name |-> FALSE]
    /\ connectedToChatRoom = [n \in Name |-> NULL]
    /\ in_session_with = [n \in Name |-> NULL]
    /\ chatrooms_map = [r \in Room |-> NULL]
    /\ rooms = [i \in RoomId |-> [name |-> NULL, owner |-> NULL, users |-> <<>>]]
    /\ users_vector = <<>>
    /\ closed = {}
    /\ sent = Silent
    /\ crashed = FALSE

Handle(s) ==
    \/ \E from, to \in Name : OpenSession(s, from, to)
    \/ CloseSession(s)
    \/ \E r \in Room : JoinChatroom(s, r) \/ CreateChatroom(s, r)
    \/ LeaveChatroom(s)
    \/ UserExit(s)
    \/ ListUsers(s)
    \/ ListChatrooms(s)
    \/ \E r \in Room : ListChatroomUsers(s, r)

Next == \E s \in Sock : Handle(s) \/ \E n \in Name : AddUser(s, n)

Spec == Init /\ [][Next]_vars

-------------------------------------------------------------------------------
(* Properties. *)

ChatRoomObject ==
    [name : Room \cup {NULL}, owner : Name \cup {NULL}, users : Seq(Name)]

TypeOK ==
    /\ users_map \in [Name -> Sock \cup {NULL}]
    /\ connectionStatus \in [Name -> BOOLEAN]
    /\ connectedToChatRoom \in [Name -> RoomId \cup {NULL}]
    /\ in_session_with \in [Name -> Name \cup {NULL}]
    /\ chatrooms_map \in [Room -> RoomId \cup {NULL}]
    /\ rooms \in [RoomId -> ChatRoomObject]
    /\ users_vector \in Seq(Sock)
    /\ closed \subseteq Sock
    /\ sent \in [Sock -> Seq(Message)]
    /\ crashed \in BOOLEAN

\* The comment in each handler, "if there is a match between the connected user
\* to one of the users in the map": a request is never taken for somebody
\* else's, since each served socket belongs to exactly one connected user.
SenderIsKnown ==
    \A s \in Range(users_vector) \ closed :
        \E n \in Name : \A m \in Name : users_map[m] = s <=> m = n

\* The owner a room records is in its vector for as long as the room is in the
\* map, through joins, leaves and exits of the others in any order: the loop
\* that closes the room reaches the owner too.
OwnerIsListed ==
    \A r \in Room : chatrooms_map[r] # NULL =>
        LET room == rooms[chatrooms_map[r]]
        IN  room.name = r /\ room.owner \in Range(room.users)

\* A user who points to a room it owns points to the room of that name in the
\* map.  The rooms are erased by name: without this an owner that leaves an old
\* room would erase another room that got the same name since.
OwnerHoldsLiveRoom ==
    \A n \in Name : \A i \in RoomId :
        connectedToChatRoom[n] = i /\ rooms[i].owner = n
            => chatrooms_map[rooms[i].name] = i

\* The inductive invariant behind these.  A connected user's socket is served
\* and belongs to nobody else; a pointer to a room leads to a ChatRoom object
\* that create_chatroom has filled in.
SocketsMatch ==
    /\ \A n \in Connected : users_map[n] \in Range(users_vector) \ closed
    /\ \A n, m \in Connected : users_map[n] = users_map[m] => n = m
    /\ \A s \in Range(users_vector) \ closed : \E n \in Connected : users_map[n] = s

PointersLead ==
    \A n \in Name : connectedToChatRoom[n] # NULL
        => rooms[connectedToChatRoom[n]].name \in Room

IInv == /\ TypeOK /\ SocketsMatch /\ PointersLead
        /\ OwnerIsListed /\ OwnerHoldsLiveRoom

\* Whoever points to a room is in its vector, so that it hears of every arrival
\* and departure, unless the room carries the name of a user.
MemberIsListed ==
    \A n \in Name : \A i \in RoomId :
        connectedToChatRoom[n] = i /\ rooms[i].name \notin Name
            => n \in Range(rooms[i].users)

\* Bound of the model: how many more users a vector is tried with.
MoreUsers == 3

\* The user vectors of the open rooms, and what they become as more users join.
OpenLists == {rooms[chatrooms_map[r]].users : r \in {x \in Room : chatrooms_map[x] # NULL}}
Arrivals == UNION {[1..k -> Name] : k \in 0..MoreUsers}
Vectors == {list \o more : list \in OpenLists, more \in Arrivals}

\* The closed form of remove_user, which the handlers use, is what its
\* erase-while-iterating loop computes, duplicates included (ChatRoom.cpp:23).
RemoveIsLoop ==
    \A list \in Vectors : \A user \in Name :
        remove_user(list, user) = RemoveLoop(list, user)

\* What a vector lists but this user, in order.
OthersIn(list, user) == Picked(list, {i \in DOMAIN list : list[i] # user})

\* Removing one user neither drops, duplicates nor reorders another user,
\* however the erased elements shift the others.
OthersKeepTheirPlace ==
    \A list \in Vectors : \A user \in Name :
        OthersIn(remove_user(list, user), user) = OthersIn(list, user)

\* While nobody opens a room, a user is busy exactly when one session names it: no
\* order of opening, closing and exiting leaves a user in two sessions, or busy
\* without one.
BusyInOneSession ==
    Room = {} =>
        \A n \in Connected : /\ connectionStatus[n] <=> Entries(n) # {}
                              /\ Cardinality(Entries(n)) <= 1

\* README.md:57 "A chat room may be closed only by its creator": a room leaves
\* the map, or is replaced, only as its owner's own socket leaves or exits.
ClosedOnlyByOwner ==
    [][\A r \in Room : chatrooms_map[r] \notin {NULL, chatrooms_map'[r]} =>
         \E s \in Sock : /\ users_map[rooms[chatrooms_map[r]].owner] = s
                         /\ LeaveChatroom(s) \/ UserExit(s)]_vars

\* Nobody is left in a closed room without being told: when a room leaves the
\* map, everybody who points to it is sent CHATROOM_WAS_CLOSED, unless the room
\* carries the name of a user.
MembersHearOfClosing ==
    [][\A n \in Connected : \A r \in Room \ Name :
         /\ connectedToChatRoom[n] = chatrooms_map[r]
         /\ chatrooms_map[r] \notin {NULL, chatrooms_map'[r]}
         => Msg("CHATROOM_WAS_CLOSED", <<>>) \in Range(sent'[users_map[n]])]_vars

-------------------------------------------------------------------------------
(* The abstract specification this one implements. *)

\* The recorded owner of each room in the map.
Creator == [r \in Room |-> IF chatrooms_map[r] = NULL THEN NULL
                           ELSE rooms[chatrooms_map[r]].owner]

Directory == INSTANCE RoomDirectory WITH online <- Connected, creator <- Creator

\* The dispatcher implements the room directory: users come and go one at a
\* time, a room is opened by a connected user under a free name, keeps its
\* owner while it is open, and only that owner closes it.
DirectorySpec == Directory!Spec

-------------------------------------------------------------------------------
(* What comments promise and the code does not keep. *)

\* Protocol.h:39 says of OPEN_SESSION_ERROR "Username not found": a request for a
\* session with somebody who is not connected is answered with it.
UnknownNameIsAnswered ==
    [][\A s \in Sock : \A from, to \in Name :
         users_map[to] = NULL /\ OpenSession(s, from, to)
            => sent'[s] = <<Msg("OPEN_SESSION_ERROR", <<>>)>>]_vars

\* Dispatcher.cpp:86 "user is exiting, update all chat rooms and users list": no
\* user is left pointing to a room that is not in the map any more.
NobodyInClosedRoom ==
    \A n \in Connected : \A i \in RoomId :
        connectedToChatRoom[n] = i /\ rooms[i].name \notin Name
            => chatrooms_map[rooms[i].name] = i
===============================================================================
