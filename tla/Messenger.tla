------------------------------- MODULE Messenger -------------------------------
(***************************************************************************)
(* Clients and dispatcher together.  Each client has one connection: a     *)
(* FIFO channel of requests to the server and one of messages back.  The   *)
(* dispatcher handles the first request of the first socket that has one;  *)
(* a client reads its messages one by one, and its user types commands     *)
(* meanwhile, on the strength of flags that may lag behind the server.     *)
(***************************************************************************)
EXTENDS Client, FiniteSets

CONSTANTS Name, Room, Sock, RoomId, MaxListed,
    MaxMail,    \* bound of the model: unread messages before the server goes on
    Cli,        \* the commands the users type, of "o", "or", "cs", "d"
    MayDie,     \* a client may be killed
    MayHurry,   \* a user may type a command before the last one is answered
    MayReturn   \* a user may log in again after disconnecting

ASSUME CliCommands == /\ MaxMail \in Nat
                      /\ Cli \subseteq {"o", "or", "cs", "d"}
                      /\ {MayDie, MayHurry, MayReturn} \subseteq BOOLEAN

VARIABLES
    users_map, connectionStatus, connectedToChatRoom, in_session_with,
    chatrooms_map, rooms, users_vector, closed, sent, crashed,  \* the dispatcher
    link,       \* link[s]: requests on their way to the server
    mail,       \* mail[s]: messages on their way to the client
    client,     \* client[s]: what the client knows, NULL before it logs in
    left        \* the clients that have disconnected

serverVars == <<users_map, connectionStatus, connectedToChatRoom, in_session_with,
                chatrooms_map, rooms, users_vector, closed, sent, crashed>>
vars == <<serverVars, link, mail, client, left>>

D == INSTANCE Dispatcher

\* What is proved of the dispatcher rests on it.
ASSUME DispatcherConstants == D!NamesAreStrings /\ D!NullIsNothing /\ D!MaxListedIsNat

\* All there is to know for a client, and all it may ask for.
Knowledge ==
    [client_name : Name, isInSession : BOOLEAN, isInChatRoom : BOOLEAN,
     isRoomOwner : BOOLEAN, session_partner : Name \cup {NULL},
     chatroom_partners : Seq(Name), alive : BOOLEAN]

Asked == [cmd : {"OPEN_SESSION_WITH_USER"}, from : Name, to : Name]
         \cup [cmd : {"OPEN_CHATROOM"}, room : Room]
         \cup [cmd : {"LEAVE_CHATROOM", "CLOSE_SESSION_WITH_USER", "EXIT"}]

ASSUME NullIsNoClient == NULL \notin Knowledge

-------------------------------------------------------------------------------
(* The users. *)

\* What the server writes to the socket of a request, and to no other.
AnswersTo(s, msg) ==
    \/ msg.cmd \in {"TARGET_IP_AND_PORT", "OPEN_SESSION_ERROR", "OPEN_SESSION_ERROR2",
                    "OPEN_CONNECTION_ERROR", "CLOSE_SESSION_ERROR", "CONNECTION_ERROR",
                    "CHATROOM_CREATED", "CHATROOM_LIST"}
    \/ msg.cmd = "USER_HAS_LEFT_CHATROOM" /\ msg.names[1] = client[s].client_name

Unanswered(s) == link[s] # <<>> \/ \E i \in DOMAIN mail[s] : AnswersTo(s, mail[s][i])

AtKeyboard(s) == /\ client[s] # NULL /\ s \notin left
                 /\ MayHurry \/ ~Unanswered(s)

Request(s, req) ==
    /\ link' = [link EXCEPT ![s] = Append(@, req)]
    /\ UNCHANGED <<serverVars, mail>>

\* o <username>
Open(s, peer) ==
    /\ "o" \in Cli
    /\ AtKeyboard(s) /\ MayOpen(client[s])
    /\ Request(s, [cmd |-> "OPEN_SESSION_WITH_USER",
                   from |-> client[s].client_name, to |-> peer])
    /\ UNCHANGED <<client, left>>

\* or <room name>
Enter(s, r) ==
    /\ "or" \in Cli
    /\ AtKeyboard(s) /\ MayOpen(client[s])
    /\ Request(s, [cmd |-> "OPEN_CHATROOM", room |-> r])
    /\ UNCHANGED <<client, left>>

\* cs
CloseOpen(s) ==
    /\ "cs" \in Cli
    /\ AtKeyboard(s) /\ ~MayOpen(client[s])
    /\ Request(s, [cmd |-> CloseRequest(client[s])])
    /\ client' = [client EXCEPT ![s] = closeSession(@)]
    /\ UNCHANGED left

\* d: EXIT is sent and the connection closed; the flags are reset, and whatever
\* was on its way to the client is lost.
Disconnect(s) ==
    /\ "d" \in Cli
    /\ AtKeyboard(s)
    /\ link' = [link EXCEPT ![s] = Append(@, [cmd |-> "EXIT"])]
    /\ mail' = [mail EXCEPT ![s] = <<>>]
    /\ left' = left \cup {s}
    /\ UNCHANGED <<serverVars, client>>

\* A client is killed: its connection is closed without an EXIT, after the requests
\* that are under way.
Die(s) ==
    /\ MayDie
    /\ client[s] # NULL /\ s \notin left
    /\ mail' = [mail EXCEPT ![s] = <<>>]
    /\ left' = left \cup {s}
    /\ UNCHANGED <<serverVars, link, client>>

\* The receiver thread.  A client that dies of it closes its connection, too.
Receive(s) ==
    LET c == Received(client[s], Head(mail[s]))
    IN  /\ client[s] # NULL /\ mail[s] # <<>>
        /\ client' = [client EXCEPT ![s] = c]
        /\ mail' = [mail EXCEPT ![s] = IF c.alive THEN Tail(@) ELSE <<>>]
        /\ left' = IF c.alive THEN left ELSE left \cup {s}
        /\ UNCHANGED <<serverVars, link>>

-------------------------------------------------------------------------------
(* The server. *)

\* CONFIRM_USER and the hand-over to the dispatcher, for a user with an account.
LogIn(s, n) ==
    /\ client[s] = NULL
    /\ MayReturn \/ \A t \in left : client[t].client_name # n
    /\ D!AddUser(s, n)
    /\ client' = [client EXCEPT ![s] = LoggedIn(n)]
    /\ UNCHANGED <<link, mail, left>>

\* Dispatcher::run: which handler a command is for.
Handled(s, req) ==
    \/ req.cmd = "OPEN_SESSION_WITH_USER" /\ D!OpenSession(s, req.from, req.to)
    \/ req.cmd = "CLOSE_SESSION_WITH_USER" /\ D!CloseSession(s)
    \/ req.cmd = "OPEN_CHATROOM" /\ \/ D!JoinChatroom(s, req.room)
                                    \/ D!CreateChatroom(s, req.room)
    \/ req.cmd = "LEAVE_CHATROOM" /\ D!LeaveChatroom(s)
    \/ req.cmd = "EXIT" /\ D!UserExit(s)

\* A socket that was closed stays readable once its requests are read.
Readable(s) == link[s] # <<>> \/ s \in left

Dispatch(s) ==
    /\ \E i \in DOMAIN users_vector :
          users_vector[i] = s /\ \A j \in 1..(i - 1) : ~Readable(users_vector[j])
    /\ link[s] # <<>>
    /\ \A t \in Sock : Len(mail[t]) < MaxMail
    /\ Handled(s, Head(link[s]))
    /\ link' = [link EXCEPT ![s] = Tail(@)]
    /\ mail' = [t \in Sock |-> IF t \in left THEN <<>> ELSE mail[t] \o sent'[t]]
    /\ UNCHANGED <<client, left>>

Init ==
    /\ D!Init
    /\ link = [s \in Sock |-> <<>>]
    /\ mail = [s \in Sock |-> <<>>]
    /\ client = [s \in Sock |-> NULL]
    /\ left = {}

Next == \E s \in Sock :
            \/ \E peer \in Name : Open(s, peer)
            \/ \E r \in Room : Enter(s, r)
            \/ CloseOpen(s) \/ Disconnect(s) \/ Die(s)
            \/ Receive(s)
            \/ \E n \in Name : LogIn(s, n)
            \/ Dispatch(s)

Spec == Init /\ [][Next]_vars

-------------------------------------------------------------------------------
(* Properties. *)

TypeOK ==
    /\ D!TypeOK
    /\ client \in [Sock -> Knowledge \cup {NULL}]
    /\ link \in [Sock -> Seq(Asked)]
    /\ mail \in [Sock -> Seq(D!Message)]
    /\ left \subseteq {s \in Sock : client[s] # NULL}

Present == IF crashed THEN {} ELSE {s \in Sock : client[s] # NULL} \ left

\* What a client will know once it has read what the server has written to it.
After(s) == CaughtUp(client[s], mail[s])

\* The rooms in the map that list user n.
RoomsOf(n) == {r \in Room : /\ chatrooms_map[r] # NULL
                            /\ n \in ToSet(rooms[chatrooms_map[r]].users)}

\* Client and server agree on who is in a room and who owns it, up to the messages
\* that are still on their way, through all interleavings of entering, leaving,
\* closing and disconnecting: README.md:58 "Each client can enter a chat room or
\* leave it".
RoomIsKnown ==
    \A s \in Present :
        LET c == After(s)
        IN  /\ c.isInChatRoom <=> RoomsOf(c.client_name) # {}
            /\ c.isInSession <=> c.isInChatRoom
            /\ c.isRoomOwner <=> \E r \in RoomsOf(c.client_name) :
                                    rooms[chatrooms_map[r]].owner = c.client_name

\* README.md:59 "Once a client enters a chat room it will receive all messages sent
\* by all the other clients in the room": a client sends what its user types to its
\* partners, and these are the other users of its room, each once.
PartnersAgree ==
    \A s \in Present :
        LET c == After(s)
        IN  \A r \in RoomsOf(c.client_name) :
                LET users == rooms[chatrooms_map[r]].users
                IN  /\ ToSet(c.chatroom_partners) = ToSet(users) \ {c.client_name}
                    /\ Len(c.chatroom_partners) = Len(users) - 1

\* No client is killed by the news that somebody has left: whoever leaves is among
\* the partners of those who hear of it.
ClientsSurvive == \A s \in Sock : client[s] # NULL => After(s).alive

\* No order of opening, closing and disconnecting leaves a user in two sessions,
\* or busy without one, whatever the clients believe as they type: README.md:37 for
\* sessions alone.
BusyInOneSession == D!BusyInOneSession

\* Whoever the server has in a session will know it and know with whom, so that what
\* it types goes to its partner (README.md:55), unless it has just asked to end it: a
\* refusal, or news of an earlier session, never hides the present one.
SessionIsKnown ==
    Room = {} =>
        \A s \in Present :
            LET c == After(s)
                u == c.client_name
            IN  D!Entries(u) # {} =>
                    \/ c.isInSession /\ c.session_partner = D!Partner(u)
                    \/ \E i \in DOMAIN link[s] : link[s][i].cmd = "CLOSE_SESSION_WITH_USER"

\* Nothing the clients and the channels do shows in the server but requests that
\* reach their handlers, in some order: the composition implements the dispatcher,
\* so that what holds of it whatever is asked holds here too.
DispatcherSpec == D!Spec

-------------------------------------------------------------------------------
(* What the README promises and the code does not keep. *)

\* README.md:37 "user can be connected to only to one other user or chat room at a
\* time": nobody is in a session and in a room.
OneAtATime ==
    \A n \in D!Connected : D!Entries(n) = {} \/ RoomsOf(n) = {}
===============================================================================
