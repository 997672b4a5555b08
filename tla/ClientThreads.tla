---------------------------- MODULE ClientThreads -----------------------------
(***************************************************************************)
(* The inside of one client application.  The command line and the         *)
(* receiver thread share the members of one Client object without a lock:  *)
(* a message of the server becomes a series of assignments, between which  *)
(* the user may type s, cs, d or c.  Client and Messenger take each        *)
(* message and each command for one step; here is when that is right.      *)
(*                                                                         *)
(* The server is what the Dispatcher shows to one user: it answers one     *)
(* request after the other, and other users open sessions with this one    *)
(* and come and go in its room.  Messages that the client only prints are  *)
(* left out, one request is under way at a time, and a partner, or an      *)
(* element of a vector, is read or written at once.  A partner without a   *)
(* name, NULL, was cleaned, or its message was cut short.                  *)
(***************************************************************************)
EXTENDS Client, FiniteSets

CONSTANTS
    Peer,       \* the other users
    Caller,     \* bound of the model: those of them that sessions are with
    MaxConn,    \* bound of the model: how often the user connects
    MaxMail,    \* bound of the model: messages written to the client and not read
    MaxListed   \* bound of the model: partners in the client's vector

ASSUME Bounds == {MaxConn, MaxMail, MaxListed} \subseteq Nat
ASSUME PeersAreOthers == /\ Caller \subseteq Peer /\ IsFiniteSet(Peer)
                         /\ Peer \cap (0..MaxConn \cup {NULL}) = {}
ASSUME NullIsNobody == NULL \notin 0..MaxConn

Conn == 1..MaxConn      \* also the names the user logs in with

VARIABLES
    (* the client *)
    app,            \* the members of the Client object that both threads use
    connected,      \* connectionStatus and isConnectedToServer, which change together
    server_sock,    \* the connection, 0 before the first
    udp_sock,       \* there is a socket for messages to partners
    receiver,       \* receiver[k]: the thread that the k-th c has started
    typing,         \* the command the command line is in
    (* its connections, and what the server knows of them *)
    open,           \* the connections that neither side has closed
    asked,          \* asked[k]: the request the server has not handled, or NULL
    mail,           \* mail[k]: the messages the client has not begun to read
    status,         \* status[k]: what the user of connection k is in
    (* history *)
    told,           \* what app is if each message and each command is one step
    met,            \* the users the server has named on this connection
    crossed,        \* d or cs was typed and a message read, each inside the other
    residue         \* the connection was closed inside a room with others

clientVars == <<app, connected, server_sock, udp_sock, receiver, typing>>
serverVars == <<open, asked, mail, status>>
history == <<told, met, crossed, residue>>
vars == <<clientVars, serverVars, history>>

-------------------------------------------------------------------------------
(* What the threads do to the object. *)

NewClient == [LoggedIn(NULL) EXCEPT !.client_name = NULL]

\* Variant: the partner of the last session is not forgotten.
ResetKeeping(c) == [c EXCEPT !.isInSession = FALSE, !.isInChatRoom = FALSE]

\* Closing the connection.  empty() forgets no partners, and nobody resets the owner.
Reset(c) == [c EXCEPT !.isInSession = FALSE, !.isInChatRoom = FALSE,
                      !.session_partner = NULL]

Set(member, value) == [member |-> member, value |-> value]

\* Variant: the list of a room does not make a session.
PartnerOnly(name) ==
    <<Set("isInChatRoom", TRUE), Set("isInChatRoom", TRUE), Set("joined", name)>>

\* One turn of the loop over the list of a room.
Partner(name) ==
    <<Set("isInSession", TRUE), Set("isInChatRoom", TRUE), Set("joined", name)>>

\* The assignments a message leads to, in the order of the code, once its strings are
\* read.  INCOMIMG_SESSION sets the flag before the partner, CHATROOM_WAS_CLOSED takes
\* the session flag away last and leaving takes it away first.
Writes(c, msg) ==
    CASE msg.cmd = "CONFIRM_USER" ->
            <<Set("client_name", msg.names[1]), Set("udp_sock", TRUE)>>
      [] msg.cmd = "INCOMIMG_SESSION" ->
            <<Set("isInSession", TRUE), Set("session_partner", msg.names[1])>>
      [] msg.cmd = "TARGET_IP_AND_PORT" ->
            <<Set("session_partner", NULL), Set("session_partner", msg.names[1]),
              Set("isInSession", TRUE)>>
      [] msg.cmd \in Refusals -> <<Set("isInSession", FALSE)>>
      [] msg.cmd = "CHATROOM_CREATED" ->
            <<Set("isInChatRoom", TRUE), Set("isRoomOwner", TRUE), Set("isInSession", TRUE)>>
      [] msg.cmd = "CHATROOM_LIST" ->
            [i \in 1..(3 * Len(msg.names)) |->
                Partner(msg.names[(i + 2) \div 3])[((i - 1) % 3) + 1]]
      [] msg.cmd = "CHATROOM_WAS_CLOSED" ->
            <<Set("isRoomOwner", FALSE), Set("isInChatRoom", FALSE),
              Set("chatroom_partners", <<>>), Set("isInSession", FALSE)>>
      [] msg.cmd = "NEW_USER_TO_CHATROOM" -> <<Set("joined", msg.names[1])>>
      [] msg.cmd = "USER_HAS_LEFT_CHATROOM" /\ msg.names[1] # c.client_name ->
            <<Set("left", msg.names[1])>>
      [] msg.cmd = "USER_HAS_LEFT_CHATROOM" /\ msg.names[1] = c.client_name ->
            <<Set("isInSession", FALSE), Set("isInChatRoom", FALSE),
              Set("isRoomOwner", FALSE), Set("chatroom_partners", <<>>)>>
      [] msg.cmd = "CHATROOM_IS_CLOSING" -> <<Set("closed", TRUE)>>

Written(c, w) ==
    CASE w.member = "joined" -> userHasJoinedChatroom(c, w.value)
      [] w.member = "left" -> userHasLeftChatroom(c, w.value)
      [] w.member = "closed" -> Reset(c)
      [] w.member = "udp_sock" -> c
      [] OTHER -> [c EXCEPT ![w.member] = w.value]

\* The whole message as one step.
Heard(c, msg) ==
    CASE msg.cmd = "CONFIRM_USER" -> [c EXCEPT !.client_name = msg.names[1]]
      [] msg.cmd = "CHATROOM_IS_CLOSING" -> Reset(c)
      [] OTHER -> Received(c, msg)

-------------------------------------------------------------------------------
(* The command line. *)

Prompt == [at |-> "prompt", next |-> 0, to |-> <<>>, calm |-> TRUE]

\* What comes of an object that is in a state no order of steps leads to is not followed,
\* except that its receiver thread goes on.
Followed == app.alive /\ ~crossed

AtPrompt == Followed /\ typing = Prompt

Started(k) == receiver[k].at \notin {"not started", "ended"}

\* A receiver thread has made some of the assignments of a message.
Midway == \E k \in Conn : receiver[k].at = "assigning"

InAMessage == \E k \in Conn : receiver[k].at \in {"assigning", "strings"}

Idle == [at |-> "not started", sock |-> 0, msg |-> NULL, todo |-> <<>>]

\* What the server has the user of a connection in: with whom, and whose room it is.
Status(place, users, owner) == [place |-> place, with |-> users, owner |-> owner]

Nowhere == Status("nowhere", {}, NULL)

\* c.  Whether the server could be reached is not noticed: the descriptor is a number
\* even if connect has failed.  The user waits until no receiver thread is left, which
\* the code does not ask for.
Connect ==
    /\ AtPrompt /\ server_sock < MaxConn
    /\ \A k \in Conn : ~Started(k)
    /\ server_sock' = server_sock + 1
    /\ connected' = TRUE
    /\ open' \in {open, open \cup {server_sock'}}
    /\ receiver' = [receiver EXCEPT ![server_sock'].at = "loop"]
    /\ met' = {}
    /\ UNCHANGED <<app, udp_sock, typing, asked, mail, status, told, crossed, residue>>

\* A request whose connection is lost goes nowhere.
Ask(cmd, peer) ==
    /\ server_sock \in open => /\ asked[server_sock] = NULL
                               /\ asked' = [asked EXCEPT ![server_sock] =
                                                [cmd |-> cmd, peer |-> peer]]
    /\ server_sock \notin open => UNCHANGED asked
    /\ UNCHANGED <<app, connected, server_sock, udp_sock, receiver, open, mail, status,
                   history>>

\* The user has read that it is logged in on this connection.
Confirmed == app.client_name = server_sock

\* login and register.
LogIn == /\ AtPrompt /\ connected /\ ~Confirmed
         /\ Ask("LOGIN", NULL)
         /\ UNCHANGED typing

\* o and or.
Open(cmd, peer) == /\ AtPrompt /\ connected /\ Confirmed
                   /\ MayOpen(app)
                   /\ Ask(cmd, peer)
                   /\ UNCHANGED typing

\* cs: the request is sent first, and the end of a session noted afterwards.
CloseBegins ==
    /\ AtPrompt /\ connected /\ ~MayOpen(app)
    /\ Ask(CloseRequest(app), NULL)
    /\ typing' = IF app.isInChatRoom THEN Prompt
                 ELSE [Prompt EXCEPT !.at = "closing", !.calm = ~Midway]

CloseEnds ==
    /\ app.alive /\ typing.at = "closing"
    /\ app' = [app EXCEPT !.isInSession = FALSE]
    /\ told' = closeSession(told)
    /\ crossed' = (crossed \/ ~typing.calm)
    /\ typing' = Prompt
    /\ UNCHANGED <<connected, server_sock, udp_sock, receiver, serverVars, met, residue>>

\* What was under way on the connection is lost.
SocketClosed ==
    /\ open' = open \ {server_sock}
    /\ asked' = [asked EXCEPT ![server_sock] = NULL]
    /\ mail' = [mail EXCEPT ![server_sock] = <<>>]
    /\ status' = [status EXCEPT ![server_sock] = Nowhere]

\* d: the members first, then EXIT and the socket.  A message may still be read between.
DisconnectBegins ==
    /\ AtPrompt /\ connected
    /\ app' = Reset(app) /\ told' = Reset(told)
    /\ connected' = FALSE
    /\ residue' = (residue \/ app.chatroom_partners # <<>>)
    /\ typing' = [Prompt EXCEPT !.at = "leaving", !.calm = ~InAMessage]
    /\ UNCHANGED <<server_sock, udp_sock, receiver, serverVars, met, crossed>>

DisconnectEnds ==
    /\ app.alive /\ typing.at = "leaving"
    /\ SocketClosed
    /\ typing' = Prompt
    /\ crossed' = (crossed \/ ~typing.calm \/ InAMessage)
    /\ UNCHANGED <<app, connected, server_sock, udp_sock, receiver, told, met, residue>>

\* s: the flags are read one after the other, and the vector anew for each partner.
\* A partner that was cleaned has no address.
SayBegins ==
    /\ AtPrompt /\ connected /\ app.isInSession
    /\ typing' = [Prompt EXCEPT !.at = "saying", !.calm = ~Midway]
    /\ UNCHANGED <<app, connected, server_sock, udp_sock, receiver, serverVars, history>>

Said(to) == [typing EXCEPT !.at = "said", !.to = to]

\* Variant: the loop over the partners starts at the second.
FirstOfRoomLate == 2

FirstOfRoom == 1

\* The session is looked at again.  Without a UDP socket, sending is a call on a null
\* pointer.
SayWhere ==
    /\ app.alive /\ typing.at = "saying"
    /\ \/ /\ ~app.isInSession
          /\ typing' = Said(<<>>)
          /\ UNCHANGED app
       \/ /\ app.isInSession /\ app.isInChatRoom
          /\ typing' = [typing EXCEPT !.at = "room", !.next = FirstOfRoom]
          /\ UNCHANGED app
       \/ /\ app.isInSession /\ ~app.isInChatRoom
          /\ typing' = Said(<<app.session_partner>>)
          /\ app' = [app EXCEPT !.alive = udp_sock]
    /\ UNCHANGED <<connected, server_sock, udp_sock, receiver, serverVars, history>>

SayNext ==
    /\ app.alive /\ typing.at = "room"
    /\ \/ /\ typing.next <= Len(app.chatroom_partners)
          /\ typing' = [typing EXCEPT !.next = @ + 1,
                           !.to = Append(@, app.chatroom_partners[typing.next])]
          /\ app' = [app EXCEPT !.alive = udp_sock]
       \/ /\ typing.next > Len(app.chatroom_partners)
          /\ typing' = Said(typing.to)
          /\ UNCHANGED app
    /\ UNCHANGED <<connected, server_sock, udp_sock, receiver, serverVars, history>>

SayEnds ==
    /\ app.alive /\ typing.at = "said"
    /\ typing' = Prompt
    /\ UNCHANGED <<app, connected, server_sock, udp_sock, receiver, serverVars, history>>

CommandLine ==
    \/ Connect \/ LogIn \/ DisconnectBegins \/ DisconnectEnds
    \/ \E peer \in Caller : Open("OPEN_SESSION_WITH_USER", peer)
    \/ Open("OPEN_CHATROOM", NULL)
    \/ CloseBegins \/ CloseEnds
    \/ SayBegins \/ SayWhere \/ SayNext \/ SayEnds

-------------------------------------------------------------------------------
(* The receiver threads. *)

\* Whatever the command line is in the middle of no longer sees one state.
Disturbed == [typing EXCEPT !.calm = (typing = Prompt)]

Receiving(k, at) == app.alive /\ receiver[k].at = at

GoesTo(k, at) == receiver' = [receiver EXCEPT ![k].at = at]

\* Variant: the thread never looks at the flag again.
TestFlagNever(k) ==
    /\ Receiving(k, "loop")
    /\ receiver' = [receiver EXCEPT ![k].at = "listening", ![k].sock = server_sock]
    /\ UNCHANGED <<app, connected, server_sock, udp_sock, typing, serverVars, history>>

TestFlag(k) ==
    /\ Receiving(k, "loop")
    /\ receiver' = IF connected
                   THEN [receiver EXCEPT ![k].at = "listening", ![k].sock = server_sock]
                   ELSE [receiver EXCEPT ![k] = [Idle EXCEPT !.at = "ended"]]
    /\ UNCHANGED <<app, connected, server_sock, udp_sock, typing, serverVars, history>>

\* The command is 0, and the loop starts over.
EndOfFile(k) ==
    /\ Receiving(k, "listening") /\ receiver[k].sock \notin open
    /\ GoesTo(k, "loop")
    /\ UNCHANGED <<app, connected, server_sock, udp_sock, typing, serverVars, history>>

\* From here on the handler of the message runs.
Assigning(k, msg) ==
    receiver' = [receiver EXCEPT
        ![k].msg = NULL, ![k].todo = Writes(app, msg),
        ![k].at = IF Writes(app, msg) = <<>> THEN "loop" ELSE "assigning"]

Taken(msg) ==
    /\ told' = Heard(told, msg)
    /\ met' = met \cup (ToSet(msg.names) \cap Peer)
    /\ typing' = Disturbed

HasStrings(msg) == msg.names # <<>>

ReadCommand(k) ==
    LET sock == receiver[k].sock
        msg == Head(mail[sock])
    IN  /\ Receiving(k, "listening") /\ sock \in open
        /\ mail[sock] # <<>>
        /\ mail' = [mail EXCEPT ![sock] = Tail(@)]
        /\ \/ /\ HasStrings(msg)
              /\ receiver' = [receiver EXCEPT ![k].at = "strings", ![k].msg = msg]
              /\ UNCHANGED <<typing, told, met>>
           \/ /\ ~HasStrings(msg)
              /\ Assigning(k, msg) /\ Taken(msg)
        /\ UNCHANGED <<app, connected, server_sock, udp_sock, open, asked, status,
                       crossed, residue>>

\* What readMsg makes of a connection that was closed meanwhile is nobody's name; the
\* length of a list is 0.
Cut(msg) == [msg EXCEPT !.names = IF msg.cmd = "CHATROOM_LIST" THEN <<>> ELSE <<NULL>>]

ReadStrings(k) ==
    /\ Receiving(k, "strings") /\ receiver[k].sock = server_sock
    /\ \/ /\ server_sock \in open
          /\ Assigning(k, receiver[k].msg) /\ Taken(receiver[k].msg)
       \/ /\ server_sock \notin open
          /\ Assigning(k, Cut(receiver[k].msg))
          /\ UNCHANGED <<typing, told, met>>
    /\ UNCHANGED <<app, connected, server_sock, udp_sock, serverVars, crossed, residue>>

Assign(k) ==
    LET write == Head(receiver[k].todo)
        rest == Tail(receiver[k].todo)
    IN  /\ Receiving(k, "assigning")
        /\ receiver' = [receiver EXCEPT
                ![k].todo = rest, ![k].at = IF rest = <<>> THEN "loop" ELSE "assigning"]
        /\ typing' = Disturbed
        /\ \/ /\ write.member = "closed"
              /\ app' = Reset(app) /\ connected' = FALSE /\ SocketClosed
              /\ residue' = (residue \/ app.chatroom_partners # <<>>)
              /\ UNCHANGED <<server_sock, udp_sock, met>>
           \/ /\ write.member # "closed"
              /\ app' = Written(app, write)
              /\ udp_sock' = (udp_sock \/ write.member = "udp_sock")
              /\ UNCHANGED <<connected, server_sock, serverVars, met, residue>>
        /\ UNCHANGED <<told, crossed>>

Receiver(k) ==
    TestFlag(k) \/ EndOfFile(k) \/ ReadCommand(k) \/ ReadStrings(k) \/ Assign(k)

-------------------------------------------------------------------------------
(* The server. *)

Msg(cmd, names) == [cmd |-> cmd, names |-> names]

Tell(k, msg, state) ==
    /\ Followed /\ k \in open /\ Len(mail[k]) < MaxMail
    /\ mail' = [mail EXCEPT ![k] = Append(@, msg)]
    /\ status' = [status EXCEPT ![k] = state]
    /\ UNCHANGED <<clientVars, open, history>>

LoggedOn == Status("account", {}, NULL)

\* Variant: the new user is put into the vector before the list is written.
ListWithNew(k, owner, others) == <<owner>> \o SetToSeq(others) \o <<k>>

ListFor(k, owner, others) == <<owner>> \o SetToSeq(others)

\* What the dispatcher does for a request, as far as the sender is told and more than a
\* line is printed of it.
Granted(k) ==
    LET in == status[k]
    IN  \/ /\ asked[k].cmd = "LOGIN" /\ in = Nowhere
           /\ Tell(k, Msg("CONFIRM_USER", <<k>>), LoggedOn)
        \/ /\ asked[k].cmd = "OPEN_SESSION_WITH_USER" /\ in = LoggedOn
           /\ Tell(k, Msg("TARGET_IP_AND_PORT", <<asked[k].peer>>),
                   Status("session", {asked[k].peer}, NULL))
        \/ /\ asked[k].cmd = "CLOSE_SESSION_WITH_USER" /\ in.place # "session"
           /\ Tell(k, Msg("CLOSE_SESSION_ERROR", <<>>), in)
        \/ /\ asked[k].cmd = "OPEN_CHATROOM" /\ in = LoggedOn
           /\ \/ Tell(k, Msg("CHATROOM_CREATED", <<>>), Status("room", {}, k))
              \/ \E owner \in Peer : \E others \in SUBSET (Peer \ {owner}) :
                    /\ Len(told.chatroom_partners) + Cardinality(others) < MaxListed
                    /\ Tell(k, Msg("CHATROOM_LIST", ListFor(k, owner, others)),
                            Status("room", others \cup {owner}, owner))
        \/ /\ asked[k].cmd = "LEAVE_CHATROOM" /\ in.place = "room"
           /\ Tell(k, IF in.owner = k THEN Msg("CHATROOM_WAS_CLOSED", <<>>)
                      ELSE Msg("USER_HAS_LEFT_CHATROOM", <<k>>), LoggedOn)

\* The sender hears nothing, or nothing it acts on: its session is over, the peer is
\* busy, it is in no room, or the name or the password is wrong.
Dropped(k) ==
    /\ Followed /\ k \in open
    /\ \/ asked[k].cmd \in {"LOGIN", "OPEN_SESSION_WITH_USER"} /\ UNCHANGED status
       \/ /\ asked[k].cmd = "CLOSE_SESSION_WITH_USER" /\ status[k].place = "session"
          /\ status' = [status EXCEPT ![k] = LoggedOn]
       \/ /\ asked[k].cmd = "LEAVE_CHATROOM" /\ status[k].place # "room"
          /\ UNCHANGED status
    /\ UNCHANGED <<clientVars, open, mail, history>>

\* A request to enter a room from somebody who is busy by then is not handled here;
\* what comes of it is OneAtATime of Messenger.
Handle(k) == /\ asked[k] # NULL
             /\ Granted(k) \/ Dropped(k)
             /\ asked' = [asked EXCEPT ![k] = NULL]

\* Requests of other users.
Visit(k, peer) ==
    /\ status[k] = LoggedOn
    /\ Tell(k, Msg("INCOMIMG_SESSION", <<peer>>), Status("session", {peer}, NULL))

PartnerEnds(k) ==
    /\ status[k].place = "session"
    /\ Tell(k, Msg("SESSION_ENDED", <<>>), LoggedOn)

PeerJoins(k, peer) ==
    /\ status[k].place = "room" /\ peer \notin status[k].with
    /\ Len(told.chatroom_partners) < MaxListed
    /\ Tell(k, Msg("NEW_USER_TO_CHATROOM", <<peer>>),
            [status[k] EXCEPT !.with = @ \cup {peer}])

PeerLeaves(k, peer) ==
    /\ status[k].place = "room" /\ peer \in status[k].with
    /\ IF peer = status[k].owner
       THEN Tell(k, Msg("CHATROOM_WAS_CLOSED", <<>>), LoggedOn)
       ELSE Tell(k, Msg("USER_HAS_LEFT_CHATROOM", <<peer>>),
                 [status[k] EXCEPT !.with = @ \ {peer}])

ShutDown(k) ==
    /\ status[k].place \notin {"nowhere", "closed"}
    /\ Tell(k, Msg("CHATROOM_IS_CLOSING", <<>>), Status("closed", {}, NULL))

Server(k) ==
    \/ Handle(k)
    \/ /\ \/ \E peer \in Caller : Visit(k, peer)
          \/ \E peer \in Peer : PeerJoins(k, peer) \/ PeerLeaves(k, peer)
          \/ PartnerEnds(k) \/ ShutDown(k)
       /\ UNCHANGED asked

-------------------------------------------------------------------------------

Init ==
    /\ app = NewClient /\ connected = FALSE /\ server_sock = 0 /\ udp_sock = FALSE
    /\ receiver = [k \in Conn |-> Idle]
    /\ typing = Prompt
    /\ open = {}
    /\ asked = [k \in Conn |-> NULL]
    /\ mail = [k \in Conn |-> <<>>]
    /\ status = [k \in Conn |-> Nowhere]
    /\ told = NewClient /\ met = {}
    /\ crossed = FALSE /\ residue = FALSE

Next == CommandLine \/ \E k \in Conn : Receiver(k) \/ Server(k)

\* The receiver threads run on, and a d that was typed is carried out; neither the user
\* nor the server owes anything.
Spec == /\ Init /\ [][Next]_vars
        /\ \A k \in Conn : WF_vars(Receiver(k))
        /\ WF_vars(DisconnectEnds)

-------------------------------------------------------------------------------
(* Properties. *)

TypeOK ==
    /\ app.session_partner \in Peer \cup {NULL}
    /\ app.chatroom_partners \in Seq(Peer \cup {NULL})
    /\ DOMAIN app = DOMAIN told
    /\ typing.to \in Seq(Peer \cup {NULL}) /\ typing.next \in Nat
    /\ open \subseteq 1..server_sock
    /\ \A k \in Conn : /\ Len(mail[k]) <= MaxMail
                       /\ receiver[k].todo # <<>> <=> receiver[k].at = "assigning"
    /\ {connected, udp_sock, crossed, residue} \subseteq BOOLEAN

\* Client.cpp:517-646 and 331-351: messages and commands may be taken for single steps,
\* as Client and Messenger do.  When both threads are between two of them, the object is
\* what they amount to one after the other, through disconnecting and connecting again,
\* unless d or cs was typed in the middle of a message or had one in its own middle.
OneStepEach ==
    ~crossed /\ typing = Prompt /\ ~Midway => app = told

Addressees(c) == IF c.isInChatRoom THEN c.chatroom_partners ELSE <<c.session_partner>>

\* README.md:59 "all the clients will receive his messages": what was typed has been
\* sent once to each partner, unless news of the server was taken in meanwhile.
AllAreReached ==
    typing.at = "said" /\ typing.calm /\ ~crossed
        => typing.to = Addressees(told)

\* Client.cpp:234 "s <message> - send a message to session user": even while news is
\* taken in, a message goes to nobody whom the server has not named on this connection.
\* In the middle of CHATROOM_WAS_CLOSED it may go to the partner of an old session of
\* this connection; partners of an earlier connection get it only if they were left in
\* the vector of a room.
NobodyElseIsReached ==
    ~crossed /\ ~residue => ToSet(typing.to) \subseteq met \cup {NULL}

\* Client.cpp:708 and 433: the client dies neither of a message nor of one typed without
\* a UDP socket, unless d or cs and a message were each inside the other.
Survives == app.alive \/ crossed

\* Client.cpp:525: the receiver thread ends after the connection was closed, so that a
\* user who waits for it finds none when connecting again.
ThreadsEnd == ~connected ~> connected \/ ~app.alive \/ \A k \in Conn : ~Started(k)
===============================================================================
