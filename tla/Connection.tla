------------------------------ MODULE Connection ------------------------------
(***************************************************************************)
(* One connection: the user's requests, byte by byte, on their way to the  *)
(* thread of the server that listens to it, the login thread first and the *)
(* dispatcher later; and the messages that three threads of the server     *)
(* write to it, write by write.                                            *)
(*                                                                         *)
(* What the handlers do with the rest of the server is the Dispatcher's    *)
(* and LoginAndSignUp's concern; here their answers are any they may give. *)
(* Messages caused by other users' requests have the form of an answer.    *)
(***************************************************************************)
EXTENDS Wire

CONSTANTS
    Typable,    \* the requests the user may type
    MaxTyped    \* bound of the model: requests of the user

\* How many strings the client writes after a command.
Sends(cmd) == IF cmd \in {LOGIN, SIGNUP, OPEN_SESSION_WITH_USER} THEN 2
              ELSE IF cmd \in {OPEN_CHATROOM, GET_CHATROOM_USERS} THEN 1
              ELSE 0

\* Commands are small numbers, and lengths are, for strings of at most 255 characters;
\* a string may be empty, as the name in `o' is before the first login.
ASSUME SomeRequests ==
    /\ Typable \subseteq Message
    /\ \A req \in Typable : /\ req.cmd \in 1..255
                            /\ Len(req.args) = Sends(req.cmd)
                            /\ \A k \in DOMAIN req.args : Len(req.args[k]) \in 0..255
    /\ MaxTyped \in Nat

VARIABLES
    typed,      \* the requests the user has typed, in order
    outbox,     \* the writes of the client whose bytes have not arrived
    hungUp,     \* the client has closed the connection
    early,      \* the user has typed something before the greeting was written
    stream,     \* the bytes that have arrived and were not read
    torn,       \* the bytes of one write have arrived in parts
    reader,     \* the thread of the server that listens: "login", "dispatcher",
                \*   "handing over" while a login is being confirmed
    call,       \* the request that thread is reading, NULL if none
    understood, \* the requests it has taken, in order
    saying,     \* the message it is writing, NULL if none, and whether it has begun
    greeted,    \* the accept thread has written its greeting
    closing,    \* the main thread has written that the server closes
    mixed       \* one thread has written inside the message of another

clientVars == <<typed, hungUp, early>>
netVars == <<outbox, stream, torn>>
readVars == <<reader, call, understood>>
writeVars == <<saying, greeted, closing, mixed>>
vars == <<clientVars, netVars, readVars, writeVars>>

-------------------------------------------------------------------------------
(* The client. *)

\* Every command is sent whenever there is a connection: login is not after
\* CONFIRM_USER has been read, but that may be any time after it was written.
Type(req) ==
    /\ ~hungUp /\ Len(typed) < MaxTyped
    /\ typed' = Append(typed, req)
    /\ outbox' = outbox \o writeCommand(req.cmd) \o writeMsgs(req.args)
    /\ hungUp' = (req.cmd = EXIT)
    /\ early' = (early \/ ~greeted)
    /\ UNCHANGED <<stream, torn, readVars, writeVars>>

\* The receiver thread has read CHATROOM_IS_CLOSING.
CloseConnection ==
    /\ closing /\ ~hungUp
    /\ hungUp' = TRUE
    /\ UNCHANGED <<typed, early, netVars, readVars, writeVars>>

-------------------------------------------------------------------------------
(* The network. *)

Arrive ==
    /\ outbox # <<>>
    /\ stream' = stream \o Head(outbox)
    /\ outbox' = Tail(outbox)
    /\ UNCHANGED <<clientVars, torn, readVars, writeVars>>

\* At most one write is torn, after its first byte.
ArriveInPart ==
    /\ outbox # <<>> /\ ~torn
    /\ Len(Head(outbox)) > 1
    /\ torn' = TRUE
    /\ stream' = stream \o Taken(Head(outbox), 1)
    /\ outbox' = <<Rest(Head(outbox), 1)>> \o Tail(outbox)
    /\ UNCHANGED <<clientVars, readVars, writeVars>>

\* Variant: the server is not told that the client has closed.
StillOpen == FALSE

Eof == hungUp /\ outbox = <<>>

-------------------------------------------------------------------------------
(* The thread of the server that listens: reading. *)

\* Variant: the dispatcher reads one of the two names of open_session.
TakesOne(cmd) ==
    IF reader = "login" THEN IF cmd \in {LOGIN, SIGNUP} THEN 2 ELSE 0
    ELSE IF cmd \in {OPEN_SESSION_WITH_USER, OPEN_CHATROOM, GET_CHATROOM_USERS} THEN 1
    ELSE 0

\* Variant: the login thread reads a third string of a sign-up.
TakesThree(cmd) ==
    IF reader = "login" THEN IF cmd = SIGNUP THEN 3 ELSE IF cmd = LOGIN THEN 2 ELSE 0
    ELSE IF cmd = OPEN_SESSION_WITH_USER THEN 2
    ELSE IF cmd \in {OPEN_CHATROOM, GET_CHATROOM_USERS} THEN 1
    ELSE 0

\* How many strings the handler of a command reads, none if there is no handler.
Takes(cmd) ==
    IF reader = "login" THEN IF cmd \in {LOGIN, SIGNUP} THEN 2 ELSE 0
    ELSE IF cmd = OPEN_SESSION_WITH_USER THEN 2
    ELSE IF cmd \in {OPEN_CHATROOM, GET_CHATROOM_USERS} THEN 1
    ELSE 0

\* What the thread may answer to a request.
Answers(cmd) ==
    IF reader = "login"
    THEN IF cmd \in {LOGIN, SIGNUP} THEN {CONFIRM_USER, LOGIN_DENIED} ELSE {BAD_COMMAND}
    ELSE IF cmd = OPEN_SESSION_WITH_USER THEN {TARGET_IP_AND_PORT, OPEN_SESSION_ERROR}
    ELSE IF cmd = GET_ALL_USERS THEN {ALL_USERS_LIST}
    ELSE {}

\* All strings are read: the handler runs.  A login that is confirmed will be handed
\* over.
Handle(request) ==
    /\ call' = NULL
    /\ understood' = Append(understood, Msg(request.cmd, request.args))
    /\ IF Answers(request.cmd) = {} THEN UNCHANGED <<reader, saying>>
       ELSE \E cmd \in Answers(request.cmd) :
               /\ saying' = [cmd |-> cmd, begun |-> FALSE]
               /\ reader' = IF cmd = CONFIRM_USER THEN "handing over" ELSE reader

GoOn(request) == IF Complete(request) THEN Handle(request)
                 ELSE call' = request /\ UNCHANGED <<reader, understood, saying>>

\* The next iteration of the loop; command 0 starts another, and so does the end of
\* the file.
ReadCommand ==
    LET cmd == Number(Taken(stream, 4))
    IN  /\ call = NULL /\ saying = NULL /\ reader # "handing over"
        /\ stream # <<>>
        /\ stream' = Rest(stream, 4)
        /\ IF cmd = 0 THEN UNCHANGED <<readVars, saying>>
           ELSE GoOn(Begun(cmd, Takes(cmd)))
        /\ UNCHANGED <<clientVars, outbox, torn, greeted, closing, mixed>>

ReadString ==
    /\ call # NULL
    /\ ~Blocked(call, stream, Eof)
    /\ stream' = Rest(stream, Wanted(call))
    /\ GoOn(ReadOn(call, stream))
    /\ UNCHANGED <<clientVars, outbox, torn, greeted, closing, mixed>>

\* add_user: from now on the dispatcher listens.
HandOver ==
    /\ reader = "handing over" /\ saying = NULL
    /\ reader' = "dispatcher"
    /\ UNCHANGED <<clientVars, netVars, call, understood, writeVars>>

-------------------------------------------------------------------------------
(* The threads of the server that write. *)

\* A message without strings is one write.
OneWrite == {LOGIN_DENIED, BAD_COMMAND, OPEN_SESSION_ERROR}

\* The command, the number of strings of a list, the length of a string and the string
\* are written one by one; of these writes the first and the last are told apart.
WriteAnswer ==
    /\ saying # NULL
    /\ saying' = IF saying.begun \/ saying.cmd \in OneWrite THEN NULL
                 ELSE [saying EXCEPT !.begun = TRUE]
    /\ UNCHANGED <<clientVars, netVars, readVars, greeted, closing, mixed>>

\* Another thread writes a message, all at once.
Interject ==
    /\ mixed' = (mixed \/ (saying # NULL /\ saying.begun))
    /\ UNCHANGED <<clientVars, netVars, readVars, saying>>

\* Variant: it is greeted more than once.
GreetAgain == /\ greeted' = TRUE
              /\ Interject
              /\ UNCHANGED closing

\* addPeer greets a client only when the login thread can listen to it already.
Greet == /\ ~greeted
         /\ greeted' = TRUE
         /\ Interject
         /\ UNCHANGED closing

\* Dispatcher::close, in the main thread: it does not wait for any handler.
Close == /\ reader = "dispatcher" /\ ~closing
         /\ closing' = TRUE
         /\ Interject
         /\ UNCHANGED greeted

-------------------------------------------------------------------------------

Init ==
    /\ typed = <<>> /\ hungUp = FALSE /\ early = FALSE
    /\ outbox = <<>> /\ stream = <<>> /\ torn = FALSE
    /\ reader = "login" /\ call = NULL /\ understood = <<>>
    /\ saying = NULL /\ greeted = FALSE /\ closing = FALSE /\ mixed = FALSE

Serve == ReadCommand \/ ReadString \/ HandOver \/ WriteAnswer

Next ==
    \/ \E req \in Typable : Type(req)
    \/ CloseConnection
    \/ Arrive \/ ArriveInPart
    \/ Serve \/ Greet \/ Close

\* The network delivers, and the threads of the server run on; the user and the
\* client's receiver need not do anything.
Spec == Init /\ [][Next]_vars /\ WF_vars(Arrive) /\ WF_vars(Serve)

-------------------------------------------------------------------------------
(* Properties. *)

TypeOK ==
    /\ {typed, understood} \subseteq Seq(Message)
    /\ outbox \in Seq(Seq(0..255)) /\ stream \in Seq(0..255)
    /\ {hungUp, early, torn, greeted, closing, mixed} \subseteq BOOLEAN
    /\ reader \in {"login", "handing over", "dispatcher"}
    /\ call # NULL => call.args \in Seq(Seq(1..255)) /\ ~Complete(call)
    /\ saying # NULL => saying.cmd \in Nat /\ saying.begun \in BOOLEAN

\* Protocol.h:7 "all messages are of the format [Command 4 byte int] and optionally
\* data follows in the format [Data length 4 byte int][ Data ]": however the writes of
\* one request and of the next fall together, a handler gets the strings that were
\* typed for it, until the first request that is dismissed with its strings unread.
FirstMisreadIsDismissal ==
    ~torn =>
        \A k \in DOMAIN understood :
            (\A j \in 1..(k - 1) : understood[j] = typed[j]) =>
                /\ k <= Len(typed)
                /\ understood[k].cmd = typed[k].cmd
                /\ understood[k].args \in {typed[k].args, <<>>}

\* If a client waits for the greeting before it sends anything, no two threads of the
\* server write to it at the same time until the server closes: it hears what was
\* said, message by message.
MessagesStayApart == mixed => early \/ closing

Misread == torn \/ ~IsPrefix(understood, typed)

\* Every request that was typed is taken in the end, and the thread of the server
\* does not stay in the middle of one, unless something was misread.
RequestsAreTaken == []<>(Misread \/ (understood = typed /\ call = NULL))

\* A thread of the server that waits for strings that will never come, and keeps all
\* other users waiting, is free again once the client has closed.
HangUpFreesReader == [](hungUp => <>[](call = NULL /\ saying = NULL))

===============================================================================
