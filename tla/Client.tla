-------------------------------- MODULE Client --------------------------------
(***************************************************************************)
(* The client application: what one client believes about its session and  *)
(* its chat room, and how each message of the server changes that.         *)
(*                                                                         *)
(* The receiver thread reads one message at a time and changes the flags   *)
(* and partner lists; the command line reads the same flags.  Everything   *)
(* here is a function of the state of one client: where the messages come  *)
(* from is the Messenger's concern.  A partner's address stands for its    *)
(* name, and what is only printed is left out.                             *)
(***************************************************************************)
EXTENDS Naturals, Sequences, SequencesExt

CONSTANTS
    NULL

\* What a client knows after it has logged in as user n.
LoggedIn(n) ==
    [client_name |-> n,
     isInSession |-> FALSE, isInChatRoom |-> FALSE, isRoomOwner |-> FALSE,
     session_partner |-> NULL, chatroom_partners |-> <<>>,
     alive |-> TRUE]

-------------------------------------------------------------------------------
(* The messages that take more than a flag. *)

\* The flags are set inside the loop over the list: an empty list sets none.
gotChatroomUsersList(c, names) ==
    IF names = <<>> THEN c
    ELSE [c EXCEPT !.isInSession = TRUE, !.isInChatRoom = TRUE,
                   !.chatroom_partners = @ \o names]

\* Variant: the new user is only printed.
userHasJoinedChatroomNot(c, name) == c

userHasJoinedChatroom(c, name) == [c EXCEPT !.chatroom_partners = Append(@, name)]

\* Forgetting the room, as far as its fields go.
OutOfRoom(c) == [c EXCEPT !.isInChatRoom = FALSE, !.isRoomOwner = FALSE,
                          !.chatroom_partners = <<>>]

\* Variant: the partners are kept, as they are when the client disconnects.
chatroomWasClosedKeeping(c) == [c EXCEPT !.isInChatRoom = FALSE, !.isRoomOwner = FALSE]

chatroomWasClosed(c) == OutOfRoom(c)

Known(c, name) == {i \in DOMAIN c.chatroom_partners : c.chatroom_partners[i] = name}

First(S) == CHOOSE i \in S : \A j \in S : i <= j

\* Variant: the client does not look whether it is the one that left.
userHasLeftChatroomOther(c, name) ==
    IF Known(c, name) = {} THEN [c EXCEPT !.alive = FALSE]
    ELSE [c EXCEPT !.chatroom_partners = RemoveAt(@, First(Known(c, name)))]

\* The search leaves i at the size of the vector when the name is not there, and
\* the client then erases the end of the vector, which kills it.
userHasLeftChatroom(c, name) ==
    IF name = c.client_name
    THEN [OutOfRoom(c) EXCEPT !.isInSession = FALSE]
    ELSE IF Known(c, name) = {} THEN [c EXCEPT !.alive = FALSE]
    ELSE [c EXCEPT !.chatroom_partners = RemoveAt(@, First(Known(c, name)))]

InSessionWith(c, name) == [c EXCEPT !.isInSession = TRUE, !.session_partner = name]

-------------------------------------------------------------------------------
(* Client::run: one message of the server. *)

\* Variant: a request that is refused because somebody is busy counts as one, too.
RefusalsAll == {"OPEN_SESSION_ERROR", "CLOSE_SESSION_ERROR", "CHATROOM_NAME_ERROR",
                "SESSION_ENDED", "OPEN_CONNECTION_ERROR"}

\* Answers that only take the session flag away.
Refusals == {"OPEN_SESSION_ERROR", "CLOSE_SESSION_ERROR", "CHATROOM_NAME_ERROR",
             "SESSION_ENDED"}

Received(c, msg) ==
    CASE msg.cmd \in {"INCOMIMG_SESSION", "TARGET_IP_AND_PORT"} ->
            InSessionWith(c, msg.names[1])
      [] msg.cmd \in Refusals -> [c EXCEPT !.isInSession = FALSE]
      [] msg.cmd = "CHATROOM_CREATED" ->
            [c EXCEPT !.isInSession = TRUE, !.isInChatRoom = TRUE, !.isRoomOwner = TRUE]
      [] msg.cmd = "CHATROOM_WAS_CLOSED" ->
            [chatroomWasClosed(c) EXCEPT !.isInSession = FALSE]
      [] msg.cmd = "NEW_USER_TO_CHATROOM" -> userHasJoinedChatroom(c, msg.names[1])
      [] msg.cmd = "USER_HAS_LEFT_CHATROOM" -> userHasLeftChatroom(c, msg.names[1])
      [] msg.cmd = "CHATROOM_LIST" -> gotChatroomUsersList(c, msg.names)
      [] OTHER -> c

\* What the client will know when it has read all of a sequence of messages.
CaughtUp(c, messages) ==
    FoldLeft(LAMBDA known, msg : IF known.alive THEN Received(known, msg) ELSE known,
             c, messages)

-------------------------------------------------------------------------------
(* The command line: the request a command sends, and the flags it changes. *)

MayOpen(c) == ~c.isInSession

\* Leaving a room changes nothing until the server's answer comes; ending a
\* session does not wait for one.
closeSession(c) == [c EXCEPT !.isInSession = c.isInChatRoom]

CloseRequest(c) == IF c.isInChatRoom THEN "LEAVE_CHATROOM" ELSE "CLOSE_SESSION_WITH_USER"
===============================================================================
