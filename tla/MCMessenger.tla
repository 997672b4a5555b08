----------------------------- MODULE MCMessenger ------------------------------
(***************************************************************************)
(* Clients and dispatcher on small instances.                              *)
(***************************************************************************)
EXTENDS Messenger, TLC

\* Connections and room objects are interchangeable; names are ordered and are not.
Symmetry == Permutations(Sock) \cup Permutations(RoomId)

\* What the next steps and the properties depend on: not `sent', not the room objects
\* nothing points to, not the partner of a session that is over, of a client that has
\* disconnected only its name, and nothing once the server is gone.
ClientOf(s) ==
    IF client[s] = NULL THEN <<>>
    ELSE IF s \in left THEN <<client[s].client_name, client[s].alive>>
    ELSE IF client[s].isInSession THEN client[s]
    ELSE [client[s] EXCEPT !.session_partner = NULL]

Relevant ==
    IF crashed THEN <<>> ELSE
    <<users_map, connectionStatus, connectedToChatRoom, in_session_with, chatrooms_map,
      [i \in RoomId |-> IF D!Fresh(i) THEN NULL ELSE rooms[i]],
      users_vector, closed, link, mail, left, [s \in Sock |-> ClientOf(s)]>>
===============================================================================
