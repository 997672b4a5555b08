----------------------------- MODULE MCDispatcher -----------------------------
(***************************************************************************)
(* The dispatcher on small instances.                                      *)
(***************************************************************************)
EXTENDS Dispatcher, TLC, SequencesExt

\* Sockets and room objects are interchangeable; names are ordered and are not.
Symmetry == Permutations(Sock) \cup Permutations(RoomId)

\* What the next steps depend on: not `sent', not the contents of a room object
\* that nothing points to, which the next create_chatroom overwrites, and
\* nothing at all once the process is gone.
Relevant ==
    IF crashed THEN <<>> ELSE
    <<userVars, in_session_with, chatrooms_map,
      [i \in RoomId |-> IF Fresh(i) THEN NULL ELSE rooms[i]],
      sockVars>>
===============================================================================
