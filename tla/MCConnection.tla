---------------------------- MODULE MCConnection ------------------------------
(***************************************************************************)
(* One connection, with strings of two to four characters.  The lengths of *)
(* anna's strings, 4 and 2, are commands themselves, and the second waits  *)
(* for strings; the length of bob's name is EXIT.                          *)
(***************************************************************************)
EXTENDS Connection

anna == <<97, 110, 110, 97>>
bob == <<98, 111, 98>>
pw == <<112, 119>>

\* Requests with two strings that both threads, one thread or the other, and the
\* client's guard tell apart, one without strings, and disconnecting.
FewRequests ==
    {Msg(LOGIN, <<bob, pw>>), Msg(SIGNUP, <<anna, pw>>), Msg(GET_ALL_USERS, <<>>),
     Msg(OPEN_SESSION_WITH_USER, <<bob, pw>>), Msg(EXIT, <<>>)}
===============================================================================
