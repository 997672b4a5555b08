--------------------------- MODULE MCLoginAndSignUp ---------------------------
(***************************************************************************)
(* Connections, logins and sign-ups on small instances.                    *)
(***************************************************************************)
EXTENDS LoginAndSignUp

CONSTANTS n1, n2

\* One user has been created before the server starts, twice, as `a' is in the
\* repository's users.txt.
FirstUser == <<n1, n1>>
===============================================================================
