----------------------------- MODULE RoomDirectory -----------------------------
(***************************************************************************)
(* What the server promises about rooms, whatever its handlers do with     *)
(* sockets, vectors and pointers: a user who is online may open a room     *)
(* under a name that is free, the room belongs to that user, and nobody    *)
(* else can close it.  A user that logs out may take one of its rooms      *)
(* along; others it created stay open without it.                          *)
(***************************************************************************)
CONSTANTS Name, Room, NULL

VARIABLES
    online,     \* the users that are logged in
    creator     \* creator[r]: who opened room r, NULL when it is not open

Init == /\ online = {}
        /\ creator = [r \in Room |-> NULL]

Login(n) == /\ n \notin online
            /\ online' = online \cup {n}
            /\ UNCHANGED creator

Open(n, r) == /\ n \in online
              /\ creator[r] = NULL
              /\ creator' = [creator EXCEPT ![r] = n]
              /\ UNCHANGED online

Closed(n, r) == /\ creator[r] = n
                /\ creator' = [creator EXCEPT ![r] = NULL]

Close(n, r) == /\ n \in online
               /\ Closed(n, r)
               /\ UNCHANGED online

Logout(n) == /\ n \in online
             /\ online' = online \ {n}
             /\ \/ UNCHANGED creator
                \/ \E r \in Room : Closed(n, r)

Next == \E n \in Name : \/ Login(n) \/ Logout(n)
                        \/ \E r \in Room : Open(n, r) \/ Close(n, r)

Spec == Init /\ [][Next]_<<online, creator>>
===============================================================================
