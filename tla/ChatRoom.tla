------------------------------- MODULE ChatRoom -------------------------------
(***************************************************************************)
(* The class ChatRoom of the server: a room's name, its owner and the      *)
(* vector of the names of its users.  The two operations that change the   *)
(* vector are pure functions here; the Dispatcher applies them to the room *)
(* objects it keeps.                                                       *)
(*                                                                         *)
(* User names and room names are strings of the same type, so a room may   *)
(* carry the name of a user.  A string is modelled by a natural number:    *)
(* its rank in the lexicographic order, the order of the server's maps.    *)
(***************************************************************************)
EXTENDS Naturals, Sequences, FiniteSets, Functions

\* Variant: the room's own name is what is appended.
add_user_name(name, users, user) ==
    IF name \in Range(users) THEN users ELSE Append(users, name)

\* ChatRoom::add_user looks in the vector for `name', the room's own name,
\* where its comment says it looks for the user.
add_user(name, users, user) ==
    IF name \in Range(users) THEN users ELSE Append(users, user)

\* Variant: the erase skips no element, every match is erased.
ErasedAll(users, user, i) == users[i] = user

\* Variant: the index is left out of the erase, which hits the first element.
ErasedFirst(users, user, i) == i = 1 /\ user \in Range(users)

\* ChatRoom::remove_user erases a matching element and then advances its
\* index, so it never looks at the element that moved into the gap.  In a run
\* of consecutive matches it erases the first, the third, the fifth ...
Erased(users, user, i) ==
    \E n \in 0..(i - 1) :
        /\ n % 2 = 0
        /\ \A j \in (i - n)..i : users[j] = user
        /\ i - n = 1 \/ users[i - n - 1] # user

Kept(users, user) == {i \in DOMAIN users : ~Erased(users, user, i)}

\* The position element i of the vector has once the others are erased.
Rank(kept, i) == Cardinality({j \in kept : j <= i})

\* The elements at these positions, in their order.
Picked(users, kept) ==
    [k \in 1..Cardinality(kept) |-> users[CHOOSE i \in kept : Rank(kept, i) = k]]

remove_user(users, user) == Picked(users, Kept(users, user))

\* The same as the code has it: what one round of the loop does at its index (which
\* counts from 1 here), and what as many rounds leave as there were users.  The loop
\* may end before; the rounds it leaves out find nothing at their index.
RemoveRound(users, user, i) ==
    IF i <= Len(users) /\ users[i] = user
    THEN SubSeq(users, 1, i - 1) \o SubSeq(users, i + 1, Len(users))
    ELSE users

RemoveLoop(users, user) ==
    LET after[i \in 0..Len(users)] ==
            IF i = 0 THEN users ELSE RemoveRound(after[i - 1], user, i)
    IN  after[Len(users)]
===============================================================================
