---------------------------- MODULE LoginAndSignUp ----------------------------
(***************************************************************************)
(* From connection to dispatcher.  Three threads of the server share the   *)
(* vectors of sockets: the accept thread appends a new connection to       *)
(* `peers', the login thread reads the sockets in `peers' and hands those  *)
(* that log in over to `users_vector', and the dispatcher thread reads the *)
(* sockets there.  Nothing guards `peers'.                                 *)
(*                                                                         *)
(* The rooms and sessions of the dispatcher are another module's concern;  *)
(* here it answers GET_ALL_USERS and EXIT and ignores a SIGNUP, which it   *)
(* knows no handler for.  A request is one message: how the words of its   *)
(* arguments are told from commands is left out.                           *)
(***************************************************************************)
EXTENDS Naturals, Sequences, FiniteSets, Functions

CONSTANTS
    Name,           \* user names
    Sock,           \* connections
    NULL,
    Registered,     \* the names in users.txt when the server starts
    MaxTries,       \* bound of the model: requests one client sends
    MaxWaiting,     \* bound of the model: of them, sent and not read yet
    MayClose,       \* clients may close their connection
    MayRace,        \* a connection may be accepted in the middle of an erase
    MayFail         \* users.txt may fail to open for writing

ASSUME NoName == NULL \notin Name \cup Sock \cup [sock : Sock, name : Name, new : BOOLEAN]
ASSUME RegisteredNames == Registered \in Seq(Name)
ASSUME Bounds == {MaxTries, MaxWaiting} \subseteq Nat /\ {MayClose, MayRace, MayFail} \subseteq BOOLEAN

VARIABLES
    (* clients and the network *)
    tries,          \* tries[s]: how many requests the client of s has sent
    inbox,          \* inbox[s]: requests sent on s and not read yet
    gone,           \* the sockets whose client has closed them
    answer,         \* answer[s]: the last thing the server wrote to s
    (* the server *)
    peers,          \* connections that have not logged in
    users_vector,   \* connections the dispatcher listens to
    users_map,      \* users_map[n]: the socket of user n, NULL if none
    file,           \* the names in users.txt, line by line
    all_users,      \* all_users_infile_vector of the dispatcher
    pc,             \* where the login thread is
    current         \* the request it is working on

clientVars == <<tries, gone>>
listVars == <<file, all_users>>
userVars == <<users_vector, users_map>>
vars == <<clientVars, inbox, answer, peers, userVars, listVars, pc, current>>

Request == [cmd : {"LOGIN"}, name : Name, right : BOOLEAN]
           \cup [cmd : {"SIGNUP"}, name : Name]
           \cup [cmd : {"GET_ALL_USERS"}]

Answers == {"NOTHING", "LOGIN_OR_SIGNUP", "CONFIRM_USER", "LOGIN_DENIED",
            "USERNAME_TAKEN", "BAD_COMMAND", "ALL_USERS_LIST", "BYE_BYE_MSG"}

Welcomed == {s \in Sock : answer[s] # "NOTHING"}

-------------------------------------------------------------------------------
(* Clients. *)

Send(s, req) ==
    /\ s \in Welcomed \ gone
    /\ tries[s] < MaxTries /\ Len(inbox[s]) < MaxWaiting
    /\ tries' = [tries EXCEPT ![s] = @ + 1]
    /\ inbox' = [inbox EXCEPT ![s] = Append(@, req)]
    /\ UNCHANGED <<gone, answer, peers, userVars, listVars, pc, current>>

\* A client closes its end: the command d sends an EXIT first, a client that is
\* killed does not.
Close(s) ==
    /\ MayClose
    /\ s \in Welcomed \ gone
    /\ gone' = gone \cup {s}
    /\ inbox' \in {inbox, [inbox EXCEPT ![s] = Append(@, [cmd |-> "EXIT"])]}
    /\ UNCHANGED <<tries, answer, peers, userVars, listVars, pc, current>>

-------------------------------------------------------------------------------
(* The listener. *)

\* A socket with input, or with an end of file, is readable; the listener
\* returns the first readable socket in the order of the vector.
Ready(s) == inbox[s] # <<>> \/ s \in gone

\* Variant: the loop over the vector ends one socket early.
FirstReadyShort(sockets, s) ==
    \E i \in 1..(Len(sockets) - 1) :
        /\ sockets[i] = s /\ Ready(s)
        /\ \A j \in 1..(i - 1) : ~Ready(sockets[j])

FirstReady(sockets, s) ==
    \E i \in DOMAIN sockets :
        /\ sockets[i] = s /\ Ready(s)
        /\ \A j \in 1..(i - 1) : ~Ready(sockets[j])

\* At the end of file readCommand returns 0 and both loops start over.
Read(s) == /\ inbox[s] # <<>>
           /\ inbox' = [inbox EXCEPT ![s] = Tail(@)]

Say(s, text) == answer' = [answer EXCEPT ![s] = text]

-------------------------------------------------------------------------------
(* The accept thread. *)

\* An erase in progress has moved the elements but not yet shortened the vector.
addPeer(s) ==
    /\ answer[s] = "NOTHING"
    /\ pc = "shrink" => MayRace
    /\ peers' = Append(peers, s)
    /\ Say(s, "LOGIN_OR_SIGNUP")
    /\ UNCHANGED <<clientVars, inbox, userVars, listVars, pc, current>>

-------------------------------------------------------------------------------
(* The login thread. *)

\* Variant: a user that is connected may log in again.
checkUserNever(n) == FALSE

checkUser(n) == users_map[n] # NULL

login(req) == req.right /\ req.name \in Range(file) /\ ~checkUser(req.name)

\* Variant: the new name is not compared with the last line of the file.
takenBefore(n) == \E i \in 1..(Len(file) - 1) : file[i] = n

taken(n) == n \in Range(file)

\* A new user is written to the file; that the file did not open is printed
\* and forgotten.
NewLine(n) == file' \in {Append(file, n)} \cup (IF MayFail THEN {file} ELSE {})

\* Variant: the name is not passed on.
AcceptsUnnamed(s, req) ==
    /\ pc' = "add"
    /\ current' = [sock |-> s, name |-> NULL, new |-> req.cmd = "SIGNUP"]
    /\ Say(s, "CONFIRM_USER")

Accepts(s, req) ==
    /\ pc' = "add"
    /\ current' = [sock |-> s, name |-> req.name, new |-> req.cmd = "SIGNUP"]
    /\ Say(s, "CONFIRM_USER")

Refuses(s, text) ==
    /\ Say(s, text)
    /\ UNCHANGED <<file, pc, current>>

LoginRequest(s) ==
    /\ pc = "select"
    /\ FirstReady(peers, s)
    /\ Read(s)
    /\ LET req == Head(inbox[s])
       IN  \/ /\ req.cmd = "LOGIN" /\ login(req)
              /\ Accepts(s, req)
              /\ UNCHANGED file
           \/ /\ req.cmd = "LOGIN" /\ ~login(req)
              /\ Refuses(s, "LOGIN_DENIED")
           \/ /\ req.cmd = "SIGNUP" /\ ~taken(req.name)
              /\ NewLine(req.name)
              /\ Accepts(s, req)
           \/ /\ req.cmd = "SIGNUP" /\ taken(req.name)
              /\ Refuses(s, "USERNAME_TAKEN")
           \/ /\ req.cmd \notin {"LOGIN", "SIGNUP"}
              /\ Refuses(s, "BAD_COMMAND")
    /\ UNCHANGED <<clientVars, peers, userVars, all_users>>

add_user ==
    /\ pc = "add"
    /\ users_map' = [users_map EXCEPT ![current.name] = current.sock]
    /\ users_vector' = Append(users_vector, current.sock)
    /\ pc' = IF current.new THEN "name" ELSE "erase"
    /\ UNCHANGED <<clientVars, inbox, answer, peers, listVars, current>>

\* Variant: the dispatcher is not told of the new name.
add_user_to_vector_not ==
    /\ pc = "name"
    /\ pc' = "erase"
    /\ UNCHANGED <<clientVars, inbox, answer, peers, userVars, listVars, current>>

add_user_to_vector ==
    /\ pc = "name"
    /\ all_users' = Append(all_users, current.name)
    /\ pc' = "erase"
    /\ UNCHANGED <<clientVars, inbox, answer, peers, userVars, file, current>>

Position(s) == CHOOSE i \in DOMAIN peers :
                  peers[i] = s /\ \A j \in 1..(i - 1) : peers[j] # s

\* Variant: the erase forgets to move them.
EraseMoveNothing ==
    /\ pc = "erase"
    /\ pc' = "shrink"
    /\ UNCHANGED <<clientVars, inbox, answer, peers, userVars, listVars, current>>

\* peers.erase moves the elements behind the position one place forward ...
EraseMove ==
    /\ pc = "erase"
    /\ peers' = [i \in DOMAIN peers |->
                    IF i >= Position(current.sock) /\ i < Len(peers)
                    THEN peers[i + 1] ELSE peers[i]]
    /\ pc' = "shrink"
    /\ UNCHANGED <<clientVars, inbox, answer, userVars, listVars, current>>

\* ... and then drops the last one, whatever was appended in between.
EraseShrink ==
    /\ pc = "shrink"
    /\ peers' = SubSeq(peers, 1, Len(peers) - 1)
    /\ pc' = "select"
    /\ current' = NULL
    /\ UNCHANGED <<clientVars, inbox, answer, userVars, listVars>>

LoginThread == \/ \E s \in Sock : LoginRequest(s)
               \/ add_user \/ add_user_to_vector
               \/ EraseMove \/ EraseShrink

-------------------------------------------------------------------------------
(* The dispatcher thread, with the requests of this module only. *)

Turn(s) == FirstReady(users_vector, s) /\ Read(s)

list_all_users(s) ==
    /\ Turn(s)
    /\ Head(inbox[s]).cmd = "GET_ALL_USERS"
    /\ Say(s, "ALL_USERS_LIST")
    /\ UNCHANGED <<clientVars, peers, userVars, listVars, pc, current>>

\* The entry of the sender leaves the map, its socket stays in the vector.
user_exit(s) ==
    /\ Turn(s)
    /\ Head(inbox[s]).cmd = "EXIT"
    /\ users_map' = [n \in Name |-> IF users_map[n] = s THEN NULL ELSE users_map[n]]
    /\ Say(s, "BYE_BYE_MSG")
    /\ UNCHANGED <<clientVars, peers, users_vector, listVars, pc, current>>

\* No branch of Dispatcher::run takes them, and nothing is answered.
Ignored(s) ==
    /\ Turn(s)
    /\ Head(inbox[s]).cmd \in {"LOGIN", "SIGNUP"}
    /\ UNCHANGED <<clientVars, answer, peers, userVars, listVars, pc, current>>

DispatcherThread == \E s \in Sock : list_all_users(s) \/ user_exit(s) \/ Ignored(s)

-------------------------------------------------------------------------------
(* The whole. *)

Init ==
    /\ tries = [s \in Sock |-> 0]
    /\ inbox = [s \in Sock |-> <<>>]
    /\ gone = {}
    /\ answer = [s \in Sock |-> "NOTHING"]
    /\ peers = <<>>
    /\ users_vector = <<>>
    /\ users_map = [n \in Name |-> NULL]
    /\ file = Registered
    /\ all_users = Registered
    /\ pc = "select"
    /\ current = NULL

Client(s) == Close(s) \/ \E req \in Request : Send(s, req)

Next == \/ \E s \in Sock : Client(s) \/ addPeer(s)
        \/ LoginThread \/ DispatcherThread

Spec == Init /\ [][Next]_vars

\* The two threads run for as long as the server does, and the operating system
\* schedules both; clients owe nothing.  An iteration that finds a closed socket
\* readable changes nothing and is a stuttering step.
FairSpec == Spec /\ WF_vars(LoginThread) /\ WF_vars(DispatcherThread)

-------------------------------------------------------------------------------
(* Properties. *)

TypeOK ==
    /\ tries \in [Sock -> 0..MaxTries]
    /\ inbox \in [Sock -> Seq(Request \cup [cmd : {"EXIT"}])]
    /\ gone \subseteq Sock
    /\ answer \in [Sock -> Answers]
    /\ peers \in Seq(Sock)
    /\ users_vector \in Seq(Sock)
    /\ users_map \in [Name -> Sock \cup {NULL}]
    /\ file \in Seq(Name) /\ all_users \in Seq(Name)
    /\ pc \in {"select", "add", "name", "erase", "shrink"}
    /\ current \in {NULL} \cup [sock : Sock, name : Name, new : BOOLEAN]
    /\ current = NULL <=> pc = "select"

\* LoginAndSignUp.cpp:131 "now the client can sign up or login": a connection
\* that was welcomed stays in one of the two vectors the server listens to.
PeersAreKept == Welcomed \subseteq Range(peers) \cup Range(users_vector)

\* Two threads never read one socket: a socket is in both vectors only while the
\* login thread, which reads nothing meanwhile, hands it over.
OneReader ==
    /\ \A s \in Range(peers) \cap Range(users_vector) :
          pc \in {"name", "erase", "shrink"} /\ s = current.sock
    /\ pc = "select" => \A i, j \in DOMAIN peers : peers[i] = peers[j] => i = j

\* No sign-up that was confirmed is missing in the file: those the dispatcher knows of
\* and the one it has yet to hear of are as many as were written.
AllWritten ==
    Len(file) = Len(all_users)
                + IF pc \in {"add", "name"} /\ current.new THEN 1 ELSE 0

\* A served socket belongs to exactly one user until its EXIT is handled: no login or
\* sign-up takes the name of a connected user away from it, as long as the file has
\* opened.  A user who is not in the file loses its name to the next sign-up.
ServedHaveUser ==
    AllWritten =>
        \A s \in Range(users_vector) : answer[s] # "BYE_BYE_MSG" =>
            \E n \in Name : \A m \in Name : users_map[m] = s <=> m = n

\* The dispatcher, which lists the names it was told of and never opens the file,
\* lists every name in the file whenever the login thread is between two requests.
ListCatchesUp == pc = "select" => Range(file) \subseteq Range(all_users)

\* README.md:49 "unless this user is already created": no name is written to the file
\* that is in it, however sign-ups on several connections and failures follow one
\* another.  What the file holds before the server starts is the owner's concern.
CreatedOnce == \A i, j \in DOMAIN file : i < j /\ j > Len(Registered) => file[i] # file[j]

\* While no client closes its connection, every request is read in the end,
\* although both listeners always prefer the older connection.
RequestsAreRead ==
    \A s \in Sock : inbox[s] # <<>> ~> inbox[s] = <<>> \/ gone # {}

-------------------------------------------------------------------------------
(* What comments and README promise and the code does not keep. *)

Waiting(s, commands) == inbox[s] # <<>> /\ Head(inbox[s]).cmd \in commands

\* README.md:30 "lu - print the user list from the server": a logged-in client that
\* asks for it and stays connected is sent the list in the end.
ListIsSent ==
    \A s \in Sock : Waiting(s, {"GET_ALL_USERS"}) /\ s \in Range(users_vector)
                       ~> answer[s] = "ALL_USERS_LIST" \/ s \in gone
===============================================================================
