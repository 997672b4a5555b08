------------------------------ MODULE LoginProofs ------------------------------
(***************************************************************************)
(* Proofs about connections, logins and sign-ups, for any connections,     *)
(* names and bounds.  What is said of the vectors and of the users in the  *)
(* map needs that no connection is accepted in the middle of an erase;     *)
(* what is said of the file and of the list of names does not.             *)
(***************************************************************************)
EXTENDS LoginAndSignUp, SequenceTheorems, TLAPS

-------------------------------------------------------------------------------
(* The inductive invariant. *)

\* The sign-up that the dispatcher has yet to hear of.
Pending == IF pc \in {"add", "name"} /\ current.new THEN {current.name} ELSE {}

\* No more names were written than the dispatcher knows of or is about to, and every
\* name that was written is among these.
FileInv ==
    /\ CreatedOnce
    /\ pc = "name" => current.new
    /\ Range(file) \subseteq Range(all_users) \cup Pending
    /\ Len(file) <= Len(all_users)
                    + IF pc \in {"add", "name"} /\ current.new THEN 1 ELSE 0

Once(sockets) == \A i, j \in DOMAIN sockets : sockets[i] = sockets[j] => i = j

\* What is left of peers when an erase in progress is done.
Shortened == SubSeq(peers, 1, Len(peers) - 1)

\* Where the connection of the current request is.  Between the halves of the erase the
\* last place of the vector holds it, or the last of the others a second time.
PeersInv ==
    /\ pc # "shrink" => Once(peers)
    /\ pc \in {"add", "name", "erase"} => current.sock \in Range(peers)
    /\ pc = "shrink" =>
          /\ peers # <<>> /\ Once(Shortened)
          /\ current.sock \notin Range(Shortened)
          /\ peers[Len(peers)] \in Range(Shortened) \cup {current.sock}

\* The two vectors hold the connections that were welcomed, and have one in common only
\* while it is handed over.
HandOver ==
    /\ Welcomed = Range(peers) \cup Range(users_vector)
    /\ pc \in {"name", "erase", "shrink"} => current.sock \in Range(users_vector)
    /\ \A s \in Range(peers) \cap Range(users_vector) :
          pc \in {"name", "erase", "shrink"} /\ s = current.sock

\* EXIT is the last request of a client, and BYE_BYE_MSG the last answer.
ExitIsLast ==
    \A s \in Sock :
        /\ \A i \in DOMAIN inbox[s] :
              inbox[s][i].cmd = "EXIT" => i = Len(inbox[s]) /\ s \in gone
        /\ answer[s] = "BYE_BYE_MSG" => inbox[s] = <<>> /\ s \in gone

\* Users in the map are served, on a connection of their own; a name that is free in the
\* file is free in the map, as long as no write has failed.
MapInv ==
    /\ \A n \in Name : users_map[n] # NULL => users_map[n] \in Range(users_vector)
    /\ \A n, m \in Name : users_map[n] = users_map[m] /\ users_map[n] # NULL => n = m
    /\ AllWritten =>
          /\ \A n \in Name : users_map[n] # NULL => n \in Range(file)
          /\ pc = "add" => users_map[current.name] = NULL /\ current.name \in Range(file)
          /\ \A s \in Range(users_vector) : answer[s] # "BYE_BYE_MSG" =>
                \E n \in Name : users_map[n] = s

ConnInv == PeersInv /\ HandOver /\ ExitIsLast /\ MapInv

-------------------------------------------------------------------------------
(* Vectors. *)

LEMMA Appended ==
    ASSUME NEW S, NEW seq \in Seq(S), NEW e \in S
    PROVE  /\ Append(seq, e) \in Seq(S)
           /\ Len(Append(seq, e)) = Len(seq) + 1
           /\ Append(seq, e)[Len(seq) + 1] = e
           /\ \A i \in DOMAIN seq : Append(seq, e)[i] = seq[i]
           /\ Range(Append(seq, e)) = Range(seq) \cup {e}
<1>1. /\ Append(seq, e) \in Seq(S)
      /\ Len(Append(seq, e)) = Len(seq) + 1
      /\ Append(seq, e)[Len(seq) + 1] = e
      /\ \A i \in DOMAIN seq : Append(seq, e)[i] = seq[i]
    OBVIOUS
<1>2. DOMAIN Append(seq, e) = DOMAIN seq \cup {Len(seq) + 1}
    OBVIOUS
<1> QED
    BY <1>1, <1>2 DEF Range

-------------------------------------------------------------------------------
(* Types. *)

Requests == Request \cup [cmd : {"EXIT"}]

\* What Read leaves in the inbox, and that there was something in it.
LEMMA ReadType ==
    ASSUME TypeOK, NEW s \in Sock, Read(s)
    PROVE  /\ inbox' \in [Sock -> Seq(Requests)]
           /\ Head(inbox[s]) \in Requests
<1>1. inbox[s] \in Seq(Requests)
    BY DEF TypeOK, Requests
<1>2. Tail(inbox[s]) \in Seq(Requests) /\ Head(inbox[s]) \in Requests
    BY <1>1 DEF Read
<1> QED
    BY <1>2 DEF Read, TypeOK, Requests

\* Every step keeps the types.
LEMMA TypeStep ==
    ASSUME TypeOK, [Next]_vars
    PROVE  TypeOK'
<1>1. CASE UNCHANGED vars
    BY <1>1 DEF TypeOK, vars, clientVars, userVars, listVars
<1>2. ASSUME NEW s \in Sock, NEW req \in Request, Send(s, req)
      PROVE  TypeOK'
  <2>1. Append(inbox[s], req) \in Seq(Request \cup [cmd : {"EXIT"}])
      BY Appended DEF TypeOK
  <2>2. inbox' \in [Sock -> Seq(Request \cup [cmd : {"EXIT"}])]
      BY <1>2, <2>1 DEF Send, TypeOK
  <2>3. tries' \in [Sock -> 0..MaxTries]
      BY <1>2, Bounds DEF Send, TypeOK
  <2> QED
      BY <1>2, <2>2, <2>3 DEF Send, TypeOK, userVars, listVars
<1>3. ASSUME NEW s \in Sock, Close(s)
      PROVE  TypeOK'
  <2>1. Append(inbox[s], [cmd |-> "EXIT"]) \in Seq(Request \cup [cmd : {"EXIT"}])
      BY Appended DEF TypeOK
  <2>2. inbox' \in [Sock -> Seq(Request \cup [cmd : {"EXIT"}])]
      BY <1>3, <2>1 DEF Close, TypeOK
  <2> QED
      BY <1>3, <2>2 DEF Close, TypeOK, userVars, listVars
<1>4. ASSUME NEW s \in Sock, addPeer(s)
      PROVE  TypeOK'
  <2>1. peers' \in Seq(Sock)
      BY <1>4, Appended DEF addPeer, TypeOK
  <2> QED
      BY <1>4, <2>1 DEF addPeer, Say, TypeOK, Answers, userVars, listVars, clientVars
<1>5. ASSUME NEW s \in Sock, LoginRequest(s)
      PROVE  TypeOK'
  <2> DEFINE req == Head(inbox[s])
  <2>1. inbox' \in [Sock -> Seq(Requests)] /\ req \in Requests
      BY <1>5, ReadType DEF LoginRequest
  <2>2. CASE /\ req.cmd \in {"LOGIN", "SIGNUP"}
             /\ Accepts(s, req)
             /\ file' = file \/ file' = Append(file, req.name)
    <3>1. req.name \in Name
        BY <2>1, <2>2 DEF Requests, Request
    <3>2. file' \in Seq(Name)
      <4>1. Append(file, req.name) \in Seq(Name)
          BY <3>1, Appended DEF TypeOK
      <4> QED
          BY <2>2, <4>1 DEF TypeOK
    <3>3. current' \in [sock : Sock, name : Name, new : BOOLEAN]
        BY <2>2, <3>1 DEF Accepts
    <3> QED
        BY <1>5, <2>1, <2>2, <3>2, <3>3, NoName
        DEF LoginRequest, Accepts, Say, TypeOK, Answers, userVars, clientVars, Requests
  <2>3. CASE \E text \in Answers : Refuses(s, text)
      BY <1>5, <2>1, <2>3
      DEF LoginRequest, Refuses, Say, TypeOK, userVars, clientVars, Requests
  <2> QED
      BY <1>5, <2>2, <2>3 DEF LoginRequest, NewLine, Answers
<1>6. CASE add_user
  <2>1. users_vector' \in Seq(Sock) /\ users_map' \in [Name -> Sock \cup {NULL}]
      BY <1>6, Appended DEF add_user, TypeOK
  <2> QED
      BY <1>6, <2>1 DEF add_user, TypeOK, listVars, clientVars
<1>7. CASE add_user_to_vector
  <2>1. all_users' \in Seq(Name)
      BY <1>7, Appended DEF add_user_to_vector, TypeOK
  <2> QED
      BY <1>7, <2>1 DEF add_user_to_vector, TypeOK, userVars, clientVars
<1>8. CASE EraseMove
  <2>1. peers' \in [1..Len(peers) -> Sock]
    <3>1. /\ DOMAIN peers = 1..Len(peers) /\ Len(peers) \in Nat
          /\ \A i \in 1..Len(peers) : peers[i] \in Sock
        BY DEF TypeOK
    <3> DEFINE Moved(i) == IF i >= Position(current.sock) /\ i < Len(peers)
                           THEN peers[i + 1] ELSE peers[i]
    <3>2. \A i \in 1..Len(peers) : Moved(i) \in Sock
        BY <3>1
    <3>3. peers' = [i \in 1..Len(peers) |-> Moved(i)]
        BY <1>8, <3>1 DEF EraseMove
    <3> QED
        BY <3>2, <3>3
  <2>2. peers' \in Seq(Sock)
    <3>1. Len(peers) \in Nat
        BY DEF TypeOK
    <3> QED
        BY <2>1, <3>1, SeqDef
  <2> QED
      BY <1>8, <2>2 DEF EraseMove, TypeOK, userVars, listVars, clientVars
<1>9. CASE EraseShrink
  <2>1. peers' \in Seq(Sock)
      BY <1>9 DEF EraseShrink, TypeOK
  <2> QED
      BY <1>9, <2>1 DEF EraseShrink, TypeOK, userVars, listVars, clientVars
<1>10. ASSUME NEW s \in Sock, list_all_users(s) \/ user_exit(s) \/ Ignored(s)
       PROVE  TypeOK'
  <2>1. inbox' \in [Sock -> Seq(Requests)]
      BY <1>10, ReadType DEF list_all_users, user_exit, Ignored, Turn
  <2> QED
      BY <1>10, <2>1
      DEF list_all_users, user_exit, Ignored, Turn, Say, TypeOK, Answers, userVars, listVars,
          clientVars, Requests
<1> QED
    BY <1>1, <1>2, <1>3, <1>4, <1>5, <1>6, <1>7, <1>8, <1>9, <1>10
    DEF Next, Client, LoginThread, DispatcherThread

\* Every variable keeps its type, for any bounds and any sets of names and connections.
THEOREM TypeCorrect == Spec => []TypeOK
<1>1. Init => TypeOK
  <2>1. 0 \in 0..MaxTries
      BY Bounds
  <2>2. <<>> \in Seq(Request \cup [cmd : {"EXIT"}])
      OBVIOUS
  <2> QED
      BY <2>1, <2>2, RegisteredNames DEF Init, TypeOK, Answers
<1>2. TypeOK /\ [Next]_vars => TypeOK'
    BY TypeStep
<1> QED
    BY <1>1, <1>2, PTL DEF Spec

-------------------------------------------------------------------------------
(* The file and the list of names. *)

\* A name that is not in the file may be written to it.
LEMMA WrittenOnce ==
    ASSUME TypeOK, CreatedOnce, NEW n \in Name, ~taken(n), file' = Append(file, n)
    PROVE  CreatedOnce'
<1>1. file \in Seq(Name)
    BY DEF TypeOK
<1>2. /\ Len(file') = Len(file) + 1 /\ file'[Len(file) + 1] = n
      /\ \A i \in 1..Len(file) : file'[i] = file[i]
    BY <1>1, Appended
<1>3. file' \in Seq(Name) /\ DOMAIN file' = 1..(Len(file) + 1) /\ Len(file) \in Nat
    BY <1>1, <1>2, Appended
<1>4. \A i \in 1..Len(file) : file[i] # n
    BY <1>1 DEF taken, Range
<1>5. Len(Registered) \in Nat
    BY RegisteredNames
<1> SUFFICES ASSUME NEW i \in 1..(Len(file) + 1), NEW j \in 1..(Len(file) + 1),
                    i < j, j > Len(Registered)
             PROVE  file'[i] # file'[j]
    BY <1>3 DEF CreatedOnce
<1>6. i \in 1..Len(file)
    BY <1>3
<1>7. CASE j = Len(file) + 1
    BY <1>2, <1>4, <1>6, <1>7
<1>8. CASE j \in 1..Len(file)
    BY <1>1, <1>2, <1>6, <1>8 DEF CreatedOnce
<1> QED
    BY <1>3, <1>7, <1>8

\* Every step keeps file and list together.
LEMMA FileStep ==
    ASSUME TypeOK, FileInv, [Next]_vars
    PROVE  FileInv'
<1>1. CASE UNCHANGED <<listVars, pc, current>>
    BY <1>1 DEF FileInv, CreatedOnce, Pending, listVars
<1>2. ASSUME NEW s \in Sock, LoginRequest(s)
      PROVE  FileInv'
  <2> DEFINE req == Head(inbox[s])
  <2>1. pc = "select" /\ Pending = {} /\ all_users' = all_users /\ req \in Requests
      BY <1>2, ReadType DEF LoginRequest, Pending
  <2>2. Len(file) <= Len(all_users) /\ Len(file) \in Nat /\ Len(all_users) \in Nat
      BY <2>1 DEF FileInv, TypeOK
  <2>3. CASE req.cmd = "LOGIN" /\ Accepts(s, req) /\ UNCHANGED file
      BY <2>1, <2>2, <2>3 DEF FileInv, CreatedOnce, Pending, Accepts
  <2>4. CASE req.cmd = "SIGNUP" /\ ~taken(req.name) /\ NewLine(req.name) /\ Accepts(s, req)
    <3>1. req.name \in Name
        BY <2>1, <2>4 DEF Requests, Request
    <3>2. pc' = "add" /\ current'.new = TRUE /\ Pending' = {req.name}
        BY <2>4 DEF Accepts, Pending
    <3>3. file' = file \/ file' = Append(file, req.name)
        BY <2>4 DEF NewLine
    <3>4. CreatedOnce'
      <4>1. CASE UNCHANGED file
          BY <4>1 DEF FileInv, CreatedOnce
      <4>2. CASE file' = Append(file, req.name)
          BY <2>4, <3>1, <4>2, WrittenOnce DEF FileInv
      <4> QED
          BY <3>3, <4>1, <4>2
    <3> DEFINE name == req.name
    <3>5. /\ Len(file') \in {Len(file), Len(file) + 1}
          /\ Range(file') \subseteq Range(file) \cup {name}
      <4>1. file \in Seq(Name) /\ name \in Name
          BY <3>1 DEF TypeOK
      <4> HIDE DEF name
      <4>2. /\ Len(Append(file, name)) = Len(file) + 1
            /\ Range(Append(file, name)) = Range(file) \cup {name}
          BY <4>1, Appended
      <4> QED
          BY <3>3, <4>2 DEF name
    <3>6. Len(file') \in Nat
        BY <2>2, <3>5
    <3>7. Len(file') <= Len(all_users') + 1
        BY <2>1, <2>2, <3>5, <3>6
    <3> QED
        BY <2>1, <3>2, <3>4, <3>5, <3>7 DEF FileInv
  <2>5. CASE \E text \in Answers : Refuses(s, text)
      BY <2>1, <2>5 DEF FileInv, CreatedOnce, Pending, Refuses
  <2> QED
      BY <1>2, <2>3, <2>4, <2>5 DEF LoginRequest, Answers
<1>3. CASE add_user
    BY <1>3 DEF add_user, FileInv, CreatedOnce, Pending, listVars
<1>4. CASE add_user_to_vector
  <2>1. /\ pc = "name" /\ current.new /\ Pending = {current.name} /\ current.name \in Name
        /\ Pending' = {} /\ pc' = "erase" /\ file' = file
      BY <1>4 DEF add_user_to_vector, FileInv, Pending, TypeOK
  <2>2. /\ Len(all_users') = Len(all_users) + 1
        /\ Range(all_users') = Range(all_users) \cup {current.name}
      BY <1>4, <2>1, Appended DEF add_user_to_vector, TypeOK
  <2>3. Len(file) <= Len(all_users) + 1
      BY <2>1 DEF FileInv
  <2> QED
      BY <2>1, <2>2, <2>3 DEF FileInv, CreatedOnce
<1>5. CASE EraseMove \/ EraseShrink
    BY <1>5 DEF EraseMove, EraseShrink, FileInv, CreatedOnce, Pending, listVars
<1> QED
    BY <1>1, <1>2, <1>3, <1>4, <1>5
    DEF Next, Client, Send, Close, addPeer, LoginThread, DispatcherThread, list_all_users,
        user_exit, Ignored, vars

\* File and list stay together, whichever writes fail.
LEMMA FilesAgree == Spec => []FileInv
<1>1. Init => FileInv
    BY RegisteredNames DEF Init, FileInv, CreatedOnce, Pending
<1>2. TypeOK /\ FileInv /\ [Next]_vars => FileInv'
    BY FileStep
<1> QED
    BY <1>1, <1>2, TypeCorrect, PTL DEF Spec

\* Between two requests of the login thread the dispatcher lists every name in the file.
THEOREM ListsCatchUp == Spec => []ListCatchesUp
<1>1. FileInv => ListCatchesUp
    BY DEF FileInv, ListCatchesUp, Pending
<1> QED
    BY <1>1, FilesAgree, PTL

\* The server never writes a name to the file that is in it.
THEOREM NamesAreCreatedOnce == Spec => []CreatedOnce
<1>1. FileInv => CreatedOnce
    BY DEF FileInv
<1> QED
    BY <1>1, FilesAgree, PTL

-------------------------------------------------------------------------------
(* Erasing a connection from the vector. *)

\* The position that is erased is that of the connection.
LEMMA PositionFound ==
    ASSUME TypeOK, Once(peers), NEW s \in Range(peers)
    PROVE  Position(s) \in 1..Len(peers) /\ peers[Position(s)] = s
<1>1. PICK i \in 1..Len(peers) : peers[i] = s
    BY DEF Range, TypeOK
<1>2. \A j \in 1..(i - 1) : j \in 1..Len(peers) /\ j # i
    BY DEF TypeOK
<1>3. DOMAIN peers = 1..Len(peers)
    BY DEF TypeOK
<1>4. \A j \in 1..(i - 1) : peers[j] # s
    BY <1>1, <1>2, <1>3 DEF Once
<1>5. i \in DOMAIN peers /\ peers[i] = s /\ \A j \in 1..(i - 1) : peers[j] # s
    BY <1>1, <1>3, <1>4
<1>6. /\ Position(s) \in DOMAIN peers /\ peers[Position(s)] = s
    BY <1>5 DEF Position
<1> QED
    BY <1>3, <1>6

\* After the first half the others have moved up, and the last place is left over.
LEMMA MovedUp ==
    ASSUME TypeOK, PeersInv, EraseMove
    PROVE  /\ Len(peers') = Len(peers) /\ peers # <<>> /\ peers' # <<>>
           /\ Once(Shortened)'
           /\ current.sock \notin Range(Shortened')
           /\ peers'[Len(peers)] \in Range(Shortened') \cup {current.sock}
           /\ Range(peers') \cup {current.sock} = Range(peers)
<1> DEFINE c == current.sock
           n == Len(peers)
           pos == Position(c)
<1>1. pos \in 1..n /\ peers[pos] = c /\ n \in Nat /\ n > 0 /\ DOMAIN peers = 1..n
  <2>1. pc = "erase" /\ Once(peers) /\ c \in Range(peers)
      BY DEF EraseMove, PeersInv
  <2> QED
      BY <2>1, PositionFound DEF TypeOK
<1>2. \A i \in 1..n : peers'[i] = IF i >= pos /\ i < n THEN peers[i + 1] ELSE peers[i]
    BY <1>1 DEF EraseMove
<1>3. DOMAIN peers' = 1..n
    BY <1>1 DEF EraseMove
<1>4. \A i, j \in 1..n : peers[i] = peers[j] => i = j
    BY <1>1 DEF EraseMove, PeersInv, Once
<1> HIDE DEF pos
<1>5. peers' \in Seq(Sock) /\ Len(peers') = n
  <2>1. TypeOK'
      BY TypeStep DEF Next, LoginThread
  <2>2. peers' \in Seq(Sock)
      BY <2>1 DEF TypeOK
  <2> QED
      BY <1>1, <1>3, <2>2
<1>6. /\ Shortened' \in Seq(Sock) /\ Len(Shortened') = n - 1
      /\ \A i \in 1..(n - 1) : Shortened'[i] = peers'[i]
    BY <1>1, <1>5 DEF Shortened
<1>7. DOMAIN Shortened' = 1..(n - 1)
    BY <1>1, <1>6
<1>8. \A i \in 1..(n - 1) : Shortened'[i] = IF i >= pos THEN peers[i + 1] ELSE peers[i]
    BY <1>1, <1>2, <1>6
<1>9. Once(Shortened)'
  <2>1. \A i, j \in 1..(n - 1) : Shortened'[i] = Shortened'[j] => i = j
      BY <1>1, <1>4, <1>8
  <2> QED
      BY <1>7, <2>1 DEF Once
<1>10. c \notin Range(Shortened')
  <2>1. \A i \in 1..(n - 1) : Shortened'[i] # c
      BY <1>1, <1>4, <1>8
  <2> QED
      BY <1>7, <2>1 DEF Range
<1>11. peers'[n] = peers[n]
    BY <1>1, <1>2
<1>12. peers[n] \in Range(Shortened') \cup {c}
  <2>1. CASE pos = n
      BY <1>1, <2>1
  <2>2. CASE pos # n
    <3>1. n \in Nat /\ pos \in 1..n /\ pos # n
        BY <1>1, <2>2
    <3> HIDE DEF n
    <3>2. n - 1 \in 1..(n - 1) /\ n - 1 >= pos /\ n - 1 + 1 = n
        BY <3>1
    <3>3. Shortened'[n - 1] = peers[n]
        BY <1>8, <3>2
    <3> QED
        BY <1>7, <3>2, <3>3 DEF Range
  <2> QED
      BY <2>1, <2>2
<1>13. Range(peers') \cup {c} = Range(peers)
  <2>1. ASSUME NEW i \in 1..n
        PROVE  peers'[i] \in Range(peers)
    <3>1. peers[i] \in Range(peers)
        BY <1>1 DEF Range
    <3>2. i < n => peers[i + 1] \in Range(peers)
        BY <1>1 DEF Range
    <3> QED
        BY <1>2, <3>1, <3>2
  <2>2. ASSUME NEW i \in 1..n
        PROVE  peers[i] \in Range(peers') \cup {c}
    <3>1. CASE i < pos \/ i = n
      <4>1. peers'[i] = peers[i]
        <5>1. i \in Nat /\ n \in Nat /\ pos \in Nat
            BY <1>1
        <5>2. ~(i >= pos /\ i < n)
            BY <5>1, <3>1
        <5>3. peers'[i] = IF i >= pos /\ i < n THEN peers[i + 1] ELSE peers[i]
            BY <1>2
        <5> QED
            BY <5>2, <5>3
      <4> QED
          BY <1>3, <4>1 DEF Range
    <3>2. CASE i = pos
        BY <1>1, <3>2
    <3>3. CASE i > pos
      <4>1. i - 1 \in 1..n /\ i - 1 >= pos /\ i - 1 < n /\ (i - 1) + 1 = i
          BY <1>1, <3>3
      <4>2. peers'[i - 1] = peers[i]
          BY <1>2, <4>1
      <4> QED
          BY <1>3, <4>1, <4>2 DEF Range
    <3>4. pos \in 1..n /\ n \in Nat
        BY <1>1
    <3> HIDE DEF n
    <3>5. i < pos \/ i = pos \/ i > pos
        BY <3>4
    <3> QED
        BY <3>1, <3>2, <3>3, <3>5
  <2>3. c \in Range(peers)
      BY <1>1 DEF Range
  <2> QED
      BY <1>1, <1>3, <2>1, <2>2, <2>3 DEF Range
<1> QED
    BY <1>1, <1>5, <1>9, <1>10, <1>11, <1>12, <1>13

\* The second half gives up the last place, which held nobody else.
LEMMA Shrunk ==
    ASSUME TypeOK, PeersInv, EraseShrink
    PROVE  /\ peers' = Shortened /\ Range(peers) \subseteq Range(peers') \cup {current.sock}
           /\ Range(peers') \subseteq Range(peers)
<1>1. pc = "shrink" /\ peers' = Shortened
    BY DEF EraseShrink, Shortened
<1>2. peers \in Seq(Sock) /\ peers # <<>>
    BY <1>1 DEF TypeOK, PeersInv
<1>3. /\ Len(peers) \in Nat /\ Len(peers) > 0 /\ DOMAIN peers = 1..Len(peers)
      /\ DOMAIN Shortened = 1..(Len(peers) - 1)
      /\ \A i \in 1..(Len(peers) - 1) : Shortened[i] = peers[i]
    BY <1>2 DEF Shortened
<1> DEFINE n == Len(peers)
<1>4. \A i \in 1..n : i = n \/ i \in 1..(n - 1)
  <2>1. n \in Nat
      BY <1>3
  <2> HIDE DEF n
  <2> QED
      BY <2>1
<1>5. peers[Len(peers)] \in Range(Shortened) \cup {current.sock}
    BY <1>1 DEF PeersInv
<1>6. Range(peers) \subseteq Range(Shortened) \cup {current.sock}
  <2> SUFFICES ASSUME NEW i \in 1..n
               PROVE  peers[i] \in Range(Shortened) \cup {current.sock}
      BY <1>3 DEF Range
  <2>1. CASE i = n
      BY <1>5, <2>1
  <2>2. CASE i \in 1..(n - 1)
      BY <1>3, <2>2 DEF Range
  <2> QED
      BY <1>4, <2>1, <2>2
<1>7. Range(Shortened) \subseteq Range(peers)
  <2> SUFFICES ASSUME NEW i \in 1..(n - 1)
               PROVE  peers[i] \in Range(peers)
      BY <1>3 DEF Range
  <2>1. i \in 1..n
      BY <1>3
  <2> QED
      BY <1>3, <2>1 DEF Range
<1> QED
    BY <1>1, <1>6, <1>7

-------------------------------------------------------------------------------
(* The vectors of sockets, when nothing is accepted in the middle of an erase. *)

\* A connection that is accepted is in neither vector yet.
LEMMA NewPeer ==
    ASSUME TypeOK, ConnInv, NEW s \in Sock, addPeer(s)
    PROVE  /\ s \notin Range(peers) \cup Range(users_vector)
           /\ peers' \in Seq(Sock) /\ Len(peers') = Len(peers) + 1
           /\ peers'[Len(peers) + 1] = s
           /\ \A i \in DOMAIN peers : peers'[i] = peers[i]
           /\ Range(peers') = Range(peers) \cup {s}
           /\ Welcomed' = Welcomed \cup {s}
<1>1. s \notin Range(peers) \cup Range(users_vector)
    BY DEF addPeer, ConnInv, HandOver, Welcomed
<1>2. peers \in Seq(Sock) /\ peers' = Append(peers, s)
    BY DEF addPeer, TypeOK
<1>3. Welcomed' = Welcomed \cup {s}
    BY DEF addPeer, Say, Welcomed, TypeOK
<1> QED
    BY <1>1, <1>2, <1>3, Appended

\* The socket that is read is one of the vector.
LEMMA ReadyIsListed ==
    ASSUME NEW sockets, NEW s, FirstReady(sockets, s)
    PROVE  s \in Range(sockets)
    BY DEF FirstReady, Range

LEMMA PeersStep ==
    ASSUME ~MayRace, TypeOK, ConnInv, [Next]_vars
    PROVE  PeersInv'
<1>1. CASE UNCHANGED <<peers, pc, current>>
    BY <1>1 DEF ConnInv, PeersInv, Once, Shortened
<1>2. ASSUME NEW s \in Sock, addPeer(s)
      PROVE  PeersInv'
  <2> DEFINE n == Len(peers)
  <2>1. pc # "shrink" /\ pc' = pc /\ current' = current
      BY <1>2 DEF addPeer
  <2>2. /\ n \in Nat /\ DOMAIN peers = 1..n /\ DOMAIN peers' = 1..(n + 1)
        /\ s \notin Range(peers) /\ peers'[n + 1] = s
        /\ \A i \in 1..n : peers'[i] = peers[i]
        /\ Range(peers') = Range(peers) \cup {s}
    <3>1. peers \in Seq(Sock) /\ peers' \in Seq(Sock) /\ Len(peers') = n + 1
        BY <1>2, NewPeer DEF TypeOK
    <3>2. n \in Nat /\ DOMAIN peers = 1..n /\ DOMAIN peers' = 1..(n + 1)
        BY <3>1
    <3> QED
        BY <1>2, <3>2, NewPeer
  <2>3. \A i, j \in 1..n : peers[i] = peers[j] => i = j
      BY <2>1, <2>2 DEF ConnInv, PeersInv, Once
  <2>4. \A i \in 1..n : peers[i] # s
      BY <2>2 DEF Range
  <2>5. \A i \in 1..(n + 1) : i = n + 1 \/ i \in 1..n
    <3>1. n \in Nat
        BY <2>2
    <3> HIDE DEF n
    <3> QED
        BY <3>1
  <2> HIDE DEF n
  <2>6. \A i, j \in 1..(n + 1) : peers'[i] = peers'[j] => i = j
      BY <2>2, <2>3, <2>4, <2>5
  <2>7. Once(peers)'
      BY <2>2, <2>6 DEF Once
  <2> QED
      BY <2>1, <2>2, <2>7 DEF ConnInv, PeersInv
<1>3. ASSUME NEW s \in Sock, LoginRequest(s)
      PROVE  PeersInv'
  <2>1. pc = "select" /\ peers' = peers /\ s \in Range(peers)
      BY <1>3, ReadyIsListed DEF LoginRequest
  <2>2. Once(peers)'
      BY <2>1 DEF ConnInv, PeersInv, Once
  <2>3. pc' = "select" \/ (pc' = "add" /\ current'.sock = s)
      BY <1>3, <2>1 DEF LoginRequest, Accepts, Refuses
  <2> QED
      BY <2>1, <2>2, <2>3 DEF PeersInv
<1>4. CASE add_user \/ add_user_to_vector
    BY <1>4 DEF add_user, add_user_to_vector, ConnInv, PeersInv, Once
<1>5. CASE EraseMove
  <2>1. pc' = "shrink" /\ current' = current
      BY <1>5 DEF EraseMove
  <2> QED
      BY <1>5, <2>1, MovedUp DEF ConnInv, PeersInv
<1>6. CASE EraseShrink
  <2>1. pc = "shrink" /\ pc' = "select" /\ peers' = Shortened
      BY <1>6, Shrunk DEF EraseShrink, ConnInv
  <2>2. Once(peers)'
      BY <2>1 DEF ConnInv, PeersInv, Once
  <2> QED
      BY <2>1, <2>2 DEF PeersInv
<1> QED
    BY <1>1, <1>2, <1>3, <1>4, <1>5, <1>6
    DEF Next, Client, Send, Close, LoginThread, DispatcherThread, list_all_users,
        user_exit, Ignored, vars

\* What the listener reads of a vector it knows to be welcomed; the answer changes nothing.
LEMMA Answered ==
    ASSUME TypeOK, NEW s \in Welcomed, NEW text, text # "NOTHING", Say(s, text)
    PROVE  Welcomed' = Welcomed
    BY DEF Say, Welcomed, TypeOK

LEMMA HandOverStep ==
    ASSUME TypeOK, ConnInv, [Next]_vars
    PROVE  HandOver'
<1>1. CASE UNCHANGED <<answer, peers, users_vector, pc, current>>
    BY <1>1 DEF ConnInv, HandOver, Welcomed
<1>2. ASSUME NEW s \in Sock, addPeer(s)
      PROVE  HandOver'
  <2>1. UNCHANGED <<users_vector, pc, current>>
      BY <1>2 DEF addPeer, userVars
  <2> QED
      BY <1>2, <2>1, NewPeer DEF ConnInv, HandOver
<1>3. ASSUME NEW s \in Sock, LoginRequest(s)
      PROVE  HandOver'
  <2>1. /\ pc = "select" /\ UNCHANGED <<peers, users_vector>>
        /\ s \in Range(peers) /\ s \in Welcomed
      BY <1>3, ReadyIsListed DEF LoginRequest, userVars, ConnInv, HandOver
  <2>2. pc' \in {"select", "add"} /\ \E text \in Answers \ {"NOTHING"} : Say(s, text)
      BY <1>3, <2>1 DEF LoginRequest, Accepts, Refuses, Answers
  <2>3. Welcomed' = Welcomed
      BY <2>1, <2>2, Answered
  <2> QED
      BY <2>1, <2>2, <2>3 DEF ConnInv, HandOver
<1>4. CASE add_user
  <2>1. /\ pc = "add" /\ pc' \in {"name", "erase"} /\ current.sock \in Sock
        /\ UNCHANGED <<answer, peers, current>>
      BY <1>4 DEF add_user, TypeOK
  <2>2. Range(users_vector') = Range(users_vector) \cup {current.sock}
      BY <1>4, <2>1, Appended DEF add_user, TypeOK
  <2>3. current.sock \in Range(peers)
      BY <2>1 DEF ConnInv, PeersInv
  <2>4. Range(peers) \cap Range(users_vector) = {}
      BY <2>1 DEF ConnInv, HandOver
  <2>5. Welcomed' = Welcomed
      BY <2>1 DEF Welcomed
  <2> QED
      BY <2>1, <2>2, <2>3, <2>4, <2>5 DEF ConnInv, HandOver
<1>5. CASE add_user_to_vector
    BY <1>5 DEF add_user_to_vector, userVars, ConnInv, HandOver, Welcomed
<1>6. CASE EraseMove
  <2>1. pc = "erase" /\ pc' = "shrink" /\ UNCHANGED <<answer, users_vector, current>>
      BY <1>6 DEF EraseMove, userVars
  <2>2. Range(peers') \cup {current.sock} = Range(peers)
      BY <1>6, MovedUp DEF ConnInv
  <2>3. Welcomed' = Welcomed
      BY <2>1 DEF Welcomed
  <2> QED
      BY <2>1, <2>2, <2>3 DEF ConnInv, HandOver
<1>7. CASE EraseShrink
  <2>1. pc = "shrink" /\ pc' = "select" /\ UNCHANGED <<answer, users_vector>>
      BY <1>7 DEF EraseShrink, userVars
  <2>2. /\ peers' = Shortened /\ Range(peers) \subseteq Range(peers') \cup {current.sock}
        /\ Range(peers') \subseteq Range(peers) /\ current.sock \notin Range(peers')
      BY <1>7, <2>1, Shrunk DEF ConnInv, PeersInv
  <2>3. Welcomed' = Welcomed
      BY <2>1 DEF Welcomed
  <2> QED
      BY <2>1, <2>2, <2>3 DEF ConnInv, HandOver
<1>8. ASSUME NEW s \in Sock, list_all_users(s) \/ user_exit(s)
      PROVE  HandOver'
  <2>1. UNCHANGED <<peers, users_vector, pc, current>> /\ s \in Welcomed
      BY <1>8, ReadyIsListed
      DEF list_all_users, user_exit, Turn, userVars, ConnInv, HandOver
  <2>2. Say(s, "ALL_USERS_LIST") \/ Say(s, "BYE_BYE_MSG")
      BY <1>8 DEF list_all_users, user_exit
  <2>3. Welcomed' = Welcomed
      BY <2>1, <2>2, Answered
  <2> QED
      BY <2>1, <2>3 DEF ConnInv, HandOver
<1> QED
    BY <1>1, <1>2, <1>3, <1>4, <1>5, <1>6, <1>7, <1>8
    DEF Next, Client, Send, Close, LoginThread, DispatcherThread, Ignored, vars, userVars

-------------------------------------------------------------------------------
(* EXIT is the last request. *)

\* A request that is read leaves the inbox, and an EXIT leaves it empty.
LEMMA ReadExit ==
    ASSUME TypeOK, ExitIsLast, NEW s \in Sock, Read(s)
    PROVE  /\ answer[s] # "BYE_BYE_MSG"
           /\ Head(inbox[s]).cmd = "EXIT" => inbox'[s] = <<>> /\ s \in gone
           /\ \A i \in DOMAIN inbox'[s] :
                 inbox'[s][i].cmd = "EXIT" => i = Len(inbox'[s]) /\ s \in gone
           /\ \A t \in Sock \ {s} : inbox'[t] = inbox[t]
<1> DEFINE old == inbox[s]
           n == Len(old)
<1>1. /\ old \in Seq(Requests) /\ old # <<>> /\ inbox' = [inbox EXCEPT ![s] = Tail(old)]
      /\ inbox'[s] = Tail(old)
    BY DEF Read, TypeOK, Requests
<1>2. \A i \in DOMAIN old : old[i].cmd = "EXIT" => i = n /\ s \in gone
    BY DEF ExitIsLast
<1> HIDE DEF old
<1>3. /\ n \in Nat /\ n > 0 /\ DOMAIN old = 1..n /\ Head(old) = old[1]
      /\ Len(Tail(old)) = n - 1 /\ DOMAIN Tail(old) = 1..(n - 1)
      /\ \A i \in 1..(n - 1) : Tail(old)[i] = old[i + 1]
    BY <1>1
<1> HIDE DEF n
<1>4. answer[s] # "BYE_BYE_MSG"
    BY <1>1 DEF ExitIsLast, old
<1>5. ASSUME Head(old).cmd = "EXIT"
      PROVE  Tail(old) = <<>> /\ s \in gone
  <2>1. n = 1 /\ s \in gone
      BY <1>2, <1>3, <1>5
  <2>2. Len(Tail(old)) = 0 /\ Tail(old) \in Seq(Requests)
      BY <1>1, <1>3, <2>1
  <2> QED
      BY <2>1, <2>2, EmptySeq
<1>6. ASSUME NEW i \in 1..(n - 1), Tail(old)[i].cmd = "EXIT"
      PROVE  i = n - 1 /\ s \in gone
  <2>1. i + 1 \in 1..n /\ old[i + 1].cmd = "EXIT"
      BY <1>3, <1>6
  <2>2. i + 1 = n /\ s \in gone
      BY <1>2, <1>3, <2>1
  <2> QED
      BY <1>3, <2>2
<1>7. \A t \in Sock \ {s} : inbox'[t] = inbox[t]
    BY <1>1 DEF TypeOK
<1> QED
    BY <1>1, <1>3, <1>4, <1>5, <1>6, <1>7 DEF old

LEMMA ExitStep ==
    ASSUME TypeOK, ConnInv, [Next]_vars
    PROVE  ExitIsLast'
<1> USE DEF ConnInv
<1>1. CASE UNCHANGED <<inbox, gone, answer>>
    BY <1>1 DEF ExitIsLast
<1>2. ASSUME NEW s \in Sock, NEW req \in Requests,
             inbox' = [inbox EXCEPT ![s] = Append(@, req)], s \notin gone,
             gone \subseteq gone', UNCHANGED answer,
             req.cmd = "EXIT" => s \in gone'
      PROVE  ExitIsLast'
  <2> DEFINE old == inbox[s]
             n == Len(old)
  <2>1. inbox'[s] = Append(old, req) /\ \A t \in Sock \ {s} : inbox'[t] = inbox[t]
      BY <1>2 DEF TypeOK
  <2>2. old \in Seq(Requests)
      BY DEF TypeOK, Requests
  <2>3. \A i \in DOMAIN old : old[i].cmd # "EXIT"
      BY <1>2 DEF ExitIsLast
  <2>4. answer[s] # "BYE_BYE_MSG"
      BY <1>2 DEF ExitIsLast
  <2> HIDE DEF old
  <2>5. /\ n \in Nat /\ DOMAIN old = 1..n /\ Append(old, req) \in Seq(Requests)
        /\ Len(Append(old, req)) = n + 1 /\ Append(old, req)[n + 1] = req
        /\ \A i \in 1..n : Append(old, req)[i] = old[i]
      BY <2>2
  <2>6. DOMAIN Append(old, req) = 1..(n + 1)
      BY <2>5
  <2> HIDE DEF n
  <2>7. \A i \in 1..(n + 1) : i \in 1..n \/ i = n + 1
      BY <2>5
  <2>8. \A i \in DOMAIN inbox'[s] :
           inbox'[s][i].cmd = "EXIT" => i = Len(inbox'[s]) /\ s \in gone'
      BY <1>2, <2>1, <2>3, <2>5, <2>6, <2>7
  <2> QED
      BY <1>2, <2>1, <2>4, <2>8 DEF ExitIsLast
<1>3. ASSUME NEW s \in Sock, Client(s)
      PROVE  ExitIsLast'
  <2>1. ASSUME NEW req \in Request, Send(s, req)
        PROVE  ExitIsLast'
    <3>1. req \in Requests /\ req.cmd # "EXIT"
        BY DEF Request, Requests
    <3> QED
        BY <1>2, <2>1, <3>1 DEF Send
  <2>2. CASE Close(s)
    <3>1. CASE inbox' = inbox
        BY <2>2, <3>1 DEF Close, ExitIsLast
    <3>2. CASE inbox' = [inbox EXCEPT ![s] = Append(@, [cmd |-> "EXIT"])]
      <4>1. [cmd |-> "EXIT"] \in Requests
          BY DEF Requests
      <4> QED
          BY <1>2, <2>2, <3>2, <4>1 DEF Close
    <3> QED
        BY <2>2, <3>1, <3>2 DEF Close
  <2> QED
      BY <1>3, <2>1, <2>2 DEF Client
<1>4. ASSUME NEW s \in Sock, addPeer(s)
      PROVE  ExitIsLast'
    BY <1>4 DEF addPeer, Say, clientVars, ExitIsLast, TypeOK
<1>5. ASSUME NEW s \in Sock, Read(s), UNCHANGED gone, NEW text,
             text # "BYE_BYE_MSG" \/ Head(inbox[s]).cmd = "EXIT",
             Say(s, text) \/ UNCHANGED answer
      PROVE  ExitIsLast'
  <2>1. \A t \in Sock : answer'[t] \in {answer[t], text} /\ (t # s => answer'[t] = answer[t])
      BY <1>5 DEF Say, TypeOK
  <2>2. answer'[s] = answer[s] \/ answer'[s] = text
      BY <2>1
  <2>3. \A t \in Sock \ {s} : inbox'[t] = inbox[t]
      BY <1>5, ReadExit
  <2>4. answer'[s] = "BYE_BYE_MSG" => inbox'[s] = <<>> /\ s \in gone
      BY <1>5, <2>2, ReadExit
  <2>5. \A i \in DOMAIN inbox'[s] :
           inbox'[s][i].cmd = "EXIT" => i = Len(inbox'[s]) /\ s \in gone
      BY <1>5, ReadExit
  <2> QED
      BY <1>5, <2>1, <2>3, <2>4, <2>5 DEF ExitIsLast
<1>6. ASSUME NEW s \in Sock, LoginRequest(s)
      PROVE  ExitIsLast'
  <2>1. Read(s) /\ gone' = gone
      BY <1>6 DEF LoginRequest, clientVars
  <2>2. \E text \in Answers \ {"BYE_BYE_MSG"} : Say(s, text)
      BY <1>6 DEF LoginRequest, Accepts, Refuses, Answers
  <2> QED
      BY <1>5, <2>1, <2>2
<1>7. ASSUME NEW s \in Sock, list_all_users(s) \/ user_exit(s) \/ Ignored(s)
      PROVE  ExitIsLast'
  <2>1. Read(s) /\ gone' = gone
      BY <1>7 DEF list_all_users, user_exit, Ignored, Turn, clientVars
  <2>2. \/ Say(s, "ALL_USERS_LIST")
        \/ Say(s, "BYE_BYE_MSG") /\ Head(inbox[s]).cmd = "EXIT"
        \/ UNCHANGED answer
      BY <1>7 DEF list_all_users, user_exit, Ignored
  <2> QED
      BY <1>5, <2>1, <2>2
<1> QED
    BY <1>1, <1>3, <1>4, <1>6, <1>7
    DEF Next, LoginThread, add_user, add_user_to_vector, EraseMove, EraseShrink,
        DispatcherThread, clientVars, vars

-------------------------------------------------------------------------------
(* The users in the map. *)

\* A request of the login thread: what it decides on holds until the user is added.
LEMMA MapLogin ==
    ASSUME TypeOK, FileInv, ConnInv, NEW s \in Sock, LoginRequest(s)
    PROVE  MapInv'
<1> DEFINE req == Head(inbox[s])
<1> USE DEF ConnInv
<1>1. /\ pc = "select" /\ s \in Range(peers) /\ s \notin Range(users_vector)
      /\ UNCHANGED <<userVars, all_users>> /\ req \in Requests
  <2>1. pc = "select" /\ s \in Range(peers) /\ UNCHANGED <<userVars, all_users>>
      BY ReadyIsListed DEF LoginRequest
  <2>2. s \notin Range(users_vector)
      BY <2>1 DEF HandOver
  <2>3. req \in Requests
      BY ReadType DEF LoginRequest
  <2> QED
      BY <2>1, <2>2, <2>3
<1>2. \A t \in Range(users_vector) : answer'[t] = answer[t]
  <2>1. \E text \in Answers : Say(s, text)
      BY DEF LoginRequest, Accepts, Refuses, Answers
  <2>2. Range(users_vector) \subseteq Sock
      BY DEF TypeOK, Range
  <2> QED
      BY <1>1, <2>1, <2>2 DEF Say, TypeOK
<1>3. /\ Len(file) \in Nat /\ Len(all_users) \in Nat
      /\ Len(file) <= Len(all_users) /\ (AllWritten <=> Len(file) = Len(all_users))
    BY <1>1 DEF FileInv, TypeOK, AllWritten
<1>4. CASE \E text \in Answers : Refuses(s, text)
  <2>1. UNCHANGED <<file, pc>> /\ AllWritten' = AllWritten
      BY <1>1, <1>3, <1>4 DEF Refuses, AllWritten
  <2> QED
      BY <1>1, <1>2, <2>1 DEF MapInv, userVars
<1>5. CASE Accepts(s, req) /\ req.cmd = "LOGIN" /\ login(req) /\ UNCHANGED file
  <2>1. pc' = "add" /\ current'.new = FALSE /\ current'.name = req.name
      BY <1>5 DEF Accepts
  <2>2. users_map[req.name] = NULL /\ req.name \in Range(file)
      BY <1>5 DEF login, checkUser
  <2>3. AllWritten' = AllWritten
      BY <1>1, <1>3, <1>5, <2>1 DEF AllWritten
  <2> QED
      BY <1>1, <1>2, <1>5, <2>1, <2>2, <2>3 DEF MapInv, userVars
<1>6. CASE Accepts(s, req) /\ req.cmd = "SIGNUP" /\ ~taken(req.name) /\ NewLine(req.name)
  <2>1. pc' = "add" /\ current'.new = TRUE /\ current'.name = req.name
      BY <1>6 DEF Accepts
  <2>2. AllWritten' <=> Len(file') = Len(all_users) + 1
      BY <1>1, <2>1 DEF AllWritten
  <2>3. CASE file' = file
    <3>1. ~AllWritten'
        BY <1>3, <2>2, <2>3
    <3> QED
        BY <1>1, <3>1 DEF MapInv, userVars
  <2>4. CASE file' = Append(file, req.name)
    <3>1. req.name \in Name
        BY <1>1, <1>6 DEF Requests, Request
    <3> DEFINE name == req.name
    <3>2. Len(file') = Len(file) + 1 /\ Range(file') = Range(file) \cup {name}
      <4>1. file \in Seq(Name) /\ name \in Name /\ file' = Append(file, name)
          BY <2>4, <3>1 DEF TypeOK
      <4> HIDE DEF name
      <4> QED
          BY <4>1, Appended
    <3>3. AllWritten' => AllWritten
        BY <1>3, <2>2, <3>2
    <3>4. AllWritten => users_map[name] = NULL
        BY <1>6, <3>1 DEF MapInv, taken
    <3> QED
        BY <1>1, <1>2, <2>1, <3>2, <3>3, <3>4 DEF MapInv, userVars
  <2> QED
      BY <1>6, <2>3, <2>4 DEF NewLine
<1> QED
    BY <1>4, <1>5, <1>6 DEF LoginRequest, Answers

\* The new user gets an entry that nobody has, on a connection that nobody is served on.
LEMMA MapAdd ==
    ASSUME TypeOK, ConnInv, add_user
    PROVE  MapInv'
<1> DEFINE c == current.sock
           name == current.name
<1> USE DEF ConnInv
<1>1. /\ pc = "add" /\ c \in Sock /\ name \in Name /\ UNCHANGED <<file, all_users, answer, current>>
      /\ users_map' = [users_map EXCEPT ![name] = c]
      /\ pc' = IF current.new THEN "name" ELSE "erase"
    BY DEF add_user, TypeOK, listVars
<1>2. c \in Range(peers) /\ c \notin Range(users_vector)
    BY <1>1 DEF PeersInv, HandOver
<1>3. Range(users_vector') = Range(users_vector) \cup {c}
    BY <1>1, Appended DEF add_user, TypeOK
<1>4. /\ users_map'[name] = c
      /\ \A n \in Name \ {name} : users_map'[n] = users_map[n]
    BY <1>1 DEF TypeOK
<1>5. \A n \in Name : users_map[n] # c
    BY <1>1, <1>2, NoName DEF MapInv
<1>6. AllWritten' = AllWritten
  <2>1. (pc' \in {"add", "name"} /\ current'.new) = (pc \in {"add", "name"} /\ current.new)
      BY <1>1 DEF TypeOK
  <2> QED
      BY <1>1, <2>1 DEF AllWritten
<1>7. AllWritten => users_map[name] = NULL /\ name \in Range(file)
    BY <1>1 DEF MapInv
<1>8. pc' # "add" /\ c # NULL
    BY <1>1, NoName
<1> HIDE DEF c, name
<1>9. \A n \in Name : users_map'[n] # NULL => users_map'[n] \in Range(users_vector')
    BY <1>3, <1>4 DEF MapInv
<1>10. \A n, m \in Name : users_map'[n] = users_map'[m] /\ users_map'[n] # NULL => n = m
    BY <1>4, <1>5 DEF MapInv
<1>11. AllWritten' => \A n \in Name : users_map'[n] # NULL => n \in Range(file')
    BY <1>1, <1>4, <1>6, <1>7 DEF MapInv
<1>12. ASSUME AllWritten', NEW s \in Range(users_vector'), answer'[s] # "BYE_BYE_MSG"
       PROVE  \E n \in Name : users_map'[n] = s
  <2>1. CASE s = c
      BY <1>1, <1>4, <2>1
  <2>2. CASE s # c
    <3>1. s \in Range(users_vector) /\ answer[s] # "BYE_BYE_MSG" /\ AllWritten
        BY <1>1, <1>3, <1>6, <1>12, <2>2
    <3>2. PICK n \in Name : users_map[n] = s
        BY <3>1 DEF MapInv
    <3>3. s # NULL
        BY <3>1, NoName DEF TypeOK, Range
    <3> QED
        BY <1>4, <1>7, <3>1, <3>2, <3>3
  <2> QED
      BY <2>1, <2>2
<1> QED
    BY <1>8, <1>9, <1>10, <1>11, <1>12 DEF MapInv

\* The entry of a user that exits is gone, and the others keep theirs.
LEMMA MapExit ==
    ASSUME TypeOK, ConnInv, NEW s \in Sock, user_exit(s)
    PROVE  MapInv'
<1> USE DEF ConnInv
<1>1. /\ UNCHANGED <<users_vector, file, all_users, pc, current>>
      /\ \A n \in Name : users_map'[n] = IF users_map[n] = s THEN NULL ELSE users_map[n]
    BY DEF user_exit, listVars
<1>2. /\ answer'[s] = "BYE_BYE_MSG"
      /\ \A t \in Sock \ {s} : answer'[t] = answer[t]
    BY DEF user_exit, Say, TypeOK
<1>3. AllWritten' = AllWritten
    BY <1>1 DEF AllWritten
<1>4. pc = "add" => current.name \in Name
    BY DEF TypeOK
<1>5. Range(users_vector) \subseteq Sock
    BY DEF TypeOK, Range
<1> QED
    BY <1>1, <1>2, <1>3, <1>4, <1>5 DEF MapInv

LEMMA MapStep ==
    ASSUME TypeOK, FileInv, ConnInv, [Next]_vars
    PROVE  MapInv'
<1> USE DEF ConnInv
<1>1. CASE UNCHANGED <<answer, userVars, listVars, pc, current>>
    BY <1>1 DEF MapInv, AllWritten, userVars, listVars
<1>2. ASSUME NEW s \in Sock, s \notin Range(users_vector) \/ answer[s] # "BYE_BYE_MSG",
             NEW text, Say(s, text), UNCHANGED <<userVars, listVars, pc, current>>
      PROVE  MapInv'
  <2>1. \A t \in Sock \ {s} : answer'[t] = answer[t]
      BY <1>2 DEF Say, TypeOK
  <2>2. AllWritten' = AllWritten
      BY <1>2 DEF AllWritten, listVars
  <2>3. \A t \in Range(users_vector) : answer'[t] # "BYE_BYE_MSG" => answer[t] # "BYE_BYE_MSG"
    <3>1. Range(users_vector) \subseteq Sock
        BY DEF TypeOK, Range
    <3> QED
        BY <1>2, <2>1, <3>1
  <2> QED
      BY <1>2, <2>2, <2>3 DEF MapInv, userVars, listVars
<1>3. ASSUME NEW s \in Sock, addPeer(s)
      PROVE  MapInv'
    BY <1>2, <1>3, NewPeer DEF addPeer
<1>4. ASSUME NEW s \in Sock, list_all_users(s)
      PROVE  MapInv'
  <2>1. answer[s] # "BYE_BYE_MSG"
      BY <1>4, ReadExit DEF list_all_users, Turn
  <2> QED
      BY <1>2, <1>4, <2>1 DEF list_all_users
<1>5. CASE add_user_to_vector
  <2>1. /\ pc = "name" /\ pc' = "erase" /\ current.new /\ current.name \in Name
        /\ UNCHANGED <<answer, userVars, file>>
      BY <1>5 DEF add_user_to_vector, FileInv, TypeOK
  <2>2. Len(all_users') = Len(all_users) + 1 /\ Len(all_users) \in Nat
      BY <1>5, <2>1, Appended DEF add_user_to_vector, TypeOK
  <2>3. AllWritten' = AllWritten
      BY <2>1, <2>2 DEF AllWritten
  <2> QED
      BY <2>1, <2>3 DEF MapInv, userVars
<1>6. CASE EraseMove \/ EraseShrink
  <2>1. /\ pc \notin {"add", "name"} /\ pc' \notin {"add", "name"}
        /\ UNCHANGED <<answer, userVars, listVars>>
      BY <1>6 DEF EraseMove, EraseShrink
  <2>2. AllWritten' = AllWritten
      BY <2>1 DEF AllWritten, listVars
  <2> QED
      BY <2>1, <2>2 DEF MapInv, userVars, listVars
<1> QED
    BY <1>1, <1>3, <1>4, <1>5, <1>6, MapLogin, MapAdd, MapExit
    DEF Next, Client, Send, Close, LoginThread, DispatcherThread, Ignored, vars

-------------------------------------------------------------------------------
(* The theorems. *)

\* The invariant holds if no connection is accepted in the middle of an erase; where one
\* is, the erase drops it, and a connection that was welcomed is listened to no more.
LEMMA Connections ==
    ASSUME ~MayRace
    PROVE  Spec => []ConnInv
<1>1. Init => ConnInv
    BY DEF Init, ConnInv, PeersInv, HandOver, ExitIsLast, MapInv, Once, Welcomed, Range
<1>2. TypeOK /\ FileInv /\ ConnInv /\ [Next]_vars => ConnInv'
    BY PeersStep, HandOverStep, ExitStep, MapStep DEF ConnInv
<1> QED
    BY <1>1, <1>2, TypeCorrect, FilesAgree, PTL DEF Spec

\* No welcomed connection is lost, however logins, erases and failed sign-ups interleave.
THEOREM NoneIsLost ==
    ASSUME ~MayRace
    PROVE  Spec => []PeersAreKept
<1>1. ConnInv => PeersAreKept
    BY DEF ConnInv, HandOver, PeersAreKept
<1> QED
    BY <1>1, Connections, PTL

\* The login thread and the dispatcher never both read a connection.
THEOREM ReadByOne ==
    ASSUME ~MayRace
    PROVE  Spec => []OneReader
<1>1. ConnInv => OneReader
    BY DEF ConnInv, HandOver, PeersInv, Once, OneReader
<1> QED
    BY <1>1, Connections, PTL

\* A served connection has one user until its EXIT, if every write to the file succeeds.
THEOREM ServedAreUsers ==
    ASSUME ~MayRace
    PROVE  Spec => []ServedHaveUser
<1>1. TypeOK /\ ConnInv => ServedHaveUser
  <2> SUFFICES ASSUME TypeOK, ConnInv, AllWritten, NEW s \in Range(users_vector),
                      answer[s] # "BYE_BYE_MSG"
               PROVE  \E n \in Name : \A m \in Name : users_map[m] = s <=> m = n
      BY DEF ServedHaveUser
  <2>1. PICK n \in Name : users_map[n] = s
      BY DEF ConnInv, MapInv
  <2>2. s # NULL
      BY NoName DEF TypeOK, Range
  <2>3. \A m \in Name : users_map[m] = s => m = n
      BY <2>1, <2>2 DEF ConnInv, MapInv
  <2> QED
      BY <2>1, <2>3
<1> QED
    BY <1>1, TypeCorrect, Connections, PTL
===============================================================================
