---------------------------- MODULE MessengerProofs ----------------------------
(***************************************************************************)
(* Clients and dispatcher together implement the dispatcher: whatever the  *)
(* clients believe as they type, a request that reaches the server is one  *)
(* the dispatcher's specification allows.  What is proved of it holds in   *)
(* the composition; on top of that, what a client will know when it has    *)
(* read its mail is what the server has, of sessions while nobody opens a  *)
(* room, and of rooms while nobody opens a session.                        *)
(***************************************************************************)
EXTENDS Messenger, SequenceTheorems, FiniteSetTheorems, NaturalsInduction,
        WellFoundedInduction, TLAPS

\* What is proved of sessions in the dispatcher.
Sessions == INSTANCE SessionProofs

\* A client that has logged in knows its name, and keeps it.
Named == \A s \in Sock : client[s] # NULL => /\ "client_name" \in DOMAIN client[s]
                                             /\ client[s].client_name \in Name

NamesTravel == /\ client = [s \in Sock |-> client[s]]
               /\ Named
               /\ link \in [Sock -> Seq(Asked)]

\* No message of the server changes the name of a client.
LEMMA NameKept ==
    ASSUME NEW c, "client_name" \in DOMAIN c, NEW msg
    PROVE  /\ "client_name" \in DOMAIN Received(c, msg)
           /\ Received(c, msg).client_name = c.client_name
<1> DEFINE Kept(d) == "client_name" \in DOMAIN d /\ d.client_name = c.client_name
<1>1. \A d, v : Kept(d) => /\ Kept([d EXCEPT !.isInSession = v])
                           /\ Kept([d EXCEPT !.alive = v])
                           /\ Kept([d EXCEPT !.chatroom_partners = v])
    OBVIOUS
<1>2. \A d, v, w : Kept(d) =>
          /\ Kept([d EXCEPT !.isInSession = v, !.session_partner = w])
    OBVIOUS
<1>3. \A d, u, v, w : Kept(d) =>
          /\ Kept([d EXCEPT !.isInSession = u, !.isInChatRoom = v, !.chatroom_partners = w])
          /\ Kept([d EXCEPT !.isInChatRoom = u, !.isRoomOwner = v, !.chatroom_partners = w])
          /\ Kept([d EXCEPT !.isInSession = u, !.isInChatRoom = v, !.isRoomOwner = w])
    OBVIOUS
<1>4. Kept(OutOfRoom(c))
    BY <1>3 DEF OutOfRoom
<1>5. \A n : Kept(InSessionWith(c, n)) /\ Kept(userHasJoinedChatroom(c, n))
                /\ Kept(gotChatroomUsersList(c, n)) /\ Kept(userHasLeftChatroom(c, n))
    BY <1>1, <1>2, <1>3, <1>4
    DEF InSessionWith, userHasJoinedChatroom, gotChatroomUsersList, userHasLeftChatroom
<1>6. Kept([c EXCEPT !.isInSession = FALSE]) /\ Kept(c)
    BY <1>1
<1>7. Kept([chatroomWasClosed(c) EXCEPT !.isInSession = FALSE])
    BY <1>1, <1>4 DEF chatroomWasClosed
<1>8. Kept([c EXCEPT !.isInSession = TRUE, !.isInChatRoom = TRUE, !.isRoomOwner = TRUE])
    BY <1>3
<1>9. Kept(Received(c, msg))
    BY <1>5, <1>6, <1>7, <1>8 DEF Received
<1> QED
    BY <1>9

\* What users type carries the name of the client or what they have typed.
LEMMA RequestAsked ==
    ASSUME NamesTravel, NEW s \in Sock, NEW req \in Asked, Request(s, req)
    PROVE  link' \in [Sock -> Seq(Asked)]
<1>1. link[s] \in Seq(Asked)
    BY DEF NamesTravel
<1>2. Append(link[s], req) \in Seq(Asked)
    BY <1>1
<1> QED
    BY <1>2 DEF NamesTravel, Request

LEMMA NamesKept == NamesTravel /\ [Next]_vars => NamesTravel'
<1> SUFFICES ASSUME NamesTravel, [Next]_vars PROVE NamesTravel'
    OBVIOUS
<1> USE DEF NamesTravel, Named
<1>1. ASSUME NEW s \in Sock, NEW peer \in Name, Open(s, peer) PROVE NamesTravel'
  <2>1. [cmd |-> "OPEN_SESSION_WITH_USER", from |-> client[s].client_name, to |-> peer]
            \in Asked
      BY <1>1 DEF Open, AtKeyboard, Asked
  <2> QED
      BY <1>1, <2>1, RequestAsked DEF Open
<1>2. ASSUME NEW s \in Sock, NEW r \in Room, Enter(s, r) PROVE NamesTravel'
  <2>1. [cmd |-> "OPEN_CHATROOM", room |-> r] \in Asked
      BY DEF Asked
  <2> QED
      BY <1>2, <2>1, RequestAsked DEF Enter
<1>3. ASSUME NEW s \in Sock, CloseOpen(s) PROVE NamesTravel'
  <2>1. [cmd |-> CloseRequest(client[s])] \in Asked
      BY DEF Asked, CloseRequest
  <2>2. /\ "client_name" \in DOMAIN closeSession(client[s])
        /\ closeSession(client[s]).client_name \in Name
      BY <1>3 DEF CloseOpen, AtKeyboard, closeSession
  <2> QED
      BY <1>3, <2>1, <2>2, RequestAsked DEF CloseOpen
<1>4. ASSUME NEW s \in Sock, Disconnect(s) PROVE NamesTravel'
  <2>1. [cmd |-> "EXIT"] \in Asked
      BY DEF Asked
  <2>2. Append(link[s], [cmd |-> "EXIT"]) \in Seq(Asked)
      BY <2>1
  <2> QED
      BY <1>4, <2>2 DEF Disconnect
<1>5. ASSUME NEW s \in Sock, Receive(s) PROVE NamesTravel'
  <2>1. /\ "client_name" \in DOMAIN client'[s]
        /\ client'[s].client_name \in Name
      BY <1>5, NameKept DEF Receive
  <2> QED
      BY <1>5, <2>1 DEF Receive
<1>6. ASSUME NEW s \in Sock, NEW n \in Name, LogIn(s, n) PROVE NamesTravel'
    BY <1>6 DEF LogIn, LoggedIn
<1>7. ASSUME NEW s \in Sock, Dispatch(s) PROVE NamesTravel'
  <2>1. Tail(link[s]) \in Seq(Asked)
      BY <1>7 DEF Dispatch
  <2> QED
      BY <1>7, <2>1 DEF Dispatch
<1>8. ASSUME NEW s \in Sock, Die(s) PROVE NamesTravel'
    BY <1>8 DEF Die
<1>9. CASE UNCHANGED vars
    BY <1>9 DEF vars
<1> QED
    BY <1>1, <1>2, <1>3, <1>4, <1>5, <1>6, <1>7, <1>8, <1>9 DEF Next

\* A request that reaches its handler is one that the dispatcher's own specification
\* allows, and nothing else that happens shows there.
LEMMA StepDispatches == NamesTravel /\ [Next]_vars => [D!Next]_(D!vars)
<1> SUFFICES ASSUME NamesTravel, Next PROVE D!Next \/ UNCHANGED serverVars
    BY DEF vars, serverVars, D!vars, D!userVars, D!roomVars, D!sockVars
<1>1. ASSUME NEW s \in Sock, NEW n \in Name, LogIn(s, n) PROVE D!Next
    BY <1>1 DEF LogIn, D!Next
<1>2. ASSUME NEW s \in Sock, Dispatch(s) PROVE D!Next
  <2>1. Head(link[s]) \in Asked /\ Handled(s, Head(link[s]))
      BY <1>2 DEF Dispatch, NamesTravel
  <2>2. PICK req \in Asked : Handled(s, req)
      BY <2>1
  <2>3. D!Handle(s)
      BY <2>2 DEF Handled, Asked, D!Handle
  <2> QED
      BY <2>3 DEF D!Next
<1>3. ASSUME NEW s \in Sock, \/ \E peer \in Name : Open(s, peer)
                             \/ \E r \in Room : Enter(s, r)
                             \/ CloseOpen(s) \/ Disconnect(s) \/ Die(s) \/ Receive(s)
      PROVE  UNCHANGED serverVars
    BY <1>3 DEF Open, Enter, CloseOpen, Disconnect, Die, Receive, Request
<1> QED
    BY <1>1, <1>2, <1>3 DEF Next

\* Nothing the clients and the channels do shows in the server but requests that
\* reach their handlers, in some order: the composition implements the dispatcher,
\* so that what holds of it whatever is asked holds here too.
THEOREM Implements == Spec => DispatcherSpec
<1>1. Init => NamesTravel
    BY DEF Init, NamesTravel, Named
<1>2. Init => D!Init
    BY DEF Init
<1> QED
    BY <1>1, <1>2, NamesKept, StepDispatches, PTL DEF Spec, DispatcherSpec, D!Spec

-------------------------------------------------------------------------------
(* What a client knows when it has read all that is under way. *)

\* The first of some numbers.
LEMMA Smallest ==
    ASSUME NEW S \in SUBSET Nat, S # {}
    PROVE  \E i \in S : \A j \in S : i <= j
<1>1. \E i \in S : \A j \in S : ~(<<j, i>> \in OpToRel(<, Nat))
    BY NatLessThanWellFounded, WFMin
<1>2. \E i \in S : \A j \in S : ~(j < i)
    BY <1>1 DEF OpToRel
<1> QED
    BY <1>2

\* One message more.
Read(c, msg) == IF c.alive THEN Received(c, msg) ELSE c

\* The recursion that CaughtUp stands for, on the sets of positions.
FoldedAt(f, c, m, s) ==
    f[s] = IF s = {} THEN c ELSE Read(f[s \ {Max(s)}], m[Max(s)])

\* The recursion has a solution.
LEMMA FoldExists ==
    ASSUME NEW c, NEW m, NEW n \in Nat
    PROVE  \E f : /\ f = [s \in SUBSET (1..n) |-> f[s]]
                  /\ \A s \in SUBSET (1..n) : FoldedAt(f, c, m, s)
<1> DEFINE Good(k, f) == /\ f = [s \in SUBSET (1..n) |-> f[s]]
                         /\ \A s \in SUBSET (1..k) : FoldedAt(f, c, m, s)
           bad == {k \in 0..n : \A f : ~Good(k, f)}
<1> HIDE DEF Good
<1>1. SUFFICES ASSUME bad # {} PROVE FALSE
  <2>1. n \notin bad => \E f : Good(n, f)
      OBVIOUS
  <2> QED
      BY <2>1 DEF Good
<1>2. PICK k \in bad : \A j \in bad : k <= j
  <2>1. bad \in SUBSET Nat
      OBVIOUS
  <2> HIDE DEF bad
  <2> QED
      BY <1>1, <2>1, Smallest
<1>3. k # 0
  <2> DEFINE f == [s \in SUBSET (1..n) |-> c]
  <2>1. f = [s \in SUBSET (1..n) |-> f[s]]
      OBVIOUS
  <2>2. \A s \in SUBSET (1..0) : s = {} /\ f[s] = c
      OBVIOUS
  <2> HIDE DEF f
  <2>3. Good(0, f)
      BY <2>1, <2>2 DEF FoldedAt, Good
  <2> QED
      BY <1>2, <2>3
<1>4. k - 1 \in 0..n /\ k \in 1..n /\ k - 1 \notin bad
    BY <1>2, <1>3
<1>5. PICK f : Good(k - 1, f)
    BY <1>4
<1> DEFINE g == [s \in SUBSET (1..n) |-> IF k \in s THEN Read(f[s \ {k}], m[k]) ELSE f[s]]
<1>6. g = [s \in SUBSET (1..n) |-> g[s]]
    OBVIOUS
<1>7. ASSUME NEW s \in SUBSET (1..k)
      PROVE  FoldedAt(g, c, m, s)
  <2>1. s \in SUBSET (1..n) /\ \A x : s \ {x} \in SUBSET (1..n)
    <3>1. \A y \in 1..k : y \in 1..n
        BY <1>4
    <3> QED
        BY <3>1
  <2>2. CASE k \in s
    <3>1. Max(s) = k
      <4>1. \A y \in s : k >= y
          BY <1>4
      <4>2. \A x \in s : (\A y \in s : x >= y) => x = k
          BY <1>4, <2>2
      <4> QED
          BY <2>2, <4>1, <4>2 DEF Max
    <3>2. g[s] = Read(f[s \ {k}], m[k])
        BY <2>1, <2>2
    <3>3. g[s \ {k}] = f[s \ {k}]
        BY <2>1
    <3> HIDE DEF g
    <3> QED
        BY <2>2, <3>1, <3>2, <3>3 DEF FoldedAt
  <2>3. CASE k \notin s
    <3>1. s \in SUBSET (1..(k - 1))
        BY <1>4, <2>3
    <3>2. FoldedAt(f, c, m, s)
        BY <1>5, <3>1 DEF Good
    <3>3. \A x : g[s] = f[s] /\ g[s \ {x}] = f[s \ {x}]
        BY <2>1, <2>3
    <3> HIDE DEF g
    <3> QED
        BY <3>2, <3>3 DEF FoldedAt
  <2> QED
      BY <2>2, <2>3
<1>8. Good(k, g)
    BY <1>6, <1>7 DEF Good
<1> QED
    BY <1>2, <1>8

\* What a client knows after each of the messages, and in the end.
LEMMA Reading ==
    ASSUME NEW c, NEW m, Len(m) \in Nat, DOMAIN m = 1..Len(m)
    PROVE  \E v : /\ v[0] = c
                  /\ \A k \in 1..Len(m) : v[k] = Read(v[k - 1], m[k])
                  /\ CaughtUp(c, m) = v[Len(m)]
<1> DEFINE n == Len(m)
           Sol(f) == f = [s \in SUBSET (1..n) |->
                             IF s = {} THEN c ELSE Read(f[s \ {Max(s)}], m[Max(s)])]
           it == CHOOSE f : Sol(f)
<1>1. n \in Nat /\ DOMAIN m = 1..n
    OBVIOUS
<1>2. CaughtUp(c, m) = it[1..n]
  <2>1. CaughtUp(c, m) = (CHOOSE f : f = [s \in SUBSET DOMAIN m |->
            IF s = {} THEN c ELSE Read(f[s \ {Max(s)}], m[Max(s)])])[DOMAIN m]
      BY DEF CaughtUp, FoldLeft, MapThenFoldSet, Read
  <2> QED
      BY <1>1, <2>1
<1> HIDE DEF n
<1>3. \E f : Sol(f)
  <2>1. PICK f : /\ f = [s \in SUBSET (1..n) |-> f[s]]
                 /\ \A s \in SUBSET (1..n) : FoldedAt(f, c, m, s)
      BY <1>1, FoldExists
  <2>2. [s \in SUBSET (1..n) |-> f[s]]
          = [s \in SUBSET (1..n) |->
                IF s = {} THEN c ELSE Read(f[s \ {Max(s)}], m[Max(s)])]
      BY <2>1 DEF FoldedAt
  <2> QED
      BY <2>1, <2>2
<1>4. Sol(it)
    BY <1>3
<1> HIDE DEF it
<1>5. \A s \in SUBSET (1..n) : it[s] = IF s = {} THEN c ELSE Read(it[s \ {Max(s)}], m[Max(s)])
    BY <1>4
<1> DEFINE v == [k \in 0..n |-> it[1..k]]
<1>6. v[0] = c
  <2>1. 1..0 = {} /\ 1..0 \in SUBSET (1..n) /\ 0 \in 0..n
      BY <1>1
  <2>2. it[1..0] = c
      BY <1>5, <2>1
  <2> QED
      BY <2>1, <2>2
<1>7. ASSUME NEW k \in 1..n
      PROVE  v[k] = Read(v[k - 1], m[k])
  <2>1. Max(1..k) = k
    <3>1. k \in 1..k /\ \A y \in 1..k : k >= y
        BY <1>1
    <3>2. \A x \in 1..k : (\A y \in 1..k : x >= y) => x = k
        BY <1>1, <3>1
    <3> QED
        BY <3>1, <3>2 DEF Max
  <2>2. (1..k) \ {k} = 1..(k - 1) /\ 1..k # {} /\ 1..k \in SUBSET (1..n)
    <3>1. n \in Nat /\ k \in Nat /\ 1 <= k /\ k <= n
        BY <1>1
    <3>2. \A x : x \in (1..k) \ {k} <=> x \in 1..(k - 1)
        BY <3>1
    <3>3. \A x \in 1..k : x \in 1..n
        BY <3>1
    <3>4. (1..k) \ {k} = 1..(k - 1)
        BY <3>2
    <3>5. 1..k \in SUBSET (1..n)
        BY <3>3
    <3>6. k \in 1..k
        BY <3>1
    <3> QED
        BY <3>4, <3>5, <3>6
  <2>3. it[1..k] = Read(it[1..(k - 1)], m[k])
      BY <1>5, <2>1, <2>2
  <2>4. v[k] = it[1..k] /\ v[k - 1] = it[1..(k - 1)]
      BY <1>1
  <2> QED
      BY <2>3, <2>4
<1>8. CaughtUp(c, m) = v[n]
    BY <1>1, <1>2
<1> HIDE DEF v
<1> QED
    BY <1>6, <1>7, <1>8 DEF n

\* It is what the messages say, and nothing else.
LEMMA ReadingIs ==
    ASSUME NEW c, NEW m, Len(m) \in Nat, DOMAIN m = 1..Len(m), NEW w,
           w[0] = c, \A k \in 1..Len(m) : w[k] = Read(w[k - 1], m[k])
    PROVE  CaughtUp(c, m) = w[Len(m)]
<1>1. PICK v : /\ v[0] = c
               /\ \A k \in 1..Len(m) : v[k] = Read(v[k - 1], m[k])
               /\ CaughtUp(c, m) = v[Len(m)]
    BY Reading
<1> DEFINE other == {k \in 0..Len(m) : v[k] # w[k]}
<1>2. Len(m) \in Nat
    OBVIOUS
<1>3. other = {}
  <2> SUFFICES ASSUME other # {} PROVE FALSE
      OBVIOUS
  <2>1. other \in SUBSET Nat
      OBVIOUS
  <2>2. PICK k \in other : \A j \in other : k <= j
    <3> HIDE DEF other
    <3> QED
        BY <2>1, Smallest
  <2>3. k \in 1..Len(m) /\ k - 1 \in 0..Len(m)
      BY <1>1, <1>2
  <2>4. v[k - 1] = w[k - 1]
      BY <1>2, <2>2, <2>3
  <2> QED
      BY <1>1, <2>2, <2>3, <2>4
<1> QED
    BY <1>1, <1>2, <1>3

\* Nothing to read, and one message read.
LEMMA OneRead ==
    ASSUME NEW S, NEW c, NEW m \in Seq(S)
    PROVE  /\ CaughtUp(c, <<>>) = c
           /\ m # <<>> => CaughtUp(c, m) = CaughtUp(Read(c, Head(m)), Tail(m))
<1>1. CaughtUp(c, <<>>) = c
  <2> DEFINE none == <<>>
  <2>1. Len(none) = 0 /\ DOMAIN none = 1..0
      OBVIOUS
  <2> HIDE DEF none
  <2>2. PICK v : /\ v[0] = c
                 /\ \A k \in 1..Len(none) : v[k] = Read(v[k - 1], none[k])
                 /\ CaughtUp(c, none) = v[Len(none)]
      BY <2>1, Reading
  <2> QED
      BY <2>1, <2>2 DEF none
<1>2. ASSUME m # <<>>
      PROVE  CaughtUp(c, m) = CaughtUp(Read(c, Head(m)), Tail(m))
  <2>1. PICK v : /\ v[0] = c
                 /\ \A k \in 1..Len(m) : v[k] = Read(v[k - 1], m[k])
                 /\ CaughtUp(c, m) = v[Len(m)]
      BY Reading
  <2>2. /\ Len(m) \in Nat /\ Len(m) >= 1 /\ Head(m) = m[1]
        /\ Tail(m) \in Seq(S) /\ Len(Tail(m)) = Len(m) - 1
        /\ \A k \in 1..(Len(m) - 1) : Tail(m)[k] = m[k + 1]
      BY <1>2
  <2> DEFINE w == [k \in 0..(Len(m) - 1) |-> v[k + 1]]
  <2>3. w[0] = Read(c, Head(m))
      BY <2>1, <2>2
  <2>4. ASSUME NEW k \in 1..Len(Tail(m)) PROVE w[k] = Read(w[k - 1], Tail(m)[k])
    <3>1. /\ k \in 1..(Len(m) - 1) /\ k + 1 \in 1..Len(m)
          /\ k \in 0..(Len(m) - 1) /\ k - 1 \in 0..(Len(m) - 1)
          /\ k + 1 - 1 = k /\ k - 1 + 1 = k
        BY <2>2
    <3>2. w[k] = v[k + 1] /\ w[k - 1] = v[k] /\ Tail(m)[k] = m[k + 1]
        BY <2>2, <3>1
    <3>3. v[k + 1] = Read(v[k], m[k + 1])
        BY <2>1, <3>1
    <3> QED
        BY <3>2, <3>3
  <2>5. w[Len(Tail(m))] = v[Len(m)]
    <3>1. Len(m) - 1 \in 0..(Len(m) - 1) /\ Len(m) - 1 + 1 = Len(m)
        BY <2>2
    <3>2. w[Len(m) - 1] = v[Len(m)]
        BY <3>1
    <3> HIDE DEF w
    <3> QED
        BY <2>2, <3>2
  <2> HIDE DEF w
  <2>6. CaughtUp(Read(c, Head(m)), Tail(m)) = w[Len(Tail(m))]
    <3> DEFINE t == Tail(m)
    <3>1. /\ Len(t) \in Nat /\ DOMAIN t = 1..Len(t) /\ w[0] = Read(c, Head(m))
          /\ \A k \in 1..Len(t) : w[k] = Read(w[k - 1], t[k])
        BY <2>2, <2>3, <2>4
    <3> HIDE DEF t
    <3>2. CaughtUp(Read(c, Head(m)), t) = w[Len(t)]
        BY <3>1, ReadingIs
    <3> QED
        BY <3>2 DEF t
  <2> QED
      BY <2>1, <2>5, <2>6
<1> QED
    BY <1>1, <1>2

\* Messages are read one after the other, however many come at a time.
LEMMA ReadOn ==
    ASSUME NEW S, NEW c, NEW m \in Seq(S), NEW n \in Seq(S)
    PROVE  CaughtUp(c, m \o n) = CaughtUp(CaughtUp(c, m), n)
<1>1. /\ m \o n \in Seq(S) /\ Len(m \o n) = Len(m) + Len(n)
      /\ \A k \in 1..(Len(m) + Len(n)) :
            (m \o n)[k] = IF k <= Len(m) THEN m[k] ELSE n[k - Len(m)]
    BY ConcatProperties
<1>2. Len(m) \in Nat /\ Len(n) \in Nat
    OBVIOUS
<1> DEFINE b == m \o n
<1> HIDE DEF b
<1>3. PICK v : /\ v[0] = c
               /\ \A k \in 1..Len(b) : v[k] = Read(v[k - 1], b[k])
               /\ CaughtUp(c, b) = v[Len(b)]
  <2>1. Len(b) \in Nat /\ DOMAIN b = 1..Len(b)
    <3>1. b \in Seq(S)
        BY <1>1 DEF b
    <3> QED
        BY <3>1
  <2> QED
      BY <2>1, Reading
<1>4. CaughtUp(c, m) = v[Len(m)]
  <2>1. ASSUME NEW k \in 1..Len(m) PROVE v[k] = Read(v[k - 1], m[k])
    <3>1. k \in 1..(Len(m) + Len(n)) /\ k <= Len(m)
        BY <1>2
    <3>2. b[k] = m[k] /\ k \in 1..Len(b)
        BY <1>1, <3>1 DEF b
    <3> QED
        BY <1>3, <3>2
  <2> QED
      BY <1>3, <2>1, ReadingIs
<1> DEFINE w == [k \in 0..Len(n) |-> v[Len(m) + k]]
<1>5. w[0] = v[Len(m)] /\ w[Len(n)] = v[Len(b)]
    BY <1>1, <1>2 DEF b
<1>6. ASSUME NEW k \in 1..Len(n)
      PROVE  w[k] = Read(w[k - 1], n[k])
  <2>1. /\ Len(m) + k \in 1..(Len(m) + Len(n)) /\ ~(Len(m) + k <= Len(m))
        /\ Len(m) + k - Len(m) = k /\ Len(m) + k - 1 = Len(m) + (k - 1)
        /\ k \in 0..Len(n) /\ k - 1 \in 0..Len(n)
      BY <1>2
  <2>2. b[Len(m) + k] = n[k]
      BY <1>1, <2>1 DEF b
  <2>3. v[Len(m) + k] = Read(v[Len(m) + k - 1], b[Len(m) + k])
      BY <1>1, <1>3, <2>1 DEF b
  <2>4. w[k] = v[Len(m) + k] /\ w[k - 1] = v[Len(m) + (k - 1)]
      BY <2>1
  <2> HIDE DEF w
  <2> QED
      BY <2>1, <2>2, <2>3, <2>4
<1> HIDE DEF w
<1>7. CaughtUp(v[Len(m)], n) = w[Len(n)]
    BY <1>5, <1>6, ReadingIs
<1> QED
    BY <1>3, <1>4, <1>5, <1>7 DEF b

\* What every message preserves, all of them preserve.
LEMMA ReadingKeeps ==
    ASSUME NEW S, NEW c, NEW m \in Seq(S), NEW Keep, c \in Keep,
           \A d \in Keep : \A k \in 1..Len(m) : Read(d, m[k]) \in Keep
    PROVE  CaughtUp(c, m) \in Keep
<1>1. PICK v : /\ v[0] = c
               /\ \A k \in 1..Len(m) : v[k] = Read(v[k - 1], m[k])
               /\ CaughtUp(c, m) = v[Len(m)]
    BY Reading
<1> DEFINE out == {k \in 0..Len(m) : v[k] \notin Keep}
<1>2. Len(m) \in Nat
    OBVIOUS
<1>3. out = {}
  <2> SUFFICES ASSUME out # {} PROVE FALSE
      OBVIOUS
  <2>1. out \in SUBSET Nat
      OBVIOUS
  <2>2. PICK k \in out : \A j \in out : k <= j
    <3> HIDE DEF out
    <3> QED
        BY <2>1, Smallest
  <2>3. k \in 1..Len(m) /\ k - 1 \in 0..Len(m)
      BY <1>1, <1>2
  <2>4. v[k - 1] \in Keep
      BY <1>2, <2>2, <2>3
  <2> QED
      BY <1>1, <2>2, <2>3, <2>4
<1> QED
    BY <1>1, <1>2, <1>3

-------------------------------------------------------------------------------
(* Types. *)

\* The position of a name among the partners of a client.
LEMMA FirstKnown ==
    ASSUME NEW c \in Knowledge, NEW name, Known(c, name) # {}
    PROVE  First(Known(c, name)) \in DOMAIN c.chatroom_partners
<1>1. Known(c, name) \in SUBSET Nat /\ Known(c, name) \in SUBSET DOMAIN c.chatroom_partners
    BY DEF Known, Knowledge
<1>2. \E i \in Known(c, name) : \A j \in Known(c, name) : i <= j
    BY <1>1, Smallest
<1> QED
    BY <1>1, <1>2 DEF First

\* A client stays a client whatever it reads.
LEMMA ReceivedType ==
    ASSUME NEW c \in Knowledge, NEW msg \in D!Message
    PROVE  Received(c, msg) \in Knowledge
<1> USE DEF Knowledge
<1>1. \A d \in Knowledge : [d EXCEPT !.isInSession = FALSE] \in Knowledge
    OBVIOUS
<1>2. OutOfRoom(c) \in Knowledge /\ [OutOfRoom(c) EXCEPT !.isInSession = FALSE] \in Knowledge
  <2>1. <<>> \in Seq(Name)
      OBVIOUS
  <2>2. OutOfRoom(c) \in Knowledge
      BY <2>1 DEF OutOfRoom
  <2> QED
      BY <1>1, <2>2
<1>3. \A n \in Name : InSessionWith(c, n) \in Knowledge
    BY DEF InSessionWith
<1>4. \A n \in Name : userHasJoinedChatroom(c, n) \in Knowledge
  <2>1. \A n \in Name : Append(c.chatroom_partners, n) \in Seq(Name)
      OBVIOUS
  <2> QED
      BY <2>1 DEF userHasJoinedChatroom
<1>5. \A names \in Seq(Name) : gotChatroomUsersList(c, names) \in Knowledge
  <2>1. \A names \in Seq(Name) : c.chatroom_partners \o names \in Seq(Name)
      BY ConcatProperties
  <2> QED
      BY <2>1 DEF gotChatroomUsersList
<1>6. ASSUME NEW n \in Name
      PROVE  userHasLeftChatroom(c, n) \in Knowledge
  <2>1. CASE Known(c, n) # {}
    <3> DEFINE p == c.chatroom_partners
               i == First(Known(c, n))
    <3>1. p \in Seq(Name) /\ i \in 1..Len(p) /\ Len(p) \in Nat
        BY <2>1, FirstKnown
    <3> HIDE DEF i, p
    <3>2. SubSeq(p, 1, i - 1) \in Seq(Name) /\ SubSeq(p, i + 1, Len(p)) \in Seq(Name)
        BY <3>1
    <3>3. RemoveAt(p, i) \in Seq(Name)
        BY <3>2, ConcatProperties DEF RemoveAt
    <3>4. [c EXCEPT !.chatroom_partners = RemoveAt(@, First(Known(c, n)))] \in Knowledge
        BY <3>3 DEF p, i
    <3> QED
        BY <1>2, <2>1, <3>4 DEF userHasLeftChatroom
  <2>2. CASE Known(c, n) = {}
      BY <1>2, <2>2 DEF userHasLeftChatroom
  <2> QED
      BY <2>1, <2>2
<1>7. [c EXCEPT !.isInSession = TRUE, !.isInChatRoom = TRUE, !.isRoomOwner = TRUE] \in Knowledge
    OBVIOUS
<1>8. /\ msg.cmd \in D!Naming => msg.names[1] \in Name
      /\ msg.cmd = "CHATROOM_LIST" => msg.names \in Seq(Name)
    BY DEF D!Message, D!Naming, D!Listing, D!Bare
<1>9. msg.cmd \in {"INCOMIMG_SESSION", "TARGET_IP_AND_PORT", "NEW_USER_TO_CHATROOM",
                   "USER_HAS_LEFT_CHATROOM"} => msg.names[1] \in Name
    BY <1>8 DEF D!Naming
<1>10. [chatroomWasClosed(c) EXCEPT !.isInSession = FALSE] \in Knowledge
    BY <1>2 DEF chatroomWasClosed
<1> HIDE DEF Knowledge
<1> DEFINE opened == InSessionWith(c, msg.names[1])
           joined == userHasJoinedChatroom(c, msg.names[1])
           gone == userHasLeftChatroom(c, msg.names[1])
           listed == gotChatroomUsersList(c, msg.names)
           refused == [c EXCEPT !.isInSession = FALSE]
           created == [c EXCEPT !.isInSession = TRUE, !.isInChatRoom = TRUE, !.isRoomOwner = TRUE]
           ended == [chatroomWasClosed(c) EXCEPT !.isInSession = FALSE]
<1>11. /\ msg.cmd \in {"INCOMIMG_SESSION", "TARGET_IP_AND_PORT"} => opened \in Knowledge
       /\ msg.cmd = "NEW_USER_TO_CHATROOM" => joined \in Knowledge
       /\ msg.cmd = "USER_HAS_LEFT_CHATROOM" => gone \in Knowledge
       /\ msg.cmd = "CHATROOM_LIST" => listed \in Knowledge
       /\ refused \in Knowledge /\ created \in Knowledge /\ ended \in Knowledge
    BY <1>1, <1>3, <1>4, <1>5, <1>6, <1>7, <1>8, <1>9, <1>10
<1>12. Received(c, msg) =
          CASE msg.cmd \in {"INCOMIMG_SESSION", "TARGET_IP_AND_PORT"} -> opened
            [] msg.cmd \in Refusals -> refused
            [] msg.cmd = "CHATROOM_CREATED" -> created
            [] msg.cmd = "CHATROOM_WAS_CLOSED" -> ended
            [] msg.cmd = "NEW_USER_TO_CHATROOM" -> joined
            [] msg.cmd = "USER_HAS_LEFT_CHATROOM" -> gone
            [] msg.cmd = "CHATROOM_LIST" -> listed
            [] OTHER -> c
    BY DEF Received
<1> HIDE DEF opened, joined, gone, listed, refused, created, ended
<1> QED
    BY <1>11, <1>12

\* The types of what is not the dispatcher's.
Typed == /\ client \in [Sock -> Knowledge \cup {NULL}]
         /\ mail \in [Sock -> Seq(D!Message)]
         /\ left \subseteq {s \in Sock : client[s] # NULL}

\* A client that knows something else is still one.
LEMMA ClientChanged ==
    ASSUME Typed, NEW s \in Sock, NEW c \in Knowledge, client' = [client EXCEPT ![s] = c]
    PROVE  /\ client' \in [Sock -> Knowledge \cup {NULL}]
           /\ client'[s] = c /\ client'[s] # NULL
           /\ \A t \in Sock : t # s => client'[t] = client[t]
           /\ {t \in Sock : client[t] # NULL} \subseteq {t \in Sock : client'[t] # NULL}
<1>1. c # NULL
    BY NullIsNoClient
<1>2. \A t \in Sock : client'[t] = IF t = s THEN c ELSE client[t]
    BY DEF Typed
<1> QED
    BY <1>1, <1>2 DEF Typed

LEMMA TypesKept ==
    ASSUME NamesTravel, Typed, D!TypeOK', [Next]_vars
    PROVE  Typed'
<1>1. ASSUME NEW s \in Sock, \/ \E peer \in Name : Open(s, peer)
                             \/ \E r \in Room : Enter(s, r)
      PROVE  Typed'
    BY <1>1 DEF Open, Enter, Request, Typed
<1>2. ASSUME NEW s \in Sock, CloseOpen(s)
      PROVE  Typed'
  <2>1. client[s] \in Knowledge
      BY <1>2 DEF CloseOpen, AtKeyboard, Typed
  <2>2. closeSession(client[s]) \in Knowledge
      BY <2>1 DEF closeSession, Knowledge
  <2>3. client' = [client EXCEPT ![s] = closeSession(client[s])]
      BY <1>2 DEF CloseOpen
  <2>4. /\ client' \in [Sock -> Knowledge \cup {NULL}]
        /\ {t \in Sock : client[t] # NULL} \subseteq {t \in Sock : client'[t] # NULL}
      BY <2>2, <2>3, ClientChanged
  <2>5. UNCHANGED <<mail, left>>
      BY <1>2 DEF CloseOpen, Request
  <2> QED
      BY <2>4, <2>5 DEF Typed
<1>3. ASSUME NEW s \in Sock, Disconnect(s) \/ Die(s)
      PROVE  Typed'
  <2>1. <<>> \in Seq(D!Message) /\ client[s] # NULL
      BY <1>3 DEF Disconnect, Die, AtKeyboard
  <2>2. /\ mail' = [mail EXCEPT ![s] = <<>>] /\ left' = left \cup {s}
        /\ UNCHANGED client
      BY <1>3 DEF Disconnect, Die
  <2> QED
      BY <2>1, <2>2 DEF Typed
<1>4. ASSUME NEW s \in Sock, Receive(s)
      PROVE  Typed'
  <2> DEFINE c == Received(client[s], Head(mail[s]))
  <2>1. client[s] \in Knowledge /\ mail[s] \in Seq(D!Message) /\ mail[s] # <<>>
      BY <1>4 DEF Receive, Typed
  <2>2. c \in Knowledge /\ Tail(mail[s]) \in Seq(D!Message) /\ <<>> \in Seq(D!Message)
      BY <2>1, ReceivedType
  <2>3. /\ client' = [client EXCEPT ![s] = c]
        /\ mail' \in {[mail EXCEPT ![s] = Tail(mail[s])], [mail EXCEPT ![s] = <<>>]}
        /\ left' \in {left, left \cup {s}}
      BY <1>4 DEF Receive
  <2> HIDE DEF c
  <2>4. mail' \in [Sock -> Seq(D!Message)]
      BY <2>2, <2>3 DEF Typed
  <2>5. client' \in [Sock -> Knowledge \cup {NULL}] /\ left' \subseteq {t \in Sock : client'[t] # NULL}
      BY <2>2, <2>3, ClientChanged DEF Typed
  <2> QED
      BY <2>4, <2>5 DEF Typed
<1>5. ASSUME NEW s \in Sock, NEW n \in Name, LogIn(s, n)
      PROVE  Typed'
  <2>1. LoggedIn(n) \in Knowledge
    <3>1. <<>> \in Seq(Name)
        OBVIOUS
    <3> QED
        BY <3>1 DEF LoggedIn, Knowledge
  <2>2. client' = [client EXCEPT ![s] = LoggedIn(n)]
      BY <1>5 DEF LogIn
  <2> QED
      BY <1>5, <2>1, <2>2, ClientChanged DEF LogIn, Typed
<1>6. ASSUME NEW s \in Sock, Dispatch(s)
      PROVE  Typed'
  <2>1. sent' \in [Sock -> Seq(D!Message)]
      BY DEF D!TypeOK
  <2>2. \A t \in Sock : (IF t \in left THEN <<>> ELSE mail[t] \o sent'[t]) \in Seq(D!Message)
    <3>1. ASSUME NEW t \in Sock PROVE mail[t] \o sent'[t] \in Seq(D!Message)
        BY <2>1, ConcatProperties DEF Typed
    <3>2. <<>> \in Seq(D!Message)
        OBVIOUS
    <3> QED
        BY <3>1, <3>2
  <2> QED
      BY <1>6, <2>2 DEF Dispatch, Typed
<1>7. CASE UNCHANGED vars
    BY <1>7 DEF vars, Typed
<1> QED
    BY <1>1, <1>2, <1>3, <1>4, <1>5, <1>6, <1>7 DEF Next

-------------------------------------------------------------------------------
(* The dispatcher of this module and the one that the theorems are about are *)
(* two instances of one module: what is true of one is true of the other.    *)

LEMMA SameHandlers ==
    ASSUME NEW s \in Sock
    PROVE  /\ \A n, m \in Name : D!OpenSession(s, n, m) => Sessions!OpenSession(s, n, m)
           /\ D!CloseSession(s) => Sessions!CloseSession(s)
           /\ \A n \in Name : D!AddUser(s, n) => Sessions!AddUser(s, n)
           /\ D!LeaveChatroom(s) => Sessions!LeaveChatroom(s)
           /\ D!UserExit(s) => Sessions!UserExit(s)
           /\ D!ListUsers(s) => Sessions!ListUsers(s)
           /\ D!ListChatrooms(s) => Sessions!ListChatrooms(s)
<1>1. ASSUME NEW n \in Name, NEW m \in Name, D!OpenSession(s, n, m)
      PROVE  Sessions!OpenSession(s, n, m)
    BY <1>1
    DEF D!Serving, Sessions!Serving, D!UserOf, Sessions!UserOf, D!Connected,
        Sessions!Connected, D!Range, Sessions!Range, D!userVars, Sessions!userVars,
        D!roomVars, Sessions!roomVars, D!sockVars, Sessions!sockVars, D!Answer,
        Sessions!Answer, D!Msg, Sessions!Msg, D!To, Sessions!To, D!Silent,
        Sessions!Silent, D!Crash, Sessions!Crash, D!Then, Sessions!Then,
        D!OpenSession, Sessions!OpenSession
<1>2. D!CloseSession(s) => Sessions!CloseSession(s)
    BY
    DEF D!Serving, Sessions!Serving, D!UserOf, Sessions!UserOf, D!Connected,
        Sessions!Connected, D!Range, Sessions!Range, D!userVars, Sessions!userVars,
        D!roomVars, Sessions!roomVars, D!sockVars, Sessions!sockVars, D!Answer,
        Sessions!Answer, D!Msg, Sessions!Msg, D!To, Sessions!To, D!Silent,
        Sessions!Silent, D!Crash, Sessions!Crash, D!Entries, Sessions!Entries,
        D!Partner, Sessions!Partner, D!Ended, Sessions!Ended, D!SessionOver,
        Sessions!SessionOver, D!CloseSession, Sessions!CloseSession
<1>3. ASSUME NEW n \in Name, D!AddUser(s, n)
      PROVE  Sessions!AddUser(s, n)
    BY <1>3
    DEF D!AddUser, Sessions!AddUser, D!Range, Sessions!Range, D!checkUser,
        Sessions!checkUser, D!Silent, Sessions!Silent, D!roomVars, Sessions!roomVars
<1>4. D!LeaveChatroom(s) => Sessions!LeaveChatroom(s)
    BY
    DEF D!Serving, Sessions!Serving, D!UserOf, Sessions!UserOf, D!Connected,
        Sessions!Connected, D!Range, Sessions!Range, D!userVars, Sessions!userVars,
        D!roomVars, Sessions!roomVars, D!sockVars, Sessions!sockVars, D!Answer,
        Sessions!Answer, D!Msg, Sessions!Msg, D!To, Sessions!To, D!Silent,
        Sessions!Silent, D!Crash, Sessions!Crash, D!Missing, Sessions!Missing,
        D!Then, Sessions!Then, D!Broadcast, Sessions!Broadcast, D!Cardinality,
        Sessions!Cardinality, D!InRoom, Sessions!InRoom, D!Owns, Sessions!Owns,
        D!RoomErased, Sessions!RoomErased, D!Disconnected, Sessions!Disconnected,
        D!UserRemoved, Sessions!UserRemoved, D!remove_user, Sessions!remove_user,
        D!Picked, Sessions!Picked, D!Kept, Sessions!Kept, D!Erased, Sessions!Erased,
        D!Rank, Sessions!Rank,
        D!LeaveAsOwner, Sessions!LeaveAsOwner, D!LeaveAsMember,
        Sessions!LeaveAsMember, D!LeaveNothing, Sessions!LeaveNothing,
        D!LeaveChatroom, Sessions!LeaveChatroom
<1>5. D!UserExit(s) => Sessions!UserExit(s)
    BY
    DEF D!Serving, Sessions!Serving, D!UserOf, Sessions!UserOf, D!Connected,
        Sessions!Connected, D!Range, Sessions!Range, D!userVars, Sessions!userVars,
        D!roomVars, Sessions!roomVars, D!sockVars, Sessions!sockVars, D!Answer,
        Sessions!Answer, D!Msg, Sessions!Msg, D!To, Sessions!To, D!Silent,
        Sessions!Silent, D!Crash, Sessions!Crash, D!Missing, Sessions!Missing,
        D!Then, Sessions!Then, D!Broadcast, Sessions!Broadcast, D!Cardinality,
        Sessions!Cardinality, D!InRoom, Sessions!InRoom, D!Owns, Sessions!Owns,
        D!RoomErased, Sessions!RoomErased, D!Disconnected, Sessions!Disconnected,
        D!UserRemoved, Sessions!UserRemoved, D!remove_user, Sessions!remove_user,
        D!Picked, Sessions!Picked, D!Kept, Sessions!Kept, D!Erased, Sessions!Erased,
        D!Rank, Sessions!Rank,
        D!UserGone, Sessions!UserGone, D!Bye, Sessions!Bye, D!Entries,
        Sessions!Entries, D!Partner, Sessions!Partner, D!Ended, Sessions!Ended,
        D!SessionOver, Sessions!SessionOver, D!ExitAsOwner, Sessions!ExitAsOwner,
        D!ExitAsMember, Sessions!ExitAsMember, D!ExitFromSession,
        Sessions!ExitFromSession, D!ExitIdle, Sessions!ExitIdle, D!BrokenPipe,
        Sessions!BrokenPipe, D!UserExit, Sessions!UserExit
<1>6. /\ D!ListUsers(s) => Sessions!ListUsers(s)
      /\ D!ListChatrooms(s) => Sessions!ListChatrooms(s)
    BY
    DEF D!Serving, Sessions!Serving, D!UserOf, Sessions!UserOf, D!Connected,
        Sessions!Connected, D!Range, Sessions!Range, D!userVars, Sessions!userVars,
        D!roomVars, Sessions!roomVars, D!sockVars, Sessions!sockVars, D!Answer,
        Sessions!Answer, D!Msg, Sessions!Msg, D!To, Sessions!To, D!Silent,
        Sessions!Silent, D!Sorted, Sessions!Sorted, D!Rank, Sessions!Rank,
        D!Cardinality, Sessions!Cardinality, D!ListUsers, Sessions!ListUsers,
        D!ListChatrooms, Sessions!ListChatrooms
<1> QED
    BY <1>1, <1>2, <1>3, <1>4, <1>5, <1>6

LEMMA SameRoomHandlers ==
    ASSUME NEW s \in Sock, NEW r \in Room
    PROVE  /\ D!JoinChatroom(s, r) => Sessions!JoinChatroom(s, r)
           /\ D!CreateChatroom(s, r) => Sessions!CreateChatroom(s, r)
           /\ D!ListChatroomUsers(s, r) => Sessions!ListChatroomUsers(s, r)
<1>1. D!JoinChatroom(s, r) => Sessions!JoinChatroom(s, r)
    BY
    DEF D!Serving, Sessions!Serving, D!UserOf, Sessions!UserOf, D!Connected,
        Sessions!Connected, D!Range, Sessions!Range, D!userVars, Sessions!userVars,
        D!roomVars, Sessions!roomVars, D!sockVars, Sessions!sockVars, D!Answer,
        Sessions!Answer, D!Msg, Sessions!Msg, D!To, Sessions!To, D!Silent,
        Sessions!Silent, D!Crash, Sessions!Crash, D!Missing, Sessions!Missing,
        D!Then, Sessions!Then, D!Broadcast, Sessions!Broadcast, D!Cardinality,
        Sessions!Cardinality, D!Enter, Sessions!Enter, D!add_user,
        Sessions!add_user, D!JoinChatroom, Sessions!JoinChatroom
<1>2. D!CreateChatroom(s, r) => Sessions!CreateChatroom(s, r)
    BY
    DEF D!Serving, Sessions!Serving, D!UserOf, Sessions!UserOf, D!Connected,
        Sessions!Connected, D!Range, Sessions!Range, D!userVars, Sessions!userVars,
        D!roomVars, Sessions!roomVars, D!sockVars, Sessions!sockVars, D!Answer,
        Sessions!Answer, D!Msg, Sessions!Msg, D!To, Sessions!To, D!Silent,
        Sessions!Silent, D!Fresh, Sessions!Fresh, D!Enter, Sessions!Enter,
        D!CreateChatroom, Sessions!CreateChatroom
<1>3. D!ListChatroomUsers(s, r) => Sessions!ListChatroomUsers(s, r)
    BY
    DEF D!Serving, Sessions!Serving, D!UserOf, Sessions!UserOf, D!Connected,
        Sessions!Connected, D!Range, Sessions!Range, D!userVars, Sessions!userVars,
        D!roomVars, Sessions!roomVars, D!sockVars, Sessions!sockVars, D!Answer,
        Sessions!Answer, D!Msg, Sessions!Msg, D!To, Sessions!To, D!Silent,
        Sessions!Silent, D!ListChatroomUsers, Sessions!ListChatroomUsers
<1> QED
    BY <1>1, <1>2, <1>3

LEMMA SameStep == D!Next => Sessions!Next
<1>1. ASSUME NEW s \in Sock, D!Handle(s) PROVE Sessions!Handle(s)
    BY <1>1, SameHandlers, SameRoomHandlers DEF D!Handle, Sessions!Handle
<1> QED
    BY <1>1, SameHandlers DEF D!Next, Sessions!Next

LEMMA SameConstants ==
    Sessions!NamesAreStrings /\ Sessions!NullIsNothing /\ Sessions!MaxListedIsNat
BY DispatcherConstants
   DEF D!NamesAreStrings, Sessions!NamesAreStrings, D!NullIsNothing, Sessions!NullIsNothing,
       D!MaxListedIsNat, Sessions!MaxListedIsNat, D!IsFiniteSet, Sessions!IsFiniteSet

LEMMA SameInit == D!Init => Sessions!Init
BY DEF D!Init, Sessions!Init, D!Silent, Sessions!Silent

LEMMA SameViews ==
    /\ \A u : D!Entries(u) = Sessions!Entries(u) /\ D!Partner(u) = Sessions!Partner(u)
    /\ D!TypeOK <=> Sessions!TypeOK
    /\ D!BusyInOneSession <=> Sessions!BusyInOneSession
    /\ D!Message = Sessions!Message
BY DEF D!TypeOK, Sessions!TypeOK, D!Message, Sessions!Message, D!Naming, Sessions!Naming,
       D!Listing, Sessions!Listing, D!Bare, Sessions!Bare,
       D!ChatRoomObject, Sessions!ChatRoomObject,
       D!BusyInOneSession, Sessions!BusyInOneSession, D!Connected, Sessions!Connected,
       D!Entries, Sessions!Entries, D!Partner, Sessions!Partner,
       D!Cardinality, Sessions!Cardinality

\* The invariants of the dispatcher.
DispatcherInv == Sessions!IInv /\ Sessions!SessionsKeptApart

LEMMA DispatcherStep ==
    ASSUME NamesTravel, DispatcherInv, [Next]_vars
    PROVE  DispatcherInv'
<1>1. [Sessions!Next]_(Sessions!vars)
  <2>1. UNCHANGED D!vars => UNCHANGED Sessions!vars
      BY DEF D!vars, Sessions!vars, D!userVars, Sessions!userVars,
             D!roomVars, Sessions!roomVars, D!sockVars, Sessions!sockVars
  <2> QED
      BY <2>1, StepDispatches, SameStep
<1>2. Sessions!IInv'
    BY <1>1, Sessions!StepPreserves, SameConstants DEF DispatcherInv
<1>3. Sessions!SessionsKeptApart'
    BY <1>1, Sessions!SessionsStayApart, SameConstants DEF DispatcherInv
<1> QED
    BY <1>2, <1>3 DEF DispatcherInv

\* What is proved of the dispatcher holds in the composition.
LEMMA DispatcherHolds == Spec => [](NamesTravel /\ DispatcherInv)
<1>1. Init => NamesTravel
    BY DEF Init, NamesTravel, Named
<1>2. Init => DispatcherInv
    BY SameInit, Sessions!InitEstablishes, Sessions!NoSession, SameConstants
    DEF Init, DispatcherInv
<1> QED
    BY <1>1, <1>2, NamesKept, DispatcherStep, PTL DEF Spec

LEMMA TypesHold == Spec => [](NamesTravel /\ DispatcherInv /\ Typed)
<1>1. Init => Typed
    BY DEF Init, Typed
<1>2. NamesTravel /\ Typed /\ D!TypeOK' /\ [Next]_vars => Typed'
    BY TypesKept
<1>3. DispatcherInv => D!TypeOK
    BY SameViews DEF DispatcherInv, Sessions!IInv
<1> QED
    BY <1>1, <1>2, <1>3, DispatcherHolds, PTL DEF Spec

\* Everything that the composition keeps, under way and on either side of the
\* connections, has its type; names come only from clients, and clients keep theirs.
THEOREM TypeCorrect == Spec => []TypeOK
<1>1. NamesTravel /\ DispatcherInv /\ Typed => TypeOK
    BY SameViews DEF DispatcherInv, Sessions!IInv, NamesTravel, Typed, TypeOK
<1> QED
    BY <1>1, TypesHold, PTL

\* No order of opening, closing and disconnecting leaves a user in two sessions,
\* whatever the clients believe as they type.
THEOREM SessionsApart == Spec => []BusyInOneSession
<1>1. DispatcherInv => BusyInOneSession
    BY Sessions!InOneSession, SameViews, SameConstants DEF DispatcherInv, BusyInOneSession
<1> QED
    BY <1>1, DispatcherHolds, PTL

-------------------------------------------------------------------------------
(* While nobody opens a room, whoever is in a session will know it. *)

\* What the server and the channels have of a socket nobody has logged in on.
Unused(s) == /\ link[s] = <<>> /\ mail[s] = <<>>
             /\ \A n \in Name : users_map[n] # s

\* The server knows client s by its name and serves it; the client is alive and has not
\* asked to leave.
Attached(s) == /\ users_map[client[s].client_name] = s
               /\ client[s].alive
               /\ \A i \in DOMAIN link[s] : link[s][i].cmd # "EXIT"

\* Nothing that client s knows or will read is about a room.
KnowsNoRoom(s) == /\ ~client[s].isInChatRoom
                  /\ \A i \in DOMAIN mail[s] : mail[s][i].cmd \notin Sessions!RoomNews

\* The session of user u is the one that knowledge c is about, unless the end of it is
\* among the requests.
Knows(c, u, requests) ==
    Sessions!Entries(u) # {} =>
        \/ c.isInSession /\ c.session_partner = Sessions!Partner(u)
        \/ \E i \in DOMAIN requests : requests[i].cmd = "CLOSE_SESSION_WITH_USER"

Acquainted ==
    /\ \A s \in Sock : client[s] = NULL => Unused(s)
    /\ \A s \in Present : /\ Attached(s) /\ KnowsNoRoom(s)
                          /\ Knows(After(s), client[s].client_name, link[s])

\* A client in no room that has read messages that are about none.
RoomLess(n) == {c \in Knowledge : c.alive /\ ~c.isInChatRoom /\ c.client_name = n}

LEMMA OneMessage ==
    ASSUME NEW n, NEW c \in RoomLess(n), NEW msg \in D!Message,
           msg.cmd \notin Sessions!RoomNews
    PROVE  /\ Read(c, msg) \in RoomLess(n)
           /\ msg.cmd \in Sessions!Opening =>
                  /\ Read(c, msg).isInSession
                  /\ Read(c, msg).session_partner = msg.names[1]
           /\ msg.cmd \notin Sessions!Opening \cup Sessions!Ending => Read(c, msg) = c
<1>1. c \in Knowledge /\ c.alive /\ ~c.isInChatRoom /\ c.client_name = n
    BY DEF RoomLess
<1>2. Read(c, msg) = Received(c, msg)
    BY <1>1 DEF Read
<1>3. /\ msg.cmd # "CHATROOM_CREATED" /\ msg.cmd # "CHATROOM_WAS_CLOSED"
      /\ msg.cmd # "NEW_USER_TO_CHATROOM" /\ msg.cmd # "USER_HAS_LEFT_CHATROOM"
      /\ msg.cmd # "CHATROOM_LIST"
    BY DEF Sessions!RoomNews
<1>4. Received(c, msg) \in Knowledge
    BY <1>1, ReceivedType
<1>5. CASE msg.cmd \in Sessions!Opening
  <2>1. Received(c, msg) =
            [c EXCEPT !.isInSession = TRUE, !.session_partner = msg.names[1]]
    <3>1. msg.cmd \in {"INCOMIMG_SESSION", "TARGET_IP_AND_PORT"}
        BY <1>5 DEF Sessions!Opening
    <3>2. Received(c, msg) = InSessionWith(c, msg.names[1])
        BY <3>1 DEF Received, Refusals
    <3> QED
        BY <3>2 DEF InSessionWith
  <2>2. Received(c, msg) \in RoomLess(n)
      BY <1>1, <1>4, <2>1 DEF RoomLess, Knowledge
  <2>3. /\ Received(c, msg).isInSession
        /\ Received(c, msg).session_partner = msg.names[1]
      BY <1>1, <2>1 DEF Knowledge
  <2> QED
      BY <1>2, <1>5, <2>2, <2>3
<1>6. CASE msg.cmd \in Refusals
  <2>1. msg.cmd \notin Sessions!Opening /\ msg.cmd \in Sessions!Ending
      BY <1>6 DEF Refusals, Sessions!Opening, Sessions!Ending
  <2>2. Received(c, msg) = [c EXCEPT !.isInSession = FALSE]
      BY <1>6 DEF Received, Refusals
  <2>3. Received(c, msg) \in RoomLess(n)
      BY <1>1, <1>4, <2>2 DEF RoomLess, Knowledge
  <2> QED
      BY <1>2, <2>1, <2>3
<1>7. CASE msg.cmd \notin Sessions!Opening /\ msg.cmd \notin Refusals
  <2>1. Received(c, msg) = c
      BY <1>3, <1>7 DEF Received, Sessions!Opening
  <2>2. c \in RoomLess(n)
      OBVIOUS
  <2> QED
      BY <1>2, <1>7, <2>1, <2>2
<1> QED
    BY <1>5, <1>6, <1>7

\* What client s knows, will know and has to read, while it is acquainted.
LEMMA PresentClient ==
    ASSUME Typed, Acquainted, NEW s \in Present
    PROVE  /\ s \in Sock /\ s \notin left /\ ~crashed
           /\ client[s] \in Knowledge
           /\ client[s].client_name \in Name
           /\ client[s] \in RoomLess(client[s].client_name)
           /\ mail[s] \in Seq(D!Message)
           /\ After(s) \in RoomLess(client[s].client_name)
<1>1. s \in Sock /\ s \notin left /\ ~crashed /\ client[s] # NULL
    BY DEF Present
<1>2. client[s] \in Knowledge /\ mail[s] \in Seq(D!Message)
    BY <1>1 DEF Typed
<1> DEFINE n == client[s].client_name
           m == mail[s]
<1>3. n \in Name
    BY <1>2 DEF Knowledge
<1>4. client[s] \in RoomLess(n)
    BY <1>2 DEF Acquainted, Attached, KnowsNoRoom, RoomLess
<1>5. \A i \in 1..Len(m) : m[i] \in D!Message /\ m[i].cmd \notin Sessions!RoomNews
    BY <1>2 DEF Acquainted, KnowsNoRoom
<1> HIDE DEF n, m
<1>6. \A d \in RoomLess(n) : \A i \in 1..Len(m) : Read(d, m[i]) \in RoomLess(n)
    BY <1>5, OneMessage
<1>7. CaughtUp(client[s], m) \in RoomLess(n)
  <2>1. m \in Seq(D!Message)
      BY <1>2 DEF m
  <2> QED
      BY <1>4, <1>6, <2>1, ReadingKeeps
<1> QED
    BY <1>1, <1>2, <1>3, <1>4, <1>7 DEF After, n, m

\* Requests that are added or, but for the end of the session, answered.
LEMMA RequestsAdded ==
    ASSUME NEW q \in Seq(Asked), NEW req \in Asked
    PROVE  /\ Len(Append(q, req)) = Len(q) + 1
           /\ \A i \in DOMAIN q : i \in DOMAIN Append(q, req) /\ Append(q, req)[i] = q[i]
           /\ \A i \in DOMAIN Append(q, req) : i \in DOMAIN q \/ Append(q, req)[i] = req
           /\ \E i \in DOMAIN Append(q, req) : Append(q, req)[i] = req
<1>1. /\ Len(q) \in Nat /\ DOMAIN q = 1..Len(q)
      /\ DOMAIN Append(q, req) = 1..(Len(q) + 1) /\ Len(Append(q, req)) = Len(q) + 1
      /\ \A i \in 1..(Len(q) + 1) :
            Append(q, req)[i] = IF i <= Len(q) THEN q[i] ELSE req
    OBVIOUS
<1>2. /\ \A i \in 1..Len(q) : i \in 1..(Len(q) + 1) /\ i <= Len(q)
      /\ \A i \in 1..(Len(q) + 1) : i \in 1..Len(q) \/ ~(i <= Len(q))
      /\ Len(q) + 1 \in 1..(Len(q) + 1) /\ ~(Len(q) + 1 <= Len(q))
    BY <1>1
<1> QED
    BY <1>1, <1>2

LEMMA RequestAnswered ==
    ASSUME NEW q \in Seq(Asked), q # <<>>
    PROVE  /\ \A i \in DOMAIN q : q[i] = Head(q) \/ \E j \in DOMAIN Tail(q) : Tail(q)[j] = q[i]
           /\ \A j \in DOMAIN Tail(q) : \E i \in DOMAIN q : q[i] = Tail(q)[j]
           /\ \E i \in DOMAIN q : q[i] = Head(q)
<1>1. /\ Len(q) \in Nat /\ Len(q) >= 1 /\ DOMAIN q = 1..Len(q) /\ Head(q) = q[1]
      /\ Tail(q) \in Seq(Asked) /\ Len(Tail(q)) = Len(q) - 1
      /\ DOMAIN Tail(q) = 1..(Len(q) - 1)
      /\ \A k \in 1..(Len(q) - 1) : Tail(q)[k] = q[k + 1]
    OBVIOUS
<1>2. ASSUME NEW i \in DOMAIN q
      PROVE  q[i] = Head(q) \/ \E j \in DOMAIN Tail(q) : Tail(q)[j] = q[i]
  <2>1. i = 1 \/ (i - 1 \in 1..(Len(q) - 1) /\ i - 1 + 1 = i)
      BY <1>1
  <2> QED
      BY <1>1, <2>1
<1>3. \A k \in 1..(Len(q) - 1) : k + 1 \in 1..Len(q)
    BY <1>1
<1>4. 1 \in 1..Len(q)
    BY <1>1
<1> QED
    BY <1>1, <1>2, <1>3, <1>4

\* What a client knows and has to read, and its session, if none of it changes.
LEMMA StillAcquainted ==
    ASSUME Typed, Acquainted, NEW s \in Present,
           client'[s] = client[s], mail'[s] = mail[s],
           UNCHANGED <<users_map, in_session_with>>,
           \A i \in DOMAIN link'[s] : link'[s][i].cmd # "EXIT",
           \A i \in DOMAIN link[s] : \E j \in DOMAIN link'[s] : link'[s][j] = link[s][i]
    PROVE  /\ Attached(s)' /\ KnowsNoRoom(s)'
           /\ Knows(After(s), client[s].client_name, link[s])'
<1>1. Attached(s)'
    BY DEF Acquainted, Attached
<1>2. KnowsNoRoom(s)'
    BY DEF Acquainted, KnowsNoRoom
<1> DEFINE u == client[s].client_name
<1>3. After(s)' = After(s)
    BY DEF After
<1>4. \A n : Sessions!Entries(n)' = Sessions!Entries(n) /\ Sessions!Partner(n)' = Sessions!Partner(n)
    BY DEF Sessions!Entries, Sessions!Partner
<1>5. Knows(After(s), client[s].client_name, link[s])
    BY DEF Acquainted
<1>6. Knows(After(s), client[s].client_name, link[s])'
    BY <1>3, <1>4, <1>5 DEF Knows
<1> QED
    BY <1>1, <1>2, <1>6

\* A client that the step is not about.
LEMMA NotConcerned ==
    ASSUME Typed, Acquainted, NEW s \in Present,
           client'[s] = client[s], mail'[s] = mail[s], link'[s] = link[s],
           UNCHANGED <<users_map, in_session_with>>
    PROVE  /\ Attached(s)' /\ KnowsNoRoom(s)'
           /\ Knows(After(s), client[s].client_name, link[s])'
<1>1. \A i \in DOMAIN link[s] : link[s][i].cmd # "EXIT"
    BY DEF Acquainted, Attached
<1> QED
    BY <1>1, StillAcquainted

\* What users type, and what clients read.
LEMMA ClientsStayAcquainted ==
    ASSUME Room = {}, NamesTravel, Typed, Acquainted, NEW s \in Sock,
           \/ \E peer \in Name : Open(s, peer)
           \/ \E r \in Room : Enter(s, r)
           \/ CloseOpen(s) \/ Disconnect(s) \/ Die(s) \/ Receive(s)
    PROVE  Acquainted'
<1>0. /\ UNCHANGED serverVars
      /\ client[s] # NULL
      /\ \A t \in Sock : t # s => /\ client'[t] = client[t]
                                  /\ link'[t] = link[t] /\ mail'[t] = mail[t]
  <2>1. link \in [Sock -> Seq(Asked)] /\ mail \in [Sock -> Seq(D!Message)]
        /\ client \in [Sock -> Knowledge \cup {NULL}]
      BY DEF NamesTravel, Typed
  <2> QED
      BY <2>1 DEF Open, Enter, CloseOpen, Disconnect, Die, Receive, Request, AtKeyboard
<1>1. UNCHANGED <<users_map, in_session_with, crashed>>
    BY <1>0 DEF serverVars
<1>2. left \subseteq left'
    BY DEF Open, Enter, CloseOpen, Disconnect, Die, Receive
<1>3. client'[s] # NULL
  <2>1. client[s] \in Knowledge
      BY <1>0 DEF Typed
  <2>2. CASE CloseOpen(s)
    <3>1. client'[s] \in Knowledge
        BY <2>1, <2>2 DEF CloseOpen, closeSession, Typed, Knowledge
    <3> QED
        BY <3>1, NullIsNoClient
  <2>3. CASE Receive(s)
    <3>1. mail[s] \in Seq(D!Message) /\ mail[s] # <<>>
        BY <2>3 DEF Receive, Typed
    <3>2. Received(client[s], Head(mail[s])) \in Knowledge
        BY <2>1, <3>1, ReceivedType
    <3>3. client'[s] \in Knowledge
        BY <2>3, <3>2 DEF Receive, Typed
    <3> QED
        BY <3>3, NullIsNoClient
  <2> QED
      BY <1>0, <2>2, <2>3 DEF Open, Enter, Disconnect, Die
<1>4. ASSUME NEW t \in Sock, client'[t] = NULL
      PROVE  Unused(t)'
  <2>1. t # s /\ client[t] = NULL
      BY <1>0, <1>3, <1>4
  <2> QED
      BY <1>0, <1>1, <2>1 DEF Acquainted, Unused
<1>5. ASSUME NEW t \in Present', t # s
      PROVE  /\ Attached(t)' /\ KnowsNoRoom(t)'
             /\ Knows(After(t), client[t].client_name, link[t])'
  <2>1. t \in Present
      BY <1>0, <1>1, <1>2, <1>5 DEF Present
  <2>2. t \in Sock
      BY <2>1 DEF Present
  <2> QED
      BY <1>0, <1>1, <1>5, <2>1, <2>2, NotConcerned
<1>6. ASSUME s \in Present'
      PROVE  /\ Attached(s)' /\ KnowsNoRoom(s)'
             /\ Knows(After(s), client[s].client_name, link[s])'
  <2>1. s \in Present
      BY <1>0, <1>1, <1>2, <1>6 DEF Present
  <2>2. /\ client[s] \in RoomLess(client[s].client_name) /\ client[s] \in Knowledge
        /\ link[s] \in Seq(Asked) /\ mail[s] \in Seq(D!Message)
        /\ Attached(s) /\ KnowsNoRoom(s)
        /\ Knows(After(s), client[s].client_name, link[s])
      BY <2>1, PresentClient DEF NamesTravel, Acquainted
  <2>3. ASSUME NEW req \in Asked, req.cmd # "EXIT",
               client'[s] = client[s], mail'[s] = mail[s],
               link'[s] = Append(link[s], req)
        PROVE  /\ Attached(s)' /\ KnowsNoRoom(s)'
               /\ Knows(After(s), client[s].client_name, link[s])'
    <3>1. \A i \in DOMAIN link'[s] : link'[s][i].cmd # "EXIT"
        BY <2>2, <2>3, RequestsAdded DEF Attached
    <3>2. \A i \in DOMAIN link[s] : \E j \in DOMAIN link'[s] : link'[s][j] = link[s][i]
        BY <2>2, <2>3, RequestsAdded
    <3> QED
        BY <1>1, <2>1, <2>3, <3>1, <3>2, StillAcquainted
  <2>4. ASSUME NEW peer \in Name, Open(s, peer)
        PROVE  /\ Attached(s)' /\ KnowsNoRoom(s)'
               /\ Knows(After(s), client[s].client_name, link[s])'
    <3> DEFINE req == [cmd |-> "OPEN_SESSION_WITH_USER",
                       from |-> client[s].client_name, to |-> peer]
    <3>1. req \in Asked /\ req.cmd # "EXIT"
        BY <2>2 DEF Asked, Knowledge
    <3>2. client'[s] = client[s] /\ mail'[s] = mail[s] /\ link'[s] = Append(link[s], req)
        BY <2>4 DEF Open, Request, NamesTravel
    <3> QED
        BY <2>3, <3>1, <3>2
  <2>5. ASSUME CloseOpen(s)
        PROVE  /\ Attached(s)' /\ KnowsNoRoom(s)'
               /\ Knows(After(s), client[s].client_name, link[s])'
    <3> DEFINE req == [cmd |-> "CLOSE_SESSION_WITH_USER"]
    <3>1. req \in Asked /\ req.cmd = "CLOSE_SESSION_WITH_USER"
        BY DEF Asked
    <3>2. /\ client'[s] = [client[s] EXCEPT !.isInSession = client[s].isInChatRoom]
          /\ mail'[s] = mail[s] /\ link'[s] = Append(link[s], req)
        BY <2>2, <2>5
        DEF CloseOpen, Request, NamesTravel, CloseRequest, closeSession, KnowsNoRoom, Typed
    <3>3. /\ client'[s].client_name = client[s].client_name
          /\ client'[s].alive = client[s].alive
          /\ client'[s].isInChatRoom = client[s].isInChatRoom
        BY <2>2, <3>2 DEF Knowledge
    <3>4. \A i \in DOMAIN link'[s] : link'[s][i].cmd # "EXIT"
        BY <2>2, <3>1, <3>2, RequestsAdded DEF Attached
    <3>5. Attached(s)'
        BY <1>1, <2>2, <3>3, <3>4 DEF Attached
    <3>6. KnowsNoRoom(s)'
        BY <2>2, <3>2, <3>3 DEF KnowsNoRoom
    <3>7. \E i \in DOMAIN link'[s] : link'[s][i].cmd = "CLOSE_SESSION_WITH_USER"
      <4> HIDE DEF req
      <4>1. \E i \in DOMAIN Append(link[s], req) : Append(link[s], req)[i] = req
          BY <2>2, <3>1, RequestsAdded
      <4> QED
          BY <3>1, <3>2, <4>1
    <3> QED
        BY <3>5, <3>6, <3>7 DEF Knows
  <2>6. ASSUME Receive(s)
        PROVE  /\ Attached(s)' /\ KnowsNoRoom(s)'
               /\ Knows(After(s), client[s].client_name, link[s])'
    <3> DEFINE c == client[s]
               m == mail[s]
               n == c.client_name
    <3>1. m # <<>> /\ m \in Seq(D!Message) /\ c \in RoomLess(n)
        BY <2>2, <2>6 DEF Receive
    <3>2. /\ Head(m) \in D!Message /\ Tail(m) \in Seq(D!Message)
          /\ 1 \in DOMAIN m /\ Head(m) = m[1]
          /\ \A i \in DOMAIN Tail(m) : \E j \in DOMAIN m : Tail(m)[i] = m[j]
      <4>1. Len(m) \in Nat /\ Len(m) >= 1 /\ DOMAIN m = 1..Len(m)
          BY <3>1
      <4>2. /\ DOMAIN Tail(m) = 1..(Len(m) - 1)
            /\ \A k \in 1..(Len(m) - 1) : Tail(m)[k] = m[k + 1]
          BY <3>1
      <4>3. \A k \in 1..(Len(m) - 1) : k + 1 \in 1..Len(m)
          BY <4>1
      <4>4. 1 \in 1..Len(m)
          BY <4>1
      <4>5. Head(m) \in D!Message /\ Tail(m) \in Seq(D!Message) /\ Head(m) = m[1]
          BY <3>1
      <4> QED
          BY <4>1, <4>2, <4>3, <4>4, <4>5
    <3>3. \A i \in DOMAIN m : m[i].cmd \notin Sessions!RoomNews
        BY <2>2 DEF KnowsNoRoom
    <3>4. Read(c, Head(m)) \in RoomLess(n)
        BY <3>1, <3>2, <3>3, OneMessage
    <3>5. Read(c, Head(m)) = Received(c, Head(m))
        BY <3>1 DEF Read, RoomLess
    <3>6. client'[s] = Received(c, Head(m)) /\ link'[s] = link[s]
        BY <2>6 DEF Receive, Typed
    <3>7. mail'[s] = Tail(m)
      <4>1. Received(c, Head(m)).alive
          BY <3>4, <3>5 DEF RoomLess
      <4> QED
          BY <2>6, <4>1 DEF Receive, Typed
    <3>8. After(s)' = After(s)
      <4>1. CaughtUp(c, m) = CaughtUp(Read(c, Head(m)), Tail(m))
          BY <3>1, OneRead
      <4> QED
          BY <3>5, <3>6, <3>7, <4>1 DEF After
    <3>9. client'[s] \in RoomLess(n)
        BY <3>4, <3>5, <3>6
    <3>10. client'[s].client_name = n /\ client'[s].alive /\ ~client'[s].isInChatRoom
        BY <3>9 DEF RoomLess
    <3>11. Attached(s)'
        BY <1>1, <2>2, <3>6, <3>10 DEF Attached
    <3>12. KnowsNoRoom(s)'
        BY <3>2, <3>3, <3>7, <3>10 DEF KnowsNoRoom
    <3>13. \A v : /\ Sessions!Entries(v)' = Sessions!Entries(v)
                  /\ Sessions!Partner(v)' = Sessions!Partner(v)
        BY <1>1 DEF Sessions!Entries, Sessions!Partner
    <3>14. Knows(After(s), client[s].client_name, link[s])'
        BY <2>2, <3>6, <3>8, <3>10, <3>13 DEF Knows
    <3> QED
        BY <3>11, <3>12, <3>14
  <2>7. ~Disconnect(s) /\ ~Die(s)
      BY <1>6 DEF Disconnect, Die, Present
  <2> QED
      BY <2>4, <2>5, <2>6, <2>7
<1> QED
    BY <1>4, <1>5, <1>6 DEF Acquainted

\* A user with a new connection.
LEMMA NewcomerIsAcquainted ==
    ASSUME Room = {}, NamesTravel, DispatcherInv, Typed, Acquainted,
           NEW s \in Sock, NEW n \in Name, LogIn(s, n)
    PROVE  Acquainted'
<1>1. /\ client[s] = NULL /\ Unused(s)
      /\ client' = [client EXCEPT ![s] = LoggedIn(n)]
      /\ users_map[n] = NULL /\ users_map' = [users_map EXCEPT ![n] = s]
      /\ UNCHANGED <<in_session_with, crashed, link, mail, left>>
    BY DEF LogIn, D!AddUser, D!checkUser, Acquainted
<1>2. LoggedIn(n) \in Knowledge
  <2>1. <<>> \in Seq(Name)
      OBVIOUS
  <2> QED
      BY <2>1 DEF LoggedIn, Knowledge
<1>3. users_map \in [Name -> Sock \cup {NULL}] /\ s # NULL /\ n # NULL
    BY SameConstants DEF DispatcherInv, Sessions!IInv, Sessions!TypeOK, Sessions!NullIsNothing
<1>4. /\ client'[s] = LoggedIn(n) /\ client'[s] # NULL
      /\ \A t \in Sock : t # s => client'[t] = client[t]
    BY <1>1, <1>2, NullIsNoClient DEF Typed
<1>5. \A v \in Name : users_map'[v] = IF v = n THEN s ELSE users_map[v]
    BY <1>1, <1>3
<1>6. \A v : /\ Sessions!Entries(v)' = Sessions!Entries(v)
             /\ Sessions!Partner(v)' = Sessions!Partner(v)
    BY <1>1 DEF Sessions!Entries, Sessions!Partner
<1>7. Sessions!Entries(n) = {}
  <2>1. Sessions!SessionInv
      BY DEF DispatcherInv, Sessions!SessionsKeptApart
  <2>2. n \notin Sessions!Connected
      BY <1>1 DEF Sessions!Connected
  <2> QED
      BY <2>1, <2>2 DEF Sessions!SessionInv, Sessions!Entries
<1>8. ASSUME NEW t \in Sock, client'[t] = NULL
      PROVE  Unused(t)'
  <2>1. t # s /\ Unused(t)
      BY <1>4, <1>8 DEF Acquainted
  <2> QED
      BY <1>1, <1>5, <2>1 DEF Unused
<1>9. ASSUME NEW t \in Present', t # s
      PROVE  /\ Attached(t)' /\ KnowsNoRoom(t)'
             /\ Knows(After(t), client[t].client_name, link[t])'
  <2>1. t \in Present /\ t \in Sock
      BY <1>1, <1>4, <1>9 DEF Present
  <2>2. client'[t] = client[t] /\ mail'[t] = mail[t] /\ link'[t] = link[t]
      BY <1>1, <1>4, <1>9, <2>1
  <2>3. Attached(t) /\ KnowsNoRoom(t) /\ Knows(After(t), client[t].client_name, link[t])
      BY <2>1 DEF Acquainted
  <2>4. client[t].client_name \in Name
      BY <2>1, PresentClient
  <2>5. client[t].client_name # n
      BY <1>1, <1>3, <2>1, <2>3, SameConstants DEF Attached, Sessions!NullIsNothing
  <2>6. Attached(t)'
      BY <1>5, <2>2, <2>3, <2>4, <2>5 DEF Attached
  <2>7. KnowsNoRoom(t)' /\ After(t)' = After(t)
      BY <2>2, <2>3 DEF KnowsNoRoom, After
  <2>8. Knows(After(t), client[t].client_name, link[t])'
      BY <1>6, <2>2, <2>3, <2>7 DEF Knows
  <2> QED
      BY <2>6, <2>7, <2>8
<1>10. /\ Attached(s)' /\ KnowsNoRoom(s)'
       /\ Knows(After(s), client[s].client_name, link[s])'
  <2>1. link'[s] = <<>> /\ mail'[s] = <<>>
      BY <1>1 DEF Unused
  <2>2. DOMAIN link'[s] = {} /\ DOMAIN mail'[s] = {}
      BY <2>1
  <2>3. /\ client'[s].client_name = n /\ client'[s].alive
        /\ ~client'[s].isInChatRoom
      BY <1>4 DEF LoggedIn
  <2> QED
      BY <1>5, <2>2, <2>3, <1>6, <1>7 DEF Attached, KnowsNoRoom, Knows
<1> QED
    BY <1>8, <1>9, <1>10 DEF Acquainted

\* What a client will know once it has read the news of a step: nothing new while its
\* session is what it was, and its partner otherwise.
LEMMA NewsIsRead ==
    ASSUME NEW n \in Name, NEW c \in RoomLess(n), NEW t \in Sock,
           sent'[t] \in Seq(D!Message), Sessions!Told(n, t)
    PROVE  \/ Sessions!Entries(n)' = {}
           \/ /\ Sessions!Entries(n)' = Sessions!Entries(n)
              /\ Sessions!Partner(n)' = Sessions!Partner(n)
              /\ CaughtUp(c, sent'[t]) = c
           \/ /\ CaughtUp(c, sent'[t]).isInSession
              /\ CaughtUp(c, sent'[t]).session_partner = Sessions!Partner(n)'
<1> DEFINE p == Sessions!Partner(n)'
<1>1. PICK m \in Seq(D!Message) : m = sent'[t]
    OBVIOUS
<1>2. \A i \in 1..Len(m) : m[i] \in D!Message /\ m[i].cmd \notin Sessions!RoomNews
    BY <1>1 DEF Sessions!Told
<1>3. ASSUME \A i \in DOMAIN m : m[i].cmd \notin Sessions!Opening \cup Sessions!Ending
      PROVE  CaughtUp(c, m) = c
  <2>1. ASSUME NEW i \in 1..Len(m) PROVE Read(c, m[i]) = c
    <3>1. m[i].cmd \notin Sessions!Opening \cup Sessions!Ending
        BY <1>3
    <3> QED
        BY <1>2, <3>1, OneMessage
  <2>2. CaughtUp(c, m) \in {c}
    <3>1. \A d \in {c} : \A i \in 1..Len(m) : Read(d, m[i]) \in {c}
        BY <2>1
    <3> QED
        BY <3>1, ReadingKeeps
  <2> QED
      BY <2>2
<1>4. ASSUME m # <<>>,
             \A i \in DOMAIN m : m[i].cmd \in Sessions!Opening /\ m[i].names[1] = p
      PROVE  CaughtUp(c, m).isInSession /\ CaughtUp(c, m).session_partner = p
  <2> DEFINE Met == {d \in RoomLess(n) : d.isInSession /\ d.session_partner = p}
  <2>1. \A d \in RoomLess(n) : \A i \in 1..Len(m) : Read(d, m[i]) \in Met
    <3>1. ASSUME NEW d \in RoomLess(n), NEW i \in 1..Len(m) PROVE Read(d, m[i]) \in Met
      <4>1. m[i].cmd \in Sessions!Opening /\ m[i].names[1] = p
          BY <1>4
      <4>2. /\ Read(d, m[i]) \in RoomLess(n)
            /\ Read(d, m[i]).isInSession
            /\ Read(d, m[i]).session_partner = m[i].names[1]
          BY <1>2, <4>1, OneMessage
      <4> QED
          BY <4>1, <4>2
    <3> QED
        BY <3>1
  <2>2. /\ 1 \in 1..Len(m) /\ Head(m) = m[1]
        /\ Tail(m) \in Seq(D!Message) /\ Len(Tail(m)) = Len(m) - 1
        /\ \A k \in 1..(Len(m) - 1) : Tail(m)[k] = m[k + 1] /\ k + 1 \in 1..Len(m)
      BY <1>4
  <2>3. Read(c, Head(m)) \in Met
      BY <2>1, <2>2
  <2>4. \A d \in Met : \A i \in 1..Len(Tail(m)) : Read(d, Tail(m)[i]) \in Met
      BY <2>1, <2>2
  <2> HIDE DEF Met
  <2>5. CaughtUp(Read(c, Head(m)), Tail(m)) \in Met
      BY <2>2, <2>3, <2>4, ReadingKeeps
  <2>6. CaughtUp(c, m) \in Met
      BY <1>4, <2>5, OneRead
  <2> QED
      BY <2>6 DEF Met
<1> QED
    BY <1>1, <1>3, <1>4 DEF Sessions!Told

\* Only an EXIT takes the user of a socket away, and only the one that sends it.
LEMMA UsersStay ==
    ASSUME DispatcherInv, NEW s \in Sock, NEW req \in Asked, Handled(s, req), NEW n \in Name
    PROVE  /\ ~crashed
           /\ users_map'[n] \in {users_map[n], NULL}
           /\ (users_map[n] = s => req.cmd # "EXIT") => users_map'[n] = users_map[n]
<1>0. ~crashed
    BY DEF Handled, D!OpenSession, D!CloseSession, D!JoinChatroom, D!CreateChatroom,
           D!LeaveChatroom, D!LeaveAsOwner, D!LeaveAsMember, D!LeaveNothing, D!UserExit,
           D!ExitAsOwner, D!ExitAsMember, D!ExitFromSession, D!ExitIdle, D!BrokenPipe,
           D!Serving
<1>1. CASE req.cmd # "EXIT"
    BY <1>0, <1>1
    DEF Handled, D!OpenSession, D!CloseSession, D!JoinChatroom, D!CreateChatroom, D!Enter,
        D!LeaveChatroom, D!LeaveAsOwner, D!LeaveAsMember, D!LeaveNothing, D!Answer, D!Crash,
        D!userVars
<1>2. CASE req.cmd = "EXIT"
  <2>1. Sessions!UserExit(s)
      BY <1>2, SameHandlers DEF Handled
  <2>2. /\ Sessions!Serving(s)
        /\ users_map' \in {users_map, [users_map EXCEPT ![Sessions!UserOf(s)] = NULL]}
      BY <2>1, Sessions!WhoExits, SameConstants
  <2>3. Sessions!TypeOK /\ Sessions!SocketsMatch
      BY DEF DispatcherInv, Sessions!IInv
  <2>4. users_map[Sessions!UserOf(s)] = s
      BY <2>2, <2>3, Sessions!SenderFound, SameConstants
  <2>5. (users_map[n] = s => req.cmd # "EXIT") => n # Sessions!UserOf(s)
      BY <1>2, <2>4
  <2> QED
      BY <1>0, <2>2, <2>3, <2>5 DEF Sessions!TypeOK
<1> QED
    BY <1>1, <1>2

\* Where the messages of two lists are found.
LEMMA Joined ==
    ASSUME NEW S, NEW m \in Seq(S), NEW n \in Seq(S), NEW i \in DOMAIN (m \o n)
    PROVE  \/ \E j \in DOMAIN m : (m \o n)[i] = m[j]
           \/ \E j \in DOMAIN n : (m \o n)[i] = n[j]
<1>1. /\ m \o n \in Seq(S) /\ Len(m \o n) = Len(m) + Len(n)
      /\ \A k \in 1..(Len(m) + Len(n)) :
            (m \o n)[k] = IF k <= Len(m) THEN m[k] ELSE n[k - Len(m)]
    BY ConcatProperties
<1>2. i \in 1..(Len(m) + Len(n)) /\ Len(m) \in Nat /\ Len(n) \in Nat
    BY <1>1
<1>3. i \in 1..Len(m) \/ (~(i <= Len(m)) /\ i - Len(m) \in 1..Len(n))
    BY <1>2
<1>4. /\ i \in 1..Len(m) => (m \o n)[i] = m[i]
      /\ ~(i <= Len(m)) => (m \o n)[i] = n[i - Len(m)]
    BY <1>1, <1>2
<1> QED
    BY <1>2, <1>3, <1>4

\* A request that reaches its handler.
LEMMA HandledStaysAcquainted ==
    ASSUME Room = {}, NamesTravel, DispatcherInv, DispatcherInv', Typed, Acquainted,
           Next, NEW s \in Sock, Dispatch(s)
    PROVE  Acquainted'
<1> DEFINE req == Head(link[s])
<1>1. /\ link[s] \in Seq(Asked) /\ link[s] # <<>> /\ req \in Asked
      /\ Handled(s, req)
      /\ link' = [link EXCEPT ![s] = Tail(link[s])]
      /\ mail' = [t \in Sock |-> IF t \in left THEN <<>> ELSE mail[t] \o sent'[t]]
      /\ UNCHANGED <<client, left>>
    BY DEF Dispatch, NamesTravel
<1>2. /\ Sessions!IInv /\ Sessions!SessionInv /\ Sessions!Next
      /\ Sessions!TypeOK /\ Sessions!SocketsMatch
  <2>1. Sessions!IInv /\ Sessions!SessionInv
      BY DEF DispatcherInv, Sessions!SessionsKeptApart
  <2>2. D!Next
    <3>1. D!Handle(s)
        BY <1>1 DEF Handled, Asked, D!Handle
    <3> QED
        BY <3>1 DEF D!Next
  <2> QED
      BY <2>1, <2>2, SameStep DEF Sessions!IInv
<1>3. \A t \in Sock : sent'[t] \in Seq(D!Message)
  <2>1. Sessions!TypeOK'
      BY DEF DispatcherInv, Sessions!IInv
  <2>2. sent' \in [Sock -> Seq(Sessions!Message)]
      BY <2>1 DEF Sessions!TypeOK, Sessions!Message
  <2> QED
      BY <2>2, SameViews
<1>4. \A t \in Sock : t # s => link'[t] = link[t]
    BY <1>1 DEF NamesTravel
<1>5. link'[s] = Tail(link[s])
    BY <1>1 DEF NamesTravel
<1>6. ASSUME NEW t \in Sock, client'[t] = NULL
      PROVE  Unused(t)'
  <2>1. Unused(t)
      BY <1>1, <1>6 DEF Acquainted
  <2>2. t # s
      BY <1>1, <2>1 DEF Unused
  <2>3. sent'[t] = <<>>
      BY <1>2, <2>1, Sessions!OnlyUsersAreTold, SameConstants DEF Unused
  <2>4. mail'[t] = <<>>
      BY <1>1, <2>1, <2>3 DEF Unused
  <2>5. \A n \in Name : users_map'[n] # t
    <3>1. \A n \in Name : users_map'[n] \in {users_map[n], NULL}
      <4> HIDE DEF req
      <4> QED
          BY <1>1, UsersStay
    <3>2. t # NULL
        BY SameConstants DEF Sessions!NullIsNothing
    <3> QED
        BY <2>1, <3>1, <3>2 DEF Unused
  <2> QED
      BY <1>4, <2>1, <2>2, <2>4, <2>5 DEF Unused
<1>7. ASSUME NEW t \in Present'
      PROVE  /\ Attached(t)' /\ KnowsNoRoom(t)'
             /\ Knows(After(t), client[t].client_name, link[t])'
  <2>1. /\ t \in Present /\ t \in Sock /\ t \notin left
        /\ ~crashed' /\ client'[t] = client[t]
    <3>1. Name # {} => ~crashed
      <4> HIDE DEF req
      <4> QED
          BY <1>1, UsersStay
    <3>2. t \in Sock /\ client[t] \in Knowledge /\ t \notin left /\ ~crashed'
        BY <1>1, <1>7 DEF Present, Typed
    <3> QED
        BY <1>1, <3>1, <3>2 DEF Present, Knowledge
  <2>0. PICK n \in Name : n = client[t].client_name
      BY <2>1, PresentClient
  <2>2. /\ n \in Name /\ client[t] \in RoomLess(n) /\ After(t) \in RoomLess(n)
        /\ mail[t] \in Seq(D!Message) /\ client[t] \in Knowledge
      BY <2>0, <2>1, PresentClient
  <2>3. Attached(t) /\ KnowsNoRoom(t) /\ Knows(After(t), n, link[t])
      BY <2>0, <2>1 DEF Acquainted
  <2>4. users_map[n] = t /\ users_map'[n] = t
    <3>1. users_map[n] = t /\ t # NULL
        BY <2>0, <2>1, <2>3, SameConstants DEF Attached, Sessions!NullIsNothing
    <3>2. t = s => req.cmd # "EXIT"
        BY <1>1, <2>3, RequestAnswered DEF Attached
    <3> HIDE DEF req
    <3> QED
        BY <1>1, <2>1, <2>2, <3>1, <3>2, UsersStay
  <2>5. Sessions!Told(n, t)
      BY <1>2, <2>1, <2>2, <2>4, Sessions!PartiesAreTold, SameConstants
  <2>6. mail'[t] = mail[t] \o sent'[t]
      BY <1>1, <2>1
  <2>7. After(t)' = CaughtUp(After(t), sent'[t])
      BY <1>3, <2>1, <2>2, <2>6, ReadOn DEF After
  <2>8. Attached(t)'
    <3>1. \A i \in DOMAIN link'[t] : link'[t][i].cmd # "EXIT"
        BY <1>1, <1>4, <1>5, <2>3, RequestAnswered DEF Attached
    <3> QED
        BY <2>0, <2>1, <2>3, <2>4, <3>1 DEF Attached
  <2>9. KnowsNoRoom(t)'
    <3>1. \A i \in DOMAIN (mail[t] \o sent'[t]) :
              \/ \E j \in DOMAIN mail[t] : (mail[t] \o sent'[t])[i] = mail[t][j]
              \/ \E j \in DOMAIN sent'[t] : (mail[t] \o sent'[t])[i] = sent'[t][j]
      <4>1. PICK m \in Seq(D!Message), news \in Seq(D!Message) : m = mail[t] /\ news = sent'[t]
          BY <1>3, <2>1, <2>2
      <4>2. \A i \in DOMAIN (m \o news) :
                \/ \E j \in DOMAIN m : (m \o news)[i] = m[j]
                \/ \E j \in DOMAIN news : (m \o news)[i] = news[j]
          BY Joined
      <4> QED
          BY <4>1, <4>2
    <3> QED
        BY <2>1, <2>3, <2>5, <2>6, <3>1 DEF KnowsNoRoom, Sessions!Told
  <2>10. Knows(After(t), client[t].client_name, link[t])'
    <3>0. client'[t].client_name = n
        BY <2>0, <2>1
    <3>1. \/ Sessions!Entries(n)' = {}
          \/ /\ Sessions!Entries(n)' = Sessions!Entries(n)
             /\ Sessions!Partner(n)' = Sessions!Partner(n)
             /\ CaughtUp(After(t), sent'[t]) = After(t)
          \/ /\ CaughtUp(After(t), sent'[t]).isInSession
             /\ CaughtUp(After(t), sent'[t]).session_partner = Sessions!Partner(n)'
        BY <1>3, <2>1, <2>2, <2>5, NewsIsRead
    <3>2. CASE Sessions!Entries(n)' = {}
        BY <3>0, <3>2 DEF Knows
    <3>3. CASE /\ Sessions!Entries(n)' = Sessions!Entries(n)
               /\ Sessions!Partner(n)' = Sessions!Partner(n)
               /\ After(t)' = After(t)
               /\ Sessions!Entries(n)' # {}
      <4>1. CASE After(t).isInSession /\ After(t).session_partner = Sessions!Partner(n)
          BY <3>0, <3>3, <4>1 DEF Knows
      <4>2. CASE \E i \in DOMAIN link[t] : link[t][i].cmd = "CLOSE_SESSION_WITH_USER"
        <5>1. t = s => req.cmd # "CLOSE_SESSION_WITH_USER"
          <6> SUFFICES ASSUME t = s, req.cmd = "CLOSE_SESSION_WITH_USER" PROVE FALSE
              OBVIOUS
          <6>1. Sessions!CloseSession(s)
              BY <1>1, SameHandlers DEF Handled
          <6>2. n = Sessions!UserOf(s)
            <7>1. Sessions!Serving(s)
                BY <6>1 DEF Sessions!CloseSession
            <7> QED
                BY <1>2, <2>4, <7>1, Sessions!SenderFound, SameConstants
          <6> QED
              BY <1>2, <2>1, <3>3, <6>1, <6>2, Sessions!CloserIsFree, SameConstants
        <5>2. \E i \in DOMAIN link'[t] : link'[t][i].cmd = "CLOSE_SESSION_WITH_USER"
            BY <1>1, <1>4, <1>5, <2>1, <4>2, <5>1, RequestAnswered
        <5> QED
            BY <5>2 DEF Knows
      <4> QED
          BY <2>3, <3>3, <4>1, <4>2 DEF Knows
    <3>4. CASE /\ After(t)'.isInSession
               /\ After(t)'.session_partner = Sessions!Partner(n)'
        BY <3>0, <3>4 DEF Knows
    <3> QED
        BY <2>7, <3>1, <3>2, <3>3, <3>4
  <2> QED
      BY <2>8, <2>9, <2>10
<1> QED
    BY <1>6, <1>7 DEF Acquainted

LEMMA AcquaintedStep ==
    ASSUME Room = {}, NamesTravel, DispatcherInv, DispatcherInv', Typed, Acquainted,
           [Next]_vars
    PROVE  Acquainted'
<1>1. ASSUME NEW s \in Sock, NEW n \in Name, LogIn(s, n) PROVE Acquainted'
    BY <1>1, NewcomerIsAcquainted
<1>2. ASSUME NEW s \in Sock, Dispatch(s) PROVE Acquainted'
  <2>1. Next
      BY <1>2 DEF Next
  <2> QED
      BY <1>2, <2>1, HandledStaysAcquainted
<1>3. ASSUME NEW s \in Sock, \/ \E peer \in Name : Open(s, peer)
                             \/ \E r \in Room : Enter(s, r)
                             \/ CloseOpen(s) \/ Disconnect(s) \/ Die(s) \/ Receive(s)
      PROVE  Acquainted'
    BY <1>3, ClientsStayAcquainted
<1>4. CASE UNCHANGED vars
    BY <1>4
    DEF vars, serverVars, Acquainted, Unused, Attached, KnowsNoRoom, Knows, After, Present,
        Sessions!Entries, Sessions!Partner
<1> QED
    BY <1>1, <1>2, <1>3, <1>4 DEF Next

\* Whoever the server has in a session will know it and know with whom, unless it has
\* just asked to end it, through every interleaving of what the users type, what is
\* under way in both directions, kills and returns.
THEOREM SessionsAreKnown == Spec => []SessionIsKnown
<1> DEFINE Inv == Room = {} => Acquainted
<1>1. Init => Inv
  <2> SUFFICES ASSUME Init PROVE Acquainted
      OBVIOUS
  <2>1. \A s \in Sock : s # NULL
      BY SameConstants DEF Sessions!NullIsNothing
  <2>2. \A s \in Sock : Unused(s)
      BY <2>1 DEF Init, D!Init, Unused
  <2>3. Present = {}
      BY DEF Init, Present
  <2> QED
      BY <2>2, <2>3 DEF Acquainted
<1>2. NamesTravel /\ DispatcherInv /\ DispatcherInv' /\ Typed /\ Inv /\ [Next]_vars => Inv'
    BY AcquaintedStep
<1>3. Typed /\ Inv => SessionIsKnown
  <2> SUFFICES ASSUME Typed, Acquainted, NEW s \in Present,
                      D!Entries(After(s).client_name) # {}
               PROVE  \/ /\ After(s).isInSession
                         /\ After(s).session_partner = D!Partner(After(s).client_name)
                      \/ \E i \in DOMAIN link[s] :
                            link[s][i].cmd = "CLOSE_SESSION_WITH_USER"
      BY DEF SessionIsKnown
  <2>1. After(s).client_name = client[s].client_name
      BY PresentClient DEF RoomLess
  <2>2. Knows(After(s), client[s].client_name, link[s])
      BY DEF Acquainted
  <2> QED
      BY <2>1, <2>2, SameViews DEF Knows
<1> QED
    BY <1>1, <1>2, <1>3, TypesHold, PTL DEF Spec

-------------------------------------------------------------------------------
(* While users only enter rooms and leave them, one command at a time, nobody    *)
(* returns and no room has the name of a user, what a client will know is what   *)
(* the server has, as far as rooms go.                                           *)

Orderly == "o" \notin Cli /\ ~MayHurry /\ ~MayReturn /\ Name \cap Room = {}

\* What a user ought to know, as the client keeps it.
Agreeing(n, v) ==
    {c \in Knowledge : /\ c.alive /\ c.client_name = n
                       /\ c.isInSession = v.housed /\ c.isInChatRoom = v.housed
                       /\ c.isRoomOwner = v.owns
                       /\ IsInjective(c.chatroom_partners)
                       /\ ToSet(c.chatroom_partners) = v.mates}

\* One message.
LEMMA OneNews ==
    ASSUME NEW c, c.alive, NEW msg \in D!Message
    PROVE  CaughtUp(c, <<msg>>) = Received(c, msg)
<1>1. /\ <<msg>> \in Seq(D!Message) /\ <<msg>> # <<>>
      /\ Head(<<msg>>) = msg /\ Tail(<<msg>>) = <<>>
    OBVIOUS
<1>2. PICK S, m : m = <<msg>> /\ m # <<>> /\ m \in Seq(S)
    BY <1>1
<1>3. CaughtUp(c, m) = CaughtUp(Read(c, Head(m)), Tail(m))
  <2>1. m # <<>> /\ m \in Seq(S)
      BY <1>2
  <2> QED
      BY <2>1, OneRead
<1>4. CaughtUp(Received(c, msg), <<>>) = Received(c, msg)
    BY <1>1, OneRead
<1> QED
    BY <1>1, <1>2, <1>3, <1>4 DEF Read

\* A list without repetitions, with one more, or without one of them.
LEMMA PartnerAdded ==
    ASSUME NEW S, NEW p \in Seq(S), IsInjective(p), NEW x \in S, x \notin ToSet(p)
    PROVE  IsInjective(Append(p, x)) /\ ToSet(Append(p, x)) = ToSet(p) \cup {x}
<1> DEFINE more == Append(p, x)
<1>1. /\ DOMAIN more = 1..(Len(p) + 1) /\ Len(p) \in Nat /\ DOMAIN p = 1..Len(p)
      /\ \A i \in 1..Len(p) : more[i] = p[i]
      /\ more[Len(p) + 1] = x
    OBVIOUS
<1> HIDE DEF more
<1>2. \A i \in 1..Len(p) : p[i] # x
    BY <1>1 DEF ToSet
<1>3. \A i \in 1..(Len(p) + 1) : i \in 1..Len(p) \/ i = Len(p) + 1
    BY <1>1
<1>4. IsInjective(more)
    BY <1>1, <1>2, <1>3 DEF IsInjective
<1>5. ToSet(more) = ToSet(p) \cup {x}
    BY <1>1, <1>3 DEF ToSet
<1> QED
    BY <1>4, <1>5 DEF more

LEMMA PartnerRemoved ==
    ASSUME NEW S, NEW p \in Seq(S), IsInjective(p), NEW i \in DOMAIN p
    PROVE  IsInjective(RemoveAt(p, i)) /\ ToSet(RemoveAt(p, i)) = ToSet(p) \ {p[i]}
<1> DEFINE rest == RemoveAt(p, i)
           a == SubSeq(p, 1, i - 1)
           b == SubSeq(p, i + 1, Len(p))
<1>1. Len(p) \in Nat /\ i \in 1..Len(p) /\ DOMAIN p = 1..Len(p)
    OBVIOUS
<1>2. /\ a \in Seq(S) /\ Len(a) = i - 1 /\ \A k \in 1..(i - 1) : a[k] = p[k]
      /\ b \in Seq(S) /\ Len(b) = Len(p) - i /\ \A k \in 1..(Len(p) - i) : b[k] = p[k + i]
  <2>1. a \in Seq(S) /\ Len(a) = i - 1 /\ \A k \in 1..(i - 1) : a[k] = p[k]
      BY <1>1
  <2>2. b \in Seq(S) /\ Len(b) = Len(p) - i
      BY <1>1
  <2>3. ASSUME NEW k \in 1..(Len(p) - i) PROVE b[k] = p[k + i]
    <3>1. b[k] = p[i + 1 + k - 1] /\ i + 1 + k - 1 = k + i
        BY <1>1
    <3> QED
        BY <3>1
  <2> QED
      BY <2>1, <2>2, <2>3
<1> HIDE DEF a, b
<1>3. /\ rest \in Seq(S) /\ Len(rest) = Len(a) + Len(b)
      /\ \A k \in 1..(Len(a) + Len(b)) :
            rest[k] = IF k <= Len(a) THEN a[k] ELSE b[k - Len(a)]
    BY <1>2, ConcatProperties DEF RemoveAt, a, b
<1> HIDE DEF rest
<1>4. DOMAIN rest = 1..(Len(p) - 1)
    BY <1>1, <1>2, <1>3
<1>5. \A k \in 1..(Len(p) - 1) : rest[k] = IF k < i THEN p[k] ELSE p[k + 1]
  <2> TAKE k \in 1..(Len(p) - 1)
  <2>1. CASE k < i
      BY <1>1, <1>2, <1>3, <2>1
  <2>2. CASE ~(k < i)
    <3>1. /\ k \in 1..(Len(a) + Len(b)) /\ ~(k <= Len(a))
          /\ k - Len(a) \in 1..(Len(p) - i) /\ (k - Len(a)) + i = k + 1
        BY <1>1, <1>2, <2>2
    <3> QED
        BY <1>2, <1>3, <2>2, <3>1
  <2> QED
      BY <2>1, <2>2
<1> DEFINE at(k) == IF k < i THEN k ELSE k + 1
<1>6. \A k \in 1..(Len(p) - 1) :
          at(k) \in 1..Len(p) /\ at(k) # i /\ rest[k] = p[at(k)]
    BY <1>1, <1>5
<1>7. \A j, k \in 1..(Len(p) - 1) : at(j) = at(k) => j = k
    BY <1>1
<1> HIDE DEF at
<1>8. IsInjective(rest)
  <2> SUFFICES ASSUME NEW j \in 1..(Len(p) - 1), NEW k \in 1..(Len(p) - 1), rest[j] = rest[k]
               PROVE  j = k
      BY <1>4 DEF IsInjective
  <2>1. p[at(j)] = p[at(k)] /\ at(j) \in DOMAIN p /\ at(k) \in DOMAIN p
      BY <1>1, <1>6
  <2>2. at(j) = at(k)
      BY <2>1 DEF IsInjective
  <2> QED
      BY <1>7, <2>2
<1>9. ASSUME NEW k \in 1..(Len(p) - 1) PROVE rest[k] \in ToSet(p) \ {p[i]}
  <2>1. at(k) \in DOMAIN p /\ at(k) # i /\ rest[k] = p[at(k)]
      BY <1>1, <1>6
  <2>2. p[at(k)] # p[i]
      BY <2>1 DEF IsInjective
  <2> QED
      BY <2>1, <2>2 DEF ToSet
<1>10. ASSUME NEW j \in 1..Len(p), j # i PROVE \E k \in 1..(Len(p) - 1) : rest[k] = p[j]
  <2>1. CASE j < i
    <3>1. j \in 1..(Len(p) - 1)
        BY <1>1, <2>1
    <3> QED
        BY <1>5, <2>1, <3>1
  <2>2. CASE j > i
    <3>1. j - 1 \in 1..(Len(p) - 1) /\ ~(j - 1 < i) /\ j - 1 + 1 = j
        BY <1>1, <2>2
    <3> QED
        BY <1>5, <3>1
  <2> QED
      BY <1>1, <1>10, <2>1, <2>2
<1>11. ToSet(rest) = ToSet(p) \ {p[i]}
  <2>1. ASSUME NEW x \in ToSet(rest) PROVE x \in ToSet(p) \ {p[i]}
    <3>1. PICK k \in DOMAIN rest : x = rest[k]
        BY DEF ToSet
    <3> QED
        BY <1>4, <1>9, <3>1
  <2>2. ASSUME NEW x \in ToSet(p), x # p[i] PROVE x \in ToSet(rest)
    <3>1. PICK j \in 1..Len(p) : x = p[j]
        BY <1>1 DEF ToSet
    <3>2. PICK k \in 1..(Len(p) - 1) : rest[k] = p[j]
        BY <1>10, <2>2, <3>1
    <3> QED
        BY <1>4, <3>1, <3>2 DEF ToSet
  <2> QED
      BY <2>1, <2>2
<1> QED
    BY <1>8, <1>11 DEF rest

\* A list without repetitions is as long as the set of what is in it.
LEMMA InjectiveLength ==
    ASSUME NEW S, NEW p \in Seq(S), IsInjective(p)
    PROVE  IsFiniteSet(ToSet(p)) /\ Cardinality(ToSet(p)) = Len(p)
<1>1. Len(p) \in Nat /\ DOMAIN p = 1..Len(p)
    OBVIOUS
<1>2. IsFiniteSet(1..Len(p)) /\ Cardinality(1..Len(p)) = Len(p)
    BY <1>1, FS_Interval
<1>3. p \in Injection(1..Len(p), ToSet(p))
    BY <1>1 DEF ToSet, Injection, IsInjective
<1>4. p \in Surjection(1..Len(p), ToSet(p))
    BY <1>1 DEF ToSet, Surjection
<1> QED
    BY <1>2, <1>3, <1>4, FS_Surjection

\* Who agrees before the news of a step agrees after it.
LEMMA NewsAgrees ==
    ASSUME NEW n \in Name, NEW u \in Name, NEW was, NEW is, NEW told \in Seq(D!Message),
           Sessions!Hears(n, u, was, told, is), NEW c \in Agreeing(n, was)
    PROVE  CaughtUp(c, told) \in Agreeing(n, is)
<1> DEFINE p == c.chatroom_partners
<1>1. /\ c \in Knowledge /\ c.alive /\ c.client_name = n
      /\ c.isInSession = was.housed /\ c.isInChatRoom = was.housed
      /\ c.isRoomOwner = was.owns
      /\ IsInjective(p) /\ ToSet(p) = was.mates
    BY DEF Agreeing
<1>2. /\ p \in Seq(Name) /\ c.isInSession \in BOOLEAN /\ c.isInChatRoom \in BOOLEAN
      /\ c.isRoomOwner \in BOOLEAN
    BY <1>1 DEF Knowledge
<1>3. was = Sessions!Outdoors => p = <<>>
  <2>1. Sessions!Outdoors.mates = {}
      BY DEF Sessions!Outdoors
  <2>2. was = Sessions!Outdoors => ToSet(p) = {}
      BY <1>1, <2>1
  <2>3. p # <<>> => 1 \in DOMAIN p
      BY <1>2
  <2>4. p # <<>> => p[1] \in ToSet(p)
      BY <2>3 DEF ToSet
  <2> QED
      BY <2>2, <2>4
<1>4. ASSUME NEW msg, told = <<msg>>
      PROVE  /\ CaughtUp(c, told) = Received(c, msg)
             /\ Received(c, msg) \in Knowledge
  <2>1. msg \in D!Message
    <3>1. told[1] = msg /\ 1 \in DOMAIN told
        BY <1>4
    <3> QED
        BY <3>1
  <2> QED
      BY <1>1, <1>4, <2>1, OneNews, ReceivedType
<1>5. CASE is = was /\ told = <<>>
  <2>1. CaughtUp(c, <<>>) = c
    <3>1. <<>> \in Seq(Name)
        OBVIOUS
    <3> QED
        BY <3>1, OneRead
  <2> QED
      BY <1>5, <2>1
<1>6. ASSUME NEW cmd \in {"CONNECTION_ERROR", "OPEN_SESSION_ERROR2"},
             is = was, told = <<Sessions!Msg(cmd, <<>>)>>
      PROVE  CaughtUp(c, told) \in Agreeing(n, is)
  <2>1. Received(c, Sessions!Msg(cmd, <<>>)) = c
      BY DEF Received, Refusals, Sessions!Msg
  <2> QED
      BY <1>4, <1>6, <2>1
<1>7. ASSUME was = Sessions!Outdoors, told = <<Sessions!Msg("CHATROOM_CREATED", <<>>)>>,
             is = [housed |-> TRUE, owns |-> TRUE, mates |-> {}]
      PROVE  CaughtUp(c, told) \in Agreeing(n, is)
  <2> DEFINE d == [c EXCEPT !.isInSession = TRUE, !.isInChatRoom = TRUE, !.isRoomOwner = TRUE]
  <2>1. Received(c, Sessions!Msg("CHATROOM_CREATED", <<>>)) = d
      BY DEF Received, Refusals, Sessions!Msg
  <2>2. /\ d.alive /\ d.client_name = n /\ d.isInSession = TRUE /\ d.isInChatRoom = TRUE
        /\ d.isRoomOwner = TRUE /\ d.chatroom_partners = p
      BY <1>1 DEF Knowledge
  <2> HIDE DEF d, p
  <2>3. IsInjective(p) /\ ToSet(p) = {}
      BY <1>1, <1>3, <1>7 DEF ToSet
  <2>4. is.housed = TRUE /\ is.owns = TRUE /\ is.mates = {}
      BY <1>7
  <2> QED
      BY <1>4, <1>7, <2>1, <2>2, <2>3, <2>4 DEF Agreeing
<1>8. ASSUME was = Sessions!Outdoors, NEW names \in Seq(Name), names # <<>>,
             Sessions!IsInjective(names),
             told = <<Sessions!Msg("CHATROOM_LIST", names)>>,
             is = [housed |-> TRUE, owns |-> FALSE, mates |-> Sessions!Range(names)]
      PROVE  CaughtUp(c, told) \in Agreeing(n, is)
  <2> DEFINE d == [c EXCEPT !.isInSession = TRUE, !.isInChatRoom = TRUE,
                            !.chatroom_partners = p \o names]
  <2>1. Received(c, Sessions!Msg("CHATROOM_LIST", names)) = d
    <3>1. Received(c, Sessions!Msg("CHATROOM_LIST", names)) = gotChatroomUsersList(c, names)
        BY DEF Received, Refusals, Sessions!Msg
    <3> QED
        BY <1>8, <3>1 DEF gotChatroomUsersList
  <2>2. p \o names = names
      BY <1>3, <1>8, ConcatEmptySeq
  <2>3. /\ d.alive /\ d.client_name = n /\ d.isInSession = TRUE /\ d.isInChatRoom = TRUE
        /\ d.isRoomOwner = c.isRoomOwner /\ d.chatroom_partners = p \o names
      BY <1>1 DEF Knowledge
  <2> HIDE DEF d, p
  <2>4. c.isRoomOwner = FALSE
      BY <1>1, <1>8 DEF Sessions!Outdoors
  <2>5. is.housed = TRUE /\ is.owns = FALSE /\ is.mates = Sessions!Range(names)
      BY <1>8
  <2>6. IsInjective(names) /\ ToSet(names) = Sessions!Range(names)
      BY <1>8 DEF IsInjective, Sessions!IsInjective, ToSet, Sessions!Range
  <2> QED
      BY <1>4, <1>8, <2>1, <2>2, <2>3, <2>4, <2>5, <2>6 DEF Agreeing
<1>9. ASSUME NEW msg \in {Sessions!Msg("CHATROOM_WAS_CLOSED", <<>>),
                          Sessions!Msg("USER_HAS_LEFT_CHATROOM", <<n>>)},
             told = <<msg>>, is = Sessions!Outdoors
      PROVE  CaughtUp(c, told) \in Agreeing(n, is)
  <2> DEFINE d == [OutOfRoom(c) EXCEPT !.isInSession = FALSE]
  <2>1. Received(c, msg) = d
    <3>1. CASE msg = Sessions!Msg("CHATROOM_WAS_CLOSED", <<>>)
        BY <3>1 DEF Received, Refusals, Sessions!Msg, chatroomWasClosed
    <3>2. CASE msg = Sessions!Msg("USER_HAS_LEFT_CHATROOM", <<n>>)
      <4>1. Received(c, msg) = userHasLeftChatroom(c, n)
          BY <3>2 DEF Received, Refusals, Sessions!Msg
      <4> QED
          BY <1>1, <4>1 DEF userHasLeftChatroom
    <3> QED
        BY <3>1, <3>2
  <2>2. /\ d.alive /\ d.client_name = n /\ d.isInSession = FALSE /\ d.isInChatRoom = FALSE
        /\ d.isRoomOwner = FALSE /\ d.chatroom_partners = <<>>
      BY <1>1 DEF OutOfRoom, Knowledge
  <2> HIDE DEF d
  <2>3. IsInjective(<<>>) /\ ToSet(<<>>) = {}
      BY DEF IsInjective, ToSet
  <2>4. is.housed = FALSE /\ is.owns = FALSE /\ is.mates = {}
      BY <1>9 DEF Sessions!Outdoors
  <2> QED
      BY <1>4, <1>9, <2>1, <2>2, <2>3, <2>4 DEF Agreeing
<1>10. ASSUME was.housed, n # u, u \notin was.mates,
              told = <<Sessions!Msg("NEW_USER_TO_CHATROOM", <<u>>)>>,
              is = [housed |-> TRUE, owns |-> was.owns, mates |-> was.mates \cup {u}]
       PROVE  CaughtUp(c, told) \in Agreeing(n, is)
  <2> DEFINE d == [c EXCEPT !.chatroom_partners = Append(p, u)]
  <2>1. Received(c, Sessions!Msg("NEW_USER_TO_CHATROOM", <<u>>)) = d
      BY DEF Received, Refusals, Sessions!Msg, userHasJoinedChatroom
  <2>2. /\ d.alive /\ d.client_name = n /\ d.isInSession = c.isInSession
        /\ d.isInChatRoom = c.isInChatRoom /\ d.isRoomOwner = c.isRoomOwner
        /\ d.chatroom_partners = Append(p, u)
      BY <1>1 DEF Knowledge
  <2> HIDE DEF d, p
  <2>3. IsInjective(Append(p, u)) /\ ToSet(Append(p, u)) = ToSet(p) \cup {u}
      BY <1>1, <1>2, <1>10, PartnerAdded
  <2>4. is.housed = TRUE /\ is.owns = was.owns /\ is.mates = was.mates \cup {u}
      BY <1>10
  <2>5. c.isInSession = TRUE /\ c.isInChatRoom = TRUE
      BY <1>1, <1>2, <1>10
  <2> QED
      BY <1>1, <1>4, <1>10, <2>1, <2>2, <2>3, <2>4, <2>5 DEF Agreeing
<1>11. ASSUME was.housed, n # u, u \in was.mates,
              told = <<Sessions!Msg("USER_HAS_LEFT_CHATROOM", <<u>>)>>,
              is = [housed |-> TRUE, owns |-> was.owns, mates |-> was.mates \ {u}]
       PROVE  CaughtUp(c, told) \in Agreeing(n, is)
  <2> DEFINE i == First(Known(c, u))
             d == [c EXCEPT !.chatroom_partners = RemoveAt(p, i)]
  <2>1. Known(c, u) # {}
      BY <1>1, <1>11 DEF Known, ToSet
  <2>2. i \in DOMAIN p /\ p[i] = u
    <3>1. Known(c, u) \in SUBSET Nat
        BY <1>2 DEF Known
    <3>2. \E j \in Known(c, u) : \A k \in Known(c, u) : j <= k
        BY <2>1, <3>1, Smallest
    <3>3. First(Known(c, u)) \in Known(c, u)
        BY <3>2 DEF First
    <3> QED
        BY <3>3 DEF Known
  <2>3. Received(c, Sessions!Msg("USER_HAS_LEFT_CHATROOM", <<u>>)) = d
    <3>1. Received(c, Sessions!Msg("USER_HAS_LEFT_CHATROOM", <<u>>)) = userHasLeftChatroom(c, u)
        BY DEF Received, Refusals, Sessions!Msg
    <3> QED
        BY <1>1, <1>11, <2>1, <3>1 DEF userHasLeftChatroom
  <2>4. /\ d.alive /\ d.client_name = n /\ d.isInSession = c.isInSession
        /\ d.isInChatRoom = c.isInChatRoom /\ d.isRoomOwner = c.isRoomOwner
        /\ d.chatroom_partners = RemoveAt(p, i)
      BY <1>1 DEF Knowledge
  <2> HIDE DEF d, p, i
  <2>5. IsInjective(RemoveAt(p, i)) /\ ToSet(RemoveAt(p, i)) = ToSet(p) \ {u}
      BY <1>1, <1>2, <2>2, PartnerRemoved
  <2>6. is.housed = TRUE /\ is.owns = was.owns /\ is.mates = was.mates \ {u}
      BY <1>11
  <2>7. c.isInSession = TRUE /\ c.isInChatRoom = TRUE
      BY <1>1, <1>2, <1>11
  <2> QED
      BY <1>1, <1>4, <1>11, <2>3, <2>4, <2>5, <2>6, <2>7 DEF Agreeing
<1> HIDE DEF p
<1> QED
    BY <1>5, <1>6, <1>7, <1>8, <1>9, <1>10, <1>11 DEF Sessions!Hears

\* What a client hears of rooms, and of requests that do not concern one.
RoomMessages ==
    {"CHATROOM_CREATED", "CHATROOM_LIST", "CHATROOM_WAS_CLOSED", "NEW_USER_TO_CHATROOM",
     "USER_HAS_LEFT_CHATROOM", "CONNECTION_ERROR", "OPEN_SESSION_ERROR2"}

LEMMA HearsOfRooms ==
    ASSUME NEW n, NEW u, NEW was, NEW told, NEW is, Sessions!Hears(n, u, was, told, is)
    PROVE  /\ \A i \in DOMAIN told : told[i].cmd \in RoomMessages
           /\ n # u /\ ~was.housed => ~is.housed
<1>1. told = <<>> \/ \E msg : told = <<msg>> /\ msg.cmd \in RoomMessages
    BY DEF Sessions!Hears, Sessions!Msg, RoomMessages
<1>2. n # u /\ ~was.housed => ~is.housed
    BY DEF Sessions!Hears, Sessions!Outdoors
<1> QED
    BY <1>1, <1>2

\* A dead client does not come back.
LEMMA DeadStay ==
    ASSUME NEW S, NEW m \in Seq(S), NEW c, ~c.alive
    PROVE  CaughtUp(c, m) = c
<1>1. \A d \in {c} : \A k \in 1..Len(m) : Read(d, m[k]) \in {c}
    BY DEF Read
<1>2. CaughtUp(c, m) \in {c}
    BY <1>1, ReadingKeeps
<1> QED
    BY <1>2

\* A client in a room is what its user takes for a session, and nothing else is.
Roomy(n) == {c \in Knowledge : c.client_name = n /\ c.isInSession = c.isInChatRoom}

LEMMA StaysRoomy ==
    ASSUME NEW n, NEW c \in Roomy(n), NEW msg \in D!Message, msg.cmd \in RoomMessages
    PROVE  Received(c, msg) \in Roomy(n)
<1>1. c \in Knowledge /\ c.client_name = n /\ c.isInSession = c.isInChatRoom
    BY DEF Roomy
<1>2. Received(c, msg) \in Knowledge /\ Received(c, msg).client_name = n
  <2>1. "client_name" \in DOMAIN c
      BY <1>1 DEF Knowledge
  <2> QED
      BY <1>1, <2>1, ReceivedType, NameKept
<1> DEFINE d == Received(c, msg)
<1>3. CASE msg.cmd = "CHATROOM_CREATED"
  <2>1. d = [c EXCEPT !.isInSession = TRUE, !.isInChatRoom = TRUE, !.isRoomOwner = TRUE]
      BY <1>3 DEF Received, Refusals
  <2>2. d.isInSession = TRUE /\ d.isInChatRoom = TRUE
      BY <1>1, <2>1 DEF Knowledge
  <2> QED
      BY <1>2, <2>2 DEF Roomy
<1>4. CASE msg.cmd = "CHATROOM_LIST"
  <2>1. d = gotChatroomUsersList(c, msg.names)
      BY <1>4 DEF Received, Refusals
  <2>2. d = c \/ (d.isInSession = TRUE /\ d.isInChatRoom = TRUE)
      BY <1>1, <2>1 DEF gotChatroomUsersList, Knowledge
  <2> QED
      BY <1>1, <1>2, <2>2 DEF Roomy
<1>5. CASE msg.cmd = "CHATROOM_WAS_CLOSED"
  <2>1. d = [OutOfRoom(c) EXCEPT !.isInSession = FALSE]
      BY <1>5 DEF Received, Refusals, chatroomWasClosed
  <2>2. d.isInSession = FALSE /\ d.isInChatRoom = FALSE
      BY <1>1, <2>1 DEF OutOfRoom, Knowledge
  <2> QED
      BY <1>2, <2>2 DEF Roomy
<1>6. CASE msg.cmd = "NEW_USER_TO_CHATROOM"
  <2>1. d = [c EXCEPT !.chatroom_partners = Append(@, msg.names[1])]
      BY <1>6 DEF Received, Refusals, userHasJoinedChatroom
  <2>2. d.isInSession = c.isInSession /\ d.isInChatRoom = c.isInChatRoom
      BY <1>1, <2>1 DEF Knowledge
  <2> QED
      BY <1>1, <1>2, <2>2 DEF Roomy
<1>7. CASE msg.cmd = "USER_HAS_LEFT_CHATROOM"
  <2>1. d = userHasLeftChatroom(c, msg.names[1])
      BY <1>7 DEF Received, Refusals
  <2>2. CASE d = [OutOfRoom(c) EXCEPT !.isInSession = FALSE]
    <3>1. d.isInSession = FALSE /\ d.isInChatRoom = FALSE
        BY <1>1, <2>2 DEF OutOfRoom, Knowledge
    <3> QED
        BY <1>2, <3>1 DEF Roomy
  <2>3. ASSUME NEW v, d = [c EXCEPT !.alive = v] \/ d = [c EXCEPT !.chatroom_partners = v]
        PROVE  d \in Roomy(n)
    <3>1. d.isInSession = c.isInSession /\ d.isInChatRoom = c.isInChatRoom
        BY <1>1, <2>3 DEF Knowledge
    <3> QED
        BY <1>1, <1>2, <3>1 DEF Roomy
  <2> QED
      BY <2>1, <2>2, <2>3 DEF userHasLeftChatroom
<1>8. CASE msg.cmd \in {"CONNECTION_ERROR", "OPEN_SESSION_ERROR2"}
  <2>1. d = c
      BY <1>8 DEF Received, Refusals
  <2> QED
      BY <2>1
<1> QED
    BY <1>3, <1>4, <1>5, <1>6, <1>7, <1>8 DEF RoomMessages

\* Without an answer to what it asked, a client that is in no room stays so.
LEMMA StaysOut ==
    ASSUME NEW n, NEW c \in Knowledge, c.client_name = n, ~c.isInSession,
           NEW m \in Seq(D!Message),
           \A i \in DOMAIN m :
              \/ m[i].cmd \in {"CHATROOM_WAS_CLOSED", "NEW_USER_TO_CHATROOM"}
              \/ m[i].cmd = "USER_HAS_LEFT_CHATROOM" /\ m[i].names[1] # n
    PROVE  ~CaughtUp(c, m).isInSession
<1> DEFINE Out == {d \in Knowledge : d.client_name = n /\ ~d.isInSession}
<1>1. ASSUME NEW d \in Out, NEW i \in 1..Len(m)
      PROVE  Read(d, m[i]) \in Out
  <2>1. d \in Knowledge /\ d.client_name = n /\ ~d.isInSession
      OBVIOUS
  <2>2. m[i] \in D!Message /\ i \in DOMAIN m
      OBVIOUS
  <2>3. Received(d, m[i]) \in Knowledge /\ Received(d, m[i]).client_name = n
    <3>1. "client_name" \in DOMAIN d
        BY <2>1 DEF Knowledge
    <3> QED
        BY <2>1, <2>2, <3>1, ReceivedType, NameKept
  <2>4. ~Received(d, m[i]).isInSession
    <3> DEFINE e == Received(d, m[i])
    <3>1. CASE m[i].cmd = "CHATROOM_WAS_CLOSED"
      <4>1. e = [OutOfRoom(d) EXCEPT !.isInSession = FALSE]
          BY <3>1 DEF Received, Refusals, chatroomWasClosed
      <4>2. e.isInSession = FALSE
          BY <2>1, <4>1 DEF OutOfRoom, Knowledge
      <4> QED
          BY <4>2
    <3>2. CASE m[i].cmd = "NEW_USER_TO_CHATROOM"
      <4>1. e = [d EXCEPT !.chatroom_partners = Append(@, m[i].names[1])]
          BY <3>2 DEF Received, Refusals, userHasJoinedChatroom
      <4>2. e.isInSession = d.isInSession
          BY <2>1, <4>1 DEF Knowledge
      <4> QED
          BY <2>1, <4>2
    <3>3. CASE m[i].cmd = "USER_HAS_LEFT_CHATROOM" /\ m[i].names[1] # n
      <4>1. e = userHasLeftChatroom(d, m[i].names[1])
          BY <3>3 DEF Received, Refusals
      <4>2. PICK v : e = [d EXCEPT !.alive = v] \/ e = [d EXCEPT !.chatroom_partners = v]
          BY <2>1, <3>3, <4>1 DEF userHasLeftChatroom
      <4>3. e.isInSession = d.isInSession
          BY <2>1, <4>2 DEF Knowledge
      <4> QED
          BY <2>1, <4>3
    <3> QED
        BY <2>2, <3>1, <3>2, <3>3
  <2> QED
      BY <2>1, <2>3, <2>4 DEF Read
<1>2. c \in Out
    OBVIOUS
<1> HIDE DEF Out
<1>3. CaughtUp(c, m) \in Out
    BY <1>1, <1>2, ReadingKeeps
<1> QED
    BY <1>3 DEF Out

\* The names of the users that have left.
Gone == {client[t].client_name : t \in left}

\* Client s has logged in as user n.  As long as it is there, what it will know is what
\* the server has of the user; it has at most one request under way, a user in a room
\* does not ask for one, and whoever exits is not there any more.
Calm(s, n) ==
    /\ client[s] \in Roomy(n) /\ client[s].alive
    /\ s \in left => mail[s] = <<>>
    /\ s \notin left =>
          /\ users_map[n] = s
          /\ \A i \in DOMAIN mail[s] : mail[s][i].cmd \in RoomMessages
          /\ After(s) \in Agreeing(n, Sessions!Inside(n))
    /\ link[s] # <<>> =>
          /\ users_map[n] = s
          /\ Tail(link[s]) = <<>>
          /\ Head(link[s]).cmd \in {"OPEN_CHATROOM", "LEAVE_CHATROOM", "EXIT"}
          /\ Head(link[s]).cmd = "OPEN_CHATROOM" => ~Sessions!Inside(n).housed
          /\ Head(link[s]).cmd = "EXIT" => s \in left

Settled ==
    /\ Sessions!Tidy(Gone)
    /\ \A s \in Sock : client[s] = NULL => Unused(s)
    /\ \A s \in Sock : client[s] # NULL => \E n \in Name : Calm(s, n)

\* Nothing changes for a user without the server.
LEMMA QuietServer ==
    ASSUME UNCHANGED serverVars
    PROVE  /\ \A n : Sessions!Inside(n)' = Sessions!Inside(n)
           /\ \A gone : Sessions!Tidy(gone) => Sessions!Tidy(gone)'
<1>1. UNCHANGED <<users_map, connectionStatus, connectedToChatRoom, in_session_with,
                  chatrooms_map, rooms>>
    BY DEF serverVars
<1>2. \A n : Sessions!Inside(n)' = Sessions!Inside(n)
    BY <1>1 DEF Sessions!Inside, Sessions!Housed, Sessions!OnMap, Sessions!Owns
<1>3. \A gone : Sessions!Tidy(gone) => Sessions!Tidy(gone)'
    BY <1>1 DEF Sessions!Tidy, Sessions!OnMap
<1> QED
    BY <1>2, <1>3

\* A client that a step is not about.
LEMMA StillCalm ==
    ASSUME NEW s, NEW n, Calm(s, n),
           client'[s] = client[s], link'[s] = link[s], mail'[s] = mail[s],
           s \in left' <=> s \in left, users_map'[n] = users_map[n],
           Sessions!Inside(n)' = Sessions!Inside(n)
    PROVE  Calm(s, n)'
<1>1. After(s)' = After(s)
    BY DEF After
<1> QED
    BY <1>1 DEF Calm

\* The tidier, the more are gone.
LEMMA GoneGrows ==
    ASSUME NEW gone, Sessions!Tidy(gone)', gone \subseteq Gone'
    PROVE  Sessions!Tidy(Gone)'
BY DEF Sessions!Tidy

\* A user at the keyboard who is in no room, and waits for no answer, is in no room.
LEMMA OutIsOut ==
    ASSUME Orderly, Typed, NEW s \in Sock, NEW n, Calm(s, n), AtKeyboard(s),
           ~client[s].isInSession
    PROVE  ~Sessions!Inside(n).housed
<1>1. /\ client[s] \in Knowledge /\ client[s].client_name = n /\ mail[s] \in Seq(D!Message)
      /\ s \notin left /\ ~Unanswered(s)
    BY DEF Calm, Roomy, Typed, AtKeyboard, Orderly
<1>2. /\ \A i \in DOMAIN mail[s] : mail[s][i].cmd \in RoomMessages
      /\ After(s) \in Agreeing(n, Sessions!Inside(n))
    BY <1>1 DEF Calm
<1>3. ASSUME NEW i \in DOMAIN mail[s]
      PROVE  \/ mail[s][i].cmd \in {"CHATROOM_WAS_CLOSED", "NEW_USER_TO_CHATROOM"}
             \/ mail[s][i].cmd = "USER_HAS_LEFT_CHATROOM" /\ mail[s][i].names[1] # n
  <2>1. ~AnswersTo(s, mail[s][i]) /\ mail[s][i].cmd \in RoomMessages
      BY <1>1, <1>2 DEF Unanswered
  <2> QED
      BY <1>1, <2>1 DEF AnswersTo, RoomMessages
<1>4. ~CaughtUp(client[s], mail[s]).isInSession
    BY <1>1, <1>3, StaysOut
<1> QED
    BY <1>2, <1>4 DEF After, Agreeing

\* The request of a client that has none under way.
LEMMA Requested ==
    ASSUME NamesTravel, Orderly, NEW s \in Sock, AtKeyboard(s), NEW req,
           link' = [link EXCEPT ![s] = Append(@, req)]
    PROVE  link'[s] # <<>> /\ Head(link'[s]) = req /\ Tail(link'[s]) = <<>>
<1>1. link[s] = <<>> /\ link'[s] = Append(link[s], req)
    BY DEF AtKeyboard, Unanswered, Orderly, NamesTravel
<1>2. Append(<<>>, req) = <<req>>
    OBVIOUS
<1> QED
    BY <1>1, <1>2

\* What users type.
LEMMA AskingStaysCalm ==
    ASSUME Orderly, NamesTravel, Typed, NEW s \in Sock, NEW n \in Name, Calm(s, n),
           \/ \E r \in Room : Enter(s, r)
           \/ CloseOpen(s) \/ Disconnect(s) \/ Die(s)
    PROVE  Calm(s, n)'
<1>1. /\ client[s] \in Roomy(n) /\ client[s].alive
      /\ client[s] \in Knowledge /\ client[s].client_name = n
      /\ client[s].isInSession = client[s].isInChatRoom
      /\ s \notin left /\ users_map[n] = s
    BY DEF Calm, Roomy, Enter, CloseOpen, Disconnect, Die, AtKeyboard
<1>2. UNCHANGED serverVars
    BY DEF Enter, CloseOpen, Disconnect, Die, Request
<1>3. users_map'[n] = s /\ Sessions!Inside(n)' = Sessions!Inside(n)
    BY <1>1, <1>2, QuietServer DEF serverVars
<1>4. /\ \A i \in DOMAIN mail[s] : mail[s][i].cmd \in RoomMessages
      /\ After(s) \in Agreeing(n, Sessions!Inside(n))
    BY <1>1 DEF Calm
<1>5. ASSUME NEW r \in Room, Enter(s, r) PROVE Calm(s, n)'
  <2> DEFINE req == [cmd |-> "OPEN_CHATROOM", room |-> r]
  <2>1. link'[s] # <<>> /\ Head(link'[s]) = req /\ Tail(link'[s]) = <<>>
      BY <1>5, Requested DEF Enter, Request
  <2>2. ~Sessions!Inside(n).housed
      BY <1>5, OutIsOut DEF Enter, MayOpen
  <2>3. req.cmd = "OPEN_CHATROOM"
      OBVIOUS
  <2> HIDE DEF req
  <2>4. client' = client /\ mail' = mail /\ left' = left
      BY <1>5 DEF Enter, Request
  <2>5. After(s)' = After(s)
      BY <2>4 DEF After
  <2> QED
      BY <1>1, <1>3, <1>4, <2>1, <2>2, <2>3, <2>4, <2>5 DEF Calm
<1>6. ASSUME CloseOpen(s) PROVE Calm(s, n)'
  <2> DEFINE req == [cmd |-> CloseRequest(client[s])]
  <2>1. link'[s] # <<>> /\ Head(link'[s]) = req /\ Tail(link'[s]) = <<>>
      BY <1>6, Requested DEF CloseOpen, Request
  <2>2. client[s].isInSession
      BY <1>6 DEF CloseOpen, MayOpen
  <2>3. req.cmd = "LEAVE_CHATROOM"
      BY <1>1, <2>2 DEF CloseRequest
  <2> HIDE DEF req
  <2>4. client'[s] = closeSession(client[s]) /\ mail' = mail /\ left' = left
      BY <1>6 DEF CloseOpen, Request, Typed
  <2>5. closeSession(client[s]) = client[s]
    <3>1. closeSession(client[s]) = [client[s] EXCEPT !.isInSession = client[s].isInSession]
        BY <1>1 DEF closeSession
    <3> QED
        BY <1>1, <3>1 DEF Knowledge
  <2>6. client'[s] = client[s] /\ After(s)' = After(s)
      BY <2>4, <2>5 DEF After
  <2> QED
      BY <1>1, <1>3, <1>4, <2>1, <2>3, <2>4, <2>6 DEF Calm
<1>7. ASSUME Disconnect(s) PROVE Calm(s, n)'
  <2> DEFINE req == [cmd |-> "EXIT"]
  <2>1. link'[s] # <<>> /\ Head(link'[s]) = req /\ Tail(link'[s]) = <<>>
      BY <1>7, Requested DEF Disconnect
  <2>2. req.cmd = "EXIT"
      OBVIOUS
  <2> HIDE DEF req
  <2>3. client' = client /\ mail'[s] = <<>> /\ s \in left'
      BY <1>7 DEF Disconnect, Typed
  <2> QED
      BY <1>1, <1>3, <2>1, <2>2, <2>3 DEF Calm
<1>8. ASSUME Die(s) PROVE Calm(s, n)'
  <2>1. client' = client /\ mail'[s] = <<>> /\ s \in left' /\ link' = link
      BY <1>8 DEF Die, Typed
  <2> QED
      BY <1>1, <1>3, <2>1 DEF Calm
<1> QED
    BY <1>5, <1>6, <1>7, <1>8

\* What clients read.
LEMMA ReadingStaysCalm ==
    ASSUME NamesTravel, Typed, NEW s \in Sock, NEW n \in Name, Calm(s, n), Receive(s)
    PROVE  Calm(s, n)' /\ left' = left
<1> DEFINE c == client[s]
           m == mail[s]
           d == Received(c, Head(m))
<1>1. /\ c \in Roomy(n) /\ c.alive /\ m # <<>> /\ m \in Seq(D!Message)
      /\ s \notin left /\ users_map[n] = s
      /\ \A i \in DOMAIN m : m[i].cmd \in RoomMessages
      /\ After(s) \in Agreeing(n, Sessions!Inside(n))
    BY DEF Calm, Receive, Typed
<1>2. /\ Head(m) \in D!Message /\ Tail(m) \in Seq(D!Message)
      /\ 1 \in DOMAIN m /\ Head(m) = m[1]
      /\ \A i \in DOMAIN Tail(m) : \E j \in DOMAIN m : Tail(m)[i] = m[j]
  <2>1. Len(m) \in Nat /\ Len(m) >= 1 /\ DOMAIN m = 1..Len(m)
      BY <1>1
  <2>2. /\ DOMAIN Tail(m) = 1..(Len(m) - 1)
        /\ \A k \in 1..(Len(m) - 1) : Tail(m)[k] = m[k + 1]
      BY <1>1
  <2>3. \A k \in 1..(Len(m) - 1) : k + 1 \in 1..Len(m)
      BY <2>1
  <2>4. 1 \in 1..Len(m)
      BY <2>1
  <2>5. Head(m) \in D!Message /\ Tail(m) \in Seq(D!Message) /\ Head(m) = m[1]
      BY <1>1
  <2> QED
      BY <2>1, <2>2, <2>3, <2>4, <2>5
<1>3. d \in Roomy(n)
    BY <1>1, <1>2, StaysRoomy
<1>4. After(s) = CaughtUp(d, Tail(m))
  <2>1. CaughtUp(c, m) = CaughtUp(Read(c, Head(m)), Tail(m))
      BY <1>1, OneRead
  <2>2. Read(c, Head(m)) = d
      BY <1>1 DEF Read
  <2> QED
      BY <2>1, <2>2 DEF After
<1>5. d.alive
  <2> HIDE DEF d, m
  <2>1. ~d.alive => After(s) = d
      BY <1>2, <1>4, DeadStay
  <2>2. After(s).alive
      BY <1>1 DEF Agreeing
  <2> QED
      BY <2>1, <2>2
<1>6. /\ client'[s] = d /\ mail'[s] = Tail(m) /\ left' = left /\ link' = link
      /\ UNCHANGED serverVars
    BY <1>5 DEF Receive, Typed
<1>7. users_map'[n] = s /\ Sessions!Inside(n)' = Sessions!Inside(n)
    BY <1>1, <1>6, QuietServer DEF serverVars
<1>8. After(s)' = After(s)
    BY <1>4, <1>6 DEF After
<1>9. \A i \in DOMAIN mail'[s] : mail'[s][i].cmd \in RoomMessages
    BY <1>1, <1>2, <1>6
<1> HIDE DEF c, m, d
<1>10. link[s] # <<>> =>
          /\ users_map[n] = s
          /\ Tail(link[s]) = <<>>
          /\ Head(link[s]).cmd \in {"OPEN_CHATROOM", "LEAVE_CHATROOM", "EXIT"}
          /\ Head(link[s]).cmd = "OPEN_CHATROOM" => ~Sessions!Inside(n).housed
          /\ Head(link[s]).cmd = "EXIT" => s \in left
    BY DEF Calm
<1> QED
    BY <1>1, <1>3, <1>5, <1>6, <1>7, <1>8, <1>9, <1>10 DEF Calm

\* The steps of the clients.
LEMMA ClientsStaySettled ==
    ASSUME Orderly, NamesTravel, Typed, Settled, NEW s \in Sock,
           \/ \E peer \in Name : Open(s, peer)
           \/ \E r \in Room : Enter(s, r)
           \/ CloseOpen(s) \/ Disconnect(s) \/ Die(s) \/ Receive(s)
    PROVE  Settled'
<1>1. /\ UNCHANGED serverVars
      /\ client[s] # NULL
      /\ \A t \in Sock : t # s => /\ client'[t] = client[t] /\ (t \in left' <=> t \in left)
                                  /\ link'[t] = link[t] /\ mail'[t] = mail[t]
  <2>1. link \in [Sock -> Seq(Asked)] /\ mail \in [Sock -> Seq(D!Message)]
        /\ client \in [Sock -> Knowledge \cup {NULL}]
      BY DEF NamesTravel, Typed
  <2> QED
      BY <2>1 DEF Open, Enter, CloseOpen, Disconnect, Die, Receive, Request, AtKeyboard
<1>2. left \subseteq left'
    BY DEF Open, Enter, CloseOpen, Disconnect, Die, Receive
<1>3. PICK n \in Name : Calm(s, n)
    BY <1>1 DEF Settled
<1>4. Calm(s, n)'
    BY <1>3, AskingStaysCalm, ReadingStaysCalm DEF Open, Orderly
<1>5. ASSUME NEW t \in Sock, t # s
      PROVE  /\ client'[t] = NULL => Unused(t)'
             /\ client'[t] # NULL => \E m \in Name : Calm(t, m)'
  <2>1. UNCHANGED users_map
      BY <1>1 DEF serverVars
  <2>2. client[t] = NULL => Unused(t)'
      BY <1>1, <1>5, <2>1 DEF Settled, Unused
  <2>3. ASSUME client[t] # NULL
        PROVE  \E m \in Name : Calm(t, m)'
    <3>1. PICK m \in Name : Calm(t, m)
        BY <2>3 DEF Settled
    <3>2. Sessions!Inside(m)' = Sessions!Inside(m)
        BY <1>1, QuietServer
    <3>3. Calm(t, m)'
        BY <1>1, <1>5, <2>1, <3>1, <3>2, StillCalm
    <3> QED
        BY <3>3
  <2> QED
      BY <1>1, <1>5, <2>2, <2>3
<1>6. client'[s] # NULL
  <2>1. client'[s] \in Knowledge
      BY <1>4 DEF Calm, Roomy
  <2> QED
      BY <2>1, NullIsNoClient
<1>7. Sessions!Tidy(Gone)'
  <2>1. PICK gone : gone = Gone
      OBVIOUS
  <2>2. Sessions!Tidy(gone)
      BY <2>1 DEF Settled
  <2>3. Sessions!Tidy(gone)'
      BY <1>1, <2>2, QuietServer
  <2>4. \A t \in left : client'[t].client_name = client[t].client_name
    <3>1. client'[s].client_name = client[s].client_name
        BY <1>3, <1>4 DEF Calm, Roomy
    <3> QED
        BY <1>1, <3>1 DEF Typed
  <2>5. gone \subseteq Gone'
      BY <1>2, <2>1, <2>4 DEF Gone
  <2> QED
      BY <2>3, <2>5, GoneGrows
<1> QED
    BY <1>4, <1>5, <1>6, <1>7 DEF Settled

\* A user with a new connection: nobody has had its name before.
LEMMA NewcomerIsSettled ==
    ASSUME Orderly, NamesTravel, DispatcherInv, Typed, Settled,
           NEW s \in Sock, NEW n \in Name, LogIn(s, n)
    PROVE  Settled'
<1>1. /\ client[s] = NULL /\ Unused(s) /\ s \notin left
      /\ client' = [client EXCEPT ![s] = LoggedIn(n)]
      /\ users_map[n] = NULL /\ users_map' = [users_map EXCEPT ![n] = s]
      /\ \A t \in left : client[t].client_name # n
      /\ UNCHANGED <<link, mail, left>>
    BY DEF LogIn, D!AddUser, D!checkUser, Settled, Typed, Orderly
<1>2. LoggedIn(n) \in Knowledge
  <2>1. <<>> \in Seq(Name)
      OBVIOUS
  <2> QED
      BY <2>1 DEF LoggedIn, Knowledge
<1>3. /\ users_map \in [Name -> Sock \cup {NULL}] /\ \A t \in Sock : t # NULL
      /\ Sessions!TypeOK
    BY SameConstants DEF DispatcherInv, Sessions!IInv, Sessions!TypeOK, Sessions!NullIsNothing
<1>4. /\ client'[s] = LoggedIn(n) /\ client'[s] # NULL
      /\ \A t \in Sock : t # s => client'[t] = client[t]
    BY <1>1, <1>2, NullIsNoClient DEF Typed
<1>5. \A v \in Name : users_map'[v] = IF v = n THEN s ELSE users_map[v]
    BY <1>1, <1>3
<1>6. PICK gone : gone = Gone
    OBVIOUS
<1>7. /\ Sessions!Tidy(gone)'
      /\ \A m \in Name : Sessions!Inside(m)' = Sessions!Inside(m)
      /\ Sessions!Inside(n) = Sessions!Outdoors
  <2>1. n \notin gone
      BY <1>1, <1>6 DEF Gone
  <2>2. Sessions!AddUser(s, n)
      BY SameHandlers DEF LogIn
  <2>3. Sessions!Tidy(gone)
      BY <1>6 DEF Settled
  <2> QED
      BY <1>3, <2>1, <2>2, <2>3, Sessions!NewcomerUnheard, SameConstants
<1>8. Sessions!Tidy(Gone)'
  <2>1. \A t \in left : t \in Sock /\ t # s
      BY <1>1 DEF Typed
  <2>2. gone \subseteq Gone'
      BY <1>1, <1>4, <1>6, <2>1 DEF Gone
  <2> QED
      BY <1>7, <2>2, GoneGrows
<1>9. ASSUME NEW t \in Sock, client'[t] = NULL
      PROVE  Unused(t)'
  <2>1. t # s /\ Unused(t)
      BY <1>4, <1>9 DEF Settled
  <2> QED
      BY <1>1, <1>5, <2>1 DEF Unused
<1>10. ASSUME NEW t \in Sock, client'[t] # NULL, t # s
       PROVE  \E m \in Name : Calm(t, m)'
  <2>1. PICK m \in Name : Calm(t, m)
      BY <1>4, <1>10 DEF Settled
  <2>2. CASE m = n
    <3>1. client[t].client_name = n
        BY <2>1, <2>2 DEF Calm, Roomy
    <3>2. t \notin left
        BY <1>1, <3>1
    <3>3. users_map[n] = t
        BY <2>1, <2>2, <3>2 DEF Calm
    <3> QED
        BY <1>1, <1>3, <3>3
  <2>3. CASE m # n
    <3>1. users_map'[m] = users_map[m]
        BY <1>5, <2>3
    <3>2. Calm(t, m)'
        BY <1>1, <1>4, <1>7, <1>10, <2>1, <3>1, StillCalm
    <3> QED
        BY <3>2
  <2> QED
      BY <2>2, <2>3
<1>11. Calm(s, n)'
  <2>1. link'[s] = <<>> /\ mail'[s] = <<>> /\ s \notin left' /\ users_map'[n] = s
      BY <1>1, <1>5 DEF Unused
  <2>2. LoggedIn(n) \in Roomy(n) /\ LoggedIn(n).alive
      BY <1>2 DEF LoggedIn, Roomy
  <2>3. LoggedIn(n) \in Agreeing(n, Sessions!Outdoors)
    <3>1. IsInjective(<<>>) /\ ToSet(<<>>) = {}
        BY DEF IsInjective, ToSet
    <3> QED
        BY <1>2, <3>1 DEF Agreeing, LoggedIn, Sessions!Outdoors
  <2>4. CaughtUp(LoggedIn(n), <<>>) = LoggedIn(n)
    <3>1. <<>> \in Seq(Name)
        OBVIOUS
    <3> QED
        BY <3>1, OneRead
  <2>5. After(s)' = LoggedIn(n)
      BY <1>4, <2>1, <2>4 DEF After
  <2>6. Sessions!Inside(n)' = Sessions!Outdoors
      BY <1>7
  <2>7. DOMAIN mail'[s] = {}
      BY <2>1
  <2> QED
      BY <1>4, <2>1, <2>2, <2>3, <2>5, <2>6, <2>7 DEF Calm
<1> QED
    BY <1>8, <1>9, <1>10, <1>11 DEF Settled

\* A request that reaches its handler is from the user it is taken to be from, and
\* every user hears what it ought to.
LEMMA HandledIsHeard ==
    ASSUME Orderly, NamesTravel, DispatcherInv, Typed, Settled, NEW s \in Sock, Dispatch(s),
           NEW n \in Name, Calm(s, n), NEW gone, gone = Gone
    PROVE  /\ Sessions!Tidy(gone)' /\ Sessions!AllHear(n)
           /\ \A t \in Sock : (\A m \in Name : users_map[m] # t) => sent'[t] = <<>>
<1>1. PICK req \in Asked : req = Head(link[s]) /\ Handled(s, req)
    BY DEF Dispatch, NamesTravel
<1>2. /\ link[s] # <<>> /\ users_map[n] = s
      /\ req.cmd \in {"OPEN_CHATROOM", "LEAVE_CHATROOM", "EXIT"}
      /\ req.cmd = "OPEN_CHATROOM" => ~Sessions!Inside(n).housed
      /\ req.cmd = "EXIT" => s \in left
    BY <1>1 DEF Dispatch, Calm
<1>3. Sessions!IInv /\ Sessions!TypeOK /\ Sessions!SocketsMatch /\ Sessions!Tidy(gone)
    BY DEF DispatcherInv, Sessions!IInv, Settled
<1>4. \/ /\ ~Sessions!Inside(n).housed
         /\ \E r \in Room : Sessions!JoinChatroom(s, r) \/ Sessions!CreateChatroom(s, r)
      \/ Sessions!LeaveChatroom(s)
      \/ n \in gone /\ Sessions!UserExit(s)
  <2>1. CASE req.cmd = "OPEN_CHATROOM"
    <3>1. req.room \in Room
        BY <2>1 DEF Asked
    <3>2. D!JoinChatroom(s, req.room) \/ D!CreateChatroom(s, req.room)
        BY <1>1, <2>1 DEF Handled
    <3> QED
        BY <1>2, <2>1, <3>1, <3>2, SameRoomHandlers
  <2>2. CASE req.cmd = "LEAVE_CHATROOM"
      BY <1>1, <2>2, SameHandlers DEF Handled
  <2>3. CASE req.cmd = "EXIT"
    <3>1. Sessions!UserExit(s)
        BY <1>1, <2>3, SameHandlers DEF Handled
    <3>2. client[s].client_name = n /\ s \in left
        BY <1>2, <2>3 DEF Calm, Roomy
    <3> QED
        BY <3>1, <3>2 DEF Gone
  <2> QED
      BY <1>2, <2>1, <2>2, <2>3
<1>5. n = Sessions!UserOf(s)
  <2>1. Sessions!Serving(s)
      BY <1>4
      DEF Sessions!JoinChatroom, Sessions!CreateChatroom, Sessions!LeaveChatroom,
          Sessions!LeaveAsOwner, Sessions!LeaveAsMember, Sessions!LeaveNothing,
          Sessions!UserExit, Sessions!ExitAsOwner, Sessions!ExitAsMember,
          Sessions!ExitFromSession, Sessions!ExitIdle, Sessions!BrokenPipe
  <2> QED
      BY <1>2, <1>3, <2>1, Sessions!SenderFound, SameConstants
<1>6. ~Sessions!Inside(n).housed => ~Sessions!Housed(n)
    BY DEF Sessions!Inside
<1>7. Sessions!Tidy(gone)' /\ Sessions!AllHear(n)
    BY <1>3, <1>4, <1>5, <1>6, Sessions!RoomsAreHeard, SameConstants DEF Orderly
<1>8. \A t \in Sock : (\A m \in Name : users_map[m] # t) => sent'[t] = <<>>
    BY <1>3, <1>4, Sessions!StrangersHearNothing, SameConstants
<1> QED
    BY <1>7, <1>8

\* A request that reaches its handler.
LEMMA HandledStaysSettled ==
    ASSUME Orderly, NamesTravel, DispatcherInv, DispatcherInv', Typed, Settled,
           NEW s \in Sock, Dispatch(s)
    PROVE  Settled'
<1>1. /\ link[s] # <<>>
      /\ link' = [link EXCEPT ![s] = Tail(link[s])]
      /\ mail' = [t \in Sock |-> IF t \in left THEN <<>> ELSE mail[t] \o sent'[t]]
      /\ client' = client /\ left' = left
    BY DEF Dispatch
<1>2. /\ link'[s] = Tail(link[s]) /\ \A t \in Sock : t # s => link'[t] = link[t]
      /\ \A t \in Sock : t # NULL
    BY <1>1, SameConstants DEF NamesTravel, Sessions!NullIsNothing
<1>3. PICK req \in Asked : req = Head(link[s]) /\ Handled(s, req)
    BY DEF Dispatch, NamesTravel
<1>4. PICK n \in Name : Calm(s, n)
  <2>1. client[s] # NULL
      BY <1>1 DEF Settled, Unused
  <2> QED
      BY <2>1 DEF Settled
<1>5. PICK gone : gone = Gone
    OBVIOUS
<1>6. /\ Sessions!Tidy(gone)' /\ Sessions!AllHear(n)
      /\ \A t \in Sock : (\A m \in Name : users_map[m] # t) => sent'[t] = <<>>
    BY <1>4, <1>5, HandledIsHeard
<1>7. Sessions!Tidy(Gone)'
  <2>1. gone \subseteq Gone'
      BY <1>1, <1>5 DEF Gone
  <2> QED
      BY <1>6, <2>1, GoneGrows
<1>8. \A t \in Sock : sent'[t] \in Seq(D!Message)
  <2>1. Sessions!TypeOK'
      BY DEF DispatcherInv, Sessions!IInv
  <2>2. sent' \in [Sock -> Seq(Sessions!Message)]
      BY <2>1 DEF Sessions!TypeOK, Sessions!Message
  <2> QED
      BY <2>2, SameViews
<1>9. ASSUME NEW t \in Sock, client'[t] = NULL
      PROVE  Unused(t)'
  <2>1. Unused(t) /\ t # s /\ t \notin left
      BY <1>1, <1>9 DEF Settled, Unused, Typed
  <2>2. sent'[t] = <<>>
      BY <1>6, <2>1 DEF Unused
  <2>3. mail'[t] = <<>>
      BY <1>1, <2>1, <2>2 DEF Unused
  <2>4. \A m \in Name : users_map'[m] # t
    <3>1. \A m \in Name : users_map'[m] \in {users_map[m], NULL}
        BY <1>3, UsersStay
    <3> QED
        BY <1>2, <2>1, <3>1 DEF Unused
  <2> QED
      BY <1>2, <2>1, <2>3, <2>4 DEF Unused
<1>10. ASSUME NEW t \in Sock, client'[t] # NULL
       PROVE  \E m \in Name : Calm(t, m)'
  <2>1. PICK m \in Name : Calm(t, m)
      BY <1>1, <1>10 DEF Settled
  <2>2. /\ client'[t] \in Roomy(m) /\ client'[t].alive
        /\ t \in left' => mail'[t] = <<>>
      BY <1>1, <2>1 DEF Calm
  <2>3. ASSUME users_map[m] = t, t = s => t \notin left
        PROVE  users_map'[m] = t
    <3>1. users_map[m] = s => req.cmd # "EXIT"
        BY <1>1, <1>3, <2>1, <2>3 DEF Calm
    <3> QED
        BY <1>3, <2>3, <3>1, UsersStay
  <2>4. ASSUME users_map'[m] = t, users_map[m] = t
        PROVE  Sessions!Hears(m, n, Sessions!Inside(m), sent'[t], Sessions!Inside(m)')
    <3>1. m \in Sessions!Connected
        BY <1>2, <2>4 DEF Sessions!Connected
    <3> QED
        BY <1>6, <2>4, <3>1 DEF Sessions!AllHear
  <2>5. ASSUME t \notin left
        PROVE  /\ users_map'[m] = t
               /\ \A i \in DOMAIN mail'[t] : mail'[t][i].cmd \in RoomMessages
               /\ After(t)' \in Agreeing(m, Sessions!Inside(m)')
    <3>1. /\ users_map[m] = t
          /\ \A i \in DOMAIN mail[t] : mail[t][i].cmd \in RoomMessages
          /\ After(t) \in Agreeing(m, Sessions!Inside(m))
        BY <2>1, <2>5 DEF Calm
    <3>2. users_map'[m] = t
        BY <2>3, <2>5, <3>1
    <3>3. PICK news \in Seq(D!Message), old \in Seq(D!Message) : news = sent'[t] /\ old = mail[t]
        BY <1>8 DEF Typed
    <3>4. PICK was, is : was = Sessions!Inside(m) /\ is = Sessions!Inside(m)'
        OBVIOUS
    <3>5. Sessions!Hears(m, n, was, news, is)
        BY <2>4, <3>1, <3>2, <3>3, <3>4
    <3>6. mail'[t] = old \o news
        BY <1>1, <2>5, <3>3
    <3>7. \A i \in DOMAIN mail'[t] : mail'[t][i].cmd \in RoomMessages
      <4>1. \A i \in DOMAIN news : news[i].cmd \in RoomMessages
          BY <3>5, HearsOfRooms
      <4>2. \A i \in DOMAIN old : old[i].cmd \in RoomMessages
          BY <3>1, <3>3
      <4>3. \A i \in DOMAIN (old \o news) :
                \/ \E j \in DOMAIN old : (old \o news)[i] = old[j]
                \/ \E j \in DOMAIN news : (old \o news)[i] = news[j]
          BY Joined
      <4>4. \A i \in DOMAIN (old \o news) : (old \o news)[i].cmd \in RoomMessages
          BY <4>1, <4>2, <4>3
      <4> QED
          BY <3>6, <4>4
    <3>8. PICK c : c = After(t) /\ c \in Agreeing(m, was)
        BY <3>1, <3>4
    <3>9. After(t)' = CaughtUp(c, news)
      <4>1. CaughtUp(client[t], old \o news) = CaughtUp(CaughtUp(client[t], old), news)
          BY ReadOn
      <4> QED
          BY <1>1, <3>3, <3>6, <3>8, <4>1 DEF After
    <3>10. CaughtUp(c, news) \in Agreeing(m, is)
        BY <3>5, <3>8, NewsAgrees
    <3> QED
        BY <3>2, <3>4, <3>7, <3>9, <3>10
  <2>6. ASSUME link'[t] # <<>>
        PROVE  /\ users_map'[m] = t
               /\ Tail(link'[t]) = <<>>
               /\ Head(link'[t]).cmd \in {"OPEN_CHATROOM", "LEAVE_CHATROOM", "EXIT"}
               /\ Head(link'[t]).cmd = "OPEN_CHATROOM" => ~Sessions!Inside(m)'.housed
               /\ Head(link'[t]).cmd = "EXIT" => t \in left'
    <3>1. t # s
      <4>1. Tail(link[s]) = <<>>
          BY <1>1, <1>4 DEF Calm
      <4> QED
          BY <1>2, <2>6, <4>1
    <3>2. link'[t] = link[t]
        BY <1>2, <3>1
    <3>3. /\ users_map[m] = t /\ Tail(link[t]) = <<>>
          /\ Head(link[t]).cmd \in {"OPEN_CHATROOM", "LEAVE_CHATROOM", "EXIT"}
          /\ Head(link[t]).cmd = "OPEN_CHATROOM" => ~Sessions!Inside(m).housed
          /\ Head(link[t]).cmd = "EXIT" => t \in left
        BY <2>1, <2>6, <3>2 DEF Calm
    <3>4. users_map'[m] = t
        BY <2>3, <3>1, <3>3
    <3>5. m # n
        BY <1>1, <1>4, <3>1, <3>3 DEF Calm
    <3>6. ~Sessions!Inside(m).housed => ~Sessions!Inside(m)'.housed
        BY <2>4, <3>3, <3>4, <3>5, HearsOfRooms
    <3> QED
        BY <1>1, <3>2, <3>3, <3>4, <3>6
  <2>7. Calm(t, m)'
      BY <1>1, <2>2, <2>5, <2>6 DEF Calm
  <2> QED
      BY <2>7
<1> QED
    BY <1>7, <1>9, <1>10 DEF Settled

LEMMA SettledStep ==
    ASSUME Orderly, NamesTravel, DispatcherInv, DispatcherInv', Typed, Settled, [Next]_vars
    PROVE  Settled'
<1>1. ASSUME NEW s \in Sock, NEW n \in Name, LogIn(s, n) PROVE Settled'
    BY <1>1, NewcomerIsSettled
<1>2. ASSUME NEW s \in Sock, Dispatch(s) PROVE Settled'
    BY <1>2, HandledStaysSettled
<1>3. ASSUME NEW s \in Sock, \/ \E peer \in Name : Open(s, peer)
                             \/ \E r \in Room : Enter(s, r)
                             \/ CloseOpen(s) \/ Disconnect(s) \/ Die(s) \/ Receive(s)
      PROVE  Settled'
    BY <1>3, ClientsStaySettled
<1>4. CASE UNCHANGED vars
  <2>1. UNCHANGED <<serverVars, client, link, mail, left>>
      BY <1>4 DEF vars
  <2>2. Sessions!Tidy(Gone)'
    <3>1. PICK gone : gone = Gone
        OBVIOUS
    <3>2. Sessions!Tidy(gone)' /\ gone \subseteq Gone'
        BY <2>1, <3>1, QuietServer DEF Settled, Gone
    <3> QED
        BY <3>2, GoneGrows
  <2>3. ASSUME NEW s \in Sock, client'[s] = NULL PROVE Unused(s)'
      BY <2>1, <2>3 DEF Settled, Unused, serverVars
  <2>4. ASSUME NEW s \in Sock, client'[s] # NULL PROVE \E n \in Name : Calm(s, n)'
    <3>1. PICK n \in Name : Calm(s, n)
        BY <2>1, <2>4 DEF Settled
    <3>2. Sessions!Inside(n)' = Sessions!Inside(n)
        BY <2>1, QuietServer
    <3>3. users_map' = users_map
        BY <2>1 DEF serverVars
    <3>4. Calm(s, n)'
        BY <2>1, <3>1, <3>2, <3>3, StillCalm
    <3> QED
        BY <3>4
  <2> QED
      BY <2>2, <2>3, <2>4 DEF Settled
<1> QED
    BY <1>1, <1>2, <1>3, <1>4 DEF Next

\* The rooms that list user n are the one it points to, and what the user ought to know
\* is what that one holds.
LEMMA RoomsListed ==
    ASSUME DispatcherInv, NEW gone, Sessions!Tidy(gone), NEW n \in Name
    PROVE  /\ Sessions!Inside(n).housed <=> RoomsOf(n) # {}
           /\ Sessions!Inside(n).owns
                  <=> \E r \in RoomsOf(n) : rooms[chatrooms_map[r]].owner = n
           /\ \A r \in RoomsOf(n) :
                 /\ rooms[chatrooms_map[r]].users \in Seq(Name)
                 /\ IsInjective(rooms[chatrooms_map[r]].users)
                 /\ n \in ToSet(rooms[chatrooms_map[r]].users)
                 /\ Sessions!Inside(n).mates
                       = ToSet(rooms[chatrooms_map[r]].users) \ {n}
<1>0. /\ chatrooms_map \in [Room -> RoomId \cup {NULL}]
      /\ rooms \in [RoomId -> Sessions!ChatRoomObject]
      /\ \A i \in RoomId : rooms[i].users \in Seq(Name)
      /\ \A i \in RoomId : i # NULL
    BY SameConstants
    DEF DispatcherInv, Sessions!IInv, Sessions!TypeOK, Sessions!ChatRoomObject,
        Sessions!NullIsNothing
<1>1. \A p : Sessions!Range(p) = ToSet(p)
    BY DEF Sessions!Range, ToSet
<1>2. \A p : Sessions!IsInjective(p) <=> IsInjective(p)
    BY DEF Sessions!IsInjective, IsInjective
<1>3. ASSUME NEW r \in Room, chatrooms_map[r] # NULL
      PROVE  /\ chatrooms_map[r] \in RoomId /\ Sessions!OnMap(chatrooms_map[r])
             /\ IsInjective(rooms[chatrooms_map[r]].users)
             /\ n \in ToSet(rooms[chatrooms_map[r]].users)
                   <=> connectedToChatRoom[n] = chatrooms_map[r]
  <2>1. chatrooms_map[r] \in RoomId
      BY <1>0, <1>3
  <2>2. Sessions!OnMap(chatrooms_map[r])
      BY DEF Sessions!OnMap
  <2>3. /\ Sessions!IsInjective(rooms[chatrooms_map[r]].users)
        /\ n \in Sessions!Range(rooms[chatrooms_map[r]].users)
              <=> connectedToChatRoom[n] = chatrooms_map[r]
      BY <2>1, <2>2 DEF Sessions!Tidy
  <2> QED
      BY <1>1, <1>2, <2>1, <2>2, <2>3
<1>4. \A r \in Room : r \in RoomsOf(n) <=> /\ chatrooms_map[r] # NULL
                                           /\ connectedToChatRoom[n] = chatrooms_map[r]
    BY <1>3 DEF RoomsOf
<1>5. RoomsOf(n) \subseteq Room
    BY DEF RoomsOf
<1>6. CASE ~Sessions!Housed(n)
  <2>1. ~Sessions!Inside(n).housed /\ ~Sessions!Inside(n).owns
      BY <1>6 DEF Sessions!Inside
  <2>2. RoomsOf(n) = {}
      BY <1>3, <1>4, <1>5, <1>6 DEF Sessions!Housed
  <2> QED
      BY <2>1, <2>2
<1>7. CASE Sessions!Housed(n)
  <2>1. PICK i : i = connectedToChatRoom[n]
      OBVIOUS
  <2>2. i # NULL /\ Sessions!OnMap(i)
      BY <1>7, <2>1 DEF Sessions!Housed
  <2>3. Sessions!Inside(n) = [housed |-> TRUE, owns |-> rooms[i].owner = n,
                              mates |-> Sessions!Range(rooms[i].users) \ {n}]
      BY <2>1, <2>2, Sessions!InsideIs, SameConstants
  <2>4. /\ Sessions!Inside(n).housed = TRUE
        /\ Sessions!Inside(n).owns = (rooms[i].owner = n)
        /\ Sessions!Inside(n).mates = ToSet(rooms[i].users) \ {n}
      BY <1>1, <2>3
  <2>5. PICK r \in Room : chatrooms_map[r] = i
      BY <2>2 DEF Sessions!OnMap
  <2>6. r \in RoomsOf(n) /\ \A q \in RoomsOf(n) : chatrooms_map[q] = i
      BY <1>4, <1>5, <2>1, <2>2, <2>5
  <2>7. /\ i \in RoomId /\ IsInjective(rooms[i].users) /\ n \in ToSet(rooms[i].users)
        /\ rooms[i].users \in Seq(Name)
      BY <1>0, <1>3, <2>1, <2>2, <2>5
  <2> QED
      BY <2>4, <2>6, <2>7
<1> QED
    BY <1>6, <1>7

\* What a client that is there will know, in terms of what the server has.
LEMMA CalmlyPresent ==
    ASSUME Settled, NEW s \in Present
    PROVE  /\ After(s).client_name \in Name
           /\ After(s) \in Agreeing(After(s).client_name,
                                    Sessions!Inside(After(s).client_name))
<1>1. s \in Sock /\ s \notin left /\ client[s] # NULL
    BY DEF Present
<1>2. PICK n \in Name : Calm(s, n)
    BY <1>1 DEF Settled
<1>3. After(s) \in Agreeing(n, Sessions!Inside(n))
    BY <1>1, <1>2 DEF Calm
<1>4. After(s).client_name = n
    BY <1>3 DEF Agreeing
<1> QED
    BY <1>3, <1>4

\* Removing a user from a list that names it once makes it one shorter.
LEMMA OneLess ==
    ASSUME NEW S, NEW p \in Seq(S), NEW q \in Seq(S), NEW n,
           IsInjective(p), IsInjective(q), n \in ToSet(q), ToSet(p) = ToSet(q) \ {n}
    PROVE  Len(p) = Len(q) - 1
<1>1. /\ IsFiniteSet(ToSet(q)) /\ Cardinality(ToSet(q)) = Len(q)
      /\ Cardinality(ToSet(p)) = Len(p)
    BY InjectiveLength
<1>2. Cardinality(ToSet(q) \ {n}) = Cardinality(ToSet(q)) - 1
    BY <1>1, FS_RemoveElement
<1> QED
    BY <1>1, <1>2

LEMMA SettledAtFirst == Init => Settled
<1> SUFFICES ASSUME Init PROVE Settled
    OBVIOUS
<1>1. PICK gone : gone = Gone
    OBVIOUS
<1>2. Sessions!Init
    BY SameInit DEF Init
<1>3. Sessions!Tidy(gone)
    BY <1>2, Sessions!TidyAtFirst, SameConstants
<1>4. \A s \in Sock : s # NULL
    BY SameConstants DEF Sessions!NullIsNothing
<1>5. \A s \in Sock : client[s] = NULL /\ Unused(s)
    BY <1>4 DEF Init, D!Init, Unused
<1> QED
    BY <1>1, <1>3, <1>5 DEF Settled

LEMMA SettledHolds == Spec => [](NamesTravel /\ DispatcherInv /\ Typed /\ (Orderly => Settled))
<1> DEFINE Inv == Orderly => Settled
<1>1. Init => Inv
    BY SettledAtFirst
<1>2. NamesTravel /\ DispatcherInv /\ DispatcherInv' /\ Typed /\ Inv /\ [Next]_vars => Inv'
    BY SettledStep DEF Orderly
<1> QED
    BY <1>1, <1>2, TypesHold, PTL DEF Spec

\* Client and server agree on who is in a room and who owns it, up to the messages that
\* are still on their way, through every interleaving of entering, leaving, closing,
\* disconnecting and being killed, as long as nobody opens sessions, hurries or returns
\* and no room has the name of a user.
THEOREM RoomsAreKnown == Spec => [](Orderly => RoomIsKnown)
<1>1. DispatcherInv /\ (Orderly => Settled) => (Orderly => RoomIsKnown)
  <2> SUFFICES ASSUME DispatcherInv, Settled, NEW s \in Present
               PROVE  /\ After(s).isInChatRoom <=> RoomsOf(After(s).client_name) # {}
                      /\ After(s).isInSession <=> After(s).isInChatRoom
                      /\ After(s).isRoomOwner
                            <=> \E r \in RoomsOf(After(s).client_name) :
                                   rooms[chatrooms_map[r]].owner = After(s).client_name
      BY DEF RoomIsKnown
  <2>1. PICK n \in Name : /\ n = After(s).client_name
                          /\ After(s) \in Agreeing(n, Sessions!Inside(n))
      BY CalmlyPresent
  <2>2. /\ After(s).isInSession = Sessions!Inside(n).housed
        /\ After(s).isInChatRoom = Sessions!Inside(n).housed
        /\ After(s).isRoomOwner = Sessions!Inside(n).owns
      BY <2>1 DEF Agreeing
  <2>3. PICK gone : gone = Gone
      OBVIOUS
  <2>4. Sessions!Tidy(gone)
      BY <2>3 DEF Settled
  <2>5. /\ Sessions!Inside(n).housed <=> RoomsOf(n) # {}
        /\ Sessions!Inside(n).owns
               <=> \E r \in RoomsOf(n) : rooms[chatrooms_map[r]].owner = n
      BY <2>4, RoomsListed
  <2> QED
      BY <2>1, <2>2, <2>5
<1> QED
    BY <1>1, SettledHolds, PTL

\* The partners a client in a room will send to are the other users of the room, each
\* once, under the same conditions.
THEOREM PartnersAgreed == Spec => [](Orderly => PartnersAgree)
<1>1. DispatcherInv /\ (Orderly => Settled) => (Orderly => PartnersAgree)
  <2> SUFFICES ASSUME DispatcherInv, Settled, NEW s \in Present,
                      NEW r \in RoomsOf(After(s).client_name)
               PROVE  /\ ToSet(After(s).chatroom_partners)
                            = ToSet(rooms[chatrooms_map[r]].users) \ {After(s).client_name}
                      /\ Len(After(s).chatroom_partners)
                            = Len(rooms[chatrooms_map[r]].users) - 1
      BY DEF PartnersAgree
  <2>1. PICK n \in Name : /\ n = After(s).client_name
                          /\ After(s) \in Agreeing(n, Sessions!Inside(n))
      BY CalmlyPresent
  <2>2. PICK p \in Seq(Name) : /\ p = After(s).chatroom_partners /\ IsInjective(p)
                               /\ ToSet(p) = Sessions!Inside(n).mates
      BY <2>1 DEF Agreeing, Knowledge
  <2>3. PICK gone : gone = Gone
      OBVIOUS
  <2>4. Sessions!Tidy(gone)
      BY <2>3 DEF Settled
  <2>5. PICK q \in Seq(Name) :
            /\ q = rooms[chatrooms_map[r]].users /\ IsInjective(q) /\ n \in ToSet(q)
            /\ Sessions!Inside(n).mates = ToSet(q) \ {n}
      BY <2>1, <2>4, RoomsListed
  <2>6. Len(p) = Len(q) - 1
      BY <2>2, <2>5, OneLess
  <2> QED
      BY <2>1, <2>2, <2>5, <2>6
<1> QED
    BY <1>1, SettledHolds, PTL

\* No client is killed by the news that somebody has left its room, under the same
\* conditions.
THEOREM ClientsLive == Spec => [](Orderly => ClientsSurvive)
<1>1. Typed /\ (Orderly => Settled) => (Orderly => ClientsSurvive)
  <2> SUFFICES ASSUME Typed, Settled, NEW s \in Sock, client[s] # NULL PROVE After(s).alive
      BY DEF ClientsSurvive
  <2>1. PICK n \in Name : Calm(s, n)
      BY DEF Settled
  <2>2. CASE s \notin left
      BY <2>1, <2>2 DEF Calm, Agreeing
  <2>3. CASE s \in left
    <3>1. mail[s] = <<>> /\ client[s].alive
        BY <2>1, <2>3 DEF Calm
    <3>2. <<>> \in Seq(D!Message)
        OBVIOUS
    <3>3. CaughtUp(client[s], <<>>) = client[s]
        BY <3>2, OneRead
    <3> QED
        BY <3>1, <3>3 DEF After
  <2> QED
      BY <2>2, <2>3
<1> QED
    BY <1>1, SettledHolds, PTL
===============================================================================
