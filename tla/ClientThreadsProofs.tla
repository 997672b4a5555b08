-------------------------- MODULE ClientThreadsProofs --------------------------
(***************************************************************************)
(* Proofs about the inside of a client, for any peers and any number of    *)
(* connections, messages and partners.  While the assignments of a message *)
(* are under way, the object is on the way to what the message as one step *)
(* makes of it; and whatever the server has written, the client will know  *)
(* the users that it is told of.                                           *)
(***************************************************************************)
EXTENDS ClientThreads, FiniteSetTheorems, SequenceTheorems, NaturalsInduction,
        WellFoundedInduction, TLAPS

-------------------------------------------------------------------------------
(* Chains: a leads to b by the elements of a sequence, one step for each. *)

Chain(Step, a, m, b) ==
    \E w : /\ w[0] = a /\ w[Len(m)] = b
           /\ \A i \in 1..Len(m) : <<w[i - 1], m[i], w[i]>> \in Step

LEMMA ChainNone ==
    ASSUME NEW Step, NEW a, NEW b
    PROVE  Chain(Step, a, <<>>, b) <=> a = b
<1> DEFINE none == <<>>
<1>1. Len(none) = 0 /\ 1..0 = {}
    OBVIOUS
<1> HIDE DEF none
<1>2. Chain(Step, a, none, b) => a = b
    BY <1>1 DEF Chain
<1>3. ASSUME a = b PROVE Chain(Step, a, none, b)
  <2> DEFINE w == [i \in {0} |-> a]
  <2>1. w[0] = a /\ w[Len(none)] = b
      BY <1>1, <1>3
  <2> QED
      BY <1>1, <2>1 DEF Chain
<1> QED
    BY <1>2, <1>3 DEF none

\* The first step, and the rest.
LEMMA ChainFirst ==
    ASSUME NEW Step, NEW a, NEW b, NEW X, NEW m \in Seq(X), m # <<>>, Chain(Step, a, m, b)
    PROVE  \E c : <<a, Head(m), c>> \in Step /\ Chain(Step, c, Tail(m), b)
<1>1. PICK w : /\ w[0] = a /\ w[Len(m)] = b
               /\ \A i \in 1..Len(m) : <<w[i - 1], m[i], w[i]>> \in Step
    BY DEF Chain
<1>2. /\ Len(m) \in Nat /\ Len(m) >= 1 /\ Head(m) = m[1]
      /\ Tail(m) \in Seq(X) /\ Len(Tail(m)) = Len(m) - 1
      /\ \A i \in 1..(Len(m) - 1) : Tail(m)[i] = m[i + 1]
    OBVIOUS
<1>3. <<a, Head(m), w[1]>> \in Step
  <2>1. 1 \in 1..Len(m) /\ 1 - 1 = 0
      BY <1>2
  <2>2. <<w[1 - 1], m[1], w[1]>> \in Step
      BY <1>1, <2>1
  <2> QED
      BY <1>1, <1>2, <2>1, <2>2
<1> DEFINE v == [i \in 0..(Len(m) - 1) |-> w[i + 1]]
<1>4. v[0] = w[1] /\ v[Len(Tail(m))] = b
  <2>1. 0 \in 0..(Len(m) - 1) /\ Len(m) - 1 \in 0..(Len(m) - 1) /\ Len(m) - 1 + 1 = Len(m)
      BY <1>2
  <2>2. v[0] = w[0 + 1] /\ v[Len(m) - 1] = w[Len(m)]
      BY <2>1
  <2> QED
      BY <1>1, <1>2, <2>2
<1>5. ASSUME NEW i \in 1..Len(Tail(m))
      PROVE  <<v[i - 1], Tail(m)[i], v[i]>> \in Step
  <2>1. /\ i \in 1..(Len(m) - 1) /\ i + 1 \in 1..Len(m) /\ i + 1 - 1 = i
        /\ i \in 0..(Len(m) - 1) /\ i - 1 \in 0..(Len(m) - 1) /\ i - 1 + 1 = i
      BY <1>2
  <2>2. v[i - 1] = w[i] /\ v[i] = w[i + 1] /\ Tail(m)[i] = m[i + 1]
      BY <1>2, <2>1
  <2>3. <<w[i + 1 - 1], m[i + 1], w[i + 1]>> \in Step
      BY <1>1, <2>1
  <2> QED
      BY <2>1, <2>2, <2>3
<1>6. Chain(Step, w[1], Tail(m), b)
  <2> HIDE DEF v
  <2> QED
      BY <1>4, <1>5 DEF Chain
<1> QED
    BY <1>3, <1>6

\* One step more at the front.
LEMMA ChainCons ==
    ASSUME NEW Step, NEW a, NEW b, NEW c, NEW X, NEW m \in Seq(X), m # <<>>,
           <<a, Head(m), c>> \in Step, Chain(Step, c, Tail(m), b)
    PROVE  Chain(Step, a, m, b)
<1>1. PICK w : /\ w[0] = c /\ w[Len(Tail(m))] = b
               /\ \A i \in 1..Len(Tail(m)) : <<w[i - 1], Tail(m)[i], w[i]>> \in Step
    BY DEF Chain
<1>2. /\ Len(m) \in Nat /\ Len(m) >= 1 /\ Head(m) = m[1]
      /\ Tail(m) \in Seq(X) /\ Len(Tail(m)) = Len(m) - 1
      /\ \A i \in 1..(Len(m) - 1) : Tail(m)[i] = m[i + 1]
    OBVIOUS
<1> DEFINE v == [i \in 0..Len(m) |-> IF i = 0 THEN a ELSE w[i - 1]]
<1>3. v[0] = a /\ v[Len(m)] = b /\ v[1] = c
    BY <1>1, <1>2
<1>4. ASSUME NEW i \in 1..Len(m)
      PROVE  <<v[i - 1], m[i], v[i]>> \in Step
  <2>1. CASE i = 1
      BY <1>2, <1>3, <2>1
  <2>2. CASE i # 1
    <3>1. /\ i - 1 \in 1..Len(Tail(m)) /\ i - 1 + 1 = i
          /\ i \in 0..Len(m) /\ i - 1 \in 0..Len(m) /\ i # 0 /\ i - 1 # 0
        BY <1>2, <2>2
    <3>2. v[i - 1] = w[i - 1 - 1] /\ v[i] = w[i - 1] /\ Tail(m)[i - 1] = m[i]
        BY <1>2, <3>1
    <3>3. <<w[i - 1 - 1], Tail(m)[i - 1], w[i - 1]>> \in Step
        BY <1>1, <3>1
    <3> QED
        BY <3>2, <3>3
  <2> QED
      BY <2>1, <2>2
<1> HIDE DEF v
<1> QED
    BY <1>3, <1>4 DEF Chain

\* One step more at the end.
LEMMA ChainAppend ==
    ASSUME NEW Step, NEW a, NEW b, NEW c, NEW X, NEW m \in Seq(X), NEW x \in X,
           Chain(Step, a, m, c), <<c, x, b>> \in Step
    PROVE  Chain(Step, a, Append(m, x), b)
<1>1. PICK w : /\ w[0] = a /\ w[Len(m)] = c
               /\ \A i \in 1..Len(m) : <<w[i - 1], m[i], w[i]>> \in Step
    BY DEF Chain
<1>2. /\ Len(m) \in Nat /\ Len(Append(m, x)) = Len(m) + 1
      /\ \A i \in 1..Len(m) : Append(m, x)[i] = m[i]
      /\ Append(m, x)[Len(m) + 1] = x
    OBVIOUS
<1> DEFINE n == Len(m)
           v == [i \in 0..(n + 1) |-> IF i = n + 1 THEN b ELSE w[i]]
<1> HIDE DEF n
<1>3. v[0] = a /\ v[n + 1] = b /\ v[n] = c
    BY <1>1, <1>2 DEF n
<1>4. ASSUME NEW i \in 1..(n + 1)
      PROVE  <<v[i - 1], Append(m, x)[i], v[i]>> \in Step
  <2>1. CASE i = n + 1
    <3>1. i - 1 = n
        BY <1>2, <2>1 DEF n
    <3> HIDE DEF v
    <3> QED
        BY <1>2, <1>3, <2>1, <3>1 DEF n
  <2>2. CASE i # n + 1
    <3>1. i \in 1..n /\ i \in 0..(n + 1) /\ i - 1 \in 0..(n + 1) /\ i - 1 # n + 1
        BY <1>2, <2>2 DEF n
    <3>2. v[i] = w[i] /\ v[i - 1] = w[i - 1]
        BY <2>2, <3>1
    <3> QED
        BY <1>1, <1>2, <3>1, <3>2 DEF n
  <2> QED
      BY <2>1, <2>2
<1> HIDE DEF v
<1> QED
    BY <1>2, <1>3, <1>4 DEF Chain, n

-------------------------------------------------------------------------------
(* Types. *)

Nobody == Peer \cup {NULL}

Object ==
    [client_name : Conn \cup {NULL}, isInSession : BOOLEAN, isInChatRoom : BOOLEAN,
     isRoomOwner : BOOLEAN, session_partner : Nobody, chatroom_partners : Seq(Nobody),
     alive : BOOLEAN]

Flags == {"isInSession", "isInChatRoom", "isRoomOwner", "udp_sock", "closed"}

Assignment ==
    [member : Flags, value : BOOLEAN]
    \cup [member : {"client_name"}, value : Conn \cup {NULL}]
    \cup [member : {"session_partner", "joined"}, value : Nobody]
    \cup [member : {"left"}, value : Nobody \cup Conn]
    \cup [member : {"chatroom_partners"}, value : {<<>>}]

Bare == {"CLOSE_SESSION_ERROR", "SESSION_ENDED", "CHATROOM_CREATED",
         "CHATROOM_WAS_CLOSED", "CHATROOM_IS_CLOSING"}

PartnerNews == {"INCOMIMG_SESSION", "TARGET_IP_AND_PORT", "NEW_USER_TO_CHATROOM"}

Message ==
    [cmd : {"CONFIRM_USER"}, names : {<<n>> : n \in Conn \cup {NULL}}]
    \cup [cmd : PartnerNews, names : {<<n>> : n \in Nobody}]
    \cup [cmd : {"USER_HAS_LEFT_CHATROOM"}, names : {<<n>> : n \in Nobody \cup Conn}]
    \cup [cmd : {"CHATROOM_LIST"}, names : Seq(Peer)]
    \cup [cmd : Bare, names : {<<>>}]

Asked ==
    [cmd : {"OPEN_SESSION_WITH_USER"}, peer : Peer]
    \cup [cmd : {"LOGIN", "OPEN_CHATROOM", "CLOSE_SESSION_WITH_USER", "LEAVE_CHATROOM"},
          peer : {NULL}]

Thread ==
    [at : {"not started", "loop", "listening", "strings", "assigning", "ended"},
     sock : 0..MaxConn, msg : Message \cup {NULL}, todo : Seq(Assignment)]

Command ==
    [at : {"prompt", "closing", "leaving", "saying", "room", "said"},
     next : Nat, to : Seq(Nobody), calm : BOOLEAN]

State ==
    [place : {"nowhere", "account", "session", "room", "closed"}, with : SUBSET Peer,
     owner : Nobody \cup Conn]

Typed ==
    /\ app \in Object /\ told \in Object
    /\ {connected, udp_sock, crossed, residue} \subseteq BOOLEAN
    /\ server_sock \in 0..MaxConn
    /\ receiver \in [Conn -> Thread]
    /\ typing \in Command
    /\ open \subseteq Conn
    /\ asked \in [Conn -> Asked \cup {NULL}]
    /\ mail \in [Conn -> Seq(Message)]
    /\ status \in [Conn -> State]
    /\ met \subseteq Peer

\* Numbers are in their range, and nobody's name is nobody's.
LEMMA Numbers ==
    /\ MaxConn \in Nat /\ MaxMail \in Nat /\ MaxListed \in Nat
    /\ NULL \notin Peer /\ NULL \notin Conn /\ Peer \cap Conn = {} /\ Caller \subseteq Peer
    /\ IsFiniteSet(Peer)
BY Bounds, PeersAreOthers, NullIsNobody DEF Conn

LEMMA Smallest ==
    ASSUME NEW S \in SUBSET Nat, S # {}
    PROVE  \E i \in S : \A j \in S : i <= j
<1>1. \E i \in S : \A j \in S : ~(<<j, i>> \in OpToRel(<, Nat))
    BY NatLessThanWellFounded, WFMin
<1>2. \E i \in S : \A j \in S : ~(j < i)
    BY <1>1 DEF OpToRel
<1> QED
    BY <1>2

LEMMA Elements ==
    ASSUME NEW X, NEW m \in Seq(X)
    PROVE  \A x : x \in ToSet(m) <=> \E i \in 1..Len(m) : x = m[i]
BY DEF ToSet

\* A partner is taken out of the vector once.
LEMMA PartnerRemoved ==
    ASSUME NEW c \in Object, NEW name, Known(c, name) # {}
    PROVE  LET rest == RemoveAt(c.chatroom_partners, First(Known(c, name)))
           IN  /\ rest \in Seq(Nobody)
               /\ ToSet(c.chatroom_partners) \ {name} \subseteq ToSet(rest)
               /\ ToSet(rest) \subseteq ToSet(c.chatroom_partners)
<1> DEFINE p == c.chatroom_partners
           i == First(Known(c, name))
<1>1. p \in Seq(Nobody) /\ i \in 1..Len(p) /\ p[i] = name /\ Len(p) \in Nat
  <2>1. p \in Seq(Nobody)
      BY DEF Object
  <2>2. Known(c, name) \in SUBSET Nat /\ Known(c, name) \in SUBSET (1..Len(p))
      BY <2>1 DEF Known
  <2>3. \E j \in Known(c, name) : \A k \in Known(c, name) : j <= k
      BY <2>2, Smallest
  <2>4. i \in Known(c, name)
      BY <2>3 DEF First
  <2> QED
      BY <2>1, <2>2, <2>4 DEF Known
<1> HIDE DEF i, p
<1> DEFINE before == SubSeq(p, 1, i - 1)
           after == SubSeq(p, i + 1, Len(p))
<1>2. /\ before \in Seq(Nobody) /\ Len(before) = i - 1
      /\ \A j \in 1..(i - 1) : before[j] = p[j]
      /\ after \in Seq(Nobody) /\ Len(after) = Len(p) - i
      /\ \A j \in 1..(Len(p) - i) : after[j] = p[i + j]
  <2>1. 1 \in Int /\ i - 1 \in Int /\ i + 1 \in Int /\ Len(p) \in Int
      BY <1>1
  <2>2. \A j \in 1..(i - 1) : j \in 1..Len(p)
      BY <1>1
  <2>3. \A j \in (i + 1)..Len(p) : j \in 1..Len(p)
      BY <1>1
  <2>4. before \in Seq(Nobody) /\ Len(before) = i - 1 /\ \A j \in 1..(i - 1) : before[j] = p[j]
      BY <1>1, <2>1, <2>2
  <2>5. after \in Seq(Nobody) /\ Len(after) = Len(p) - i
      BY <1>1, <2>1, <2>3
  <2>6. \A j \in 1..(Len(p) - i) : after[j] = p[i + j]
      BY <1>1, <2>1, <2>3
  <2> QED
      BY <2>4, <2>5, <2>6
<1> HIDE DEF before, after
<1> DEFINE rest == before \o after
<1>3. /\ rest \in Seq(Nobody) /\ Len(rest) = Len(p) - 1
      /\ \A j \in 1..(Len(p) - 1) : rest[j] = IF j <= i - 1 THEN before[j] ELSE after[j - (i - 1)]
  <2>1. /\ rest \in Seq(Nobody) /\ Len(rest) = Len(before) + Len(after)
        /\ \A j \in 1..(Len(before) + Len(after)) :
              rest[j] = IF j <= Len(before) THEN before[j] ELSE after[j - Len(before)]
      BY <1>2, ConcatProperties
  <2> QED
      BY <1>1, <1>2, <2>1
<1> HIDE DEF rest
<1>4. ASSUME NEW j \in 1..Len(p), j # i
      PROVE  p[j] \in ToSet(rest)
  <2>1. CASE j < i
    <3>1. j \in 1..(i - 1) /\ j \in 1..(Len(p) - 1) /\ j <= i - 1
        BY <1>1, <2>1
    <3>2. rest[j] = p[j]
        BY <1>2, <1>3, <3>1
    <3> QED
        BY <1>3, <3>1, <3>2, Elements
  <2>2. CASE j > i
    <3>1. /\ j - 1 \in 1..(Len(p) - 1) /\ ~(j - 1 <= i - 1)
          /\ j - 1 - (i - 1) \in 1..(Len(p) - i) /\ i + (j - 1 - (i - 1)) = j
        BY <1>1, <2>2
    <3>2. rest[j - 1] = p[j]
        BY <1>2, <1>3, <3>1
    <3> QED
        BY <1>3, <3>1, <3>2, Elements
  <2> QED
      BY <1>1, <1>4, <2>1, <2>2
<1>5. ASSUME NEW j \in 1..(Len(p) - 1)
      PROVE  rest[j] \in ToSet(p)
  <2>1. CASE j <= i - 1
    <3>1. j \in 1..(i - 1) /\ j \in 1..Len(p)
        BY <1>1, <2>1
    <3>2. p[j] \in ToSet(p)
        BY <1>1, <3>1, Elements
    <3> QED
        BY <1>2, <1>3, <2>1, <3>1, <3>2
  <2>2. CASE ~(j <= i - 1)
    <3>1. j - (i - 1) \in 1..(Len(p) - i) /\ i + (j - (i - 1)) \in 1..Len(p)
        BY <1>1, <2>2
    <3>2. p[i + (j - (i - 1))] \in ToSet(p)
        BY <1>1, <3>1, Elements
    <3> QED
        BY <1>2, <1>3, <2>2, <3>1, <3>2
  <2> QED
      BY <2>1, <2>2
<1>6. ToSet(p) \ {name} \subseteq ToSet(rest) /\ ToSet(rest) \subseteq ToSet(p)
  <2>1. ASSUME NEW x \in ToSet(p) \ {name} PROVE x \in ToSet(rest)
    <3>1. PICK j \in 1..Len(p) : x = p[j]
        BY <1>1, Elements
    <3> QED
        BY <1>1, <1>4, <2>1, <3>1
  <2>2. ASSUME NEW x \in ToSet(rest) PROVE x \in ToSet(p)
    <3>1. PICK j \in 1..Len(rest) : x = rest[j]
        BY <1>3, Elements
    <3> QED
        BY <1>3, <1>5, <3>1
  <2> QED
      BY <2>1, <2>2
<1> QED
    BY <1>3, <1>6 DEF rest, before, after, RemoveAt, p, i

\* A turn of the loop over a list, and the assignments of the whole list.
ListWrites(names) ==
    [i \in 1..(3 * Len(names)) |-> Partner(names[(i + 2) \div 3])[((i - 1) % 3) + 1]]

LEMMA MessageKinds ==
    ASSUME NEW msg \in Message
    PROVE  \/ msg.cmd = "CONFIRM_USER" /\ \E n \in Conn \cup {NULL} : msg.names = <<n>>
           \/ msg.cmd \in PartnerNews /\ \E n \in Nobody : msg.names = <<n>>
           \/ /\ msg.cmd = "USER_HAS_LEFT_CHATROOM"
              /\ \E n \in Nobody \cup Conn : msg.names = <<n>>
           \/ msg.cmd = "CHATROOM_LIST" /\ msg.names \in Seq(Peer)
           \/ msg.cmd \in Bare /\ msg.names = <<>>
BY DEF Message

\* What a message becomes, case by case.
LEMMA WritesName ==
    ASSUME NEW c, NEW msg, msg.cmd = "CONFIRM_USER"
    PROVE  Writes(c, msg) = <<Set("client_name", msg.names[1]), Set("udp_sock", TRUE)>>
BY DEF Writes, Refusals

LEMMA WritesIncoming ==
    ASSUME NEW c, NEW msg, msg.cmd = "INCOMIMG_SESSION"
    PROVE  Writes(c, msg) = <<Set("isInSession", TRUE),
                              Set("session_partner", msg.names[1])>>
BY DEF Writes, Refusals

LEMMA WritesTarget ==
    ASSUME NEW c, NEW msg, msg.cmd = "TARGET_IP_AND_PORT"
    PROVE  Writes(c, msg) = <<Set("session_partner", NULL),
                              Set("session_partner", msg.names[1]),
                              Set("isInSession", TRUE)>>
BY DEF Writes, Refusals

LEMMA WritesEnd ==
    ASSUME NEW c, NEW msg,
           msg.cmd = "CLOSE_SESSION_ERROR" \/ msg.cmd = "SESSION_ENDED"
    PROVE  Writes(c, msg) = <<Set("isInSession", FALSE)>>
BY DEF Writes, Refusals

LEMMA WritesCreated ==
    ASSUME NEW c, NEW msg, msg.cmd = "CHATROOM_CREATED"
    PROVE  Writes(c, msg) = <<Set("isInChatRoom", TRUE), Set("isRoomOwner", TRUE),
                              Set("isInSession", TRUE)>>
BY DEF Writes, Refusals

LEMMA WritesList ==
    ASSUME NEW c, NEW msg, msg.cmd = "CHATROOM_LIST"
    PROVE  Writes(c, msg) = ListWrites(msg.names)
BY DEF Writes, Refusals, ListWrites

LEMMA WritesWasClosed ==
    ASSUME NEW c, NEW msg, msg.cmd = "CHATROOM_WAS_CLOSED"
    PROVE  Writes(c, msg) = <<Set("isRoomOwner", FALSE), Set("isInChatRoom", FALSE),
                              Set("chatroom_partners", <<>>), Set("isInSession", FALSE)>>
BY DEF Writes, Refusals

LEMMA WritesJoined ==
    ASSUME NEW c, NEW msg, msg.cmd = "NEW_USER_TO_CHATROOM"
    PROVE  Writes(c, msg) = <<Set("joined", msg.names[1])>>
BY DEF Writes, Refusals

LEMMA WritesLeft ==
    ASSUME NEW c, NEW msg, msg.cmd = "USER_HAS_LEFT_CHATROOM",
           msg.names[1] # c.client_name
    PROVE  Writes(c, msg) = <<Set("left", msg.names[1])>>
BY DEF Writes, Refusals

LEMMA WritesOut ==
    ASSUME NEW c, NEW msg, msg.cmd = "USER_HAS_LEFT_CHATROOM",
           msg.names[1] = c.client_name
    PROVE  Writes(c, msg) = <<Set("isInSession", FALSE), Set("isInChatRoom", FALSE),
                              Set("isRoomOwner", FALSE), Set("chatroom_partners", <<>>)>>
BY DEF Writes, Refusals

LEMMA WritesClosing ==
    ASSUME NEW c, NEW msg, msg.cmd = "CHATROOM_IS_CLOSING"
    PROVE  Writes(c, msg) = <<Set("closed", TRUE)>>
BY DEF Writes, Refusals

\* What an assignment does, member by member.
LEMMA WrittenName ==
    ASSUME NEW c \in Object, NEW v
    PROVE  Written(c, Set("client_name", v)) = [c EXCEPT !.client_name = v]
BY DEF Written, Set, Object

LEMMA WrittenSession ==
    ASSUME NEW c \in Object, NEW v
    PROVE  Written(c, Set("isInSession", v)) = [c EXCEPT !.isInSession = v]
BY DEF Written, Set, Object

LEMMA WrittenRoom ==
    ASSUME NEW c \in Object, NEW v
    PROVE  Written(c, Set("isInChatRoom", v)) = [c EXCEPT !.isInChatRoom = v]
BY DEF Written, Set, Object

LEMMA WrittenOwner ==
    ASSUME NEW c \in Object, NEW v
    PROVE  Written(c, Set("isRoomOwner", v)) = [c EXCEPT !.isRoomOwner = v]
BY DEF Written, Set, Object

LEMMA WrittenPartner ==
    ASSUME NEW c \in Object, NEW v
    PROVE  Written(c, Set("session_partner", v)) = [c EXCEPT !.session_partner = v]
BY DEF Written, Set, Object

LEMMA WrittenPartners ==
    ASSUME NEW c \in Object, NEW v
    PROVE  Written(c, Set("chatroom_partners", v)) = [c EXCEPT !.chatroom_partners = v]
BY DEF Written, Set, Object

LEMMA WrittenSock ==
    ASSUME NEW c \in Object, NEW v
    PROVE  Written(c, Set("udp_sock", v)) = c
BY DEF Written, Set, Object

LEMMA WrittenClosed ==
    ASSUME NEW c \in Object, NEW v
    PROVE  Written(c, Set("closed", v)) = Reset(c)
BY DEF Written, Set, Object

LEMMA WrittenLeft ==
    ASSUME NEW c \in Object, NEW v
    PROVE  Written(c, Set("left", v)) = userHasLeftChatroom(c, v)
BY DEF Written, Set, Object

LEMMA WrittenJoined ==
    ASSUME NEW c \in Object, NEW v
    PROVE  Written(c, Set("joined", v)) = [c EXCEPT !.chatroom_partners = Append(@, v)]
BY DEF Written, Set, Object, userHasJoinedChatroom

\* An assignment is one of these.
LEMMA AssignmentKinds ==
    ASSUME NEW w \in Assignment
    PROVE  \E v : /\ w = Set(w.member, v) /\ w.value = v
                  /\ \/ w.member \in Flags /\ v \in BOOLEAN
                     \/ w.member = "client_name" /\ v \in Conn \cup {NULL}
                     \/ w.member \in {"session_partner", "joined"} /\ v \in Nobody
                     \/ w.member = "left" /\ v \in Nobody \cup Conn
                     \/ w.member = "chatroom_partners" /\ v = <<>>
BY DEF Assignment, Set

\* Out of a room and of any session.
Outside(c) == [c EXCEPT !.isInSession = FALSE, !.isInChatRoom = FALSE,
                        !.isRoomOwner = FALSE, !.chatroom_partners = <<>>]

\* What a message does as one step.
LEMMA HeardName ==
    ASSUME NEW c \in Object, NEW msg, msg.cmd = "CONFIRM_USER"
    PROVE  Heard(c, msg) = [c EXCEPT !.client_name = msg.names[1]]
BY DEF Heard, Received, Refusals

LEMMA HeardSession ==
    ASSUME NEW c \in Object, NEW msg,
           msg.cmd = "INCOMIMG_SESSION" \/ msg.cmd = "TARGET_IP_AND_PORT"
    PROVE  Heard(c, msg) = InSessionWith(c, msg.names[1])
BY DEF Heard, Received, Refusals

LEMMA HeardEnd ==
    ASSUME NEW c \in Object, NEW msg,
           msg.cmd = "CLOSE_SESSION_ERROR" \/ msg.cmd = "SESSION_ENDED"
    PROVE  Heard(c, msg) = [c EXCEPT !.isInSession = FALSE]
BY DEF Heard, Received, Refusals

LEMMA HeardCreated ==
    ASSUME NEW c \in Object, NEW msg, msg.cmd = "CHATROOM_CREATED"
    PROVE  Heard(c, msg) = [c EXCEPT !.isInSession = TRUE, !.isInChatRoom = TRUE,
                                     !.isRoomOwner = TRUE]
BY DEF Heard, Received, Refusals

LEMMA HeardList ==
    ASSUME NEW c \in Object, NEW msg, msg.cmd = "CHATROOM_LIST"
    PROVE  Heard(c, msg) = gotChatroomUsersList(c, msg.names)
BY DEF Heard, Received, Refusals

LEMMA HeardWasClosed ==
    ASSUME NEW c \in Object, NEW msg, msg.cmd = "CHATROOM_WAS_CLOSED"
    PROVE  Heard(c, msg) = Outside(c)
<1>1. Heard(c, msg) = [chatroomWasClosed(c) EXCEPT !.isInSession = FALSE]
    BY DEF Heard, Received, Refusals
<1>2. [chatroomWasClosed(c) EXCEPT !.isInSession = FALSE] = Outside(c)
    BY DEF Object, Outside, chatroomWasClosed, OutOfRoom
<1> QED
    BY <1>1, <1>2

LEMMA HeardJoined ==
    ASSUME NEW c \in Object, NEW msg, msg.cmd = "NEW_USER_TO_CHATROOM"
    PROVE  Heard(c, msg) = [c EXCEPT !.chatroom_partners = Append(@, msg.names[1])]
BY DEF Heard, Received, Refusals, userHasJoinedChatroom

LEMMA HeardLeft ==
    ASSUME NEW c \in Object, NEW msg, msg.cmd = "USER_HAS_LEFT_CHATROOM",
           msg.names[1] # c.client_name
    PROVE  Heard(c, msg) = userHasLeftChatroom(c, msg.names[1])
BY DEF Heard, Received, Refusals

LEMMA HeardOut ==
    ASSUME NEW c \in Object, NEW msg, msg.cmd = "USER_HAS_LEFT_CHATROOM",
           msg.names[1] = c.client_name
    PROVE  Heard(c, msg) = Outside(c)
<1>1. Heard(c, msg) = [OutOfRoom(c) EXCEPT !.isInSession = FALSE]
    BY DEF Heard, Received, Refusals, userHasLeftChatroom
<1>2. [OutOfRoom(c) EXCEPT !.isInSession = FALSE] = Outside(c)
    BY DEF Object, Outside, OutOfRoom
<1> QED
    BY <1>1, <1>2

LEMMA HeardClosing ==
    ASSUME NEW c \in Object, NEW msg, msg.cmd = "CHATROOM_IS_CLOSING"
    PROVE  Heard(c, msg) = Reset(c)
BY DEF Heard, Received, Refusals

\* Members of an object may be changed.
LEMMA ObjectName ==
    ASSUME NEW c \in Object, NEW v \in Conn \cup {NULL}
    PROVE  [c EXCEPT !.client_name = v] \in Object
BY DEF Object

LEMMA ObjectFlag ==
    ASSUME NEW c \in Object, NEW v \in BOOLEAN
    PROVE  /\ [c EXCEPT !.isInSession = v] \in Object
           /\ [c EXCEPT !.isInChatRoom = v] \in Object
           /\ [c EXCEPT !.isRoomOwner = v] \in Object
BY DEF Object

LEMMA ObjectPartner ==
    ASSUME NEW c \in Object, NEW v \in Nobody
    PROVE  /\ [c EXCEPT !.session_partner = v] \in Object
           /\ [c EXCEPT !.isInSession = TRUE, !.session_partner = v] \in Object
BY DEF Object

LEMMA ObjectPartners ==
    ASSUME NEW c \in Object, NEW v \in Seq(Nobody)
    PROVE  [c EXCEPT !.chatroom_partners = v] \in Object
BY DEF Object

LEMMA ObjectNoPartners ==
    ASSUME NEW c \in Object
    PROVE  [c EXCEPT !.chatroom_partners = <<>>] \in Object
<1>1. <<>> \in Seq(Nobody)
    OBVIOUS
<1> QED
    BY <1>1, ObjectPartners

LEMMA ObjectJoined ==
    ASSUME NEW c \in Object, NEW v \in Nobody
    PROVE  [c EXCEPT !.chatroom_partners = Append(@, v)] \in Object
<1>1. Append(c.chatroom_partners, v) \in Seq(Nobody)
    BY DEF Object
<1> QED
    BY <1>1, ObjectPartners

LEMMA ObjectCreated ==
    ASSUME NEW c \in Object
    PROVE  [c EXCEPT !.isInSession = TRUE, !.isInChatRoom = TRUE,
                     !.isRoomOwner = TRUE] \in Object
BY DEF Object

LEMMA ObjectDead ==
    ASSUME NEW c \in Object
    PROVE  [c EXCEPT !.alive = FALSE] \in Object
BY DEF Object

LEMMA ObjectOutside ==
    ASSUME NEW c \in Object
    PROVE  Outside(c) \in Object
<1>1. <<>> \in Seq(Nobody)
    OBVIOUS
<1> QED
    BY <1>1 DEF Outside, Object

LEMMA ObjectReset ==
    ASSUME NEW c \in Object
    PROVE  Reset(c) \in Object
<1>1. NULL \in Nobody
    BY DEF Nobody
<1> QED
    BY <1>1 DEF Reset, Object

\* Somebody has left: the types, and what becomes of the partners.
LEMMA LeftIs ==
    ASSUME NEW c \in Object, NEW n, n # c.client_name
    PROVE  /\ userHasLeftChatroom(c, n) \in Object
           /\ Known(c, n) = {} => userHasLeftChatroom(c, n) = [c EXCEPT !.alive = FALSE]
           /\ Known(c, n) # {} =>
                LET rest == RemoveAt(c.chatroom_partners, First(Known(c, n)))
                IN  userHasLeftChatroom(c, n) = [c EXCEPT !.chatroom_partners = rest]
<1>1. Known(c, n) = {} => userHasLeftChatroom(c, n) = [c EXCEPT !.alive = FALSE]
    BY DEF userHasLeftChatroom
<1>2. Known(c, n) # {} =>
        LET rest == RemoveAt(c.chatroom_partners, First(Known(c, n)))
        IN  userHasLeftChatroom(c, n) = [c EXCEPT !.chatroom_partners = rest]
    BY DEF userHasLeftChatroom
<1>3. userHasLeftChatroom(c, n) \in Object
    BY <1>1, <1>2, PartnerRemoved, ObjectPartners, ObjectDead
<1> QED
    BY <1>1, <1>2, <1>3

\* An object stays one under any assignment.
LEMMA WrittenType ==
    ASSUME NEW c \in Object, NEW w \in Assignment
    PROVE  Written(c, w) \in Object
<1>1. PICK v : /\ w = Set(w.member, v)
               /\ \/ w.member \in Flags /\ v \in BOOLEAN
                  \/ w.member = "client_name" /\ v \in Conn \cup {NULL}
                  \/ w.member \in {"session_partner", "joined"} /\ v \in Nobody
                  \/ w.member = "left" /\ v \in Nobody \cup Conn
                  \/ w.member = "chatroom_partners" /\ v = <<>>
    BY AssignmentKinds
<1>2. userHasLeftChatroom(c, v) \in Object
  <2>1. CASE v = c.client_name
    <3>1. userHasLeftChatroom(c, v) = [OutOfRoom(c) EXCEPT !.isInSession = FALSE]
        BY <2>1 DEF userHasLeftChatroom
    <3>2. [OutOfRoom(c) EXCEPT !.isInSession = FALSE] = Outside(c)
        BY DEF Object, OutOfRoom, Outside
    <3> QED
        BY <3>1, <3>2, ObjectOutside
  <2>2. CASE v # c.client_name
      BY <2>2, LeftIs
  <2> QED
      BY <2>1, <2>2
<1>3. ASSUME NEW m, w.member = m PROVE Written(c, w) = Written(c, Set(m, v))
    BY <1>1, <1>3
<1>4. CASE w.member = "isInSession" /\ v \in BOOLEAN
  <2>1. Written(c, w) = [c EXCEPT !.isInSession = v]
      BY <1>3, <1>4, WrittenSession
  <2> QED
      BY <1>4, <2>1, ObjectFlag
<1>5. CASE w.member = "isInChatRoom" /\ v \in BOOLEAN
  <2>1. Written(c, w) = [c EXCEPT !.isInChatRoom = v]
      BY <1>3, <1>5, WrittenRoom
  <2> QED
      BY <1>5, <2>1, ObjectFlag
<1>6. CASE w.member = "isRoomOwner" /\ v \in BOOLEAN
  <2>1. Written(c, w) = [c EXCEPT !.isRoomOwner = v]
      BY <1>3, <1>6, WrittenOwner
  <2> QED
      BY <1>6, <2>1, ObjectFlag, ZenonT(60)
<1>7. CASE w.member = "udp_sock"
    BY <1>3, <1>7, WrittenSock
<1>8. CASE w.member = "closed"
  <2>1. Written(c, w) = Reset(c)
      BY <1>3, <1>8, WrittenClosed
  <2> QED
      BY <2>1, ObjectReset
<1>9. CASE w.member = "client_name" /\ v \in Conn \cup {NULL}
  <2>1. Written(c, w) = [c EXCEPT !.client_name = v]
      BY <1>3, <1>9, WrittenName
  <2> QED
      BY <1>9, <2>1, ObjectName
<1>10. CASE w.member = "session_partner" /\ v \in Nobody
  <2>1. Written(c, w) = [c EXCEPT !.session_partner = v]
      BY <1>3, <1>10, WrittenPartner
  <2> QED
      BY <1>10, <2>1, ObjectPartner, ZenonT(60)
<1>11. CASE w.member = "joined" /\ v \in Nobody
  <2>1. Written(c, w) = [c EXCEPT !.chatroom_partners = Append(@, v)]
      BY <1>3, <1>11, WrittenJoined
  <2> QED
      BY <1>11, <2>1, ObjectJoined
<1>12. CASE w.member = "left"
    BY <1>2, <1>3, <1>12, WrittenLeft
<1>13. CASE w.member = "chatroom_partners" /\ v = <<>>
  <2>1. Written(c, w) = [c EXCEPT !.chatroom_partners = v]
      BY <1>3, <1>13, WrittenPartners
  <2> QED
      BY <1>13, <2>1, ObjectNoPartners
<1> QED
    BY <1>1, <1>4, <1>5, <1>6, <1>7, <1>8, <1>9, <1>10, <1>11, <1>12, <1>13 DEF Flags

\* In a room with the partners p.
InRoomWith(c, p) ==
    [c EXCEPT !.isInSession = TRUE, !.isInChatRoom = TRUE, !.chatroom_partners = p]

\* A list of partners taken in.
LEMMA ListHeard ==
    ASSUME NEW c \in Object, NEW names \in Seq(Peer)
    PROVE  /\ gotChatroomUsersList(c, names) \in Object
           /\ gotChatroomUsersList(c, names) =
                IF names = <<>> THEN c ELSE InRoomWith(c, c.chatroom_partners \o names)
           /\ gotChatroomUsersList(c, names).chatroom_partners = c.chatroom_partners \o names
           /\ c.chatroom_partners \o names \in Seq(Nobody)
<1>1. c.chatroom_partners \o names \in Seq(Nobody)
  <2>1. names \in Seq(Nobody) /\ c.chatroom_partners \in Seq(Nobody)
    <3>1. Seq(Peer) \subseteq Seq(Nobody)
        BY SeqMonotonic DEF Nobody
    <3> QED
        BY <3>1 DEF Object
  <2> QED
      BY <2>1, ConcatProperties
<1>2. gotChatroomUsersList(c, names) =
        IF names = <<>> THEN c ELSE InRoomWith(c, c.chatroom_partners \o names)
    BY DEF gotChatroomUsersList, InRoomWith
<1>3. InRoomWith(c, c.chatroom_partners \o names) \in Object
    BY <1>1 DEF Object, InRoomWith
<1>4. names = <<>> => c.chatroom_partners = c.chatroom_partners \o names
  <2>1. c.chatroom_partners \in Seq(Nobody)
      BY DEF Object
  <2> QED
      BY <2>1, ConcatEmptySeq
<1>5. InRoomWith(c, c.chatroom_partners \o names).chatroom_partners
        = c.chatroom_partners \o names
    BY DEF Object, InRoomWith
<1> QED
    BY <1>1, <1>2, <1>3, <1>4, <1>5

LEMMA HeardType ==
    ASSUME NEW c \in Object, NEW msg \in Message
    PROVE  Heard(c, msg) \in Object
<1>1. CASE msg.cmd = "CONFIRM_USER" /\ \E n \in Conn \cup {NULL} : msg.names = <<n>>
  <2>1. Heard(c, msg) = [c EXCEPT !.client_name = msg.names[1]]
      BY <1>1, HeardName
  <2>2. msg.names[1] \in Conn \cup {NULL}
      BY <1>1
  <2> QED
      BY <2>1, <2>2, ObjectName
<1>2. CASE msg.cmd \in PartnerNews /\ \E n \in Nobody : msg.names = <<n>>
  <2>1. PICK n \in Nobody : n = msg.names[1]
      BY <1>2
  <2>2. CASE msg.cmd \in {"INCOMIMG_SESSION", "TARGET_IP_AND_PORT"}
    <3>1. Heard(c, msg) = InSessionWith(c, n)
        BY <2>1, <2>2, HeardSession
    <3> QED
        BY <3>1 DEF Object, InSessionWith
  <2>3. CASE msg.cmd = "NEW_USER_TO_CHATROOM"
    <3>1. Heard(c, msg) = [c EXCEPT !.chatroom_partners = Append(@, n)]
        BY <2>1, <2>3, HeardJoined
    <3>2. Append(c.chatroom_partners, n) \in Seq(Nobody)
        BY DEF Object
    <3> QED
        BY <3>1, <3>2 DEF Object
  <2> QED
      BY <1>2, <2>2, <2>3 DEF PartnerNews
<1>3. CASE msg.cmd = "USER_HAS_LEFT_CHATROOM"
  <2>1. CASE msg.names[1] = c.client_name
    <3>1. Heard(c, msg) = Outside(c)
        BY <1>3, <2>1, HeardOut
    <3> QED
        BY <3>1, ObjectOutside
  <2>2. CASE msg.names[1] # c.client_name
    <3>1. Heard(c, msg) = userHasLeftChatroom(c, msg.names[1])
        BY <1>3, <2>2, HeardLeft
    <3> QED
        BY <2>2, <3>1, LeftIs
  <2> QED
      BY <2>1, <2>2
<1>4. CASE msg.cmd = "CHATROOM_LIST" /\ msg.names \in Seq(Peer)
  <2>1. Heard(c, msg) = gotChatroomUsersList(c, msg.names)
      BY <1>4, HeardList
  <2> QED
      BY <1>4, <2>1, ListHeard
<1>5. CASE msg.cmd \in Bare
  <2>1. CASE msg.cmd \in {"CLOSE_SESSION_ERROR", "SESSION_ENDED"}
    <3>1. Heard(c, msg) = [c EXCEPT !.isInSession = FALSE]
        BY <2>1, HeardEnd
    <3> QED
        BY <3>1, ObjectFlag
  <2>2. CASE msg.cmd = "CHATROOM_CREATED"
    <3>1. Heard(c, msg) = [c EXCEPT !.isInSession = TRUE, !.isInChatRoom = TRUE,
                                    !.isRoomOwner = TRUE]
        BY <2>2, HeardCreated
    <3> QED
        BY <3>1, ObjectCreated
  <2>3. CASE msg.cmd = "CHATROOM_WAS_CLOSED"
    <3>1. Heard(c, msg) = Outside(c)
        BY <2>3, HeardWasClosed
    <3> QED
        BY <3>1, ObjectOutside
  <2>4. CASE msg.cmd = "CHATROOM_IS_CLOSING"
    <3>1. Heard(c, msg) = Reset(c)
        BY <2>4, HeardClosing
    <3> QED
        BY <3>1, ObjectReset
  <2> QED
      BY <1>5, <2>1, <2>2, <2>3, <2>4 DEF Bare
<1> QED
    BY <1>1, <1>2, <1>3, <1>4, <1>5, MessageKinds

\* What the session flags and the partner of a session do not bear on.
Alike(c, d) == /\ c.client_name = d.client_name /\ c.isRoomOwner = d.isRoomOwner
               /\ c.chatroom_partners = d.chatroom_partners /\ c.alive = d.alive

LEMMA LeftAlike ==
    ASSUME NEW c \in Object, NEW d \in Object, NEW n, Alike(c, d)
    PROVE  Alike(userHasLeftChatroom(c, n), userHasLeftChatroom(d, n))
<1>1. Known(c, n) = Known(d, n)
    BY DEF Known, Alike
<1>2. CASE n = c.client_name
  <2>1. /\ userHasLeftChatroom(c, n) = [OutOfRoom(c) EXCEPT !.isInSession = FALSE]
        /\ userHasLeftChatroom(d, n) = [OutOfRoom(d) EXCEPT !.isInSession = FALSE]
      BY <1>2 DEF userHasLeftChatroom, Alike
  <2>2. /\ [OutOfRoom(c) EXCEPT !.isInSession = FALSE] = Outside(c)
        /\ [OutOfRoom(d) EXCEPT !.isInSession = FALSE] = Outside(d)
      BY DEF Object, OutOfRoom, Outside
  <2>3. Alike(Outside(c), Outside(d))
      BY DEF Alike, Outside, Object
  <2> QED
      BY <2>1, <2>2, <2>3
<1>3. CASE n # c.client_name /\ Known(c, n) = {}
  <2>1. /\ userHasLeftChatroom(c, n) = [c EXCEPT !.alive = FALSE]
        /\ userHasLeftChatroom(d, n) = [d EXCEPT !.alive = FALSE]
      BY <1>1, <1>3, LeftIs DEF Alike
  <2> QED
      BY <2>1 DEF Alike, Object
<1>4. CASE n # c.client_name /\ Known(c, n) # {}
  <2> DEFINE rest == RemoveAt(c.chatroom_partners, First(Known(c, n)))
  <2>1. rest = RemoveAt(d.chatroom_partners, First(Known(d, n)))
      BY <1>1 DEF Alike
  <2> HIDE DEF rest
  <2>2. /\ userHasLeftChatroom(c, n) = [c EXCEPT !.chatroom_partners = rest]
        /\ userHasLeftChatroom(d, n) = [d EXCEPT !.chatroom_partners = rest]
      BY <1>1, <1>4, <2>1, LeftIs DEF Alike, rest
  <2> QED
      BY <2>2 DEF Alike, Object
<1> QED
    BY <1>2, <1>3, <1>4

LEMMA ResetAlike ==
    ASSUME NEW c \in Object
    PROVE  /\ Alike(Reset(c), c)
           /\ \A v \in BOOLEAN : Alike([c EXCEPT !.isInSession = v], c)
           /\ \A v \in BOOLEAN : Alike([c EXCEPT !.isInChatRoom = v], c)
           /\ \A v \in Nobody : Alike([c EXCEPT !.session_partner = v], c)
           /\ \A v \in Nobody : Alike([c EXCEPT !.isInSession = TRUE,
                                                !.session_partner = v], c)
BY DEF Reset, Object, Alike

\* Whether one of two objects that are alike is changed by an assignment ...
LEMMA WrittenAlike ==
    ASSUME NEW c \in Object, NEW d \in Object, Alike(c, d), NEW w \in Assignment
    PROVE  Alike(Written(c, w), Written(d, w))
<1>1. PICK v : /\ w = Set(w.member, v)
               /\ \/ w.member \in Flags /\ v \in BOOLEAN
                  \/ w.member = "client_name" /\ v \in Conn \cup {NULL}
                  \/ w.member \in {"session_partner", "joined"} /\ v \in Nobody
                  \/ w.member = "left" /\ v \in Nobody \cup Conn
                  \/ w.member = "chatroom_partners" /\ v = <<>>
    BY AssignmentKinds
<1>2. ASSUME NEW m, w.member = m
      PROVE  /\ Written(c, w) = Written(c, Set(m, v))
             /\ Written(d, w) = Written(d, Set(m, v))
    BY <1>1, <1>2
<1>4. CASE w.member = "isInSession" /\ v \in BOOLEAN
  <2>1. /\ Written(c, w) = [c EXCEPT !.isInSession = v]
        /\ Written(d, w) = [d EXCEPT !.isInSession = v]
      BY <1>2, <1>4, WrittenSession
  <2> QED
      BY <2>1 DEF Alike, Object
<1>5. CASE w.member = "isInChatRoom" /\ v \in BOOLEAN
  <2>1. /\ Written(c, w) = [c EXCEPT !.isInChatRoom = v]
        /\ Written(d, w) = [d EXCEPT !.isInChatRoom = v]
      BY <1>2, <1>5, WrittenRoom
  <2> QED
      BY <2>1 DEF Alike, Object
<1>6. CASE w.member = "isRoomOwner"
  <2>1. /\ Written(c, w) = [c EXCEPT !.isRoomOwner = v]
        /\ Written(d, w) = [d EXCEPT !.isRoomOwner = v]
      BY <1>2, <1>6, WrittenOwner
  <2> QED
      BY <2>1 DEF Alike, Object, Outside
<1>7. CASE w.member = "udp_sock"
    BY <1>2, <1>7, WrittenSock
<1>8. CASE w.member = "closed"
  <2>1. Written(c, w) = Reset(c) /\ Written(d, w) = Reset(d)
      BY <1>2, <1>8, WrittenClosed
  <2> QED
      BY <2>1 DEF Alike, Object, Reset
<1>9. CASE w.member = "client_name"
  <2>1. /\ Written(c, w) = [c EXCEPT !.client_name = v]
        /\ Written(d, w) = [d EXCEPT !.client_name = v]
      BY <1>2, <1>9, WrittenName
  <2> QED
      BY <2>1 DEF Alike, Object, Outside
<1>10. CASE w.member = "session_partner" /\ v \in Nobody
  <2>1. /\ Written(c, w) = [c EXCEPT !.session_partner = v]
        /\ Written(d, w) = [d EXCEPT !.session_partner = v]
      BY <1>2, <1>10, WrittenPartner
  <2> QED
      BY <2>1 DEF Alike, Object
<1>11. CASE w.member = "joined"
  <2>1. /\ Written(c, w) = [c EXCEPT !.chatroom_partners = Append(@, v)]
        /\ Written(d, w) = [d EXCEPT !.chatroom_partners = Append(@, v)]
      BY <1>2, <1>11, WrittenJoined
  <2> QED
      BY <2>1 DEF Alike, Object, Outside
<1>12. CASE w.member = "left"
  <2>1. /\ Written(c, w) = userHasLeftChatroom(c, v)
        /\ Written(d, w) = userHasLeftChatroom(d, v)
      BY <1>2, <1>12, WrittenLeft
  <2> QED
      BY <2>1, LeftAlike
<1>13. CASE w.member = "chatroom_partners"
  <2>1. /\ Written(c, w) = [c EXCEPT !.chatroom_partners = v]
        /\ Written(d, w) = [d EXCEPT !.chatroom_partners = v]
      BY <1>2, <1>13, WrittenPartners
  <2> QED
      BY <2>1 DEF Alike, Object, Outside
<1> QED
    BY <1>1, <1>4, <1>5, <1>6, <1>7, <1>8, <1>9, <1>10, <1>11, <1>12, <1>13 DEF Flags

\* ... or by a message, they stay alike.
LEMMA HeardAlike ==
    ASSUME NEW c \in Object, NEW d \in Object, Alike(c, d), NEW msg \in Message
    PROVE  Alike(Heard(c, msg), Heard(d, msg))
<1> DEFINE n == msg.names[1]
<1>2. CASE msg.cmd = "CONFIRM_USER"
  <2>1. /\ Heard(c, msg) = [c EXCEPT !.client_name = n]
        /\ Heard(d, msg) = [d EXCEPT !.client_name = n]
      BY <1>2, HeardName
  <2> QED
      BY <2>1 DEF Alike, Object, Outside
<1>3. CASE msg.cmd \in {"INCOMIMG_SESSION", "TARGET_IP_AND_PORT"}
  <2>1. Heard(c, msg) = InSessionWith(c, n) /\ Heard(d, msg) = InSessionWith(d, n)
      BY <1>3, HeardSession
  <2> QED
      BY <2>1 DEF Alike, Object, InSessionWith
<1>4. CASE msg.cmd \in {"CLOSE_SESSION_ERROR", "SESSION_ENDED"}
  <2>1. /\ Heard(c, msg) = [c EXCEPT !.isInSession = FALSE]
        /\ Heard(d, msg) = [d EXCEPT !.isInSession = FALSE]
      BY <1>4, HeardEnd
  <2> QED
      BY <2>1 DEF Alike, Object, Reset
<1>5. CASE msg.cmd = "CHATROOM_CREATED"
  <2>1. /\ Heard(c, msg) = [c EXCEPT !.isInSession = TRUE, !.isInChatRoom = TRUE,
                                     !.isRoomOwner = TRUE]
        /\ Heard(d, msg) = [d EXCEPT !.isInSession = TRUE, !.isInChatRoom = TRUE,
                                     !.isRoomOwner = TRUE]
      BY <1>5, HeardCreated
  <2> QED
      BY <2>1 DEF Alike, Object, Outside
<1>6. CASE msg.cmd = "CHATROOM_LIST"
  <2>1. /\ Heard(c, msg) = gotChatroomUsersList(c, msg.names)
        /\ Heard(d, msg) = gotChatroomUsersList(d, msg.names)
        /\ msg.names \in Seq(Peer)
      BY <1>6, HeardList, MessageKinds DEF PartnerNews, Bare
  <2>2. c.chatroom_partners = d.chatroom_partners
      BY DEF Alike
  <2> DEFINE p == c.chatroom_partners \o msg.names
  <2>3. Alike(InRoomWith(c, p), InRoomWith(d, p))
    <3> HIDE DEF p
    <3> QED
        BY DEF Alike, Object, InRoomWith
  <2>4. CASE msg.names = <<>>
    <3>1. Heard(c, msg) = c /\ Heard(d, msg) = d
        BY <2>1, <2>4, ListHeard
    <3> QED
        BY <3>1
  <2>5. CASE msg.names # <<>>
    <3>1. Heard(c, msg) = InRoomWith(c, p) /\ Heard(d, msg) = InRoomWith(d, p)
      <4>1. p = d.chatroom_partners \o msg.names
          BY <2>2
      <4> QED
          BY <2>1, <2>5, <4>1, ListHeard, ZenonT(60)
    <3> HIDE DEF p
    <3> QED
        BY <2>3, <3>1
  <2> QED
      BY <2>4, <2>5
<1>7. CASE msg.cmd = "CHATROOM_WAS_CLOSED"
  <2>1. Heard(c, msg) = Outside(c) /\ Heard(d, msg) = Outside(d)
      BY <1>7, HeardWasClosed
  <2> QED
      BY <2>1 DEF Alike, Object, Outside
<1>8. CASE msg.cmd = "NEW_USER_TO_CHATROOM"
  <2>1. /\ Heard(c, msg) = [c EXCEPT !.chatroom_partners = Append(@, n)]
        /\ Heard(d, msg) = [d EXCEPT !.chatroom_partners = Append(@, n)]
      BY <1>8, HeardJoined
  <2> HIDE DEF n
  <2> QED
      BY <2>1 DEF Alike, Object, Outside
<1>9. CASE msg.cmd = "USER_HAS_LEFT_CHATROOM" /\ n # c.client_name
  <2>1. Heard(c, msg) = userHasLeftChatroom(c, n) /\ Heard(d, msg) = userHasLeftChatroom(d, n)
      BY <1>9, HeardLeft DEF Alike
  <2> QED
      BY <2>1, LeftAlike
<1>10. CASE msg.cmd = "USER_HAS_LEFT_CHATROOM" /\ n = c.client_name
  <2>1. Heard(c, msg) = Outside(c) /\ Heard(d, msg) = Outside(d)
      BY <1>10, HeardOut DEF Alike
  <2> QED
      BY <2>1 DEF Alike, Object, Outside
<1>11. CASE msg.cmd = "CHATROOM_IS_CLOSING"
  <2>1. Heard(c, msg) = Reset(c) /\ Heard(d, msg) = Reset(d)
      BY <1>11, HeardClosing
  <2> QED
      BY <2>1 DEF Alike, Object, Reset
<1> QED
    BY <1>2, <1>3, <1>4, <1>5, <1>6, <1>7, <1>8, <1>9, <1>10, <1>11, MessageKinds
    DEF PartnerNews, Bare

-------------------------------------------------------------------------------
(* The assignments of a message lead to what the message is as one step. *)

Progress == {t \in Object \X Assignment \X Object : t[3] = Written(t[1], t[2])}

Leads(c, todo, d) == Chain(Progress, c, todo, d)

LEMMA Progresses ==
    ASSUME NEW c \in Object, NEW w \in Assignment
    PROVE  <<c, w, Written(c, w)>> \in Progress
BY WrittenType DEF Progress

LEMMA SetType ==
    /\ \A f \in Flags : \A v \in BOOLEAN : Set(f, v) \in Assignment
    /\ \A v \in Conn \cup {NULL} : Set("client_name", v) \in Assignment
    /\ \A v \in Nobody : /\ Set("session_partner", v) \in Assignment
                         /\ Set("joined", v) \in Assignment
    /\ \A v \in Nobody \cup Conn : Set("left", v) \in Assignment
    /\ Set("chatroom_partners", <<>>) \in Assignment
BY DEF Set, Assignment

\* What appending makes of short sequences.
LEMMA Appended2 ==
    ASSUME NEW X, NEW v \in X, NEW w \in X
    PROVE  Append(<<v>>, w) = <<v, w>>
<1>1. Append(<<v>>, w) \in Seq(X) /\ <<v, w>> \in Seq(X)
    OBVIOUS
<1>2. /\ Len(Append(<<v>>, w)) = Len(<<v, w>>)
      /\ \A i \in 1..2 : Append(<<v>>, w)[i] = <<v, w>>[i]
    OBVIOUS
<1> QED
    BY <1>1, <1>2, SeqEqual

LEMMA Appended3 ==
    ASSUME NEW X, NEW u \in X, NEW v \in X, NEW w \in X
    PROVE  Append(<<u, v>>, w) = <<u, v, w>>
<1>1. Append(<<u, v>>, w) \in Seq(X) /\ <<u, v, w>> \in Seq(X)
    OBVIOUS
<1>2. /\ Len(Append(<<u, v>>, w)) = Len(<<u, v, w>>)
      /\ \A i \in 1..3 : Append(<<u, v>>, w)[i] = <<u, v, w>>[i]
    OBVIOUS
<1> QED
    BY <1>1, <1>2, SeqEqual

LEMMA Appended4 ==
    ASSUME NEW X, NEW t \in X, NEW u \in X, NEW v \in X, NEW w \in X
    PROVE  Append(<<t, u, v>>, w) = <<t, u, v, w>>
<1>1. Append(<<t, u, v>>, w) \in Seq(X) /\ <<t, u, v, w>> \in Seq(X)
    OBVIOUS
<1>2. /\ Len(Append(<<t, u, v>>, w)) = Len(<<t, u, v, w>>)
      /\ \A i \in 1..4 : Append(<<t, u, v>>, w)[i] = <<t, u, v, w>>[i]
    OBVIOUS
<1> QED
    BY <1>1, <1>2, SeqEqual

\* One assignment after the other.
LEMMA Leads1 ==
    ASSUME NEW c \in Object, NEW w \in Assignment
    PROVE  Leads(c, <<w>>, Written(c, w))
<1>1. Chain(Progress, c, <<>>, c)
    BY ChainNone
<1>2. <<>> \in Seq(Assignment) /\ Append(<<>>, w) = <<w>>
    OBVIOUS
<1>3. Chain(Progress, c, Append(<<>>, w), Written(c, w))
    BY <1>1, <1>2, Progresses, ChainAppend
<1> QED
    BY <1>2, <1>3 DEF Leads

LEMMA LeadsMore ==
    ASSUME NEW c \in Object, NEW d \in Object, NEW todo \in Seq(Assignment),
           Leads(c, todo, d), NEW w \in Assignment
    PROVE  Leads(c, Append(todo, w), Written(d, w))
BY Progresses, ChainAppend DEF Leads

LEMMA Leads2 ==
    ASSUME NEW c \in Object, NEW v \in Assignment, NEW w \in Assignment
    PROVE  Leads(c, <<v, w>>, Written(Written(c, v), w))
<1>1. Leads(c, <<v>>, Written(c, v)) /\ Written(c, v) \in Object
    BY Leads1, WrittenType
<1>2. <<v>> \in Seq(Assignment)
    OBVIOUS
<1>3. Append(<<v>>, w) = <<v, w>>
    BY Appended2
<1> QED
    BY <1>1, <1>2, <1>3, LeadsMore

LEMMA Leads3 ==
    ASSUME NEW c \in Object, NEW u \in Assignment, NEW v \in Assignment, NEW w \in Assignment
    PROVE  Leads(c, <<u, v, w>>, Written(Written(Written(c, u), v), w))
<1> DEFINE d == Written(Written(c, u), v)
<1>1. Leads(c, <<u, v>>, d) /\ d \in Object
    BY Leads2, WrittenType
<1>2. <<u, v>> \in Seq(Assignment)
    OBVIOUS
<1>4. Append(<<u, v>>, w) = <<u, v, w>>
    BY Appended3
<1> HIDE DEF d
<1>3. Leads(c, <<u, v, w>>, Written(d, w))
    BY <1>1, <1>2, <1>4, LeadsMore
<1> QED
    BY <1>3 DEF d

LEMMA Leads4 ==
    ASSUME NEW c \in Object, NEW t \in Assignment, NEW u \in Assignment,
           NEW v \in Assignment, NEW w \in Assignment
    PROVE  Leads(c, <<t, u, v, w>>, Written(Written(Written(Written(c, t), u), v), w))
<1> DEFINE d == Written(Written(Written(c, t), u), v)
<1>1. Leads(c, <<t, u, v>>, d) /\ d \in Object
    BY Leads3, WrittenType
<1>2. <<t, u, v>> \in Seq(Assignment)
    OBVIOUS
<1>4. Append(<<t, u, v>>, w) = <<t, u, v, w>>
    BY Appended4
<1> HIDE DEF d
<1>3. Leads(c, <<t, u, v, w>>, Written(d, w))
    BY <1>1, <1>2, <1>4, LeadsMore
<1> QED
    BY <1>3 DEF d

\* The same, with names for what is on the way.
LEMMA LeadsBy2 ==
    ASSUME NEW c \in Object, NEW v \in Assignment, NEW w \in Assignment,
           NEW d, NEW e, Written(c, v) = d, Written(d, w) = e
    PROVE  Leads(c, <<v, w>>, e)
BY Leads2

LEMMA LeadsBy3 ==
    ASSUME NEW c \in Object, NEW u \in Assignment, NEW v \in Assignment,
           NEW w \in Assignment, NEW d, NEW e, NEW f,
           Written(c, u) = d, Written(d, v) = e, Written(e, w) = f
    PROVE  Leads(c, <<u, v, w>>, f)
BY Leads3

LEMMA LeadsBy4 ==
    ASSUME NEW c \in Object, NEW t \in Assignment, NEW u \in Assignment,
           NEW v \in Assignment, NEW w \in Assignment, NEW d, NEW e, NEW f, NEW g,
           Written(c, t) = d, Written(d, u) = e, Written(e, v) = f, Written(f, w) = g
    PROVE  Leads(c, <<t, u, v, w>>, g)
BY Leads4

\* The list of a room: its assignments by turn of the loop.
LEMMA ListWritesAre ==
    ASSUME NEW names \in Seq(Peer), NEW i \in 1..(3 * Len(names))
    PROVE  \E j \in 0..(Len(names) - 1) :
              \/ /\ i = 3 * j + 1 /\ ListWrites(names)[i] = Set("isInSession", TRUE)
              \/ /\ i = 3 * j + 2 /\ ListWrites(names)[i] = Set("isInChatRoom", TRUE)
              \/ /\ i = 3 * j + 3 /\ ListWrites(names)[i] = Set("joined", names[j + 1])
<1>1. Len(names) \in Nat
    OBVIOUS
<1>2. \E j \in 0..(Len(names) - 1) : \E r \in 1..3 : i = 3 * j + r
  <2> DEFINE j == (i - 1) \div 3
             r == ((i - 1) % 3) + 1
  <2>1. j \in 0..(Len(names) - 1) /\ r \in 1..3 /\ i = 3 * j + r
      BY <1>1
  <2> QED
      BY <2>1
<1>3. PICK j \in 0..(Len(names) - 1), r \in 1..3 : i = 3 * j + r
    BY <1>2
<1>4. (i + 2) \div 3 = j + 1 /\ ((i - 1) % 3) + 1 = r
    BY <1>1, <1>3
<1>5. ListWrites(names)[i] = Partner(names[j + 1])[r]
    BY <1>4 DEF ListWrites
<1> DEFINE x == names[j + 1]
<1> HIDE DEF x
<1>6. /\ Partner(x)[1] = Set("isInSession", TRUE) /\ Partner(x)[2] = Set("isInChatRoom", TRUE)
      /\ Partner(x)[3] = Set("joined", x)
    BY DEF Partner
<1>7. CASE r = 1
    BY <1>3, <1>5, <1>6, <1>7 DEF x
<1>8. CASE r = 2
    BY <1>3, <1>5, <1>6, <1>8 DEF x
<1>9. CASE r = 3
    BY <1>3, <1>5, <1>6, <1>9 DEF x
<1>10. r = 1 \/ r = 2 \/ r = 3
    OBVIOUS
<1> QED
    BY <1>7, <1>8, <1>9, <1>10

LEMMA ListWritesType ==
    ASSUME NEW names \in Seq(Peer)
    PROVE  /\ ListWrites(names) \in Seq(Assignment)
           /\ Len(ListWrites(names)) = 3 * Len(names)
<1>1. 3 * Len(names) \in Nat
    OBVIOUS
<1>2. \A i \in 1..(3 * Len(names)) : ListWrites(names)[i] \in Assignment
  <2> SUFFICES ASSUME NEW i \in 1..(3 * Len(names)) PROVE ListWrites(names)[i] \in Assignment
      OBVIOUS
  <2>1. PICK j \in 0..(Len(names) - 1) :
              \/ ListWrites(names)[i] = Set("isInSession", TRUE)
              \/ ListWrites(names)[i] = Set("isInChatRoom", TRUE)
              \/ ListWrites(names)[i] = Set("joined", names[j + 1])
      BY ListWritesAre
  <2>2. names[j + 1] \in Nobody
    <3>1. j + 1 \in 1..Len(names)
        OBVIOUS
    <3> QED
        BY <3>1 DEF Nobody
  <2> QED
      BY <2>1, <2>2, SetType DEF Flags
<1>3. ListWrites(names) = [i \in 1..(3 * Len(names)) |-> ListWrites(names)[i]]
    BY DEF ListWrites
<1>4. ListWrites(names) \in [1..(3 * Len(names)) -> Assignment]
    BY <1>2, <1>3
<1> QED
    BY <1>1, <1>4, SeqDef

\* The list of a room, one turn of the loop after the other.
LEMMA SubSeqGrows ==
    ASSUME NEW X, NEW p \in Seq(X), NEW q \in Seq(X)
    PROVE  /\ p \o SubSeq(q, 1, 0) = p
           /\ p \o SubSeq(q, 1, Len(q)) = p \o q
           /\ \A j \in 0..Len(q) : p \o SubSeq(q, 1, j) \in Seq(X)
<1>1. p \o SubSeq(q, 1, 0) = p
    BY SubSeqEmpty, ConcatEmptySeq
<1>2. SubSeq(q, 1, Len(q)) = q
    BY SubSeqFull
<1>3. ASSUME NEW j \in 0..Len(q)
      PROVE  p \o SubSeq(q, 1, j) \in Seq(X)
  <2>1. SubSeq(q, 1, j) \in Seq(X)
      OBVIOUS
  <2> QED
      BY <2>1, ConcatProperties
<1> QED
    BY <1>1, <1>2, <1>3

LEMMA SubSeqGrowsBy ==
    ASSUME NEW X, NEW p \in Seq(X), NEW q \in Seq(X), NEW j \in 0..(Len(q) - 1),
           NEW x, x = q[j + 1]
    PROVE  Append(p \o SubSeq(q, 1, j), x) = p \o SubSeq(q, 1, j + 1)
<1> DEFINE s == SubSeq(q, 1, j)
           t == SubSeq(q, 1, j + 1)
<1>1. j \in 0..Len(q) /\ j + 1 \in 0..Len(q) /\ x \in X /\ Len(q) \in Nat
    OBVIOUS
<1>2. /\ s \in Seq(X) /\ Len(s) = j /\ t \in Seq(X) /\ Len(t) = j + 1 /\ t[j + 1] = x
      /\ \A i \in 1..j : t[i] = s[i]
    BY <1>1
<1> HIDE DEF s, t
<1>3. Append(s, x) = t
  <2>1. Append(s, x) \in Seq(X) /\ Len(Append(s, x)) = Len(t)
      BY <1>1, <1>2
  <2>2. \A i \in 1..(j + 1) : Append(s, x)[i] = t[i]
      BY <1>1, <1>2
  <2> QED
      BY <1>2, <2>1, <2>2, SeqEqual
<1>4. Append(p \o s, x) = (p \o s) \o <<x>>
  <2>1. p \o s \in Seq(X)
      BY <1>2, ConcatProperties
  <2> QED
      BY <1>1, <2>1, AppendIsConcat
<1>5. (p \o s) \o <<x>> = p \o (s \o <<x>>)
  <2> DEFINE e == <<x>>
  <2>1. e \in Seq(X) /\ s \in Seq(X)
      BY <1>1, <1>2
  <2> HIDE DEF e
  <2>2. (p \o s) \o e = p \o (s \o e)
      BY <2>1, ConcatAssociative, SMTT(30)
  <2> QED
      BY <2>2 DEF e
<1>6. s \o <<x>> = Append(s, x)
    BY <1>1, <1>2, AppendIsConcat
<1> QED
    BY <1>3, <1>4, <1>5, <1>6 DEF s, t

\* The object after j turns and r assignments of the next.
Turn(c, names, j, r) ==
    [c EXCEPT !.isInSession = IF j = 0 /\ r = 0 THEN @ ELSE TRUE,
              !.isInChatRoom = IF j = 0 /\ r \in {0, 1} THEN @ ELSE TRUE,
              !.chatroom_partners = @ \o SubSeq(names, 1, j)]

LEMMA ListLead ==
    ASSUME NEW c \in Object, NEW names \in Seq(Peer)
    PROVE  Leads(c, ListWrites(names), gotChatroomUsersList(c, names))
<1> DEFINE n == Len(names)
           p == c.chatroom_partners
           P(j) == p \o SubSeq(names, 1, j)
           w == [i \in 0..(3 * n) |-> Turn(c, names, i \div 3, i % 3)]
<1>1. n \in Nat /\ p \in Seq(Nobody) /\ names \in Seq(Nobody)
  <2>1. Seq(Peer) \subseteq Seq(Nobody)
      BY SeqMonotonic DEF Nobody
  <2> QED
      BY <2>1 DEF Object
<1>2. /\ P(0) = p /\ P(n) = p \o names
      /\ \A j \in 0..n : P(j) \in Seq(Nobody)
      /\ \A j \in 0..(n - 1) : Append(P(j), names[j + 1]) = P(j + 1)
  <2>1. /\ p \o SubSeq(names, 1, 0) = p
        /\ p \o SubSeq(names, 1, Len(names)) = p \o names
        /\ \A j \in 0..Len(names) : p \o SubSeq(names, 1, j) \in Seq(Nobody)
        /\ \A j \in 0..(Len(names) - 1) :
             Append(p \o SubSeq(names, 1, j), names[j + 1]) = p \o SubSeq(names, 1, j + 1)
    <3> HIDE DEF p, n, P, w
    <3>1. p \in Seq(Nobody) /\ names \in Seq(Nobody)
        BY <1>1
    <3>2. /\ p \o SubSeq(names, 1, 0) = p
          /\ p \o SubSeq(names, 1, Len(names)) = p \o names
        BY <3>1, SubSeqGrows
    <3>3. \A j \in 0..Len(names) : p \o SubSeq(names, 1, j) \in Seq(Nobody)
        BY <3>1, SubSeqGrows, Zenon
    <3>4. \A j \in 0..(Len(names) - 1) :
             Append(p \o SubSeq(names, 1, j), names[j + 1]) = p \o SubSeq(names, 1, j + 1)
      <4> TAKE j \in 0..(Len(names) - 1)
      <4> DEFINE x == names[j + 1]
      <4>1. x = names[j + 1]
          OBVIOUS
      <4> HIDE DEF x
      <4>2. Append(p \o SubSeq(names, 1, j), x) = p \o SubSeq(names, 1, j + 1)
          BY <3>1, <4>1, SubSeqGrowsBy, Zenon
      <4> QED
          BY <4>1, <4>2
    <3> QED
        BY <3>2, <3>3, <3>4
  <2> QED
      BY <2>1, Zenon
<1>3. \A j, r : Turn(c, names, j, r) =
                    [c EXCEPT !.isInSession = IF j = 0 /\ r = 0 THEN @ ELSE TRUE,
                              !.isInChatRoom = IF j = 0 /\ r \in {0, 1} THEN @ ELSE TRUE,
                              !.chatroom_partners = P(j)]
    BY DEF Turn
<1> HIDE DEF P
<1>4. \A j \in 0..n : \A r \in 0..2 : Turn(c, names, j, r) \in Object
  <2> SUFFICES ASSUME NEW j \in 0..n, NEW r \in 0..2 PROVE Turn(c, names, j, r) \in Object
      OBVIOUS
  <2> DEFINE q == P(j)
             a == IF j = 0 /\ r = 0 THEN c.isInSession ELSE TRUE
             b == IF j = 0 /\ r \in {0, 1} THEN c.isInChatRoom ELSE TRUE
  <2>1. q \in Seq(Nobody) /\ a \in BOOLEAN /\ b \in BOOLEAN
      BY <1>2 DEF Object
  <2>2. Turn(c, names, j, r) = [c EXCEPT !.isInSession = a, !.isInChatRoom = b,
                                         !.chatroom_partners = q]
      BY <1>3
  <2> HIDE DEF q, a, b
  <2> QED
      BY <2>1, <2>2 DEF Object
<1>5. Turn(c, names, 0, 0) = c
  <2>1. Turn(c, names, 0, 0) = [c EXCEPT !.isInSession = @, !.isInChatRoom = @,
                                         !.chatroom_partners = p]
      BY <1>2, <1>3
  <2> QED
      BY <2>1 DEF Object
<1>6. Turn(c, names, n, 0) = gotChatroomUsersList(c, names)
  <2>1. CASE n = 0
    <3>1. names = <<>>
        BY <2>1
    <3> QED
        BY <1>5, <2>1, <3>1, ListHeard
  <2>2. CASE n # 0
    <3>1. names # <<>>
        BY <2>2
    <3>2. Turn(c, names, n, 0) = InRoomWith(c, p \o names)
        BY <1>2, <1>3, <2>2 DEF InRoomWith
    <3> QED
        BY <3>1, <3>2, ListHeard
  <2> QED
      BY <2>1, <2>2
<1>7. ASSUME NEW j \in 0..(n - 1)
      PROVE  /\ Turn(c, names, j, 1) = Written(Turn(c, names, j, 0), Set("isInSession", TRUE))
             /\ Turn(c, names, j, 2) = Written(Turn(c, names, j, 1), Set("isInChatRoom", TRUE))
             /\ Turn(c, names, j + 1, 0) =
                    Written(Turn(c, names, j, 2), Set("joined", names[j + 1]))
  <2>1. j \in 0..n /\ j + 1 # 0 /\ \A r \in 0..2 : Turn(c, names, j, r) \in Object
      BY <1>1, <1>4
  <2> DEFINE q == P(j)
             a == IF j = 0 THEN c.isInSession ELSE TRUE
             b == IF j = 0 THEN c.isInChatRoom ELSE TRUE
  <2>2. /\ Turn(c, names, j, 0) = [c EXCEPT !.isInSession = a, !.isInChatRoom = b,
                                            !.chatroom_partners = q]
        /\ Turn(c, names, j, 1) = [c EXCEPT !.isInSession = TRUE, !.isInChatRoom = b,
                                            !.chatroom_partners = q]
        /\ Turn(c, names, j, 2) = [c EXCEPT !.isInSession = TRUE, !.isInChatRoom = TRUE,
                                            !.chatroom_partners = q]
    <3>1. /\ (IF j = 0 /\ 0 = 0 THEN c.isInSession ELSE TRUE) = a
          /\ (IF j = 0 /\ 0 \in {0, 1} THEN c.isInChatRoom ELSE TRUE) = b
          /\ (IF j = 0 /\ 1 = 0 THEN c.isInSession ELSE TRUE) = TRUE
          /\ (IF j = 0 /\ 1 \in {0, 1} THEN c.isInChatRoom ELSE TRUE) = b
          /\ (IF j = 0 /\ 2 = 0 THEN c.isInSession ELSE TRUE) = TRUE
          /\ (IF j = 0 /\ 2 \in {0, 1} THEN c.isInChatRoom ELSE TRUE) = TRUE
        OBVIOUS
    <3> HIDE DEF a, b
    <3> QED
        BY <1>3, <3>1
  <2>3. Turn(c, names, j + 1, 0) = [c EXCEPT !.isInSession = TRUE, !.isInChatRoom = TRUE,
                                             !.chatroom_partners = Append(q, names[j + 1])]
    <3>1. /\ (IF j + 1 = 0 /\ 0 = 0 THEN c.isInSession ELSE TRUE) = TRUE
          /\ (IF j + 1 = 0 /\ 0 \in {0, 1} THEN c.isInChatRoom ELSE TRUE) = TRUE
        BY <2>1
    <3>2. P(j + 1) = Append(q, names[j + 1])
        BY <1>2
    <3> QED
        BY <1>3, <3>1, <3>2
  <2> HIDE DEF a, b, q
  <2>4. /\ Written(Turn(c, names, j, 0), Set("isInSession", TRUE)) =
                [Turn(c, names, j, 0) EXCEPT !.isInSession = TRUE]
        /\ Written(Turn(c, names, j, 1), Set("isInChatRoom", TRUE)) =
                [Turn(c, names, j, 1) EXCEPT !.isInChatRoom = TRUE]
        /\ Written(Turn(c, names, j, 2), Set("joined", names[j + 1])) =
                [Turn(c, names, j, 2) EXCEPT !.chatroom_partners = Append(@, names[j + 1])]
    <3>1. /\ Turn(c, names, j, 0) \in Object /\ Turn(c, names, j, 1) \in Object
          /\ Turn(c, names, j, 2) \in Object
        BY <2>1
    <3> QED
        BY <3>1, WrittenSession, WrittenRoom, WrittenJoined, Zenon
  <2>5. [Turn(c, names, j, 0) EXCEPT !.isInSession = TRUE] = Turn(c, names, j, 1)
      BY <2>2, ZenonT(60) DEF Object
  <2>6. [Turn(c, names, j, 1) EXCEPT !.isInChatRoom = TRUE] = Turn(c, names, j, 2)
      BY <2>2 DEF Object
  <2>7. [Turn(c, names, j, 2) EXCEPT !.chatroom_partners = Append(@, names[j + 1])]
            = Turn(c, names, j + 1, 0)
      BY <2>2, <2>3 DEF Object
  <2> QED
      BY <2>4, <2>5, <2>6, <2>7
<1>8. w[0] = c /\ w[3 * n] = gotChatroomUsersList(c, names)
  <2>1. /\ 0 \in 0..(3 * n) /\ 0 \div 3 = 0 /\ 0 % 3 = 0
        /\ 3 * n \in 0..(3 * n) /\ (3 * n) \div 3 = n /\ (3 * n) % 3 = 0
      BY <1>1
  <2> HIDE DEF n
  <2> QED
      BY <1>5, <1>6, <2>1
<1>9. ASSUME NEW i \in 1..(3 * n)
      PROVE  <<w[i - 1], ListWrites(names)[i], w[i]>> \in Progress
  <2>1. PICK j \in 0..(n - 1) :
            \/ /\ i = 3 * j + 1 /\ ListWrites(names)[i] = Set("isInSession", TRUE)
            \/ /\ i = 3 * j + 2 /\ ListWrites(names)[i] = Set("isInChatRoom", TRUE)
            \/ /\ i = 3 * j + 3 /\ ListWrites(names)[i] = Set("joined", names[j + 1])
      BY ListWritesAre
  <2>2. i \in 0..(3 * n) /\ i - 1 \in 0..(3 * n) /\ j \in 0..n /\ j + 1 \in 0..n
      BY <1>1
  <2>3. /\ w[i] = Turn(c, names, i \div 3, i % 3)
        /\ w[i - 1] = Turn(c, names, (i - 1) \div 3, (i - 1) % 3)
      BY <2>2
  <2>4. \E u \in Object : w[i - 1] = u /\ w[i] = Written(u, ListWrites(names)[i])
    <3>0. /\ Turn(c, names, j, 0) \in Object /\ Turn(c, names, j, 1) \in Object
          /\ Turn(c, names, j, 2) \in Object
        BY <1>4, <2>2
    <3> HIDE DEF w, n
    <3>1. CASE i = 3 * j + 1 /\ ListWrites(names)[i] = Set("isInSession", TRUE)
      <4>1. i \div 3 = j /\ i % 3 = 1 /\ (i - 1) \div 3 = j /\ (i - 1) % 3 = 0
          BY <1>1, <3>1
      <4>2. w[i] = Turn(c, names, j, 1) /\ w[i - 1] = Turn(c, names, j, 0)
          BY <2>3, <4>1
      <4> QED
          BY <1>7, <3>0, <3>1, <4>2, Zenon
    <3>2. CASE i = 3 * j + 2 /\ ListWrites(names)[i] = Set("isInChatRoom", TRUE)
      <4>1. i \div 3 = j /\ i % 3 = 2 /\ (i - 1) \div 3 = j /\ (i - 1) % 3 = 1
          BY <1>1, <3>2
      <4>2. w[i] = Turn(c, names, j, 2) /\ w[i - 1] = Turn(c, names, j, 1)
          BY <2>3, <4>1
      <4> QED
          BY <1>7, <3>0, <3>2, <4>2, Zenon
    <3>3. CASE i = 3 * j + 3 /\ ListWrites(names)[i] = Set("joined", names[j + 1])
      <4>1. i \div 3 = j + 1 /\ i % 3 = 0 /\ (i - 1) \div 3 = j /\ (i - 1) % 3 = 2
          BY <1>1, <3>3
      <4>2. w[i] = Turn(c, names, j + 1, 0) /\ w[i - 1] = Turn(c, names, j, 2)
          BY <2>3, <4>1
      <4> QED
          BY <1>7, <3>0, <3>3, <4>2, Zenon
    <3> QED
        BY <2>1, <3>1, <3>2, <3>3
  <2>5. ListWrites(names)[i] \in Assignment
      BY ListWritesType, ElementOfSeq
  <2> QED
      BY <2>4, <2>5, Progresses
<1>10. Len(ListWrites(names)) = 3 * n
    BY ListWritesType
<1> HIDE DEF w, n
<1> QED
    BY <1>8, <1>9, <1>10 DEF Leads, Chain

\* The assignments of a message lead to what it is as one step.
LEMMA WritesLead ==
    ASSUME NEW c \in Object, NEW msg \in Message
    PROVE  Leads(c, Writes(c, msg), Heard(c, msg))
<1> DEFINE n == msg.names[1]
<1>1. CASE msg.cmd = "CONFIRM_USER"
  <2>1. n \in Conn \cup {NULL}
      BY <1>1, MessageKinds DEF PartnerNews, Bare
  <2>2. /\ Writes(c, msg) = <<Set("client_name", n), Set("udp_sock", TRUE)>>
        /\ Heard(c, msg) = [c EXCEPT !.client_name = n]
      BY <1>1, WritesName, HeardName
  <2> HIDE DEF n
  <2>3. Set("client_name", n) \in Assignment /\ Set("udp_sock", TRUE) \in Assignment
      BY <2>1, SetType DEF Flags
  <2>4. Written(Written(c, Set("client_name", n)), Set("udp_sock", TRUE)) =
            [c EXCEPT !.client_name = n]
    <3>1. Written(c, Set("client_name", n)) = [c EXCEPT !.client_name = n]
        BY WrittenName
    <3>2. [c EXCEPT !.client_name = n] \in Object
        BY <2>1, ObjectName
    <3> QED
        BY <3>1, <3>2, WrittenName, WrittenSock
  <2> QED
      BY <2>2, <2>3, <2>4, Leads2, ZenonT(60)
<1>2. CASE msg.cmd \in PartnerNews
  <2>1. n \in Nobody
      BY <1>2, MessageKinds DEF PartnerNews, Bare
  <2> HIDE DEF n
  <2>2. /\ Set("isInSession", TRUE) \in Assignment /\ Set("session_partner", n) \in Assignment
        /\ Set("session_partner", NULL) \in Assignment /\ Set("joined", n) \in Assignment
      BY <2>1, SetType DEF Flags, Nobody
  <2>3. CASE msg.cmd = "INCOMIMG_SESSION"
    <3>1. /\ Writes(c, msg) = <<Set("isInSession", TRUE), Set("session_partner", n)>>
          /\ Heard(c, msg) = InSessionWith(c, n)
        BY <2>3, WritesIncoming, HeardSession DEF n
    <3> DEFINE d == [c EXCEPT !.isInSession = TRUE]
    <3>2. Written(c, Set("isInSession", TRUE)) = d /\ d \in Object
        BY WrittenSession, ObjectFlag
    <3> HIDE DEF d
    <3>3. Written(d, Set("session_partner", n)) = [d EXCEPT !.session_partner = n]
        BY <3>2, WrittenPartner
    <3>4. [d EXCEPT !.session_partner = n] = InSessionWith(c, n)
        BY DEF d, InSessionWith
    <3>5. Leads(c, <<Set("isInSession", TRUE), Set("session_partner", n)>>,
                [d EXCEPT !.session_partner = n])
        BY <2>2, <3>2, <3>3, LeadsBy2
    <3> QED
        BY <3>1, <3>4, <3>5
  <2>4. CASE msg.cmd = "TARGET_IP_AND_PORT"
    <3>1. /\ Writes(c, msg) = <<Set("session_partner", NULL), Set("session_partner", n),
                                Set("isInSession", TRUE)>>
          /\ Heard(c, msg) = InSessionWith(c, n)
        BY <2>4, WritesTarget, HeardSession DEF n
    <3> DEFINE d == [c EXCEPT !.session_partner = NULL]
               e == [c EXCEPT !.session_partner = n]
    <3>2. Written(c, Set("session_partner", NULL)) = d /\ d \in Object
        BY WrittenPartner, ObjectPartner DEF Nobody
    <3>3. [d EXCEPT !.session_partner = n] = e /\ e \in Object
      <4>1. e \in Object
          BY <2>1, ObjectPartner
      <4>2. [d EXCEPT !.session_partner = n] = e
          BY DEF Object
      <4> QED
          BY <4>1, <4>2
    <3>4. [e EXCEPT !.isInSession = TRUE] = InSessionWith(c, n)
        BY DEF Object, InSessionWith
    <3> HIDE DEF d, e
    <3>5. Written(d, Set("session_partner", n)) = e
        BY <3>2, <3>3, WrittenPartner
    <3>6. Written(e, Set("isInSession", TRUE)) = [e EXCEPT !.isInSession = TRUE]
        BY <3>3, WrittenSession
    <3>7. Leads(c, <<Set("session_partner", NULL), Set("session_partner", n),
                     Set("isInSession", TRUE)>>, [e EXCEPT !.isInSession = TRUE])
        BY <2>2, <3>2, <3>5, <3>6, LeadsBy3
    <3> QED
        BY <3>1, <3>4, <3>7
  <2>5. CASE msg.cmd = "NEW_USER_TO_CHATROOM"
    <3>1. /\ Writes(c, msg) = <<Set("joined", n)>>
          /\ Heard(c, msg) = [c EXCEPT !.chatroom_partners = Append(@, n)]
      <4>1. Writes(c, msg) = <<Set("joined", n)>>
          BY <2>5, WritesJoined DEF n
      <4>2. Heard(c, msg) = [c EXCEPT !.chatroom_partners = Append(@, n)]
          BY <2>5, HeardJoined DEF n
      <4> QED
          BY <4>1, <4>2
    <3>2. Written(c, Set("joined", n)) = [c EXCEPT !.chatroom_partners = Append(@, n)]
        BY WrittenJoined
    <3> QED
        BY <2>2, <3>1, <3>2, Leads1
  <2> QED
      BY <1>2, <2>3, <2>4, <2>5 DEF PartnerNews
<1>3. CASE msg.cmd = "USER_HAS_LEFT_CHATROOM" /\ n # c.client_name
  <2>1. n \in Nobody \cup Conn
      BY <1>3, MessageKinds DEF PartnerNews, Bare
  <2>2. Writes(c, msg) = <<Set("left", n)>> /\ Heard(c, msg) = userHasLeftChatroom(c, n)
    <3>1. Writes(c, msg) = <<Set("left", n)>>
        BY <1>3, WritesLeft
    <3>2. Heard(c, msg) = userHasLeftChatroom(c, n)
        BY <1>3, HeardLeft
    <3> QED
        BY <3>1, <3>2
  <2> HIDE DEF n
  <2>3. Written(c, Set("left", n)) = userHasLeftChatroom(c, n)
      BY WrittenLeft
  <2>4. Set("left", n) \in Assignment
      BY <2>1, SetType
  <2> QED
      BY <2>2, <2>3, <2>4, Leads1
<1>4. CASE msg.cmd = "USER_HAS_LEFT_CHATROOM" /\ n = c.client_name
  <2>1. /\ Writes(c, msg) = <<Set("isInSession", FALSE), Set("isInChatRoom", FALSE),
                              Set("isRoomOwner", FALSE), Set("chatroom_partners", <<>>)>>
        /\ Heard(c, msg) = Outside(c)
      BY <1>4, WritesOut, HeardOut
  <2> DEFINE d == [c EXCEPT !.isInSession = FALSE]
             e == [d EXCEPT !.isInChatRoom = FALSE]
             f == [e EXCEPT !.isRoomOwner = FALSE]
  <2>2. d \in Object /\ Written(c, Set("isInSession", FALSE)) = d
      BY ObjectFlag, WrittenSession
  <2>3. [f EXCEPT !.chatroom_partners = <<>>] = Outside(c)
      BY DEF Outside, Object
  <2> HIDE DEF d
  <2>4. e \in Object /\ Written(d, Set("isInChatRoom", FALSE)) = e
      BY <2>2, ObjectFlag, WrittenRoom
  <2> HIDE DEF e
  <2>5. f \in Object /\ Written(e, Set("isRoomOwner", FALSE)) = f
      BY <2>4, ObjectFlag, WrittenOwner
  <2> HIDE DEF f
  <2>6. Written(f, Set("chatroom_partners", <<>>)) = [f EXCEPT !.chatroom_partners = <<>>]
      BY <2>5, WrittenPartners
  <2>7. /\ Set("isInSession", FALSE) \in Assignment /\ Set("isInChatRoom", FALSE) \in Assignment
        /\ Set("isRoomOwner", FALSE) \in Assignment
        /\ Set("chatroom_partners", <<>>) \in Assignment
      BY SetType DEF Flags
  <2>8. Leads(c, <<Set("isInSession", FALSE), Set("isInChatRoom", FALSE),
                   Set("isRoomOwner", FALSE), Set("chatroom_partners", <<>>)>>,
              [f EXCEPT !.chatroom_partners = <<>>])
      BY <2>2, <2>4, <2>5, <2>6, <2>7, LeadsBy4
  <2> QED
      BY <2>1, <2>3, <2>8
<1>5. CASE msg.cmd = "CHATROOM_LIST"
  <2>1. /\ Writes(c, msg) = ListWrites(msg.names) /\ msg.names \in Seq(Peer)
        /\ Heard(c, msg) = gotChatroomUsersList(c, msg.names)
      BY <1>5, WritesList, HeardList, MessageKinds DEF PartnerNews, Bare
  <2> QED
      BY <2>1, ListLead
<1>6. CASE msg.cmd \in {"CLOSE_SESSION_ERROR", "SESSION_ENDED"}
  <2>1. Writes(c, msg) = <<Set("isInSession", FALSE)>>
      BY <1>6, WritesEnd
  <2>3. Heard(c, msg) = [c EXCEPT !.isInSession = FALSE]
      BY <1>6, HeardEnd
  <2>4. Written(c, Set("isInSession", FALSE)) = [c EXCEPT !.isInSession = FALSE]
      BY WrittenSession
  <2>2. Set("isInSession", FALSE) \in Assignment
      BY SetType DEF Flags
  <2> QED
      BY <2>1, <2>2, <2>3, <2>4, Leads1
<1>7. CASE msg.cmd = "CHATROOM_CREATED"
  <2>1. /\ Writes(c, msg) = <<Set("isInChatRoom", TRUE), Set("isRoomOwner", TRUE),
                              Set("isInSession", TRUE)>>
        /\ Heard(c, msg) = [c EXCEPT !.isInSession = TRUE, !.isInChatRoom = TRUE,
                                     !.isRoomOwner = TRUE]
      BY <1>7, WritesCreated, HeardCreated
  <2> DEFINE d == [c EXCEPT !.isInChatRoom = TRUE]
             e == [d EXCEPT !.isRoomOwner = TRUE]
  <2>2. d \in Object /\ Written(c, Set("isInChatRoom", TRUE)) = d
      BY ObjectFlag, WrittenRoom
  <2>3. [e EXCEPT !.isInSession = TRUE] =
            [c EXCEPT !.isInSession = TRUE, !.isInChatRoom = TRUE, !.isRoomOwner = TRUE]
      BY DEF Object
  <2> HIDE DEF d
  <2>4. e \in Object /\ Written(d, Set("isRoomOwner", TRUE)) = e
      BY <2>2, ObjectFlag, WrittenOwner
  <2> HIDE DEF e
  <2>5. Written(e, Set("isInSession", TRUE)) = [e EXCEPT !.isInSession = TRUE]
      BY <2>4, WrittenSession
  <2>6. /\ Set("isInChatRoom", TRUE) \in Assignment /\ Set("isRoomOwner", TRUE) \in Assignment
        /\ Set("isInSession", TRUE) \in Assignment
      BY SetType DEF Flags
  <2>7. Leads(c, <<Set("isInChatRoom", TRUE), Set("isRoomOwner", TRUE),
                   Set("isInSession", TRUE)>>, [e EXCEPT !.isInSession = TRUE])
      BY <2>2, <2>4, <2>5, <2>6, LeadsBy3
  <2> QED
      BY <2>1, <2>3, <2>7
<1>8. CASE msg.cmd = "CHATROOM_WAS_CLOSED"
  <2>1. /\ Writes(c, msg) = <<Set("isRoomOwner", FALSE), Set("isInChatRoom", FALSE),
                              Set("chatroom_partners", <<>>), Set("isInSession", FALSE)>>
        /\ Heard(c, msg) = Outside(c)
      BY <1>8, WritesWasClosed, HeardWasClosed
  <2> DEFINE d == [c EXCEPT !.isRoomOwner = FALSE]
             e == [d EXCEPT !.isInChatRoom = FALSE]
             f == [e EXCEPT !.chatroom_partners = <<>>]
  <2>2. d \in Object /\ Written(c, Set("isRoomOwner", FALSE)) = d
      BY ObjectFlag, WrittenOwner
  <2>3. [f EXCEPT !.isInSession = FALSE] = Outside(c)
      BY DEF Outside, Object
  <2> HIDE DEF d
  <2>4. e \in Object /\ Written(d, Set("isInChatRoom", FALSE)) = e
      BY <2>2, ObjectFlag, WrittenRoom
  <2> HIDE DEF e
  <2>5. f \in Object /\ Written(e, Set("chatroom_partners", <<>>)) = f
      BY <2>4, ObjectNoPartners, WrittenPartners
  <2> HIDE DEF f
  <2>6. Written(f, Set("isInSession", FALSE)) = [f EXCEPT !.isInSession = FALSE]
      BY <2>5, WrittenSession
  <2>7. /\ Set("isInSession", FALSE) \in Assignment /\ Set("isInChatRoom", FALSE) \in Assignment
        /\ Set("isRoomOwner", FALSE) \in Assignment
        /\ Set("chatroom_partners", <<>>) \in Assignment
      BY SetType DEF Flags
  <2>8. Leads(c, <<Set("isRoomOwner", FALSE), Set("isInChatRoom", FALSE),
                   Set("chatroom_partners", <<>>), Set("isInSession", FALSE)>>,
              [f EXCEPT !.isInSession = FALSE])
      BY <2>2, <2>4, <2>5, <2>6, <2>7, LeadsBy4
  <2> QED
      BY <2>1, <2>3, <2>8
<1>9. CASE msg.cmd = "CHATROOM_IS_CLOSING"
  <2>1. /\ Writes(c, msg) = <<Set("closed", TRUE)>> /\ Heard(c, msg) = Reset(c)
        /\ Written(c, Set("closed", TRUE)) = Reset(c)
      BY <1>9, WritesClosing, HeardClosing, WrittenClosed
  <2>2. Set("closed", TRUE) \in Assignment
      BY SetType DEF Flags
  <2> QED
      BY <2>1, <2>2, Leads1
<1> QED
    BY <1>1, <1>2, <1>3, <1>4, <1>5, <1>6, <1>7, <1>8, <1>9, MessageKinds DEF Bare

\* Short sequences, and a sequence without its first element.
LEMMA Few1 ==
    ASSUME NEW X, NEW w \in X
    PROVE  <<w>> \in Seq(X)
OBVIOUS

LEMMA Few2 ==
    ASSUME NEW X, NEW v \in X, NEW w \in X
    PROVE  <<v, w>> \in Seq(X)
OBVIOUS

LEMMA Few3 ==
    ASSUME NEW X, NEW u \in X, NEW v \in X, NEW w \in X
    PROVE  <<u, v, w>> \in Seq(X)
OBVIOUS

LEMMA Few4 ==
    ASSUME NEW X, NEW t \in X, NEW u \in X, NEW v \in X, NEW w \in X
    PROVE  <<t, u, v, w>> \in Seq(X)
OBVIOUS

LEMMA FewElements ==
    ASSUME NEW v, NEW w
    PROVE  /\ Len(<<v>>) = 1 /\ ToSet(<<v>>) = {v}
           /\ w \in ToSet(<<v, w>>)
<1>1. Len(<<v>>) = 1 /\ ToSet(<<v>>) = {v}
    BY DEF ToSet
<1>2. w \in ToSet(<<v, w>>)
  <2>1. <<v, w>>[2] = w /\ 2 \in DOMAIN <<v, w>>
      OBVIOUS
  <2> QED
      BY <2>1 DEF ToSet
<1> QED
    BY <1>1, <1>2

LEMMA HeadAndTail ==
    ASSUME NEW X, NEW m \in Seq(X), m # <<>>
    PROVE  /\ Head(m) \in X /\ Head(m) \in ToSet(m)
           /\ Tail(m) \in Seq(X) /\ ToSet(Tail(m)) \subseteq ToSet(m)
           /\ ToSet(m) \subseteq {Head(m)} \cup ToSet(Tail(m))
           /\ Len(m) = 1 => Tail(m) = <<>>
           /\ ToSet(m) \subseteq X
<1>1. /\ Head(m) = m[1] /\ 1 \in 1..Len(m) /\ Len(m) \in Nat
      /\ Tail(m) \in Seq(X) /\ Len(Tail(m)) = Len(m) - 1
      /\ \A i \in 1..(Len(m) - 1) : Tail(m)[i] = m[i + 1]
    OBVIOUS
<1>2. Head(m) \in X /\ Head(m) \in ToSet(m)
    BY <1>1, Elements
<1> DEFINE rest == Tail(m)
<1>0. /\ rest \in Seq(X) /\ Len(rest) = Len(m) - 1
      /\ \A i \in 1..(Len(m) - 1) : rest[i] = m[i + 1]
    BY <1>1
<1> HIDE DEF rest
<1>3. ASSUME NEW x \in ToSet(rest) PROVE x \in ToSet(m)
  <2>1. PICK i \in 1..Len(rest) : x = rest[i]
      BY <1>0, Elements
  <2>2. i + 1 \in 1..Len(m) /\ x = m[i + 1]
      BY <1>0, <1>1, <2>1
  <2> QED
      BY <2>2, Elements
<1>4. ASSUME NEW x \in ToSet(m), x # Head(m) PROVE x \in ToSet(rest)
  <2>1. PICK i \in 1..Len(m) : x = m[i]
      BY Elements
  <2>2. i - 1 \in 1..Len(rest) /\ i - 1 + 1 = i
      BY <1>0, <1>1, <1>4, <2>1
  <2>3. x = rest[i - 1]
      BY <1>0, <1>1, <2>1, <2>2
  <2> QED
      BY <1>0, <2>2, <2>3, Elements
<1>5. Len(m) = 1 => rest = <<>>
    BY <1>0, EmptySeq
<1>6. ToSet(m) \subseteq X
    BY Elements
<1> QED
    BY <1>0, <1>2, <1>3, <1>4, <1>5, <1>6 DEF rest

\* The messages that tell of a session, or of a room entered.
Opening == {"INCOMIMG_SESSION", "TARGET_IP_AND_PORT", "CHATROOM_CREATED", "CHATROOM_LIST"}

\* A partner that is written is one of these.
Naming(w, names) == w.member \in {"session_partner", "joined"} => w.value \in names

\* What a message is written as, unless it ends the connection.
Proper(cmd, names) ==
    {w \in Assignment : /\ w.member # "closed"
                        /\ w = Set("isInSession", TRUE) => cmd \in Opening
                        /\ Naming(w, names)}

LEMMA ProperSets ==
    ASSUME NEW cmd, NEW N, NULL \in N, N \subseteq Nobody
    PROVE  /\ cmd \in Opening => Set("isInSession", TRUE) \in Proper(cmd, N)
           /\ Set("isInSession", FALSE) \in Proper(cmd, N)
           /\ Set("isInChatRoom", TRUE) \in Proper(cmd, N)
           /\ Set("isInChatRoom", FALSE) \in Proper(cmd, N)
           /\ Set("isRoomOwner", TRUE) \in Proper(cmd, N)
           /\ Set("isRoomOwner", FALSE) \in Proper(cmd, N)
           /\ Set("udp_sock", TRUE) \in Proper(cmd, N)
           /\ Set("chatroom_partners", <<>>) \in Proper(cmd, N)
           /\ \A v \in Conn \cup {NULL} : Set("client_name", v) \in Proper(cmd, N)
           /\ \A v \in Nobody \cup Conn : Set("left", v) \in Proper(cmd, N)
           /\ \A v \in N : /\ Set("session_partner", v) \in Proper(cmd, N)
                           /\ Set("joined", v) \in Proper(cmd, N)
<1>1. ASSUME NEW f \in Flags, NEW v \in BOOLEAN, f # "closed",
             f = "isInSession" /\ v => cmd \in Opening
      PROVE  Set(f, v) \in Proper(cmd, N)
  <2>1. Set(f, v) \in Assignment
      BY SetType
  <2>2. Set(f, v).member = f /\ (Set(f, v) = Set("isInSession", TRUE) => f = "isInSession" /\ v)
      BY DEF Set
  <2> QED
      BY <1>1, <2>1, <2>2 DEF Proper, Naming, Flags
<1>2. ASSUME NEW f \in {"client_name", "left", "chatroom_partners"}, NEW v,
             Set(f, v) \in Assignment
      PROVE  Set(f, v) \in Proper(cmd, N)
  <2>1. Set(f, v).member = f /\ Set(f, v) # Set("isInSession", TRUE)
      BY DEF Set
  <2> QED
      BY <1>2, <2>1 DEF Proper, Naming
<1>3. ASSUME NEW f \in {"session_partner", "joined"}, NEW v \in N
      PROVE  Set(f, v) \in Proper(cmd, N)
  <2>1. Set(f, v).member = f /\ Set(f, v).value = v /\ Set(f, v) # Set("isInSession", TRUE)
      BY DEF Set
  <2>2. Set(f, v) \in Assignment
      BY SetType
  <2> QED
      BY <2>1, <2>2 DEF Proper, Naming
<1>4. /\ cmd \in Opening => Set("isInSession", TRUE) \in Proper(cmd, N)
      /\ Set("isInSession", FALSE) \in Proper(cmd, N)
      /\ Set("isInChatRoom", TRUE) \in Proper(cmd, N)
      /\ Set("isInChatRoom", FALSE) \in Proper(cmd, N)
      /\ Set("isRoomOwner", TRUE) \in Proper(cmd, N)
      /\ Set("isRoomOwner", FALSE) \in Proper(cmd, N)
      /\ Set("udp_sock", TRUE) \in Proper(cmd, N)
    BY <1>1 DEF Flags
<1>5. /\ Set("chatroom_partners", <<>>) \in Proper(cmd, N)
      /\ \A v \in Conn \cup {NULL} : Set("client_name", v) \in Proper(cmd, N)
      /\ \A v \in Nobody \cup Conn : Set("left", v) \in Proper(cmd, N)
    BY <1>2, SetType
<1>6. \A v \in N : /\ Set("session_partner", v) \in Proper(cmd, N)
                   /\ Set("joined", v) \in Proper(cmd, N)
    BY <1>3
<1> QED
    BY <1>4, <1>5, <1>6

LEMMA WritesProper ==
    ASSUME NEW c \in Object, NEW msg \in Message, msg.cmd # "CHATROOM_IS_CLOSING"
    PROVE  Writes(c, msg) \in Seq(Proper(msg.cmd, (ToSet(msg.names) \cap Peer) \cup {NULL}))
<1> DEFINE n == msg.names[1]
           N == (ToSet(msg.names) \cap Peer) \cup {NULL}
           P == Proper(msg.cmd, N)
<1> SUFFICES Writes(c, msg) \in Seq(P)
    OBVIOUS
<1>0. NULL \in N /\ N \subseteq Nobody
    BY DEF Nobody
<1>1. ASSUME NEW x, msg.names = <<x>>
      PROVE  n = x /\ (x \in Nobody => x \in N)
  <2>1. ToSet(<<x>>) = {x}
      BY DEF ToSet
  <2> QED
      BY <1>1, <2>1 DEF Nobody
<1>2. n = msg.names[1]
    OBVIOUS
<1> HIDE DEF N, n
<1>3. /\ msg.cmd \in Opening => Set("isInSession", TRUE) \in P
      /\ Set("isInSession", FALSE) \in P
      /\ Set("isInChatRoom", TRUE) \in P
      /\ Set("isInChatRoom", FALSE) \in P
      /\ Set("isRoomOwner", TRUE) \in P
      /\ Set("isRoomOwner", FALSE) \in P
      /\ Set("udp_sock", TRUE) \in P
      /\ Set("chatroom_partners", <<>>) \in P
      /\ \A v \in Conn \cup {NULL} : Set("client_name", v) \in P
      /\ \A v \in Nobody \cup Conn : Set("left", v) \in P
      /\ \A v \in N : Set("session_partner", v) \in P /\ Set("joined", v) \in P
    BY <1>0, ProperSets
<1> HIDE DEF P
<1>4. CASE msg.cmd = "CONFIRM_USER"
  <2>1. n \in Conn \cup {NULL}
      BY <1>1, <1>4, MessageKinds DEF PartnerNews, Bare
  <2>2. Writes(c, msg) = <<Set("client_name", n), Set("udp_sock", TRUE)>>
      BY <1>2, <1>4, WritesName
  <2> QED
      BY <1>3, <2>1, <2>2, Few2
<1>5. CASE msg.cmd \in PartnerNews
  <2>1. n \in N
      BY <1>1, <1>5, MessageKinds DEF PartnerNews, Bare
  <2>2. CASE msg.cmd = "INCOMIMG_SESSION"
    <3>1. Writes(c, msg) = <<Set("isInSession", TRUE), Set("session_partner", n)>>
        BY <1>2, <2>2, WritesIncoming
    <3>2. Set("isInSession", TRUE) \in P /\ Set("session_partner", n) \in P
        BY <1>3, <2>1, <2>2 DEF Opening
    <3> QED
        BY <3>1, <3>2, Few2
  <2>3. CASE msg.cmd = "TARGET_IP_AND_PORT"
    <3>1. Writes(c, msg) = <<Set("session_partner", NULL), Set("session_partner", n),
                             Set("isInSession", TRUE)>>
        BY <1>2, <2>3, WritesTarget
    <3>2. /\ Set("isInSession", TRUE) \in P /\ Set("session_partner", n) \in P
          /\ Set("session_partner", NULL) \in P
        BY <1>0, <1>3, <2>1, <2>3 DEF Opening
    <3> QED
        BY <3>1, <3>2, Few3
  <2>4. CASE msg.cmd = "NEW_USER_TO_CHATROOM"
    <3>1. Writes(c, msg) = <<Set("joined", n)>>
        BY <1>2, <2>4, WritesJoined
    <3> QED
        BY <1>3, <2>1, <3>1, Few1
  <2> QED
      BY <1>5, <2>2, <2>3, <2>4 DEF PartnerNews
<1>6. CASE msg.cmd = "USER_HAS_LEFT_CHATROOM" /\ n # c.client_name
  <2>1. n \in Nobody \cup Conn
      BY <1>1, <1>6, MessageKinds DEF PartnerNews, Bare
  <2>2. Writes(c, msg) = <<Set("left", n)>>
      BY <1>2, <1>6, WritesLeft
  <2> QED
      BY <1>3, <2>1, <2>2, Few1
<1>7. CASE msg.cmd = "USER_HAS_LEFT_CHATROOM" /\ n = c.client_name
  <2>1. Writes(c, msg) = <<Set("isInSession", FALSE), Set("isInChatRoom", FALSE),
                           Set("isRoomOwner", FALSE), Set("chatroom_partners", <<>>)>>
      BY <1>2, <1>7, WritesOut
  <2>2. /\ Set("isInSession", FALSE) \in P /\ Set("isInChatRoom", FALSE) \in P
        /\ Set("isRoomOwner", FALSE) \in P /\ Set("chatroom_partners", <<>>) \in P
      BY <1>3
  <2> QED
      BY <2>1, <2>2, Few4
<1>8. CASE msg.cmd = "CHATROOM_WAS_CLOSED"
  <2>1. Writes(c, msg) = <<Set("isRoomOwner", FALSE), Set("isInChatRoom", FALSE),
                           Set("chatroom_partners", <<>>), Set("isInSession", FALSE)>>
      BY <1>8, WritesWasClosed
  <2>2. /\ Set("isInSession", FALSE) \in P /\ Set("isInChatRoom", FALSE) \in P
        /\ Set("isRoomOwner", FALSE) \in P /\ Set("chatroom_partners", <<>>) \in P
      BY <1>3
  <2> QED
      BY <2>1, <2>2, Few4
<1>9. CASE msg.cmd = "CHATROOM_LIST"
  <2> DEFINE todo == ListWrites(msg.names)
  <2>1. Writes(c, msg) = todo /\ msg.names \in Seq(Peer)
      BY <1>9, WritesList, MessageKinds DEF PartnerNews, Bare
  <2>2. todo \in Seq(Assignment) /\ Len(todo) = 3 * Len(msg.names)
      BY <2>1, ListWritesType
  <2>3. ASSUME NEW i \in 1..Len(todo)
        PROVE  todo[i] \in P
    <3>1. i \in 1..(3 * Len(msg.names))
        BY <2>2
    <3>2. PICK j \in 0..(Len(msg.names) - 1) :
              \/ todo[i] = Set("isInSession", TRUE)
              \/ todo[i] = Set("isInChatRoom", TRUE)
              \/ todo[i] = Set("joined", msg.names[j + 1])
        BY <2>1, <3>1, ListWritesAre
    <3> DEFINE x == msg.names[j + 1]
    <3>3. x \in N
      <4>1. j + 1 \in 1..Len(msg.names)
          BY <2>1
      <4>2. x \in Peer /\ x \in ToSet(msg.names)
          BY <2>1, <4>1, Elements
      <4> QED
          BY <4>2 DEF N
    <3> HIDE DEF x
    <3>4. \/ todo[i] = Set("isInSession", TRUE)
          \/ todo[i] = Set("isInChatRoom", TRUE)
          \/ todo[i] = Set("joined", x)
        BY <3>2 DEF x
    <3>5. Set("isInSession", TRUE) \in P /\ Set("joined", x) \in P
        BY <1>3, <1>9, <3>3 DEF Opening
    <3> QED
        BY <1>3, <3>4, <3>5
  <2> HIDE DEF todo
  <2>4. todo \in Seq(P)
    <3>1. todo = [i \in 1..Len(todo) |-> todo[i]] /\ Len(todo) \in Nat
        BY <2>2
    <3>2. todo \in [1..Len(todo) -> P]
        BY <2>3, <3>1
    <3> QED
        BY <3>1, <3>2, SeqDef
  <2> QED
      BY <2>1, <2>4
<1>10. CASE msg.cmd \in {"CLOSE_SESSION_ERROR", "SESSION_ENDED"}
  <2>1. Writes(c, msg) = <<Set("isInSession", FALSE)>>
      BY <1>10, WritesEnd
  <2> QED
      BY <1>3, <2>1, Few1
<1>11. CASE msg.cmd = "CHATROOM_CREATED"
  <2>1. Writes(c, msg) = <<Set("isInChatRoom", TRUE), Set("isRoomOwner", TRUE),
                           Set("isInSession", TRUE)>>
      BY <1>11, WritesCreated
  <2>2. Set("isInSession", TRUE) \in P
      BY <1>3, <1>11 DEF Opening
  <2>3. Set("isInChatRoom", TRUE) \in P /\ Set("isRoomOwner", TRUE) \in P
      BY <1>3
  <2> QED
      BY <2>1, <2>2, <2>3, Few3
<1> QED
    BY <1>4, <1>5, <1>6, <1>7, <1>8, <1>9, <1>10, <1>11, MessageKinds DEF Bare

\* The end of the connection is no part of anything else.
Alone(todo) == \A w \in ToSet(todo) : w.member = "closed" => Len(todo) = 1

LEMMA WritesType ==
    ASSUME NEW c \in Object, NEW msg \in Message
    PROVE  LET todo == Writes(c, msg)
           IN  /\ todo \in Seq(Assignment) /\ Alone(todo)
               /\ Set("isInSession", TRUE) \in ToSet(todo) => msg.cmd \in Opening
               /\ \A w \in ToSet(todo) : Naming(w, (ToSet(msg.names) \cap Peer) \cup {NULL})
               /\ msg.cmd = "CONFIRM_USER" => \E w \in ToSet(todo) : w.member = "udp_sock"
<1> DEFINE N == (ToSet(msg.names) \cap Peer) \cup {NULL}
           todo == Writes(c, msg)
<1>1. CASE msg.cmd # "CHATROOM_IS_CLOSING"
  <2>1. todo \in Seq(Proper(msg.cmd, N))
      BY <1>1, WritesProper
  <2>2. msg.cmd = "CONFIRM_USER" => todo = <<Set("client_name", msg.names[1]),
                                             Set("udp_sock", TRUE)>>
      BY WritesName
  <2> HIDE DEF todo, N
  <2>3. \A w \in ToSet(todo) : w \in Proper(msg.cmd, N)
      BY <2>1, Elements
  <2>4. todo \in Seq(Assignment)
    <3>1. Seq(Proper(msg.cmd, N)) \subseteq Seq(Assignment)
      <4>1. Proper(msg.cmd, N) \subseteq Assignment
          BY DEF Proper
      <4> QED
          BY <4>1, SeqMonotonic
    <3> QED
        BY <2>1, <3>1
  <2>5. Alone(todo)
      BY <2>3 DEF Alone, Proper
  <2>6. Set("isInSession", TRUE) \in ToSet(todo) => msg.cmd \in Opening
      BY <2>3 DEF Proper
  <2>7. \A w \in ToSet(todo) : Naming(w, N)
      BY <2>3 DEF Proper
  <2>8. msg.cmd = "CONFIRM_USER" => \E w \in ToSet(todo) : w.member = "udp_sock"
    <3>1. Set("udp_sock", TRUE).member = "udp_sock"
        BY DEF Set
    <3>2. msg.cmd = "CONFIRM_USER" => Set("udp_sock", TRUE) \in ToSet(todo)
        BY <2>2, FewElements
    <3> QED
        BY <3>1, <3>2
  <2> QED
      BY <2>4, <2>5, <2>6, <2>7, <2>8 DEF todo, N
<1>2. CASE msg.cmd = "CHATROOM_IS_CLOSING"
  <2>1. todo = <<Set("closed", TRUE)>>
      BY <1>2, WritesClosing
  <2>2. Set("closed", TRUE) \in Assignment
      BY SetType DEF Flags
  <2> HIDE DEF todo, N
  <2>3. todo \in Seq(Assignment)
      BY <2>1, <2>2, Few1
  <2>4. Len(todo) = 1 /\ \A w \in ToSet(todo) : w = Set("closed", TRUE)
      BY <2>1, FewElements
  <2>5. Set("closed", TRUE).member = "closed" /\ Set("closed", TRUE) # Set("isInSession", TRUE)
      BY DEF Set
  <2> QED
      BY <1>2, <2>3, <2>4, <2>5 DEF Alone, Naming, todo, N
<1> QED
    BY <1>1, <1>2

LEMMA MoreElements ==
    ASSUME NEW X, NEW p \in Seq(X), NEW q \in Seq(X), NEW x \in X
    PROVE  /\ ToSet(Append(p, x)) = ToSet(p) \cup {x}
           /\ ToSet(p \o q) = ToSet(p) \cup ToSet(q)
<1>1. ToSet(Append(p, x)) = ToSet(p) \cup {x}
  <2> DEFINE r == Append(p, x)
  <2>1. /\ r \in Seq(X) /\ Len(r) = Len(p) + 1 /\ Len(p) \in Nat
        /\ \A i \in 1..Len(p) : r[i] = p[i]
        /\ r[Len(p) + 1] = x
      OBVIOUS
  <2> HIDE DEF r
  <2>2. ASSUME NEW y \in ToSet(r) PROVE y \in ToSet(p) \cup {x}
    <3>1. PICK i \in 1..(Len(p) + 1) : y = r[i]
        BY <2>1, Elements
    <3>2. CASE i = Len(p) + 1
        BY <2>1, <3>1, <3>2
    <3>3. CASE i # Len(p) + 1
      <4>1. i \in 1..Len(p)
          BY <2>1, <3>3
      <4> QED
          BY <2>1, <3>1, <4>1, Elements
    <3> QED
        BY <3>2, <3>3
  <2>3. ASSUME NEW y \in ToSet(p) PROVE y \in ToSet(r)
    <3>1. PICK i \in 1..Len(p) : y = p[i]
        BY Elements
    <3>2. i \in 1..Len(r) /\ y = r[i]
        BY <2>1, <3>1
    <3> QED
        BY <2>1, <3>2, Elements
  <2>4. x \in ToSet(r)
    <3>1. Len(p) + 1 \in 1..Len(r)
        BY <2>1
    <3> QED
        BY <2>1, <3>1, Elements
  <2> QED
      BY <2>2, <2>3, <2>4 DEF r
<1>2. ToSet(p \o q) = ToSet(p) \cup ToSet(q)
  <2> DEFINE r == p \o q
  <2>1. /\ r \in Seq(X) /\ Len(r) = Len(p) + Len(q) /\ Len(p) \in Nat /\ Len(q) \in Nat
        /\ \A i \in 1..(Len(p) + Len(q)) : r[i] = IF i <= Len(p) THEN p[i] ELSE q[i - Len(p)]
      BY ConcatProperties
  <2> HIDE DEF r
  <2>2. ASSUME NEW y \in ToSet(r) PROVE y \in ToSet(p) \cup ToSet(q)
    <3>1. PICK i \in 1..(Len(p) + Len(q)) : y = r[i]
        BY <2>1, Elements
    <3>2. CASE i <= Len(p)
      <4>1. i \in 1..Len(p) /\ y = p[i]
          BY <2>1, <3>1, <3>2
      <4> QED
          BY <4>1, Elements
    <3>3. CASE ~(i <= Len(p))
      <4>1. i - Len(p) \in 1..Len(q) /\ y = q[i - Len(p)]
          BY <2>1, <3>1, <3>3
      <4> QED
          BY <4>1, Elements
    <3> QED
        BY <3>2, <3>3
  <2>3. ASSUME NEW y \in ToSet(p) PROVE y \in ToSet(r)
    <3>1. PICK i \in 1..Len(p) : y = p[i]
        BY Elements
    <3>2. i \in 1..Len(r) /\ y = r[i]
        BY <2>1, <3>1
    <3> QED
        BY <2>1, <3>2, Elements
  <2>4. ASSUME NEW y \in ToSet(q) PROVE y \in ToSet(r)
    <3>1. PICK i \in 1..Len(q) : y = q[i]
        BY Elements
    <3>2. /\ i + Len(p) \in 1..(Len(p) + Len(q)) /\ ~(i + Len(p) <= Len(p))
          /\ i + Len(p) - Len(p) = i
        BY <2>1, <3>1
    <3>3. i + Len(p) \in 1..Len(r) /\ y = r[i + Len(p)]
        BY <2>1, <3>1, <3>2
    <3> QED
        BY <2>1, <3>3, Elements
  <2> QED
      BY <2>2, <2>3, <2>4 DEF r
<1> QED
    BY <1>1, <1>2

\* What an assignment may have brought.
LEMMA WrittenBrings ==
    ASSUME NEW c \in Object, NEW w \in Assignment
    PROVE  LET d == Written(c, w)
           IN  /\ d.alive => c.alive
               /\ d.isInSession => c.isInSession \/ w = Set("isInSession", TRUE)
               /\ \/ d.session_partner \in {c.session_partner, NULL}
                  \/ w.member = "session_partner" /\ d.session_partner = w.value
               /\ \A x \in ToSet(d.chatroom_partners) :
                     \/ x \in ToSet(c.chatroom_partners)
                     \/ w.member = "joined" /\ x = w.value
<1> DEFINE d == Written(c, w)
           p == c.chatroom_partners
<1> SUFFICES /\ d.alive => c.alive
             /\ d.isInSession => c.isInSession \/ w = Set("isInSession", TRUE)
             /\ \/ d.session_partner \in {c.session_partner, NULL}
                \/ w.member = "session_partner" /\ d.session_partner = w.value
             /\ \A x \in ToSet(d.chatroom_partners) :
                   \/ x \in ToSet(p)
                   \/ w.member = "joined" /\ x = w.value
    OBVIOUS
<1>1. PICK v : /\ w = Set(w.member, v) /\ w.value = v
               /\ \/ w.member \in Flags /\ v \in BOOLEAN
                  \/ w.member = "client_name" /\ v \in Conn \cup {NULL}
                  \/ w.member \in {"session_partner", "joined"} /\ v \in Nobody
                  \/ w.member = "left" /\ v \in Nobody \cup Conn
                  \/ w.member = "chatroom_partners" /\ v = <<>>
    BY AssignmentKinds
<1>2. ASSUME NEW m, w.member = m
      PROVE  d = Written(c, Set(m, v))
    BY <1>1, <1>2
<1>3. p \in Seq(Nobody) /\ ToSet(<<>>) = {}
  <2>1. ToSet(<<>>) = {}
      BY DEF ToSet
  <2> QED
      BY <2>1 DEF Object
<1> HIDE DEF d
<1>4. CASE w.member = "isInSession" /\ v \in BOOLEAN
  <2>1. d = [c EXCEPT !.isInSession = v]
      BY <1>2, <1>4, WrittenSession
  <2>3. v => w = Set("isInSession", TRUE)
    <3>1. v = TRUE \/ v = FALSE
        BY <1>4
    <3> QED
        BY <1>1, <1>4, <3>1
  <2>2. /\ d.alive = c.alive /\ d.isInSession = v /\ d.session_partner = c.session_partner
        /\ d.chatroom_partners = p
      BY <2>1 DEF Object
  <2> QED
      BY <2>2, <2>3
<1>5. CASE w.member \in {"isInChatRoom", "isRoomOwner", "client_name", "udp_sock", "closed"}
  <2>1. \/ d = [c EXCEPT !.isInChatRoom = v]
        \/ d = [c EXCEPT !.isRoomOwner = v]
        \/ d = [c EXCEPT !.client_name = v]
        \/ d = c
        \/ d = Reset(c)
      BY <1>2, <1>5, WrittenRoom, WrittenOwner, WrittenName, WrittenSock, WrittenClosed
  <2>2. /\ d.alive = c.alive /\ (d.isInSession => c.isInSession)
        /\ d.session_partner \in {c.session_partner, NULL}
        /\ d.chatroom_partners = p
      BY <2>1 DEF Object, Reset
  <2> QED
      BY <2>2
<1>6. CASE w.member = "session_partner"
  <2>1. d = [c EXCEPT !.session_partner = v]
      BY <1>2, <1>6, WrittenPartner
  <2>2. /\ d.alive = c.alive /\ d.isInSession = c.isInSession /\ d.session_partner = v
        /\ d.chatroom_partners = p
      BY <2>1 DEF Object
  <2> QED
      BY <1>1, <1>6, <2>2
<1>7. CASE w.member = "joined" /\ v \in Nobody
  <2>1. d = [c EXCEPT !.chatroom_partners = Append(@, v)]
      BY <1>2, <1>7, WrittenJoined
  <2>2. /\ d.alive = c.alive /\ d.isInSession = c.isInSession
        /\ d.session_partner = c.session_partner
        /\ d.chatroom_partners = Append(p, v)
      BY <2>1 DEF Object
  <2>3. ToSet(Append(p, v)) = ToSet(p) \cup {v}
      BY <1>3, <1>7, MoreElements
  <2> QED
      BY <1>1, <1>7, <2>2, <2>3
<1>8. CASE w.member = "left"
  <2>1. d = userHasLeftChatroom(c, v)
      BY <1>2, <1>8, WrittenLeft
  <2>2. CASE v = c.client_name
    <3>1. d = [OutOfRoom(c) EXCEPT !.isInSession = FALSE]
        BY <2>1, <2>2 DEF userHasLeftChatroom
    <3>2. /\ d.alive = c.alive /\ ~d.isInSession /\ d.session_partner = c.session_partner
          /\ d.chatroom_partners = <<>>
        BY <3>1 DEF Object, OutOfRoom
    <3> QED
        BY <1>3, <3>2
  <2>3. CASE v # c.client_name /\ Known(c, v) = {}
    <3>1. d = [c EXCEPT !.alive = FALSE]
        BY <2>1, <2>3, LeftIs
    <3>2. /\ ~d.alive /\ d.isInSession = c.isInSession
          /\ d.session_partner = c.session_partner /\ d.chatroom_partners = p
        BY <3>1 DEF Object
    <3> QED
        BY <3>2
  <2>4. CASE v # c.client_name /\ Known(c, v) # {}
    <3> DEFINE rest == RemoveAt(p, First(Known(c, v)))
    <3>1. d = [c EXCEPT !.chatroom_partners = rest]
        BY <2>1, <2>4, LeftIs
    <3>2. ToSet(rest) \subseteq ToSet(p)
        BY <2>4, PartnerRemoved
    <3> HIDE DEF rest
    <3>3. /\ d.alive = c.alive /\ d.isInSession = c.isInSession
          /\ d.session_partner = c.session_partner /\ d.chatroom_partners = rest
        BY <3>1 DEF Object
    <3> QED
        BY <3>2, <3>3
  <2> QED
      BY <2>2, <2>3, <2>4
<1>9. CASE w.member = "chatroom_partners" /\ v = <<>>
  <2>1. d = [c EXCEPT !.chatroom_partners = <<>>]
      BY <1>2, <1>9, WrittenPartners
  <2>2. /\ d.alive = c.alive /\ d.isInSession = c.isInSession
        /\ d.session_partner = c.session_partner /\ d.chatroom_partners = <<>>
      BY <2>1 DEF Object
  <2> QED
      BY <1>3, <2>2
<1> QED
    BY <1>1, <1>4, <1>5, <1>6, <1>7, <1>8, <1>9 DEF Flags

\* Who is alive at the end was so all the way.
LEMMA AliveBefore ==
    ASSUME NEW c \in Object, NEW d, NEW todo \in Seq(Assignment), Leads(c, todo, d), d.alive
    PROVE  c.alive
<1>1. PICK w : /\ w[0] = c /\ w[Len(todo)] = d
               /\ \A i \in 1..Len(todo) : <<w[i - 1], todo[i], w[i]>> \in Progress
    BY DEF Leads, Chain
<1> SUFFICES ASSUME ~c.alive PROVE FALSE
    OBVIOUS
<1> DEFINE S == {i \in 0..Len(todo) : w[i].alive}
<1>2. Len(todo) \in Nat /\ S \in SUBSET Nat /\ S # {}
  <2>1. Len(todo) \in 0..Len(todo) /\ w[Len(todo)].alive
      BY <1>1
  <2> QED
      BY <2>1
<1>3. PICK i \in S : \A j \in S : i <= j
    BY <1>2, Smallest
<1>4. i \in 1..Len(todo) /\ i - 1 \in 0..Len(todo)
    BY <1>1, <1>2, <1>3
<1>5. ~w[i - 1].alive /\ w[i].alive
    BY <1>2, <1>3, <1>4
<1>6. /\ w[i - 1] \in Object /\ todo[i] \in Assignment
      /\ w[i] = Written(w[i - 1], todo[i])
  <2>1. <<w[i - 1], todo[i], w[i]>> \in Progress
      BY <1>1, <1>4
  <2> QED
      BY <2>1 DEF Progress
<1>7. \A u \in Object : \A x \in Assignment : Written(u, x).alive => u.alive
    BY WrittenBrings
<1> QED
    BY <1>5, <1>6, <1>7

-------------------------------------------------------------------------------
(* What the messages that are under way will make the client know: its name, and at  *)
(* least some of its partners.                                                       *)

Prospect == [name : Conn \cup {NULL}, known : SUBSET Peer]

\* One message, written to the user of connection k.
Foretold(k) ==
    {t \in Prospect \X Message \X Prospect :
        LET a == t[1]
            msg == t[2]
            b == t[3]
        IN  \/ /\ msg.cmd = "CONFIRM_USER" /\ msg.names = <<k>>
               /\ b = [a EXCEPT !.name = k]
            \/ /\ msg.cmd \in {"INCOMIMG_SESSION", "TARGET_IP_AND_PORT", "CHATROOM_CREATED"}
               /\ a.name # NULL /\ b = a
            \/ /\ msg.cmd = "CHATROOM_LIST" /\ a.name # NULL
               /\ b = [a EXCEPT !.known = @ \cup ToSet(msg.names)]
            \/ /\ msg.cmd = "NEW_USER_TO_CHATROOM"
               /\ b = [a EXCEPT !.known = @ \cup (ToSet(msg.names) \cap Peer)]
            \/ /\ msg.cmd = "USER_HAS_LEFT_CHATROOM" /\ msg.names[1] \in a.known
               /\ b = [a EXCEPT !.known = @ \ {msg.names[1]}]
            \/ /\ msg.cmd = "USER_HAS_LEFT_CHATROOM" /\ msg.names[1] = a.name
               /\ b = [a EXCEPT !.known = {}]
            \/ /\ msg.cmd = "CHATROOM_WAS_CLOSED"
               /\ b = [a EXCEPT !.known = {}]
            \/ /\ msg.cmd \in {"CLOSE_SESSION_ERROR", "SESSION_ENDED", "CHATROOM_IS_CLOSING"}
               /\ b = a}

LEMMA HeardForetold ==
    ASSUME NEW c \in Object, NEW k \in Conn, NEW a, NEW msg, NEW b,
           <<a, msg, b>> \in Foretold(k),
           a.name = c.client_name, a.known \subseteq ToSet(c.chatroom_partners)
    PROVE  LET d == Heard(c, msg)
           IN  /\ d.alive = c.alive /\ b.name = d.client_name
               /\ b.known \subseteq ToSet(d.chatroom_partners)
               /\ msg.cmd \in Opening => c.client_name # NULL
               /\ d.client_name = c.client_name \/ msg.cmd = "CONFIRM_USER"
<1> DEFINE d == Heard(c, msg)
           n == msg.names[1]
           p == c.chatroom_partners
<1> SUFFICES /\ d.alive = c.alive /\ b.name = d.client_name
             /\ b.known \subseteq ToSet(d.chatroom_partners)
             /\ msg.cmd \in Opening => c.client_name # NULL
             /\ d.client_name = c.client_name \/ msg.cmd = "CONFIRM_USER"
    OBVIOUS
<1>1. a \in Prospect /\ msg \in Message /\ b \in Prospect /\ p \in Seq(Nobody)
    BY DEF Foretold, Object
<1>2. a.known \subseteq Peer /\ NULL \notin Peer /\ Peer \cap Conn = {}
    BY <1>1, Numbers DEF Prospect
<1> HIDE DEF d, p
<1>3. CASE msg.cmd = "CONFIRM_USER" /\ msg.names = <<k>> /\ b = [a EXCEPT !.name = k]
  <2>0. n = k
      BY <1>3
  <2>1. d = [c EXCEPT !.client_name = n]
      BY <1>3, HeardName DEF d
  <2>2. d.alive = c.alive /\ d.client_name = k /\ d.chatroom_partners = p
      BY <2>0, <2>1 DEF Object, p
  <2>3. b.name = k /\ b.known = a.known
      BY <1>1, <1>3 DEF Prospect
  <2> QED
      BY <1>3, <2>2, <2>3 DEF Opening, p
<1>4. CASE /\ msg.cmd \in {"INCOMIMG_SESSION", "TARGET_IP_AND_PORT"}
           /\ a.name # NULL /\ b = a
  <2>1. d = InSessionWith(c, n)
      BY <1>4, HeardSession DEF d
  <2>2. d.alive = c.alive /\ d.client_name = c.client_name /\ d.chatroom_partners = p
      BY <2>1 DEF Object, InSessionWith, p
  <2> QED
      BY <1>4, <2>2 DEF p
<1>5. CASE msg.cmd = "CHATROOM_CREATED" /\ a.name # NULL /\ b = a
  <2>1. d = [c EXCEPT !.isInSession = TRUE, !.isInChatRoom = TRUE, !.isRoomOwner = TRUE]
      BY <1>5, HeardCreated DEF d
  <2>2. d.alive = c.alive /\ d.client_name = c.client_name /\ d.chatroom_partners = p
      BY <2>1 DEF Object, p
  <2> QED
      BY <1>5, <2>2 DEF p
<1>6. CASE /\ msg.cmd = "CHATROOM_LIST" /\ a.name # NULL
           /\ b = [a EXCEPT !.known = @ \cup ToSet(msg.names)]
  <2>1. msg.names \in Seq(Peer) /\ d = gotChatroomUsersList(c, msg.names)
      BY <1>1, <1>6, HeardList, MessageKinds DEF PartnerNews, Bare, d
  <2>2. d.chatroom_partners = p \o msg.names
      BY <2>1, ListHeard DEF p
  <2>3. d.alive = c.alive /\ d.client_name = c.client_name
    <3>1. \/ d = c
          \/ d = InRoomWith(c, c.chatroom_partners \o msg.names)
        BY <2>1, ListHeard
    <3> QED
        BY <3>1 DEF Object, InRoomWith
  <2>4. ToSet(p \o msg.names) = ToSet(p) \cup ToSet(msg.names)
    <3>1. Seq(Peer) \subseteq Seq(Nobody) /\ NULL \in Nobody
        BY SeqMonotonic DEF Nobody
    <3> QED
        BY <1>1, <2>1, <3>1, MoreElements
  <2>5. b.name = a.name /\ b.known = a.known \cup ToSet(msg.names)
      BY <1>1, <1>6 DEF Prospect
  <2> QED
      BY <1>6, <2>2, <2>3, <2>4, <2>5 DEF p
<1>7. CASE /\ msg.cmd = "NEW_USER_TO_CHATROOM"
           /\ b = [a EXCEPT !.known = @ \cup (ToSet(msg.names) \cap Peer)]
  <2>1. PICK x \in Nobody : msg.names = <<x>>
      BY <1>1, <1>7, MessageKinds DEF PartnerNews, Bare
  <2>2. n = x /\ ToSet(msg.names) = {x}
    <3>1. n = x
        BY <2>1
    <3>2. ToSet(msg.names) = {x}
        BY <2>1, FewElements
    <3> QED
        BY <3>1, <3>2
  <2>3. d = [c EXCEPT !.chatroom_partners = Append(@, n)]
      BY <1>7, HeardJoined DEF d
  <2>4. /\ d.alive = c.alive /\ d.client_name = c.client_name
        /\ d.chatroom_partners = Append(p, x)
      BY <2>2, <2>3 DEF Object, p
  <2>5. ToSet(Append(p, x)) = ToSet(p) \cup {x}
      BY <1>1, MoreElements
  <2>6. b.name = a.name /\ b.known \subseteq a.known \cup {x}
      BY <1>1, <1>7, <2>2 DEF Prospect
  <2> QED
      BY <1>7, <2>4, <2>5, <2>6 DEF Opening, p
<1>8. CASE /\ msg.cmd = "USER_HAS_LEFT_CHATROOM" /\ n \in a.known
           /\ b = [a EXCEPT !.known = @ \ {n}]
  <2> HIDE DEF n
  <2>1. n # c.client_name
      BY <1>2, <1>8 DEF Object
  <2>2. Known(c, n) # {}
    <3>1. n \in ToSet(p)
        BY <1>8 DEF p
    <3>2. PICK i \in 1..Len(p) : n = p[i]
        BY <1>1, <3>1, Elements
    <3>3. i \in DOMAIN p
        BY <1>1
    <3> QED
        BY <3>2, <3>3 DEF Known, p
  <2> DEFINE rest == RemoveAt(p, First(Known(c, n)))
  <2>3. d = [c EXCEPT !.chatroom_partners = rest]
    <3>1. d = userHasLeftChatroom(c, n)
        BY <1>8, <2>1, HeardLeft DEF d, n
    <3> QED
        BY <2>1, <2>2, <3>1, LeftIs DEF p
  <2>4. ToSet(p) \ {n} \subseteq ToSet(rest)
      BY <2>2, PartnerRemoved DEF p
  <2> HIDE DEF rest
  <2>5. d.alive = c.alive /\ d.client_name = c.client_name /\ d.chatroom_partners = rest
      BY <2>3 DEF Object
  <2>6. b.name = a.name /\ b.known = a.known \ {n}
      BY <1>1, <1>8 DEF Prospect
  <2> QED
      BY <1>8, <2>4, <2>5, <2>6 DEF Opening, p
<1>9. CASE /\ \/ msg.cmd = "USER_HAS_LEFT_CHATROOM" /\ n = a.name
              \/ msg.cmd = "CHATROOM_WAS_CLOSED"
           /\ b = [a EXCEPT !.known = {}]
  <2>1. d = Outside(c)
      BY <1>9, HeardOut, HeardWasClosed DEF d
  <2>2. d.alive = c.alive /\ d.client_name = c.client_name
      BY <2>1 DEF Object, Outside
  <2>3. b.name = a.name /\ b.known = {}
      BY <1>1, <1>9 DEF Prospect
  <2> QED
      BY <1>9, <2>2, <2>3 DEF Opening
<1>10. CASE /\ msg.cmd \in {"CLOSE_SESSION_ERROR", "SESSION_ENDED", "CHATROOM_IS_CLOSING"}
            /\ b = a
  <2>1. d = [c EXCEPT !.isInSession = FALSE] \/ d = Reset(c)
      BY <1>10, HeardEnd, HeardClosing DEF d
  <2>2. d.alive = c.alive /\ d.client_name = c.client_name /\ d.chatroom_partners = p
      BY <2>1 DEF Object, Reset, p
  <2> QED
      BY <1>10, <2>2 DEF Opening, p
<1> QED
    BY <1>3, <1>4, <1>5, <1>6, <1>7, <1>8, <1>9, <1>10 DEF Foretold

-------------------------------------------------------------------------------
(* The inductive invariant.  First what holds whatever is typed: one connection and one *)
(* receiver thread are in use at a time.                                                *)

Here == server_sock \in Conn

\* What the receiver thread has still to assign, and the message it has begun to read.
Todo == IF Here THEN receiver[server_sock].todo ELSE <<>>

Reading == IF Here /\ receiver[server_sock].at = "strings"
           THEN <<receiver[server_sock].msg>> ELSE <<>>

\* What a thread may look like while connection k is the last.
Fit(r, k) ==
    /\ r.at # "not started"
    /\ r.at \in {"listening", "strings", "assigning"} => r.sock = k
    /\ r.todo # <<>> <=> r.at = "assigning"
    /\ r.at = "strings" => r.msg \in Message /\ HasStrings(r.msg)
    /\ Alone(r.todo)

OneReceiver ==
    /\ \A k \in Conn : k < server_sock => receiver[k].at = "ended" /\ receiver[k].todo = <<>>
    /\ \A k \in Conn : k > server_sock => /\ receiver[k] = Idle
                                          /\ mail[k] = <<>> /\ status[k] = Nowhere
    /\ Here => Fit(receiver[server_sock], server_sock)
    /\ \A k \in Conn : Len(mail[k]) <= MaxMail

Linked ==
    /\ open \subseteq {server_sock}
    /\ connected => Here /\ receiver[server_sock].at # "ended"
    /\ typing.at = "leaving" => Here /\ ~connected
    /\ ~connected /\ typing.at # "leaving" => server_sock \notin open
    /\ typing.at = "prompt" => typing = Prompt
    /\ typing.at = "room" => typing.next >= 1

Sound == Typed /\ OneReceiver /\ Linked

LEMMA Threads ==
    ASSUME Typed, OneReceiver
    PROVE  /\ InAMessage <=> Here /\ receiver[server_sock].at \in {"assigning", "strings"}
           /\ Midway <=> Todo # <<>>
           /\ Todo \in Seq(Assignment) /\ Alone(Todo)
           /\ ~Here => server_sock = 0
           /\ \A k \in Conn : Started(k) => k = server_sock
           /\ Here => receiver[server_sock] \in Thread
           /\ Here => mail[server_sock] \in Seq(Message)
<1>1. server_sock \in 0..MaxConn /\ receiver \in [Conn -> Thread] /\ MaxConn \in Nat
    BY Numbers DEF Typed
<1>2. ASSUME NEW k \in Conn, k # server_sock
      PROVE  receiver[k].at \in {"ended", "not started"}
  <2>1. k < server_sock \/ k > server_sock
      BY <1>1, <1>2 DEF Conn
  <2> QED
    <3>1. Idle.at = "not started"
        BY DEF Idle
    <3>2. CASE k < server_sock
        BY <3>2 DEF OneReceiver
    <3>3. CASE k > server_sock
        BY <3>1, <3>3 DEF OneReceiver
    <3> QED
        BY <2>1, <3>2, <3>3
<1>3. InAMessage <=> Here /\ receiver[server_sock].at \in {"assigning", "strings"}
    BY <1>2 DEF InAMessage, Here
<1>4. Midway <=> Todo # <<>>
    BY <1>2 DEF Midway, Here, Todo, OneReceiver, Fit
<1>5. Todo \in Seq(Assignment) /\ Alone(Todo)
  <2>1. CASE Here
    <3>1. receiver[server_sock] \in Thread
        BY <1>1, <2>1 DEF Here
    <3> QED
        BY <2>1, <3>1 DEF Todo, Thread, OneReceiver, Fit
  <2>2. CASE ~Here
    <3>1. <<>> \in Seq(Assignment) /\ ToSet(<<>>) = {}
        BY DEF ToSet
    <3> QED
        BY <2>2, <3>1 DEF Todo, Alone
  <2> QED
      BY <2>1, <2>2
<1>6. ~Here => server_sock = 0
    BY <1>1 DEF Here, Conn
<1>7. \A k \in Conn : Started(k) => k = server_sock
    BY <1>2 DEF Started
<1>8. /\ Here => receiver[server_sock] \in Thread
      /\ Here => mail[server_sock] \in Seq(Message)
    BY DEF Typed, Here
<1> QED
    BY <1>3, <1>4, <1>5, <1>6, <1>7, <1>8

\* The thread of the last connection is now r.
Moved(r) ==
    /\ Here /\ r \in Thread /\ Fit(r, server_sock)
    /\ receiver' = [receiver EXCEPT ![server_sock] = r]
    /\ server_sock' = server_sock

LEMMA ThreadMoved ==
    ASSUME Typed, OneReceiver, NEW r, Moved(r),
           \A k \in Conn : k > server_sock => mail'[k] = mail[k] /\ status'[k] = status[k],
           \A k \in Conn : Len(mail'[k]) <= MaxMail
    PROVE  /\ receiver' \in [Conn -> Thread] /\ OneReceiver'
           /\ Todo' = r.todo
           /\ Reading' = IF r.at = "strings" THEN <<r.msg>> ELSE <<>>
           /\ InAMessage' <=> r.at \in {"assigning", "strings"}
           /\ receiver'[server_sock] = r /\ Here'
<1>1. /\ Here /\ r \in Thread /\ Fit(r, server_sock) /\ server_sock' = server_sock
      /\ receiver' = [receiver EXCEPT ![server_sock] = r]
    BY DEF Moved
<1>2. receiver \in [Conn -> Thread] /\ server_sock \in Conn /\ server_sock \in Int
    BY <1>1, Numbers DEF Typed, Here, Conn
<1>3. /\ receiver' \in [Conn -> Thread] /\ receiver'[server_sock] = r
      /\ \A k \in Conn : k # server_sock => receiver'[k] = receiver[k]
    BY <1>1, <1>2
<1>4. Here'
    BY <1>1 DEF Here
<1>5. OneReceiver'
  <2>1. ASSUME NEW k \in Conn, k < server_sock
        PROVE  receiver'[k].at = "ended" /\ receiver'[k].todo = <<>>
      BY <1>2, <1>3, <2>1 DEF OneReceiver, Conn
  <2>2. ASSUME NEW k \in Conn, k > server_sock
        PROVE  receiver'[k] = Idle /\ mail'[k] = <<>> /\ status'[k] = Nowhere
      BY <1>2, <1>3, <2>2 DEF OneReceiver, Conn
  <2> QED
      BY <1>1, <1>3, <2>1, <2>2 DEF OneReceiver
<1>6. Todo' = r.todo /\ Reading' = IF r.at = "strings" THEN <<r.msg>> ELSE <<>>
    BY <1>1, <1>3, <1>4 DEF Todo, Reading
<1>7. InAMessage' <=> r.at \in {"assigning", "strings"}
  <2>1. ASSUME NEW k \in Conn, k # server_sock
        PROVE  receiver'[k].at \in {"ended", "not started"}
    <3>1. k < server_sock \/ k > server_sock
        BY <1>2, <2>1 DEF Conn
    <3> QED
      <4>1. Idle.at = "not started" /\ receiver'[k] = receiver[k]
          BY <1>3, <2>1 DEF Idle
      <4>2. CASE k < server_sock
          BY <4>1, <4>2 DEF OneReceiver
      <4>3. CASE k > server_sock
          BY <4>1, <4>3 DEF OneReceiver
      <4> QED
          BY <3>1, <4>2, <4>3
  <2> QED
      BY <1>2, <1>3, <2>1 DEF InAMessage
<1> QED
    BY <1>3, <1>4, <1>5, <1>6, <1>7

LEMMA ThreadKept ==
    ASSUME Typed, OneReceiver, receiver' = receiver, server_sock' = server_sock,
           \A k \in Conn : k > server_sock => mail'[k] = mail[k] /\ status'[k] = status[k],
           \A k \in Conn : Len(mail'[k]) <= MaxMail
    PROVE  /\ OneReceiver'
           /\ Todo' = Todo /\ Reading' = Reading /\ InAMessage' = InAMessage /\ Here' = Here
<1>1. Todo' = Todo /\ Reading' = Reading /\ InAMessage' = InAMessage /\ Here' = Here
    BY DEF Todo, Reading, InAMessage, Here
<1>2. ASSUME NEW k \in Conn, k > server_sock
      PROVE  receiver'[k] = Idle /\ mail'[k] = <<>> /\ status'[k] = Nowhere
    BY <1>2 DEF OneReceiver
<1>3. \A k \in Conn : k < server_sock => receiver'[k].at = "ended" /\ receiver'[k].todo = <<>>
    BY DEF OneReceiver
<1>4. Here' => Fit(receiver'[server_sock'], server_sock')
    BY <1>1 DEF OneReceiver
<1> QED
    BY <1>1, <1>2, <1>3, <1>4 DEF OneReceiver

\* A request is on its way.
LEMMA AskType ==
    ASSUME Typed, NEW cmd, NEW peer, [cmd |-> cmd, peer |-> peer] \in Asked, Ask(cmd, peer)
    PROVE  /\ asked' \in [Conn -> Asked \cup {NULL}]
           /\ UNCHANGED <<app, connected, server_sock, udp_sock, receiver, open, mail, status,
                          told, met, crossed, residue>>
<1>1. UNCHANGED <<app, connected, server_sock, udp_sock, receiver, open, mail, status,
                  told, met, crossed, residue>>
    BY DEF Ask, history
<1>2. asked \in [Conn -> Asked \cup {NULL}] /\ open \subseteq Conn
    BY DEF Typed
<1>3. asked' \in [Conn -> Asked \cup {NULL}]
  <2>1. CASE server_sock \in open
    <3>1. asked' = [asked EXCEPT ![server_sock] = [cmd |-> cmd, peer |-> peer]]
        BY <2>1 DEF Ask
    <3> QED
        BY <1>2, <3>1
  <2>2. CASE server_sock \notin open
      BY <1>2, <2>2 DEF Ask
  <2> QED
      BY <2>1, <2>2
<1> QED
    BY <1>1, <1>3

\* The connection is lost, and what was under way on it.
LEMMA ClosedType ==
    ASSUME Sound, SocketClosed, server_sock' = server_sock
    PROVE  /\ open' = {} /\ asked' \in [Conn -> Asked \cup {NULL}]
           /\ mail' \in [Conn -> Seq(Message)] /\ status' \in [Conn -> State]
           /\ \A k \in Conn : k > server_sock => mail'[k] = mail[k] /\ status'[k] = status[k]
           /\ \A k \in Conn : Len(mail'[k]) <= MaxMail
<1>1. /\ asked \in [Conn -> Asked \cup {NULL}] /\ mail \in [Conn -> Seq(Message)]
      /\ status \in [Conn -> State] /\ server_sock \in Int /\ Conn \subseteq Int
    BY Numbers DEF Sound, Typed, Conn
<1>2. Nowhere \in State
    BY DEF Nowhere, Status, State, Nobody
<1>3. /\ open' = open \ {server_sock}
      /\ asked' = [asked EXCEPT ![server_sock] = NULL]
      /\ mail' = [mail EXCEPT ![server_sock] = <<>>]
      /\ status' = [status EXCEPT ![server_sock] = Nowhere]
    BY DEF SocketClosed
<1>4. open' = {}
    BY <1>3 DEF Sound, Linked
<1>5. mail' \in [Conn -> Seq(Message)]
  <2>1. <<>> \in Seq(Message)
      OBVIOUS
  <2> QED
      BY <1>1, <1>3, <2>1
<1>6. asked' \in [Conn -> Asked \cup {NULL}] /\ status' \in [Conn -> State]
    BY <1>1, <1>2, <1>3
<1>7. \A k \in Conn : k # server_sock => mail'[k] = mail[k] /\ status'[k] = status[k]
    BY <1>1, <1>3
<1>8. ASSUME NEW k \in Conn PROVE Len(mail'[k]) <= MaxMail
  <2>1. CASE k = server_sock
    <3>1. mail'[k] = <<>> /\ Len(<<>>) = 0
        BY <1>1, <1>3, <2>1
    <3> QED
        BY <3>1, Numbers
  <2>2. CASE k # server_sock
      BY <1>7, <2>2 DEF Sound, OneReceiver
  <2> QED
      BY <2>1, <2>2
<1> QED
    BY <1>1, <1>4, <1>5, <1>6, <1>7, <1>8

LEMMA PromptType ==
    /\ Prompt \in Command /\ Prompt.at = "prompt" /\ Prompt.to = <<>> /\ Prompt.calm = TRUE
    /\ Idle \in Thread /\ Idle.at = "not started" /\ Idle.todo = <<>>
<1>1. /\ Prompt \in Command /\ Prompt.at = "prompt" /\ Prompt.to = <<>>
      /\ Prompt.calm = TRUE
    BY DEF Prompt, Command
<1>2. Idle \in Thread
  <2>1. 0 \in 0..MaxConn /\ <<>> \in Seq(Assignment)
      BY Numbers
  <2> QED
      BY <2>1 DEF Idle, Thread
<1>3. Idle.at = "not started" /\ Idle.todo = <<>>
    BY DEF Idle
<1> QED
    BY <1>1, <1>2, <1>3

LEMMA SoundConnect ==
    ASSUME Sound, Connect
    PROVE  /\ Sound' /\ Todo = <<>> /\ Todo' = <<>> /\ Reading' = <<>> /\ ~InAMessage'
           /\ ~connected /\ mail'[server_sock'] = <<>> /\ status'[server_sock'] = Nowhere
           /\ connected'
<1> DEFINE s == server_sock + 1
           r == [Idle EXCEPT !.at = "loop"]
<1>1. /\ server_sock' = s /\ s \in Conn /\ s > server_sock /\ server_sock \in 0..MaxConn
      /\ receiver \in [Conn -> Thread] /\ Conn \subseteq Int
    BY Numbers DEF Sound, Typed, Connect, Conn
<1> HIDE DEF s
<1>2. ASSUME NEW k \in Conn PROVE receiver[k].at \in {"not started", "ended"}
    BY DEF Connect, Started
<1>3. ASSUME NEW k \in Conn, k < s PROVE receiver[k].at = "ended" /\ receiver[k].todo = <<>>
  <2>1. CASE k < server_sock
      BY <2>1 DEF Sound, OneReceiver
  <2>2. CASE k = server_sock
    <3>1. Fit(receiver[k], k)
        BY <2>2 DEF Sound, OneReceiver, Here
    <3>2. receiver[k].at = "ended"
        BY <1>2, <3>1 DEF Fit
    <3> QED
        BY <3>1, <3>2 DEF Fit
  <2> QED
      BY <1>1, <1>3, <2>1, <2>2 DEF s
<1>4. Todo = <<>>
    BY <1>1, <1>3 DEF Todo, Here
<1>5. ~connected
    BY <1>1, <1>3 DEF Sound, Linked, Here
<1>6. receiver[s] = Idle /\ mail[s] = <<>> /\ status[s] = Nowhere
    BY <1>1 DEF Sound, OneReceiver
<1>7. r \in Thread /\ Fit(r, s) /\ r.at = "loop" /\ r.todo = <<>>
  <2>1. r \in Thread /\ r.at = "loop" /\ r.todo = <<>>
      BY PromptType DEF Thread
  <2>3. Alone(<<>>)
      BY DEF Alone, ToSet
  <2> QED
      BY <2>1, <2>3 DEF Fit
<1>8. /\ receiver' \in [Conn -> Thread] /\ receiver'[s] = r
      /\ \A k \in Conn : k # s => receiver'[k] = receiver[k]
  <2>1. receiver' = [receiver EXCEPT ![s].at = "loop"]
      BY <1>1 DEF Connect
  <2>2. receiver' = [receiver EXCEPT ![s] = r]
      BY <1>1, <1>6, <2>1
  <2> HIDE DEF r
  <2> QED
      BY <1>1, <1>7, <2>2
<1> HIDE DEF r
<1>9. /\ Here' /\ Todo' = <<>> /\ Reading' = <<>>
    BY <1>1, <1>7, <1>8 DEF Here, Todo, Reading
<1>10. ~InAMessage'
    BY <1>2, <1>7, <1>8 DEF InAMessage
<1>11. /\ UNCHANGED <<app, udp_sock, typing, asked, mail, status, told, crossed, residue>>
       /\ connected' = TRUE /\ met' = {} /\ open' \subseteq open \cup {s}
    BY <1>1 DEF Connect
<1>12. open = {}
    BY <1>5 DEF Sound, Linked, Connect, AtPrompt, Prompt
<1>13. Typed'
    BY <1>1, <1>8, <1>11, <1>12 DEF Sound, Typed, Conn
<1>14. OneReceiver'
  <2>1. \A k \in Conn : k < server_sock' => /\ receiver'[k].at = "ended"
                                            /\ receiver'[k].todo = <<>>
      BY <1>1, <1>3, <1>8
  <2>2. ASSUME NEW k \in Conn, k > server_sock'
        PROVE  receiver'[k] = Idle /\ mail'[k] = <<>> /\ status'[k] = Nowhere
      BY <1>1, <1>8, <1>11, <2>2 DEF Sound, OneReceiver
  <2>3. Fit(receiver'[server_sock'], server_sock')
      BY <1>1, <1>7, <1>8
  <2> QED
      BY <1>11, <2>1, <2>2, <2>3 DEF Sound, OneReceiver
<1>15. Linked'
    BY <1>1, <1>7, <1>8, <1>9, <1>11, <1>12, PromptType
    DEF Sound, Linked, Connect, AtPrompt
<1> QED
    BY <1>1, <1>4, <1>5, <1>6, <1>9, <1>10, <1>11, <1>13, <1>14, <1>15 DEF Sound

LEMMA Requests ==
    /\ [cmd |-> "LOGIN", peer |-> NULL] \in Asked
    /\ [cmd |-> "OPEN_CHATROOM", peer |-> NULL] \in Asked
    /\ \A peer \in Caller : [cmd |-> "OPEN_SESSION_WITH_USER", peer |-> peer] \in Asked
    /\ \A c : [cmd |-> CloseRequest(c), peer |-> NULL] \in Asked
<1>1. [cmd |-> "LOGIN", peer |-> NULL] \in Asked /\ [cmd |-> "OPEN_CHATROOM", peer |-> NULL] \in Asked
    BY DEF Asked
<1>2. \A peer \in Caller : [cmd |-> "OPEN_SESSION_WITH_USER", peer |-> peer] \in Asked
    BY Numbers DEF Asked
<1>3. ASSUME NEW c PROVE [cmd |-> CloseRequest(c), peer |-> NULL] \in Asked
  <2>1. CloseRequest(c) \in {"CLOSE_SESSION_WITH_USER", "LEAVE_CHATROOM"}
      BY DEF CloseRequest
  <2> QED
      BY <2>1 DEF Asked
<1> QED
    BY <1>1, <1>2, <1>3

\* A command that asks something of the server, or a part of one that only looks.
LEMMA SoundTyping ==
    ASSUME Sound,
           asked' \in [Conn -> Asked \cup {NULL}],
           UNCHANGED <<connected, server_sock, udp_sock, receiver, open, mail, status, met,
                       residue>>,
           app' \in Object, told' \in Object, crossed' \in BOOLEAN,
           typing' \in Command,
           typing'.at = "prompt" => typing' = Prompt,
           typing'.at = "room" => typing'.next >= 1,
           typing'.at # "leaving", typing.at # "leaving"
    PROVE  /\ Sound'
           /\ Todo' = Todo /\ Reading' = Reading /\ InAMessage' = InAMessage /\ Here' = Here
<1>1. Typed /\ OneReceiver /\ \A k \in Conn : Len(mail'[k]) <= MaxMail
    BY DEF Sound, OneReceiver
<1>2. /\ OneReceiver'
      /\ Todo' = Todo /\ Reading' = Reading /\ InAMessage' = InAMessage /\ Here' = Here
  <2>1. \A k \in Conn : k > server_sock => mail'[k] = mail[k] /\ status'[k] = status[k]
      OBVIOUS
  <2> QED
      BY <1>1, <2>1, ThreadKept
<1>3. Typed'
    BY DEF Sound, Typed
<1>4. Linked'
    BY <1>2 DEF Sound, Linked
<1> QED
    BY <1>2, <1>3, <1>4 DEF Sound

LEMMA TypedHas ==
    ASSUME Sound
    PROVE  /\ app \in Object /\ told \in Object /\ crossed \in BOOLEAN /\ residue \in BOOLEAN
           /\ typing \in Command /\ udp_sock \in BOOLEAN /\ connected \in BOOLEAN
           /\ asked \in [Conn -> Asked \cup {NULL}]
BY DEF Sound, Typed

LEMMA SoundLogIn ==
    ASSUME Sound, LogIn
    PROVE  /\ Sound' /\ Todo' = Todo /\ Reading' = Reading /\ InAMessage' = InAMessage
           /\ UNCHANGED <<app, connected, server_sock, udp_sock, receiver, typing, open, mail,
                          status, told, met, crossed, residue>>
<1>1. Ask("LOGIN", NULL) /\ typing' = typing /\ typing = Prompt
    BY DEF LogIn, AtPrompt
<1>2. /\ asked' \in [Conn -> Asked \cup {NULL}]
      /\ UNCHANGED <<app, connected, server_sock, udp_sock, receiver, open, mail, status,
                     told, met, crossed, residue>>
    BY <1>1, AskType, Requests DEF Sound
<1> QED
    BY <1>1, <1>2, TypedHas, PromptType, SoundTyping

LEMMA SoundOpen ==
    ASSUME Sound, NEW cmd, NEW peer, [cmd |-> cmd, peer |-> peer] \in Asked, Open(cmd, peer)
    PROVE  /\ Sound' /\ Todo' = Todo /\ Reading' = Reading /\ InAMessage' = InAMessage
           /\ UNCHANGED <<app, connected, server_sock, udp_sock, receiver, typing, open, mail,
                          status, told, met, crossed, residue>>
<1>1. Ask(cmd, peer) /\ typing' = typing /\ typing = Prompt
    BY DEF Open, AtPrompt
<1>2. /\ asked' \in [Conn -> Asked \cup {NULL}]
      /\ UNCHANGED <<app, connected, server_sock, udp_sock, receiver, open, mail, status,
                     told, met, crossed, residue>>
    BY <1>1, AskType DEF Sound
<1> QED
    BY <1>1, <1>2, TypedHas, PromptType, SoundTyping

LEMMA SoundCloseBegins ==
    ASSUME Sound, CloseBegins
    PROVE  /\ Sound' /\ Todo' = Todo /\ Reading' = Reading /\ InAMessage' = InAMessage
           /\ UNCHANGED <<app, connected, server_sock, udp_sock, receiver, open, mail,
                          status, told, met, crossed, residue>>
           /\ typing = Prompt
           /\ \/ typing' = Prompt
              \/ /\ typing'.at = "closing" /\ typing'.to = <<>> /\ typing'.calm = ~Midway
                 /\ ~app.isInChatRoom
<1>1. /\ Ask(CloseRequest(app), NULL) /\ typing = Prompt
      /\ typing' = IF app.isInChatRoom THEN Prompt
                   ELSE [Prompt EXCEPT !.at = "closing", !.calm = ~Midway]
    BY DEF CloseBegins, AtPrompt
<1>2. /\ asked' \in [Conn -> Asked \cup {NULL}]
      /\ UNCHANGED <<app, connected, server_sock, udp_sock, receiver, open, mail, status,
                     told, met, crossed, residue>>
    BY <1>1, AskType, Requests DEF Sound
<1> DEFINE closing == [Prompt EXCEPT !.at = "closing", !.calm = ~Midway]
<1>3. /\ closing \in Command /\ closing.at = "closing" /\ closing.to = <<>>
      /\ closing.calm = ~Midway
  <2>1. (~Midway) \in BOOLEAN
      BY DEF Midway
  <2> QED
      BY <2>1, PromptType DEF Command
<1> HIDE DEF closing
<1>4. \/ typing' = Prompt
      \/ typing' = closing /\ ~app.isInChatRoom
    BY <1>1 DEF closing
<1>5. /\ Sound'
      /\ Todo' = Todo /\ Reading' = Reading /\ InAMessage' = InAMessage
    BY <1>1, <1>2, <1>3, <1>4, TypedHas, PromptType, SoundTyping
<1> QED
    BY <1>1, <1>2, <1>3, <1>4, <1>5

LEMMA SoundCloseEnds ==
    ASSUME Sound, CloseEnds
    PROVE  /\ Sound' /\ Todo' = Todo /\ Reading' = Reading /\ InAMessage' = InAMessage
           /\ UNCHANGED <<connected, server_sock, udp_sock, receiver, open, mail,
                          status, met, residue>>
           /\ typing.at = "closing" /\ typing' = Prompt
           /\ app' = [app EXCEPT !.isInSession = FALSE] /\ told' = closeSession(told)
           /\ crossed' = (crossed \/ ~typing.calm)
<1>1. /\ UNCHANGED <<connected, server_sock, udp_sock, receiver, open, asked, mail,
                     status, met, residue>>
      /\ typing.at = "closing" /\ typing' = Prompt
      /\ app' = [app EXCEPT !.isInSession = FALSE] /\ told' = closeSession(told)
      /\ crossed' = (crossed \/ ~typing.calm)
    BY DEF CloseEnds, serverVars
<1>2. app' \in Object /\ told' \in Object
  <2>1. app \in Object /\ told \in Object
      BY TypedHas
  <2>2. app' \in Object
      BY <1>1, <2>1, ObjectFlag
  <2>3. told' = [told EXCEPT !.isInSession = told.isInChatRoom] /\ told.isInChatRoom \in BOOLEAN
      BY <1>1, <2>1 DEF closeSession, Object
  <2> QED
      BY <2>1, <2>2, <2>3, ObjectFlag
<1>3. crossed' \in BOOLEAN
    BY <1>1
<1>4. /\ Sound'
      /\ Todo' = Todo /\ Reading' = Reading /\ InAMessage' = InAMessage
    BY <1>1, <1>2, <1>3, TypedHas, PromptType, SoundTyping
<1> QED
    BY <1>1, <1>4

LEMMA SoundDisconnectBegins ==
    ASSUME Sound, DisconnectBegins
    PROVE  /\ Sound' /\ Todo' = Todo /\ Reading' = Reading /\ InAMessage' = InAMessage
           /\ UNCHANGED <<server_sock, udp_sock, receiver, open, mail, status, met, crossed>>
           /\ typing = Prompt /\ connected /\ ~connected'
           /\ app' = Reset(app) /\ told' = Reset(told)
           /\ residue' = (residue \/ app.chatroom_partners # <<>>)
           /\ typing'.at = "leaving" /\ typing'.to = <<>> /\ typing'.calm = ~InAMessage
<1> DEFINE leaving == [Prompt EXCEPT !.at = "leaving", !.calm = ~InAMessage]
<1>1. /\ UNCHANGED <<server_sock, udp_sock, receiver, open, asked, mail, status, met, crossed>>
      /\ typing = Prompt /\ connected /\ connected' = FALSE
      /\ app' = Reset(app) /\ told' = Reset(told)
      /\ residue' = (residue \/ app.chatroom_partners # <<>>)
      /\ typing' = leaving
    BY DEF DisconnectBegins, AtPrompt, serverVars
<1>2. /\ leaving \in Command /\ leaving.at = "leaving" /\ leaving.to = <<>>
      /\ leaving.calm = ~InAMessage
  <2>1. (~InAMessage) \in BOOLEAN
      BY DEF InAMessage
  <2> QED
      BY <2>1, PromptType DEF Command
<1> HIDE DEF leaving
<1>3. app' \in Object /\ told' \in Object
  <2>1. app \in Object /\ told \in Object
      BY TypedHas
  <2>2. NULL \in Nobody
      BY DEF Nobody
  <2> QED
      BY <1>1, <2>1, <2>2 DEF Reset, Object
<1>4. /\ OneReceiver'
      /\ Todo' = Todo /\ Reading' = Reading /\ InAMessage' = InAMessage /\ Here' = Here
  <2>1. Typed /\ OneReceiver /\ receiver' = receiver /\ server_sock' = server_sock
      BY <1>1 DEF Sound
  <2>2. \A k \in Conn : k > server_sock => mail'[k] = mail[k] /\ status'[k] = status[k]
      BY <1>1
  <2>3. \A k \in Conn : Len(mail'[k]) <= MaxMail
      BY <1>1 DEF Sound, OneReceiver
  <2> QED
      BY <2>1, <2>2, <2>3, ThreadKept
<1>5. Typed'
    BY <1>1, <1>2, <1>3 DEF Sound, Typed
<1>6. Linked'
    BY <1>1, <1>2, <1>4 DEF Sound, Linked
<1> QED
    BY <1>1, <1>2, <1>4, <1>5, <1>6 DEF Sound

LEMMA SoundDisconnectEnds ==
    ASSUME Sound, DisconnectEnds
    PROVE  /\ Sound' /\ Todo' = Todo /\ Reading' = Reading /\ InAMessage' = InAMessage
           /\ UNCHANGED <<app, connected, server_sock, udp_sock, receiver, told, met, residue>>
           /\ typing.at = "leaving" /\ typing' = Prompt /\ ~connected /\ open' = {}
           /\ crossed' = (crossed \/ ~typing.calm \/ InAMessage)
<1>1. /\ UNCHANGED <<app, connected, server_sock, udp_sock, receiver, told, met, residue>>
      /\ typing.at = "leaving" /\ typing' = Prompt /\ SocketClosed
      /\ crossed' = (crossed \/ ~typing.calm \/ InAMessage)
    BY DEF DisconnectEnds
<1>2. /\ open' = {} /\ asked' \in [Conn -> Asked \cup {NULL}]
      /\ mail' \in [Conn -> Seq(Message)] /\ status' \in [Conn -> State]
      /\ \A k \in Conn : k > server_sock => mail'[k] = mail[k] /\ status'[k] = status[k]
      /\ \A k \in Conn : Len(mail'[k]) <= MaxMail
    BY <1>1, ClosedType
<1>3. /\ OneReceiver'
      /\ Todo' = Todo /\ Reading' = Reading /\ InAMessage' = InAMessage /\ Here' = Here
    BY <1>1, <1>2, ThreadKept DEF Sound
<1>4. crossed' \in BOOLEAN
    BY <1>1
<1>5. Typed'
    BY <1>1, <1>2, <1>4, PromptType DEF Sound, Typed
<1>6. ~connected
    BY <1>1 DEF Sound, Linked
<1>7. Linked'
    BY <1>1, <1>2, <1>3, <1>6, PromptType DEF Sound, Linked
<1> QED
    BY <1>1, <1>2, <1>3, <1>5, <1>6, <1>7 DEF Sound

LEMMA SoundSayBegins ==
    ASSUME Sound, SayBegins
    PROVE  /\ Sound' /\ Todo' = Todo /\ Reading' = Reading /\ InAMessage' = InAMessage
           /\ UNCHANGED <<app, connected, server_sock, udp_sock, receiver, open, mail, status,
                          told, met, crossed, residue>>
           /\ typing = Prompt /\ connected /\ app.isInSession
           /\ typing'.at = "saying" /\ typing'.to = <<>> /\ typing'.calm = ~Midway
<1> DEFINE saying == [Prompt EXCEPT !.at = "saying", !.calm = ~Midway]
<1>1. /\ UNCHANGED <<app, connected, server_sock, udp_sock, receiver, open, asked, mail, status,
                     told, met, crossed, residue>>
      /\ typing = Prompt /\ connected /\ app.isInSession
      /\ typing' = saying
    BY DEF SayBegins, AtPrompt, serverVars, history
<1>2. saying \in Command /\ saying.at = "saying" /\ saying.to = <<>> /\ saying.calm = ~Midway
  <2>1. (~Midway) \in BOOLEAN
      BY DEF Midway
  <2> QED
      BY <2>1, PromptType DEF Command
<1> HIDE DEF saying
<1>3. /\ Sound'
      /\ Todo' = Todo /\ Reading' = Reading /\ InAMessage' = InAMessage
    BY <1>1, <1>2, TypedHas, PromptType, SoundTyping
<1> QED
    BY <1>1, <1>2, <1>3

\* What has been said, to whom.
LEMMA SaidType ==
    ASSUME Sound, NEW to \in Seq(Nobody)
    PROVE  /\ Said(to) \in Command /\ Said(to).at = "said" /\ Said(to).to = to
           /\ Said(to).calm = typing.calm
BY TypedHas DEF Said, Command

LEMMA AliveSet ==
    ASSUME Sound
    PROVE  /\ [app EXCEPT !.alive = udp_sock] \in Object
           /\ udp_sock /\ app.alive => [app EXCEPT !.alive = udp_sock] = app
BY TypedHas DEF Object

LEMMA SoundSayWhere ==
    ASSUME Sound, SayWhere
    PROVE  /\ Sound' /\ Todo' = Todo /\ Reading' = Reading /\ InAMessage' = InAMessage
           /\ UNCHANGED <<connected, server_sock, udp_sock, receiver, open, mail, status,
                          told, met, crossed, residue>>
           /\ app.alive /\ typing.at = "saying" /\ typing'.calm = typing.calm
           /\ \/ ~app.isInSession /\ typing'.at = "said" /\ typing'.to = <<>> /\ app' = app
              \/ /\ app.isInSession /\ app.isInChatRoom /\ app' = app
                 /\ typing'.at = "room" /\ typing'.next = 1 /\ typing'.to = typing.to
              \/ /\ app.isInSession /\ ~app.isInChatRoom
                 /\ typing'.at = "said" /\ typing'.to = <<app.session_partner>>
                 /\ app' = [app EXCEPT !.alive = udp_sock]
<1> DEFINE room == [typing EXCEPT !.at = "room", !.next = FirstOfRoom]
<1>1. /\ UNCHANGED <<connected, server_sock, udp_sock, receiver, open, asked, mail, status,
                     told, met, crossed, residue>>
      /\ app.alive /\ typing.at = "saying"
      /\ \/ ~app.isInSession /\ typing' = Said(<<>>) /\ app' = app
         \/ app.isInSession /\ app.isInChatRoom /\ typing' = room /\ app' = app
         \/ /\ app.isInSession /\ ~app.isInChatRoom
            /\ typing' = Said(<<app.session_partner>>)
            /\ app' = [app EXCEPT !.alive = udp_sock]
    BY DEF SayWhere, serverVars, history
<1>2. /\ room \in Command /\ room.at = "room" /\ room.next = 1 /\ room.to = typing.to
      /\ room.calm = typing.calm
    BY TypedHas DEF Command, FirstOfRoom
<1> HIDE DEF room
<1>3. /\ Said(<<>>) \in Command /\ Said(<<>>).at = "said" /\ Said(<<>>).to = <<>>
      /\ Said(<<>>).calm = typing.calm
  <2>1. <<>> \in Seq(Nobody)
      OBVIOUS
  <2> QED
      BY <2>1, SaidType
<1> DEFINE one == <<app.session_partner>>
<1>4. /\ Said(one) \in Command /\ Said(one).at = "said" /\ Said(one).to = one
      /\ Said(one).calm = typing.calm
  <2>1. app.session_partner \in Nobody
      BY TypedHas DEF Object
  <2>2. one \in Seq(Nobody)
      BY <2>1
  <2> HIDE DEF one
  <2> QED
      BY <2>2, SaidType
<1>5. app' \in Object
    BY <1>1, TypedHas, AliveSet
<1>6. /\ typing' \in Command /\ typing'.at \notin {"prompt", "leaving"}
      /\ typing'.at = "room" => typing'.next = 1
    BY <1>1, <1>2, <1>3, <1>4
<1>7. /\ Sound'
      /\ Todo' = Todo /\ Reading' = Reading /\ InAMessage' = InAMessage
    BY <1>1, <1>5, <1>6, TypedHas, SoundTyping
<1> QED
    BY <1>1, <1>2, <1>3, <1>4, <1>7

LEMMA SoundSayNext ==
    ASSUME Sound, SayNext
    PROVE  /\ Sound' /\ Todo' = Todo /\ Reading' = Reading /\ InAMessage' = InAMessage
           /\ UNCHANGED <<connected, server_sock, udp_sock, receiver, open, mail, status,
                          told, met, crossed, residue>>
           /\ app.alive /\ typing.at = "room" /\ typing'.calm = typing.calm
           /\ typing.next >= 1
           /\ \/ /\ typing.next <= Len(app.chatroom_partners)
                 /\ typing'.at = "room" /\ typing'.next = typing.next + 1
                 /\ app.chatroom_partners[typing.next] \in Nobody
                 /\ typing'.to = Append(typing.to, app.chatroom_partners[typing.next])
                 /\ app' = [app EXCEPT !.alive = udp_sock]
              \/ /\ typing.next > Len(app.chatroom_partners) /\ app' = app
                 /\ typing'.at = "said" /\ typing'.to = typing.to
<1> DEFINE more == [typing EXCEPT !.next = @ + 1,
                           !.to = Append(@, app.chatroom_partners[typing.next])]
<1>1. /\ UNCHANGED <<connected, server_sock, udp_sock, receiver, open, asked, mail, status,
                     told, met, crossed, residue>>
      /\ app.alive /\ typing.at = "room"
      /\ \/ /\ typing.next <= Len(app.chatroom_partners)
            /\ typing' = more
            /\ app' = [app EXCEPT !.alive = udp_sock]
         \/ /\ typing.next > Len(app.chatroom_partners)
            /\ typing' = Said(typing.to)
            /\ app' = app
    BY DEF SayNext, serverVars, history
<1>2. /\ typing.next \in Nat /\ typing.next >= 1 /\ typing.to \in Seq(Nobody)
      /\ app.chatroom_partners \in Seq(Nobody)
    BY <1>1, TypedHas DEF Sound, Linked, Command, Object
<1>3. ASSUME typing.next <= Len(app.chatroom_partners)
      PROVE  /\ more \in Command /\ more.at = "room" /\ more.next = typing.next + 1
             /\ more.to = Append(typing.to, app.chatroom_partners[typing.next])
             /\ more.calm = typing.calm
             /\ app.chatroom_partners[typing.next] \in Nobody
  <2>1. app.chatroom_partners[typing.next] \in Nobody
      BY <1>2, <1>3
  <2>2. Append(typing.to, app.chatroom_partners[typing.next]) \in Seq(Nobody)
      BY <1>2, <2>1
  <2>3. typing.next + 1 \in Nat
      BY <1>2
  <2> QED
      BY <1>1, <2>1, <2>2, <2>3, TypedHas DEF Command
<1>4. /\ Said(typing.to) \in Command /\ Said(typing.to).at = "said"
      /\ Said(typing.to).to = typing.to /\ Said(typing.to).calm = typing.calm
    BY <1>2, SaidType
<1> HIDE DEF more
<1>5. app' \in Object
    BY <1>1, TypedHas, AliveSet
<1>6. /\ typing' \in Command /\ typing'.at \notin {"prompt", "leaving"}
      /\ typing'.at = "room" => typing'.next >= 1
    BY <1>1, <1>2, <1>3, <1>4
<1>7. /\ Sound'
      /\ Todo' = Todo /\ Reading' = Reading /\ InAMessage' = InAMessage
    BY <1>1, <1>5, <1>6, TypedHas, SoundTyping
<1> QED
    BY <1>1, <1>2, <1>3, <1>4, <1>7

LEMMA SoundSayEnds ==
    ASSUME Sound, SayEnds
    PROVE  /\ Sound' /\ Todo' = Todo /\ Reading' = Reading /\ InAMessage' = InAMessage
           /\ UNCHANGED <<app, connected, server_sock, udp_sock, receiver, open, mail, status,
                          told, met, crossed, residue>>
           /\ typing.at = "said" /\ typing' = Prompt
<1>1. /\ UNCHANGED <<app, connected, server_sock, udp_sock, receiver, open, asked, mail, status,
                     told, met, crossed, residue>>
      /\ typing.at = "said" /\ typing' = Prompt
    BY DEF SayEnds, serverVars, history
<1>2. /\ Sound'
      /\ Todo' = Todo /\ Reading' = Reading /\ InAMessage' = InAMessage
    BY <1>1, TypedHas, PromptType, SoundTyping
<1> QED
    BY <1>1, <1>2

\* A message before others.
LEMMA Before ==
    ASSUME NEW X, NEW m \in Seq(X)
    PROVE  /\ <<>> \o m = m
           /\ \A x \in X : /\ <<x>> \o m \in Seq(X) /\ <<x>> \o m # <<>>
                           /\ Head(<<x>> \o m) = x /\ Tail(<<x>> \o m) = m
           /\ m # <<>> => <<Head(m)>> \o Tail(m) = m
<1>1. <<>> \o m = m
    BY ConcatEmptySeq
<1>2. ASSUME NEW x \in X
      PROVE  /\ <<x>> \o m \in Seq(X) /\ <<x>> \o m # <<>>
             /\ Head(<<x>> \o m) = x /\ Tail(<<x>> \o m) = m
  <2> DEFINE one == <<x>>
             both == one \o m
  <2>1. one \in Seq(X) /\ Len(one) = 1 /\ one[1] = x
      OBVIOUS
  <2> HIDE DEF one
  <2>2. /\ both \in Seq(X) /\ Len(both) = 1 + Len(m)
        /\ \A i \in 1..(1 + Len(m)) : both[i] = IF i <= 1 THEN one[i] ELSE m[i - 1]
    <3>1. /\ both \in Seq(X) /\ Len(both) = Len(one) + Len(m)
          /\ \A i \in 1..(Len(one) + Len(m)) :
                both[i] = IF i <= Len(one) THEN one[i] ELSE m[i - Len(one)]
        BY <2>1, ConcatProperties
    <3> HIDE DEF both
    <3> QED
        BY <2>1, <3>1
  <2> HIDE DEF both
  <2>3. /\ Len(m) \in Nat /\ both # <<>> /\ Head(both) = both[1]
        /\ Tail(both) \in Seq(X) /\ Len(Tail(both)) = Len(both) - 1
        /\ \A i \in 1..(Len(both) - 1) : Tail(both)[i] = both[i + 1]
      BY <2>2
  <2>4. Head(both) = x
      BY <2>1, <2>2, <2>3
  <2> DEFINE rest == Tail(both)
  <2>5. rest \in Seq(X) /\ Len(rest) = Len(m) /\ \A i \in 1..Len(m) : rest[i] = both[i + 1]
      BY <2>2, <2>3
  <2> HIDE DEF rest
  <2>6. ASSUME NEW i \in 1..Len(m) PROVE rest[i] = m[i]
    <3>1. i + 1 \in 1..(1 + Len(m)) /\ ~(i + 1 <= 1) /\ i + 1 - 1 = i
        BY <2>3
    <3>2. both[i + 1] = m[i + 1 - 1]
        BY <2>2, <3>1
    <3> QED
        BY <2>5, <3>1, <3>2
  <2>7. rest = m
      BY <2>5, <2>6, SeqEqual
  <2> QED
      BY <2>2, <2>3, <2>4, <2>7 DEF both, one, rest
<1>3. ASSUME m # <<>> PROVE <<Head(m)>> \o Tail(m) = m
  <2> DEFINE rest == Tail(m)
             both == <<Head(m)>> \o rest
  <2>1. /\ Head(m) \in X /\ rest \in Seq(X) /\ Head(m) = m[1] /\ Len(m) \in Nat
        /\ Len(rest) = Len(m) - 1 /\ \A i \in 1..(Len(m) - 1) : rest[i] = m[i + 1]
      BY <1>3
  <2> HIDE DEF rest
  <2>2. /\ both \in Seq(X) /\ Len(both) = 1 + Len(rest)
        /\ \A i \in 1..(1 + Len(rest)) : both[i] = IF i <= 1 THEN <<Head(m)>>[i] ELSE rest[i - 1]
    <3>1. <<Head(m)>> \in Seq(X) /\ Len(<<Head(m)>>) = 1
        BY <2>1
    <3> QED
        BY <2>1, <3>1, ConcatProperties
  <2> HIDE DEF both
  <2>3. ASSUME NEW i \in 1..Len(m) PROVE both[i] = m[i]
    <3>1. CASE i = 1
        BY <2>1, <2>2, <3>1
    <3>2. CASE i # 1
      <4>1. i \in 1..(1 + Len(rest)) /\ ~(i <= 1) /\ i - 1 \in 1..(Len(m) - 1) /\ i - 1 + 1 = i
          BY <2>1, <3>2
      <4>2. both[i] = rest[i - 1] /\ rest[i - 1] = m[i - 1 + 1]
          BY <2>1, <2>2, <4>1
      <4> QED
          BY <4>1, <4>2
    <3> QED
        BY <3>1, <3>2
  <2>4. Len(both) = Len(m)
      BY <2>1, <2>2
  <2>5. both = m
      BY <2>2, <2>3, <2>4, SeqEqual
  <2> QED
      BY <2>5 DEF both, rest
<1> QED
    BY <1>1, <1>2, <1>3

\* What the server has written and the client has not taken in.
Coming == Reading \o (IF Here THEN mail[server_sock] ELSE <<>>)

\* Only the thread of the last connection does anything.
LEMMA ThreadAt ==
    ASSUME Sound, NEW k \in Conn, receiver[k].at \in {"loop", "listening", "strings", "assigning"}
    PROVE  /\ k = server_sock /\ Here
           /\ receiver[server_sock] \in Thread /\ Fit(receiver[server_sock], server_sock)
           /\ mail[server_sock] \in Seq(Message) /\ receiver \in [Conn -> Thread]
           /\ Todo = receiver[server_sock].todo
           /\ receiver[server_sock].at # "assigning" => Todo = <<>>
<1>1. k = server_sock
    BY Threads DEF Started, Sound
<1>2. Here
    BY <1>1 DEF Here
<1>3. /\ receiver[server_sock] \in Thread /\ Fit(receiver[server_sock], server_sock)
      /\ mail[server_sock] \in Seq(Message) /\ receiver \in [Conn -> Thread]
    BY <1>2 DEF Sound, Typed, OneReceiver, Here
<1>4. /\ Todo = receiver[server_sock].todo
      /\ receiver[server_sock].at # "assigning" => Todo = <<>>
    BY <1>2, <1>3 DEF Todo, Fit
<1> QED
    BY <1>1, <1>2, <1>3, <1>4

LEMMA DisturbedType ==
    ASSUME Sound
    PROVE  /\ Disturbed \in Command /\ Disturbed.at = typing.at /\ Disturbed.to = typing.to
           /\ Disturbed.next = typing.next /\ Disturbed.calm = (typing = Prompt)
           /\ typing.at = "prompt" => Disturbed = typing
<1>1. typing \in Command
    BY TypedHas
<1>2. /\ Disturbed \in Command /\ Disturbed.at = typing.at /\ Disturbed.to = typing.to
      /\ Disturbed.next = typing.next /\ Disturbed.calm = (typing = Prompt)
    BY <1>1 DEF Disturbed, Command
<1>3. ASSUME typing.at = "prompt" PROVE Disturbed = typing
  <2>1. typing = Prompt /\ typing.calm = TRUE
      BY <1>3, PromptType DEF Sound, Linked
  <2> QED
      BY <1>1, <2>1 DEF Disturbed, Command
<1> QED
    BY <1>2, <1>3

\* A step of the receiver thread that leaves the connection open.
LEMMA SoundMoved ==
    ASSUME Sound, NEW r, Moved(r),
           UNCHANGED <<connected, open, asked, status, crossed, residue>>,
           app' \in Object, told' \in Object, udp_sock' \in BOOLEAN,
           mail' \in [Conn -> Seq(Message)],
           \A k \in Conn : k > server_sock => mail'[k] = mail[k],
           \A k \in Conn : Len(mail'[k]) <= MaxMail,
           met' \subseteq Peer,
           typing' \in {typing, Disturbed},
           connected => r.at # "ended"
    PROVE  /\ Sound' /\ Todo' = r.todo
           /\ Reading' = IF r.at = "strings" THEN <<r.msg>> ELSE <<>>
           /\ InAMessage' <=> r.at \in {"assigning", "strings"}
           /\ Coming' = Reading' \o mail'[server_sock] /\ Here'
<1>1. Typed /\ OneReceiver /\ server_sock' = server_sock
    BY DEF Sound, Moved
<1>2. /\ receiver' \in [Conn -> Thread] /\ OneReceiver'
      /\ Todo' = r.todo
      /\ Reading' = IF r.at = "strings" THEN <<r.msg>> ELSE <<>>
      /\ InAMessage' <=> r.at \in {"assigning", "strings"}
      /\ receiver'[server_sock] = r /\ Here'
  <2>1. \A k \in Conn : k > server_sock => mail'[k] = mail[k] /\ status'[k] = status[k]
      OBVIOUS
  <2> QED
      BY <1>1, <2>1, ThreadMoved
<1>3. /\ typing' \in Command /\ typing'.at = typing.at /\ typing'.next = typing.next
      /\ typing.at = "prompt" => typing' = typing
    BY TypedHas, DisturbedType
<1>4. Typed'
    BY <1>1, <1>2, <1>3 DEF Sound, Typed
<1>5. Linked'
    BY <1>1, <1>2, <1>3 DEF Sound, Linked
<1>6. Coming' = Reading' \o mail'[server_sock]
    BY <1>1, <1>2 DEF Coming
<1> QED
    BY <1>2, <1>4, <1>5, <1>6 DEF Sound

LEMMA SoundTestFlag ==
    ASSUME Sound, NEW k \in Conn, TestFlag(k)
    PROVE  /\ Sound' /\ Todo' = Todo /\ Reading' = Reading /\ InAMessage' = InAMessage
           /\ UNCHANGED <<app, connected, server_sock, udp_sock, typing, open, mail, status,
                          told, met, crossed, residue>>
<1>1. /\ receiver[k].at = "loop"
      /\ receiver' = IF connected
                     THEN [receiver EXCEPT ![k].at = "listening", ![k].sock = server_sock]
                     ELSE [receiver EXCEPT ![k] = [Idle EXCEPT !.at = "ended"]]
      /\ UNCHANGED <<app, connected, server_sock, udp_sock, typing, open, asked, mail, status,
                     told, met, crossed, residue>>
    BY DEF TestFlag, Receiving, serverVars, history
<1>2. /\ k = server_sock /\ Here
      /\ receiver[k] \in Thread /\ Fit(receiver[k], k) /\ receiver \in [Conn -> Thread]
      /\ Todo = <<>> /\ receiver[k].todo = <<>>
    BY <1>1, ThreadAt
<1> DEFINE l == [receiver[k] EXCEPT !.at = "listening", !.sock = server_sock]
           e == [Idle EXCEPT !.at = "ended"]
           r == IF connected THEN l ELSE e
<1>3. server_sock \in 0..MaxConn /\ k \in Conn
    BY DEF Sound, Typed
<1>4. /\ l \in Thread /\ l.at = "listening" /\ l.sock = k /\ l.todo = <<>>
      /\ e \in Thread /\ e.at = "ended" /\ e.todo = <<>>
    BY <1>2, <1>3, PromptType DEF Thread
<1>5. receiver' = [receiver EXCEPT ![k] = r]
    BY <1>1, <1>2
<1> HIDE DEF l, e
<1>6. r \in Thread /\ r.todo = <<>> /\ r.at = IF connected THEN "listening" ELSE "ended"
    BY <1>4
<1>7. Fit(r, k)
  <2>1. Alone(<<>>)
      BY DEF Alone, ToSet
  <2> QED
      BY <1>4, <1>6, <2>1 DEF Fit
<1>8. Moved(r)
    BY <1>1, <1>2, <1>5, <1>6, <1>7 DEF Moved
<1>9. /\ app' \in Object /\ told' \in Object /\ udp_sock' \in BOOLEAN
      /\ mail' \in [Conn -> Seq(Message)] /\ met' \subseteq Peer
      /\ \A j \in Conn : Len(mail'[j]) <= MaxMail
    BY <1>1 DEF Sound, Typed, OneReceiver
<1> HIDE DEF r
<1>10. /\ Sound' /\ Todo' = r.todo
       /\ Reading' = IF r.at = "strings" THEN <<r.msg>> ELSE <<>>
       /\ InAMessage' <=> r.at \in {"assigning", "strings"}
    BY <1>1, <1>6, <1>8, <1>9, SoundMoved
<1>11. Reading = <<>> /\ InAMessage = FALSE
  <2>1. InAMessage \in BOOLEAN
      BY DEF InAMessage
  <2> QED
      BY <1>1, <1>2, <2>1, Threads DEF Reading, Sound
<1>12. InAMessage' = FALSE
  <2>1. InAMessage' \in BOOLEAN
      BY DEF InAMessage
  <2> QED
      BY <1>6, <1>10, <2>1
<1> QED
    BY <1>1, <1>2, <1>6, <1>10, <1>11, <1>12

LEMMA SoundEndOfFile ==
    ASSUME Sound, NEW k \in Conn, EndOfFile(k)
    PROVE  /\ Sound' /\ Todo' = Todo /\ Reading' = Reading /\ InAMessage' = InAMessage
           /\ UNCHANGED <<app, connected, server_sock, udp_sock, typing, open, mail, status,
                          told, met, crossed, residue>>
<1>1. /\ receiver[k].at = "listening"
      /\ receiver' = [receiver EXCEPT ![k].at = "loop"]
      /\ UNCHANGED <<app, connected, server_sock, udp_sock, typing, open, asked, mail, status,
                     told, met, crossed, residue>>
    BY DEF EndOfFile, GoesTo, Receiving, serverVars, history
<1>2. /\ k = server_sock /\ Here
      /\ receiver[k] \in Thread /\ Fit(receiver[k], k) /\ receiver \in [Conn -> Thread]
      /\ Todo = <<>> /\ receiver[k].todo = <<>>
    BY <1>1, ThreadAt
<1> DEFINE r == [receiver[k] EXCEPT !.at = "loop"]
<1>3. r \in Thread /\ r.at = "loop" /\ r.todo = <<>>
    BY <1>2 DEF Thread
<1>4. receiver' = [receiver EXCEPT ![k] = r]
    BY <1>1, <1>2
<1> HIDE DEF r
<1>5. Fit(r, k)
  <2>1. Alone(<<>>)
      BY DEF Alone, ToSet
  <2> QED
      BY <1>3, <2>1 DEF Fit
<1>6. Moved(r)
    BY <1>1, <1>2, <1>3, <1>4, <1>5 DEF Moved
<1>7. /\ app' \in Object /\ told' \in Object /\ udp_sock' \in BOOLEAN
      /\ mail' \in [Conn -> Seq(Message)] /\ met' \subseteq Peer
      /\ \A j \in Conn : Len(mail'[j]) <= MaxMail
    BY <1>1 DEF Sound, Typed, OneReceiver
<1>8. /\ Sound' /\ Todo' = r.todo
      /\ Reading' = IF r.at = "strings" THEN <<r.msg>> ELSE <<>>
      /\ InAMessage' <=> r.at \in {"assigning", "strings"}
    BY <1>1, <1>3, <1>6, <1>7, SoundMoved
<1>9. Reading = <<>> /\ InAMessage = FALSE
  <2>1. InAMessage \in BOOLEAN
      BY DEF InAMessage
  <2> QED
      BY <1>1, <1>2, <2>1, Threads DEF Reading, Sound
<1>10. InAMessage' = FALSE
  <2>1. InAMessage' \in BOOLEAN
      BY DEF InAMessage
  <2> QED
      BY <1>3, <1>8, <2>1
<1> QED
    BY <1>1, <1>2, <1>3, <1>8, <1>9, <1>10

\* The handler of a message begins.
LEMMA AssigningMoves ==
    ASSUME Sound, NEW k \in Conn, receiver[k].at \in {"listening", "strings"},
           NEW msg \in Message, Assigning(k, msg), server_sock' = server_sock
    PROVE  \E r : /\ Moved(r) /\ r.todo = Writes(app, msg)
                  /\ r.at = IF Writes(app, msg) = <<>> THEN "loop" ELSE "assigning"
<1> DEFINE todo == Writes(app, msg)
           at == IF todo = <<>> THEN "loop" ELSE "assigning"
           r == [receiver[k] EXCEPT !.msg = NULL, !.todo = todo, !.at = at]
<1>1. /\ k = server_sock /\ Here
      /\ receiver[k] \in Thread /\ Fit(receiver[k], k) /\ receiver \in [Conn -> Thread]
    BY ThreadAt
<1>2. todo \in Seq(Assignment) /\ Alone(todo)
    BY TypedHas, WritesType
<1>3. receiver' = [receiver EXCEPT ![k].msg = NULL, ![k].todo = todo, ![k].at = at]
    BY DEF Assigning
<1> HIDE DEF todo
<1>4. /\ r \in Thread /\ r.todo = todo /\ r.at = at /\ r.sock = receiver[k].sock
    BY <1>1, <1>2 DEF Thread
<1>5. receiver' = [receiver EXCEPT ![k] = r]
    BY <1>1, <1>3
<1>6. receiver[k].sock = k
    BY <1>1 DEF Fit
<1> HIDE DEF r
<1>7. Fit(r, k)
    BY <1>2, <1>4, <1>6 DEF Fit
<1>8. Moved(r)
    BY <1>1, <1>4, <1>5, <1>7 DEF Moved
<1> QED
    BY <1>4, <1>8 DEF todo

LEMMA ComingType ==
    ASSUME Sound
    PROVE  Reading \in Seq(Message) /\ Coming \in Seq(Message)
<1>1. <<>> \in Seq(Message)
    OBVIOUS
<1>2. Here => mail[server_sock] \in Seq(Message)
    BY DEF Sound, Typed, Here
<1>3. Reading \in Seq(Message)
  <2>1. ASSUME Here, receiver[server_sock].at = "strings"
        PROVE  <<receiver[server_sock].msg>> \in Seq(Message)
    <3>1. receiver[server_sock].msg \in Message
        BY <2>1 DEF Sound, OneReceiver, Fit
    <3> QED
        BY <3>1
  <2> QED
      BY <1>1, <2>1 DEF Reading
<1> DEFINE rest == IF Here THEN mail[server_sock] ELSE <<>>
<1>4. rest \in Seq(Message)
    BY <1>1, <1>2
<1> HIDE DEF rest
<1>5. Reading \o rest \in Seq(Message)
    BY <1>3, <1>4, ConcatProperties
<1> QED
    BY <1>3, <1>5 DEF Coming, rest

\* The next message is taken in.
Hears(msg) ==
    /\ msg \in Message /\ Coming \in Seq(Message) /\ Coming # <<>>
    /\ msg = Head(Coming) /\ Coming' = Tail(Coming) /\ Reading' = <<>>
    /\ Todo = <<>> /\ Todo' = Writes(app, msg)
    /\ Taken(msg)
    /\ server_sock \in open
    /\ UNCHANGED <<app, connected, server_sock, udp_sock, open, status, crossed, residue>>

LEMMA HearMoves ==
    ASSUME Sound, NEW k \in Conn, receiver[k].at \in {"listening", "strings"},
           NEW msg \in Message, Assigning(k, msg), Taken(msg),
           UNCHANGED <<app, connected, server_sock, udp_sock, open, asked, status, crossed,
                       residue>>,
           mail' \in [Conn -> Seq(Message)],
           \A j \in Conn : j > server_sock => mail'[j] = mail[j],
           \A j \in Conn : Len(mail'[j]) <= MaxMail
    PROVE  /\ Sound' /\ Todo' = Writes(app, msg) /\ Reading' = <<>>
           /\ Coming' = mail'[server_sock]
<1>1. PICK r : /\ Moved(r) /\ r.todo = Writes(app, msg)
               /\ r.at = IF Writes(app, msg) = <<>> THEN "loop" ELSE "assigning"
    BY AssigningMoves
<1>2. r.at \in {"loop", "assigning"}
    BY <1>1
<1>3. app' \in Object /\ told' \in Object /\ udp_sock' \in BOOLEAN
  <2>1. told' = Heard(told, msg)
      BY DEF Taken
  <2> QED
      BY <2>1, TypedHas, HeardType
<1>4. met' \subseteq Peer /\ typing' \in {typing, Disturbed}
  <2>1. met \subseteq Peer
      BY DEF Sound, Typed
  <2> QED
      BY <2>1 DEF Taken
<1>5. /\ Sound' /\ Todo' = r.todo
      /\ Reading' = IF r.at = "strings" THEN <<r.msg>> ELSE <<>>
      /\ Coming' = Reading' \o mail'[server_sock] /\ Here'
    BY <1>1, <1>2, <1>3, <1>4, SoundMoved
<1>6. Reading' = <<>>
    BY <1>2, <1>5
<1>7. mail'[server_sock] \in Seq(Message)
    BY <1>1 DEF Moved, Here
<1>8. <<>> \o mail'[server_sock] = mail'[server_sock]
    BY <1>7, Before
<1> QED
    BY <1>1, <1>5, <1>6, <1>8

LEMMA SoundReadCommand ==
    ASSUME Sound, NEW k \in Conn, ReadCommand(k)
    PROVE  /\ Sound'
           /\ \/ /\ Todo' = Todo /\ Coming' = Coming /\ server_sock \in open
                 /\ UNCHANGED <<app, connected, server_sock, udp_sock, typing, open, status,
                                told, met, crossed, residue>>
              \/ \E msg \in Message : Hears(msg)
<1> DEFINE msg == Head(mail[receiver[k].sock])
<1>1. /\ receiver[k].at = "listening" /\ receiver[k].sock \in open
      /\ mail[receiver[k].sock] # <<>>
      /\ mail' = [mail EXCEPT ![receiver[k].sock] = Tail(@)]
      /\ \/ /\ HasStrings(msg)
            /\ receiver' = [receiver EXCEPT ![k].at = "strings", ![k].msg = msg]
            /\ UNCHANGED <<typing, told, met>>
         \/ ~HasStrings(msg) /\ Assigning(k, msg) /\ Taken(msg)
      /\ UNCHANGED <<app, connected, server_sock, udp_sock, open, asked, status, crossed,
                     residue>>
    BY DEF ReadCommand, Receiving
<1>2. /\ k = server_sock /\ Here
      /\ receiver[k] \in Thread /\ Fit(receiver[k], k) /\ receiver \in [Conn -> Thread]
      /\ mail[k] \in Seq(Message) /\ Todo = <<>> /\ receiver[k].todo = <<>>
    BY <1>1, ThreadAt
<1>3. receiver[k].sock = k
    BY <1>1, <1>2 DEF Fit
<1>4. mail[k] # <<>> /\ msg = Head(mail[k]) /\ k \in open
    BY <1>1, <1>3
<1> HIDE DEF msg
<1>5. /\ msg \in Message /\ Tail(mail[k]) \in Seq(Message)
      /\ Len(Tail(mail[k])) <= Len(mail[k]) /\ Len(mail[k]) \in Nat
      /\ Len(Tail(mail[k])) \in Nat
    BY <1>2, <1>4
<1>6. /\ mail' \in [Conn -> Seq(Message)] /\ mail'[k] = Tail(mail[k])
      /\ \A j \in Conn : j # k => mail'[j] = mail[j]
  <2>1. mail' = [mail EXCEPT ![k] = Tail(mail[k])] /\ mail \in [Conn -> Seq(Message)]
      BY <1>1, <1>3 DEF Sound, Typed
  <2> QED
      BY <1>5, <2>1
<1>7. ASSUME NEW j \in Conn PROVE Len(mail'[j]) <= MaxMail
  <2>1. Len(mail[j]) <= MaxMail
      BY DEF Sound, OneReceiver
  <2>2. CASE j = k
      BY <1>5, <1>6, <2>1, <2>2, Numbers
  <2>3. CASE j # k
      BY <1>6, <2>1, <2>3
  <2> QED
      BY <2>2, <2>3
<1>8. \A j \in Conn : j > server_sock => mail'[j] = mail[j]
  <2>1. \A j \in Conn : j > server_sock => j # k
      BY <1>2 DEF Conn
  <2> QED
      BY <1>6, <2>1
<1>9. Reading = <<>> /\ Coming = mail[k]
  <2>1. Reading = <<>>
      BY <1>1, <1>2 DEF Reading
  <2>2. Coming = <<>> \o mail[k]
      BY <1>2, <2>1 DEF Coming
  <2> QED
      BY <1>2, <2>1, <2>2, Before
<1>10. CASE /\ HasStrings(msg)
            /\ receiver' = [receiver EXCEPT ![k].at = "strings", ![k].msg = msg]
            /\ UNCHANGED <<typing, told, met>>
  <2> DEFINE r == [receiver[k] EXCEPT !.at = "strings", !.msg = msg]
  <2>1. r \in Thread /\ r.at = "strings" /\ r.msg = msg /\ r.todo = <<>> /\ r.sock = k
      BY <1>2, <1>3, <1>5 DEF Thread
  <2>2. receiver' = [receiver EXCEPT ![k] = r]
      BY <1>2, <1>10
  <2> HIDE DEF r
  <2>3. Fit(r, k)
    <3>1. Alone(<<>>)
        BY DEF Alone, ToSet
    <3> QED
        BY <1>5, <1>10, <2>1, <3>1 DEF Fit
  <2>4. Moved(r)
      BY <1>1, <1>2, <2>1, <2>2, <2>3 DEF Moved
  <2>5. /\ app' \in Object /\ told' \in Object /\ udp_sock' \in BOOLEAN
        /\ met' \subseteq Peer /\ typing' \in {typing, Disturbed}
      BY <1>1, <1>10 DEF Sound, Typed
  <2>6. /\ Sound' /\ Todo' = r.todo
        /\ Reading' = IF r.at = "strings" THEN <<r.msg>> ELSE <<>>
        /\ Coming' = Reading' \o mail'[server_sock]
      BY <1>1, <1>6, <1>7, <1>8, <2>1, <2>4, <2>5, SoundMoved
  <2>7. Coming' = <<msg>> \o Tail(mail[k])
      BY <1>2, <1>6, <2>1, <2>6
  <2>8. Coming' = Coming
      BY <1>2, <1>4, <1>9, <2>7, Before
  <2> QED
      BY <1>1, <1>2, <1>4, <1>10, <2>1, <2>6, <2>8
<1>11. CASE ~HasStrings(msg) /\ Assigning(k, msg) /\ Taken(msg)
  <2>1. /\ Sound' /\ Todo' = Writes(app, msg) /\ Reading' = <<>>
        /\ Coming' = mail'[server_sock]
      BY <1>1, <1>5, <1>6, <1>7, <1>8, <1>11, HearMoves
  <2>2. Coming' = Tail(Coming) /\ msg = Head(Coming) /\ Coming # <<>> /\ Coming \in Seq(Message)
      BY <1>2, <1>4, <1>6, <1>9, <2>1
  <2>3. Hears(msg)
      BY <1>1, <1>2, <1>4, <1>5, <1>11, <2>1, <2>2 DEF Hears
  <2> QED
      BY <1>5, <2>1, <2>3
<1> QED
    BY <1>1, <1>10, <1>11 DEF msg

LEMMA CutType ==
    ASSUME NEW msg \in Message, HasStrings(msg)
    PROVE  Cut(msg) \in Message
<1>1. DOMAIN msg = {"cmd", "names"} /\ msg = [cmd |-> msg.cmd, names |-> msg.names]
    BY DEF Message
<1> DEFINE names == IF msg.cmd = "CHATROOM_LIST" THEN <<>> ELSE <<NULL>>
<1>2. Cut(msg) = [cmd |-> msg.cmd, names |-> names]
    BY <1>1 DEF Cut
<1>3. NULL \in Nobody /\ <<>> \in Seq(Peer)
    BY DEF Nobody
<1>4. CASE msg.cmd = "CHATROOM_LIST"
    BY <1>2, <1>3, <1>4 DEF Message
<1>5. CASE msg.cmd \in {"CONFIRM_USER", "USER_HAS_LEFT_CHATROOM"} \cup PartnerNews
  <2>1. names = <<NULL>>
      BY <1>5 DEF PartnerNews
  <2>2. names \in {<<n>> : n \in Conn \cup {NULL}} /\ names \in {<<n>> : n \in Nobody}
        /\ names \in {<<n>> : n \in Nobody \cup Conn}
      BY <1>3, <2>1
  <2> HIDE DEF names
  <2> QED
      BY <1>2, <1>5, <2>2 DEF Message
<1> QED
    BY <1>4, <1>5, MessageKinds DEF HasStrings

LEMMA SoundReadStrings ==
    ASSUME Sound, NEW k \in Conn, ReadStrings(k)
    PROVE  /\ Sound' /\ Reading # <<>>
           /\ server_sock \in open => \E msg \in Message : Hears(msg)
           /\ crossed' = crossed
<1> DEFINE msg == receiver[k].msg
<1>1. /\ receiver[k].at = "strings"
      /\ \/ server_sock \in open /\ Assigning(k, msg) /\ Taken(msg)
         \/ /\ server_sock \notin open /\ Assigning(k, Cut(msg))
            /\ UNCHANGED <<typing, told, met>>
      /\ UNCHANGED <<app, connected, server_sock, udp_sock, open, asked, mail, status, crossed,
                     residue>>
    BY DEF ReadStrings, Receiving, serverVars
<1>2. /\ k = server_sock /\ Here
      /\ receiver[k] \in Thread /\ Fit(receiver[k], k) /\ receiver \in [Conn -> Thread]
      /\ mail[k] \in Seq(Message) /\ Todo = <<>>
    BY <1>1, ThreadAt
<1>3. msg \in Message /\ HasStrings(msg)
    BY <1>1, <1>2 DEF Fit
<1>4. Reading = <<msg>>
    BY <1>1, <1>2 DEF Reading
<1> HIDE DEF msg
<1>5. Coming = <<msg>> \o mail[k]
    BY <1>2, <1>4 DEF Coming
<1>6. /\ mail' \in [Conn -> Seq(Message)] /\ \A j \in Conn : Len(mail'[j]) <= MaxMail
      /\ \A j \in Conn : j > server_sock => mail'[j] = mail[j]
    BY <1>1 DEF Sound, Typed, OneReceiver
<1>7. CASE server_sock \in open /\ Assigning(k, msg) /\ Taken(msg)
  <2>1. /\ Sound' /\ Todo' = Writes(app, msg) /\ Reading' = <<>>
        /\ Coming' = mail'[server_sock]
      BY <1>1, <1>3, <1>6, <1>7, HearMoves
  <2>2. /\ Coming \in Seq(Message) /\ Coming # <<>> /\ msg = Head(Coming)
        /\ Coming' = Tail(Coming)
    <3>1. mail'[server_sock] = mail[k]
        BY <1>1, <1>2
    <3> QED
        BY <1>2, <1>3, <1>5, <2>1, <3>1, Before
  <2>3. Hears(msg)
      BY <1>1, <1>2, <1>3, <1>7, <2>1, <2>2 DEF Hears
  <2> QED
      BY <1>1, <1>3, <1>4, <2>1, <2>3
<1>8. CASE /\ server_sock \notin open /\ Assigning(k, Cut(msg))
           /\ UNCHANGED <<typing, told, met>>
  <2>1. Cut(msg) \in Message
      BY <1>3, CutType
  <2>2. PICK r : /\ Moved(r) /\ r.todo = Writes(app, Cut(msg))
                 /\ r.at = IF Writes(app, Cut(msg)) = <<>> THEN "loop" ELSE "assigning"
      BY <1>1, <1>8, <2>1, AssigningMoves
  <2>3. /\ app' \in Object /\ told' \in Object /\ udp_sock' \in BOOLEAN
        /\ met' \subseteq Peer /\ typing' \in {typing, Disturbed}
      BY <1>1, <1>8 DEF Sound, Typed
  <2>4. Sound'
      BY <1>1, <1>6, <2>2, <2>3, SoundMoved
  <2> QED
      BY <1>1, <1>4, <1>8, <2>4
<1> QED
    BY <1>1, <1>7, <1>8 DEF msg

LEMMA SoundAssign ==
    ASSUME Sound, NEW k \in Conn, Assign(k)
    PROVE  /\ Sound' /\ InAMessage
           /\ Todo # <<>> /\ Todo \in Seq(Assignment) /\ Head(Todo) \in Assignment
           /\ Todo' = Tail(Todo) /\ Reading' = <<>>
           /\ typing' = Disturbed /\ UNCHANGED <<server_sock, told, crossed>>
           /\ \/ /\ Head(Todo).member = "closed" /\ Todo' = <<>>
                 /\ app' = Reset(app) /\ ~connected' /\ open' = {} /\ ~InAMessage'
                 /\ residue' = (residue \/ app.chatroom_partners # <<>>)
                 /\ UNCHANGED <<udp_sock, met>>
              \/ /\ Head(Todo).member # "closed"
                 /\ app' = Written(app, Head(Todo))
                 /\ udp_sock' = (udp_sock \/ Head(Todo).member = "udp_sock")
                 /\ Coming' = Coming
                 /\ UNCHANGED <<connected, open, status, met, residue>>
<1> DEFINE write == Head(receiver[k].todo)
           rest == Tail(receiver[k].todo)
           at == IF rest = <<>> THEN "loop" ELSE "assigning"
           r == [receiver[k] EXCEPT !.todo = rest, !.at = at]
<1>1. /\ receiver[k].at = "assigning"
      /\ receiver' = [receiver EXCEPT ![k].todo = rest, ![k].at = at]
      /\ typing' = Disturbed
      /\ \/ /\ write.member = "closed"
            /\ app' = Reset(app) /\ connected' = FALSE /\ SocketClosed
            /\ residue' = (residue \/ app.chatroom_partners # <<>>)
            /\ UNCHANGED <<server_sock, udp_sock, met>>
         \/ /\ write.member # "closed"
            /\ app' = Written(app, write)
            /\ udp_sock' = (udp_sock \/ write.member = "udp_sock")
            /\ UNCHANGED <<connected, server_sock, open, asked, mail, status, met, residue>>
      /\ UNCHANGED <<told, crossed>>
    BY DEF Assign, Receiving, serverVars
<1>2. /\ k = server_sock /\ Here
      /\ receiver[k] \in Thread /\ Fit(receiver[k], k) /\ receiver \in [Conn -> Thread]
      /\ mail[k] \in Seq(Message) /\ Todo = receiver[k].todo
    BY <1>1, ThreadAt
<1>3. /\ Todo # <<>> /\ Todo \in Seq(Assignment) /\ Alone(Todo)
      /\ receiver[k].sock = k
    BY <1>1, <1>2 DEF Fit, Thread
<1>4. /\ write = Head(Todo) /\ rest = Tail(Todo)
      /\ write \in Assignment /\ write \in ToSet(Todo)
      /\ rest \in Seq(Assignment) /\ ToSet(rest) \subseteq ToSet(Todo)
      /\ Len(Todo) = 1 => rest = <<>>
      /\ Len(rest) = Len(Todo) - 1 /\ Len(Todo) \in Nat
    <2>1. Len(Tail(Todo)) = Len(Todo) - 1 /\ Len(Todo) \in Nat
        BY <1>3
    <2> QED
        BY <1>2, <1>3, <2>1, HeadAndTail
<1> HIDE DEF write, rest
<1>5. Alone(rest)
  <2>1. ASSUME NEW w \in ToSet(rest), w.member = "closed" PROVE FALSE
    <3>1. Len(Todo) = 1
        BY <1>3, <1>4, <2>1 DEF Alone
    <3>2. ToSet(<<>>) = {}
        BY DEF ToSet
    <3> QED
        BY <1>4, <2>1, <3>1, <3>2
  <2> QED
      BY <2>1 DEF Alone
<1>6. r \in Thread /\ r.todo = rest /\ r.at = at /\ r.sock = k
    BY <1>2, <1>3, <1>4 DEF Thread
<1>7. receiver' = [receiver EXCEPT ![k] = r]
    BY <1>1, <1>2
<1> HIDE DEF r
<1>8. Fit(r, k)
    BY <1>5, <1>6 DEF Fit
<1>9. server_sock' = server_sock /\ Moved(r)
    BY <1>1, <1>2, <1>6, <1>7, <1>8 DEF Moved
<1>10. InAMessage
    BY <1>1, <1>2 DEF InAMessage
<1>11. r.at # "strings" /\ r.at # "ended"
    BY <1>6
<1>12. Reading = <<>> /\ Coming = <<>> \o mail[k]
    BY <1>1, <1>2 DEF Reading, Coming
<1>13. CASE /\ write.member = "closed"
            /\ app' = Reset(app) /\ connected' = FALSE /\ SocketClosed
            /\ residue' = (residue \/ app.chatroom_partners # <<>>)
            /\ UNCHANGED <<server_sock, udp_sock, met>>
  <2>1. rest = <<>>
      BY <1>3, <1>4, <1>13 DEF Alone
  <2>2. /\ open' = {} /\ asked' \in [Conn -> Asked \cup {NULL}]
        /\ mail' \in [Conn -> Seq(Message)] /\ status' \in [Conn -> State]
        /\ \A j \in Conn : j > server_sock => mail'[j] = mail[j] /\ status'[j] = status[j]
        /\ \A j \in Conn : Len(mail'[j]) <= MaxMail
      BY <1>13, ClosedType
  <2>3. /\ receiver' \in [Conn -> Thread] /\ OneReceiver'
        /\ Todo' = r.todo
        /\ Reading' = IF r.at = "strings" THEN <<r.msg>> ELSE <<>>
        /\ InAMessage' <=> r.at \in {"assigning", "strings"}
        /\ receiver'[server_sock] = r /\ Here'
      BY <1>9, <2>2, ThreadMoved DEF Sound
  <2>4. ~InAMessage' /\ Reading' = <<>> /\ Todo' = <<>>
      BY <1>6, <2>1, <2>3
  <2>5. app' \in Object
    <3>1. NULL \in Nobody
        BY DEF Nobody
    <3> QED
        BY <1>13, <3>1, TypedHas DEF Reset, Object
  <2>6. Typed'
    <3>1. typing' \in Command
        BY <1>1, DisturbedType
    <3>2. residue' \in BOOLEAN
        BY <1>13
    <3> QED
        BY <1>1, <1>13, <2>2, <2>3, <2>5, <3>1, <3>2 DEF Sound, Typed
  <2>7. Linked'
      BY <1>1, <1>13, <2>2, <2>3, DisturbedType DEF Sound, Linked
  <2>8. Sound'
      BY <2>3, <2>6, <2>7 DEF Sound
  <2> QED
      BY <1>1, <1>3, <1>4, <1>10, <1>13, <2>1, <2>2, <2>4, <2>8
<1>14. CASE /\ write.member # "closed"
            /\ app' = Written(app, write)
            /\ udp_sock' = (udp_sock \/ write.member = "udp_sock")
            /\ UNCHANGED <<connected, server_sock, open, asked, mail, status, met, residue>>
  <2>1. /\ app' \in Object /\ told' \in Object /\ udp_sock' \in BOOLEAN
        /\ met' \subseteq Peer /\ mail' \in [Conn -> Seq(Message)]
        /\ \A j \in Conn : Len(mail'[j]) <= MaxMail
    <3>1. app' \in Object
        BY <1>4, <1>14, TypedHas, WrittenType
    <3>2. udp_sock' \in BOOLEAN
        BY <1>14
    <3> QED
        BY <1>1, <1>14, <3>1, <3>2 DEF Sound, Typed, OneReceiver
  <2>2. /\ Sound' /\ Todo' = r.todo
        /\ Reading' = IF r.at = "strings" THEN <<r.msg>> ELSE <<>>
        /\ Coming' = Reading' \o mail'[server_sock]
      BY <1>1, <1>9, <1>11, <1>14, <2>1, SoundMoved
  <2>3. Reading' = <<>> /\ Coming' = Coming /\ Todo' = rest
      BY <1>2, <1>6, <1>11, <1>12, <1>14, <2>2
  <2> QED
      BY <1>1, <1>3, <1>4, <1>10, <1>14, <2>2, <2>3
<1> QED
    BY <1>1, <1>13, <1>14

\* The elements of a finite set, in some order.
LEMMA SequenceOfSet ==
    ASSUME NEW S, IsFiniteSet(S)
    PROVE  SetToSeq(S) \in Seq(S) /\ ToSet(SetToSeq(S)) = S
<1> DEFINE n == Cardinality(S)
           f == SetToSeq(S)
<1>1. n \in Nat /\ ExistsBijection(1..n, S)
    BY FS_CardinalityType
<1>2. \E g \in [1..n -> S] : IsInjective(g)
    BY <1>1 DEF ExistsBijection, Bijection, Injection
<1>3. f \in [1..n -> S] /\ IsInjective(f)
    BY <1>2 DEF SetToSeq
<1> HIDE DEF f
<1>4. f \in Seq(S) /\ DOMAIN f = 1..n
    BY <1>1, <1>3
<1> DEFINE T == {f[i] : i \in 1..n}
<1>5. T \subseteq S
    BY <1>3
<1>6. f \in Bijection(1..n, T)
    BY <1>3 DEF Bijection, Injection, Surjection
<1> HIDE DEF T
<1>7. Cardinality(T) = n
    BY <1>1, <1>6, FS_CountingElements DEF ExistsBijection
<1>8. T = S
    BY <1>5, <1>7, FS_Subset
<1>9. ToSet(f) = S
    BY <1>4, <1>8 DEF ToSet, T
<1> QED
    BY <1>4, <1>9 DEF f

\* The list of a room names its owner and its users.
LEMMA ListOfRoom ==
    ASSUME NEW k, NEW owner \in Peer, NEW others \in SUBSET Peer
    PROVE  /\ ListFor(k, owner, others) \in Seq(Peer)
           /\ ToSet(ListFor(k, owner, others)) = others \cup {owner}
<1>1. IsFiniteSet(others)
    BY Numbers, FS_Subset
<1> DEFINE rest == SetToSeq(others)
           one == <<owner>>
<1>2. rest \in Seq(others) /\ ToSet(rest) = others
    BY <1>1, SequenceOfSet
<1> HIDE DEF rest
<1>3. rest \in Seq(Peer)
    BY <1>2, SeqMonotonic
<1>4. one \in Seq(Peer) /\ ToSet(one) = {owner}
  <2>1. ToSet(<<owner>>) = {owner}
      BY FewElements
  <2>2. one \in Seq(Peer)
      OBVIOUS
  <2> QED
      BY <2>1, <2>2
<1> HIDE DEF one
<1>5. one \o rest \in Seq(Peer)
    BY <1>3, <1>4, ConcatProperties
<1>6. ToSet(one \o rest) = {owner} \cup others
    BY <1>2, <1>3, <1>4, MoreElements
<1> QED
    BY <1>5, <1>6 DEF ListFor, one, rest

LEMMA AppendAfter ==
    ASSUME NEW X, NEW p \in Seq(X), NEW q \in Seq(X), NEW x \in X
    PROVE  p \o Append(q, x) = Append(p \o q, x)
<1>1. Append(q, x) = q \o <<x>>
    BY AppendIsConcat
<1> DEFINE one == <<x>>
<1>2. one \in Seq(X)
    OBVIOUS
<1>3. p \o q \in Seq(X)
    BY ConcatProperties
<1> DEFINE both == p \o q
<1> HIDE DEF both
<1>4. Append(both, x) = both \o <<x>>
    BY <1>3, AppendIsConcat DEF both
<1> HIDE DEF one
<1>5. (p \o q) \o one = p \o (q \o one)
    BY <1>2, ConcatAssociative, SMTT(30)
<1> QED
    BY <1>1, <1>4, <1>5 DEF one, both

-------------------------------------------------------------------------------
(* What the server does to what the client will know. *)

\* A client that will be a is in what the server takes it to be in.
Promise(k, a, in) ==
    /\ in.place # "nowhere" => a.name = k
    /\ in.place = "room" => in.with \subseteq a.known

\* The message makes that true of the new state.
Agreed(k, in, msg, state) ==
    \A a \in Prospect : Promise(k, a, in) =>
        \E b \in Prospect : <<a, msg, b>> \in Foretold(k) /\ Promise(k, b, state)

\* The server has written a message, or nothing to this client.
Informed ==
    \/ \E msg \in Message : /\ Coming' = Append(Coming, msg)
                            /\ Agreed(server_sock, status[server_sock], msg,
                                      status'[server_sock])
    \/ /\ Coming' = Coming
       /\ \A a : Promise(server_sock, a, status[server_sock])
                    => Promise(server_sock, a, status'[server_sock])

LEMMA TellType ==
    ASSUME Sound, NEW k \in Conn, NEW msg \in Message, NEW state \in State,
           Tell(k, msg, state), asked' \in [Conn -> Asked \cup {NULL}]
    PROVE  /\ Sound' /\ Todo' = Todo /\ Reading' = Reading /\ InAMessage' = InAMessage
           /\ UNCHANGED <<app, connected, server_sock, udp_sock, typing, open,
                          told, met, crossed, residue>>
           /\ k = server_sock /\ k \in open /\ Here
           /\ Coming' = Append(Coming, msg) /\ status'[k] = state
<1>1. /\ k \in open /\ Len(mail[k]) < MaxMail
      /\ mail' = [mail EXCEPT ![k] = Append(@, msg)]
      /\ status' = [status EXCEPT ![k] = state]
      /\ UNCHANGED <<app, connected, server_sock, udp_sock, receiver, typing, open,
                     told, met, crossed, residue>>
    BY DEF Tell, clientVars, history
<1>2. k = server_sock /\ Here
    BY <1>1 DEF Sound, Linked, Here
<1>3. mail \in [Conn -> Seq(Message)] /\ status \in [Conn -> State]
    BY DEF Sound, Typed
<1> DEFINE m == Append(mail[k], msg)
<1>4. m \in Seq(Message) /\ Len(m) = Len(mail[k]) + 1 /\ Len(mail[k]) \in Nat
    BY <1>3
<1> HIDE DEF m
<1>5. /\ mail' \in [Conn -> Seq(Message)] /\ status' \in [Conn -> State]
      /\ mail'[k] = m /\ status'[k] = state
      /\ \A j \in Conn : j # k => mail'[j] = mail[j] /\ status'[j] = status[j]
  <2>1. mail' = [mail EXCEPT ![k] = m]
      BY <1>1, <1>3 DEF m
  <2> QED
      BY <1>1, <1>3, <1>4, <2>1
<1>6. ASSUME NEW j \in Conn PROVE Len(mail'[j]) <= MaxMail
  <2>1. CASE j = k
      BY <1>1, <1>4, <1>5, <2>1, Numbers
  <2>2. CASE j # k
      BY <1>5, <2>2 DEF Sound, OneReceiver
  <2> QED
      BY <2>1, <2>2
<1>7. /\ OneReceiver'
      /\ Todo' = Todo /\ Reading' = Reading /\ InAMessage' = InAMessage /\ Here' = Here
  <2>1. Typed /\ OneReceiver /\ receiver' = receiver /\ server_sock' = server_sock
      BY <1>1 DEF Sound
  <2>2. \A j \in Conn : j > server_sock => mail'[j] = mail[j] /\ status'[j] = status[j]
    <3>1. \A j \in Conn : j > server_sock => j # k
        BY <1>2 DEF Conn
    <3> QED
        BY <1>5, <3>1
  <2> QED
      BY <1>6, <2>1, <2>2, ThreadKept
<1>8. Typed'
    BY <1>1, <1>5 DEF Sound, Typed
<1>9. Linked'
    BY <1>1, <1>7 DEF Sound, Linked
<1>10. Coming' = Append(Coming, msg)
  <2>1. Coming = Reading \o mail[k] /\ Coming' = Reading \o m
      BY <1>1, <1>2, <1>5, <1>7 DEF Coming
  <2>2. Reading \o m = Append(Reading \o mail[k], msg)
      BY <1>3, ComingType, AppendAfter DEF m
  <2> QED
      BY <2>1, <2>2
<1> QED
    BY <1>1, <1>2, <1>5, <1>7, <1>8, <1>9, <1>10 DEF Sound

\* Messages and states of the model.
LEMMA ServerTypes ==
    /\ \A cmd \in Bare : Msg(cmd, <<>>) \in Message
    /\ \A cmd \in PartnerNews : \A peer \in Peer : Msg(cmd, <<peer>>) \in Message
    /\ \A k \in Conn : Msg("CONFIRM_USER", <<k>>) \in Message
    /\ \A x \in Peer \cup Conn : Msg("USER_HAS_LEFT_CHATROOM", <<x>>) \in Message
    /\ \A names \in Seq(Peer) : Msg("CHATROOM_LIST", names) \in Message
    /\ LoggedOn \in State /\ LoggedOn.place = "account" /\ Nowhere.place = "nowhere"
    /\ Status("closed", {}, NULL) \in State /\ Status("closed", {}, NULL).place = "closed"
    /\ \A users \in SUBSET Peer : \A owner \in Nobody \cup Conn :
          \A place \in {"session", "room"} :
             /\ Status(place, users, owner) \in State
             /\ Status(place, users, owner).place = place
             /\ Status(place, users, owner).with = users
    /\ \A in \in State : \A users \in SUBSET Peer :
          /\ [in EXCEPT !.with = users] \in State
          /\ [in EXCEPT !.with = users].place = in.place
          /\ [in EXCEPT !.with = users].with = users
<1>1. \A cmd \in Bare : Msg(cmd, <<>>) \in Message
    BY DEF Msg, Message
<1>2. ASSUME NEW cmd \in PartnerNews, NEW peer \in Peer
      PROVE  Msg(cmd, <<peer>>) \in Message
  <2>1. <<peer>> \in {<<n>> : n \in Nobody}
      BY DEF Nobody
  <2> HIDE DEF Nobody
  <2> QED
      BY <2>1 DEF Msg, Message
<1>3. ASSUME NEW k \in Conn PROVE Msg("CONFIRM_USER", <<k>>) \in Message
    BY DEF Msg, Message
<1>4. ASSUME NEW x \in Peer \cup Conn
      PROVE  Msg("USER_HAS_LEFT_CHATROOM", <<x>>) \in Message
  <2>1. <<x>> \in {<<n>> : n \in Nobody \cup Conn}
      BY DEF Nobody
  <2> QED
      BY <2>1 DEF Msg, Message
<1>5. \A names \in Seq(Peer) : Msg("CHATROOM_LIST", names) \in Message
    BY DEF Msg, Message
<1>6. /\ LoggedOn \in State /\ LoggedOn.place = "account" /\ Nowhere.place = "nowhere"
      /\ Status("closed", {}, NULL) \in State /\ Status("closed", {}, NULL).place = "closed"
    BY DEF LoggedOn, Nowhere, Status, State, Nobody
<1>7. ASSUME NEW users \in SUBSET Peer, NEW owner \in Nobody \cup Conn,
             NEW place \in {"session", "room"}
      PROVE  /\ Status(place, users, owner) \in State
             /\ Status(place, users, owner).place = place
             /\ Status(place, users, owner).with = users
    BY DEF Status, State
<1>8. ASSUME NEW in \in State, NEW users \in SUBSET Peer
      PROVE  /\ [in EXCEPT !.with = users] \in State
             /\ [in EXCEPT !.with = users].place = in.place
             /\ [in EXCEPT !.with = users].with = users
    BY DEF State
<1> QED
    BY <1>1, <1>2, <1>3, <1>4, <1>5, <1>6, <1>7, <1>8

LEMMA ForetoldIs ==
    ASSUME NEW k, NEW a \in Prospect, NEW msg \in Message, NEW b \in Prospect,
           \/ /\ msg.cmd = "CONFIRM_USER" /\ msg.names = <<k>>
              /\ b = [a EXCEPT !.name = k]
           \/ /\ msg.cmd \in {"INCOMIMG_SESSION", "TARGET_IP_AND_PORT", "CHATROOM_CREATED"}
              /\ a.name # NULL /\ b = a
           \/ /\ msg.cmd = "CHATROOM_LIST" /\ a.name # NULL
              /\ b = [a EXCEPT !.known = @ \cup ToSet(msg.names)]
           \/ /\ msg.cmd = "NEW_USER_TO_CHATROOM"
              /\ b = [a EXCEPT !.known = @ \cup (ToSet(msg.names) \cap Peer)]
           \/ /\ msg.cmd = "USER_HAS_LEFT_CHATROOM" /\ msg.names[1] \in a.known
              /\ b = [a EXCEPT !.known = @ \ {msg.names[1]}]
           \/ /\ msg.cmd = "USER_HAS_LEFT_CHATROOM" /\ msg.names[1] = a.name
              /\ b = [a EXCEPT !.known = {}]
           \/ msg.cmd = "CHATROOM_WAS_CLOSED" /\ b = [a EXCEPT !.known = {}]
           \/ /\ msg.cmd \in {"CLOSE_SESSION_ERROR", "SESSION_ENDED", "CHATROOM_IS_CLOSING"}
              /\ b = a
    PROVE  <<a, msg, b>> \in Foretold(k)
<1> DEFINE t == <<a, msg, b>>
<1>1. t \in Prospect \X Message \X Prospect /\ t[1] = a /\ t[2] = msg /\ t[3] = b
    OBVIOUS
<1> HIDE DEF t
<1> QED
    BY <1>1 DEF Foretold, t

\* A name or a set of users that is known from now on.
LEMMA ProspectChanged ==
    ASSUME NEW a \in Prospect
    PROVE  /\ a.known \subseteq Peer
           /\ \A n \in Conn : /\ [a EXCEPT !.name = n] \in Prospect
                              /\ [a EXCEPT !.name = n].name = n
           /\ \A known \in SUBSET Peer : /\ [a EXCEPT !.known = known] \in Prospect
                                         /\ [a EXCEPT !.known = known].name = a.name
                                         /\ [a EXCEPT !.known = known].known = known
BY DEF Prospect

LEMMA AgreedLogin ==
    ASSUME NEW k \in Conn, NEW in
    PROVE  Agreed(k, in, Msg("CONFIRM_USER", <<k>>), LoggedOn)
<1> DEFINE msg == Msg("CONFIRM_USER", <<k>>)
<1>1. msg \in Message /\ msg.cmd = "CONFIRM_USER" /\ msg.names = <<k>>
    BY ServerTypes DEF Msg
<1> HIDE DEF msg
<1>2. ASSUME NEW a \in Prospect
      PROVE  \E b \in Prospect : <<a, msg, b>> \in Foretold(k) /\ Promise(k, b, LoggedOn)
  <2> DEFINE b == [a EXCEPT !.name = k]
  <2>1. b \in Prospect /\ b.name = k
      BY ProspectChanged
  <2>2. <<a, msg, b>> \in Foretold(k)
      BY <1>1, <2>1, ForetoldIs
  <2>3. Promise(k, b, LoggedOn)
      BY <2>1, ServerTypes DEF Promise
  <2> QED
      BY <2>1, <2>2, <2>3
<1> QED
    BY <1>2 DEF Agreed, msg

\* A message that does not change who is known to whom.
LEMMA AgreedSame ==
    ASSUME NEW k \in Conn, NEW in, NEW msg \in Message, NEW state,
           \/ /\ msg.cmd \in {"INCOMIMG_SESSION", "TARGET_IP_AND_PORT", "CHATROOM_CREATED"}
              /\ in.place # "nowhere"
           \/ msg.cmd \in {"CLOSE_SESSION_ERROR", "SESSION_ENDED", "CHATROOM_IS_CLOSING"},
           state.place # "nowhere" => in.place # "nowhere",
           state.place = "room" => \/ state.with = {}
                                   \/ in.place = "room" /\ state.with = in.with
    PROVE  Agreed(k, in, msg, state)
<1>1. ASSUME NEW a \in Prospect, Promise(k, a, in)
      PROVE  \E b \in Prospect : <<a, msg, b>> \in Foretold(k) /\ Promise(k, b, state)
  <2>1. in.place # "nowhere" => a.name # NULL
      BY <1>1, Numbers DEF Promise
  <2>2. <<a, msg, a>> \in Foretold(k)
      BY <2>1, ForetoldIs
  <2>3. Promise(k, a, state)
      BY <1>1 DEF Promise
  <2> QED
      BY <2>2, <2>3
<1> QED
    BY <1>1 DEF Agreed

\* A message that changes who is known.
LEMMA AgreedKnown ==
    ASSUME NEW k \in Conn, NEW in, NEW msg \in Message, NEW state,
           in.place # "nowhere",
           \A a \in Prospect : Promise(k, a, in) =>
              \E known \in SUBSET Peer :
                 /\ \/ msg.cmd = "CHATROOM_LIST" /\ known = a.known \cup ToSet(msg.names)
                    \/ /\ msg.cmd = "NEW_USER_TO_CHATROOM"
                       /\ known = a.known \cup (ToSet(msg.names) \cap Peer)
                    \/ /\ msg.cmd = "USER_HAS_LEFT_CHATROOM" /\ msg.names[1] \in a.known
                       /\ known = a.known \ {msg.names[1]}
                    \/ /\ msg.cmd = "USER_HAS_LEFT_CHATROOM" /\ msg.names[1] = a.name
                       /\ known = {}
                    \/ msg.cmd = "CHATROOM_WAS_CLOSED" /\ known = {}
                 /\ state.place = "room" => state.with \subseteq known
    PROVE  Agreed(k, in, msg, state)
<1>1. ASSUME NEW a \in Prospect, Promise(k, a, in)
      PROVE  \E b \in Prospect : <<a, msg, b>> \in Foretold(k) /\ Promise(k, b, state)
  <2>1. PICK known \in SUBSET Peer :
                 /\ \/ msg.cmd = "CHATROOM_LIST" /\ known = a.known \cup ToSet(msg.names)
                    \/ /\ msg.cmd = "NEW_USER_TO_CHATROOM"
                       /\ known = a.known \cup (ToSet(msg.names) \cap Peer)
                    \/ /\ msg.cmd = "USER_HAS_LEFT_CHATROOM" /\ msg.names[1] \in a.known
                       /\ known = a.known \ {msg.names[1]}
                    \/ /\ msg.cmd = "USER_HAS_LEFT_CHATROOM" /\ msg.names[1] = a.name
                       /\ known = {}
                    \/ msg.cmd = "CHATROOM_WAS_CLOSED" /\ known = {}
                 /\ state.place = "room" => state.with \subseteq known
      BY <1>1
  <2> DEFINE b == [a EXCEPT !.known = known]
  <2>2. b \in Prospect /\ b.name = a.name /\ b.known = known
      BY ProspectChanged
  <2>3. a.name = k /\ a.name # NULL
      BY <1>1, Numbers DEF Promise
  <2>4. <<a, msg, b>> \in Foretold(k)
      BY <2>1, <2>2, <2>3, ForetoldIs
  <2>5. Promise(k, b, state)
      BY <2>1, <2>2, <2>3 DEF Promise
  <2> QED
      BY <2>2, <2>4, <2>5
<1> QED
    BY <1>1 DEF Agreed

LEMMA AgreedList ==
    ASSUME NEW k \in Conn, NEW in, in.place # "nowhere",
           NEW owner \in Peer, NEW others \in SUBSET Peer
    PROVE  Agreed(k, in, Msg("CHATROOM_LIST", ListFor(k, owner, others)),
                  Status("room", others \cup {owner}, owner))
<1> DEFINE names == ListFor(k, owner, others)
           msg == Msg("CHATROOM_LIST", names)
           users == others \cup {owner}
           state == Status("room", users, owner)
<1>1. names \in Seq(Peer) /\ ToSet(names) = users
    BY ListOfRoom
<1>2. users \in SUBSET Peer /\ owner \in Nobody \cup Conn
    BY DEF Nobody
<1> HIDE DEF names, users
<1>3. msg \in Message /\ msg.cmd = "CHATROOM_LIST" /\ msg.names = names
    BY <1>1, ServerTypes DEF Msg
<1>4. state.place = "room" /\ state.with = users
    BY <1>2, ServerTypes
<1> HIDE DEF msg, state
<1>5. ASSUME NEW a \in Prospect
      PROVE  \E known \in SUBSET Peer : /\ known = a.known \cup ToSet(msg.names)
                                        /\ state.with \subseteq known
  <2>1. a.known \cup users \in SUBSET Peer
      BY <1>2, ProspectChanged
  <2> QED
      BY <1>1, <1>3, <1>4, <2>1
<1>6. Agreed(k, in, msg, state)
    BY <1>3, <1>5, AgreedKnown
<1> QED
    BY <1>6 DEF msg, state, names, users

LEMMA AgreedJoins ==
    ASSUME NEW k \in Conn, NEW in \in State, in.place = "room", NEW peer \in Peer
    PROVE  Agreed(k, in, Msg("NEW_USER_TO_CHATROOM", <<peer>>),
                  [in EXCEPT !.with = @ \cup {peer}])
<1> DEFINE msg == Msg("NEW_USER_TO_CHATROOM", <<peer>>)
           users == in.with \cup {peer}
           state == [in EXCEPT !.with = users]
<1>1. users \in SUBSET Peer
    BY DEF State
<1>2. msg \in Message /\ msg.cmd = "NEW_USER_TO_CHATROOM" /\ ToSet(msg.names) = {peer}
    BY ServerTypes, FewElements DEF Msg, PartnerNews
<1>3. state.place = "room" /\ state.with = users
    BY <1>1, ServerTypes
<1> HIDE DEF msg, state
<1>4. ASSUME NEW a \in Prospect, Promise(k, a, in)
      PROVE  \E known \in SUBSET Peer : /\ known = a.known \cup (ToSet(msg.names) \cap Peer)
                                        /\ state.with \subseteq known
  <2>1. a.known \cup {peer} \in SUBSET Peer /\ in.with \subseteq a.known
      BY <1>4, ProspectChanged DEF Promise
  <2>2. ToSet(msg.names) \cap Peer = {peer}
      BY <1>2
  <2> QED
      BY <1>3, <2>1, <2>2
<1>5. Agreed(k, in, msg, state)
    BY <1>2, <1>4, AgreedKnown
<1> QED
    BY <1>5 DEF msg, state

LEMMA AgreedLeaves ==
    ASSUME NEW k \in Conn, NEW in \in State, in.place = "room", NEW peer \in in.with
    PROVE  Agreed(k, in, Msg("USER_HAS_LEFT_CHATROOM", <<peer>>),
                  [in EXCEPT !.with = @ \ {peer}])
<1> DEFINE msg == Msg("USER_HAS_LEFT_CHATROOM", <<peer>>)
           users == in.with \ {peer}
           state == [in EXCEPT !.with = users]
<1>1. users \in SUBSET Peer /\ peer \in Peer
    BY DEF State
<1>2. msg \in Message /\ msg.cmd = "USER_HAS_LEFT_CHATROOM" /\ msg.names[1] = peer
    BY <1>1, ServerTypes DEF Msg
<1>3. state.place = "room" /\ state.with = users
    BY <1>1, ServerTypes
<1> HIDE DEF msg, state
<1>4. ASSUME NEW a \in Prospect, Promise(k, a, in)
      PROVE  \E known \in SUBSET Peer : /\ msg.names[1] \in a.known
                                        /\ known = a.known \ {msg.names[1]}
                                        /\ state.with \subseteq known
  <2>1. a.known \ {peer} \in SUBSET Peer /\ in.with \subseteq a.known
      BY <1>4, ProspectChanged DEF Promise
  <2> QED
      BY <1>2, <1>3, <2>1
<1>5. Agreed(k, in, msg, state)
    BY <1>2, <1>4, AgreedKnown
<1> QED
    BY <1>5 DEF msg, state

\* The user leaves the room, or the room is closed.
LEMMA AgreedOut ==
    ASSUME NEW k \in Conn, NEW in, in.place = "room"
    PROVE  /\ Agreed(k, in, Msg("USER_HAS_LEFT_CHATROOM", <<k>>), LoggedOn)
           /\ Agreed(k, in, Msg("CHATROOM_WAS_CLOSED", <<>>), LoggedOn)
<1>1. ASSUME NEW msg \in Message,
             \/ msg.cmd = "USER_HAS_LEFT_CHATROOM" /\ msg.names[1] = k
             \/ msg.cmd = "CHATROOM_WAS_CLOSED"
      PROVE  Agreed(k, in, msg, LoggedOn)
  <2>1. ASSUME NEW a \in Prospect, Promise(k, a, in)
        PROVE  \E known \in SUBSET Peer :
                 /\ \/ /\ msg.cmd = "USER_HAS_LEFT_CHATROOM" /\ msg.names[1] = a.name
                       /\ known = {}
                    \/ msg.cmd = "CHATROOM_WAS_CLOSED" /\ known = {}
                 /\ LoggedOn.place = "room" => LoggedOn.with \subseteq known
    <3>1. a.name = k
        BY <2>1 DEF Promise
    <3>2. LoggedOn.place # "room"
        BY ServerTypes
    <3> QED
      <4>1. /\ {} \in SUBSET Peer
            /\ LoggedOn.place = "room" => LoggedOn.with \subseteq {}
          BY <3>2
      <4>2. \/ msg.cmd = "USER_HAS_LEFT_CHATROOM" /\ msg.names[1] = a.name
            \/ msg.cmd = "CHATROOM_WAS_CLOSED"
          BY <1>1, <3>1
      <4> QED
          BY <4>1, <4>2
  <2> QED
      BY <2>1, AgreedKnown
<1>2. /\ Msg("USER_HAS_LEFT_CHATROOM", <<k>>) \in Message
      /\ Msg("CHATROOM_WAS_CLOSED", <<>>) \in Message
    BY ServerTypes DEF Bare
<1>3. /\ Msg("USER_HAS_LEFT_CHATROOM", <<k>>).cmd = "USER_HAS_LEFT_CHATROOM"
      /\ Msg("USER_HAS_LEFT_CHATROOM", <<k>>).names[1] = k
      /\ Msg("CHATROOM_WAS_CLOSED", <<>>).cmd = "CHATROOM_WAS_CLOSED"
    BY DEF Msg
<1> QED
    BY <1>1, <1>2, <1>3

\* A step of the server.
Served ==
    /\ Sound' /\ Todo' = Todo /\ Reading' = Reading /\ InAMessage' = InAMessage
    /\ UNCHANGED <<app, connected, server_sock, udp_sock, typing, open, told, met, crossed,
                   residue>>
    /\ server_sock \in open /\ Here /\ Informed

LEMMA TellServes ==
    ASSUME Sound, NEW k \in Conn, NEW msg \in Message, NEW state \in State,
           Tell(k, msg, state), asked' \in [Conn -> Asked \cup {NULL}],
           Agreed(k, status[k], msg, state)
    PROVE  Served
<1>1. /\ Sound' /\ Todo' = Todo /\ Reading' = Reading /\ InAMessage' = InAMessage
      /\ UNCHANGED <<app, connected, server_sock, udp_sock, typing, open,
                     told, met, crossed, residue>>
      /\ k = server_sock /\ k \in open /\ Here
      /\ Coming' = Append(Coming, msg) /\ status'[k] = state
    BY TellType
<1>2. Informed
    BY <1>1 DEF Informed
<1> QED
    BY <1>1, <1>2 DEF Served

\* Nothing is written, and the server may have forgotten a session.
LEMMA DroppedServes ==
    ASSUME Sound, NEW k \in Conn, Dropped(k), asked' \in [Conn -> Asked \cup {NULL}]
    PROVE  Served
<1>1. /\ k \in open
      /\ \/ status' = status
         \/ status[k].place = "session" /\ status' = [status EXCEPT ![k] = LoggedOn]
      /\ UNCHANGED <<app, connected, server_sock, udp_sock, receiver, typing, open, mail,
                     told, met, crossed, residue>>
    BY DEF Dropped, clientVars, history
<1>2. k = server_sock /\ Here
    BY <1>1 DEF Sound, Linked, Here
<1>3. status \in [Conn -> State] /\ LoggedOn \in State
    BY ServerTypes DEF Sound, Typed
<1>4. /\ status' \in [Conn -> State]
      /\ \A j \in Conn : j # k => status'[j] = status[j]
      /\ \/ status'[k] = status[k]
         \/ status[k].place = "session" /\ status'[k] = LoggedOn
    BY <1>1, <1>3
<1>5. /\ OneReceiver'
      /\ Todo' = Todo /\ Reading' = Reading /\ InAMessage' = InAMessage /\ Here' = Here
  <2>1. Typed /\ OneReceiver /\ receiver' = receiver /\ server_sock' = server_sock
      BY <1>1 DEF Sound
  <2>2. \A j \in Conn : j > server_sock => mail'[j] = mail[j] /\ status'[j] = status[j]
    <3>1. \A j \in Conn : j > server_sock => j # k
        BY <1>2 DEF Conn
    <3> QED
        BY <1>1, <1>4, <3>1
  <2>3. \A j \in Conn : Len(mail'[j]) <= MaxMail
      BY <1>1 DEF Sound, OneReceiver
  <2> QED
      BY <2>1, <2>2, <2>3, ThreadKept
<1>6. Typed'
    BY <1>1, <1>4 DEF Sound, Typed
<1>7. Linked'
    BY <1>1, <1>5 DEF Sound, Linked
<1>8. Coming' = Coming
    BY <1>1, <1>5 DEF Coming
<1>9. Informed
  <2>1. ASSUME NEW a, Promise(k, a, status[k]) PROVE Promise(k, a, status'[k])
      BY <1>4, <2>1, ServerTypes DEF Promise
  <2> QED
      BY <1>2, <1>8, <2>1 DEF Informed
<1> QED
    BY <1>1, <1>2, <1>5, <1>6, <1>7, <1>9 DEF Served, Sound

LEMMA GrantedServes ==
    ASSUME Sound, NEW k \in Conn, asked[k] # NULL, Granted(k),
           asked' \in [Conn -> Asked \cup {NULL}]
    PROVE  Served
<1> DEFINE in == status[k]
<1>1. in \in State /\ asked[k] \in Asked
    BY DEF Sound, Typed
<1>2. k \in Nobody \cup Conn /\ NULL \in Nobody \cup Conn /\ {} \in SUBSET Peer
    BY DEF Nobody
<1>3. CASE in = Nowhere /\ Tell(k, Msg("CONFIRM_USER", <<k>>), LoggedOn)
    BY <1>3, AgreedLogin, TellServes, ServerTypes
<1>4. CASE /\ asked[k].cmd = "OPEN_SESSION_WITH_USER" /\ in = LoggedOn
           /\ Tell(k, Msg("TARGET_IP_AND_PORT", <<asked[k].peer>>),
                   Status("session", {asked[k].peer}, NULL))
  <2> DEFINE peer == asked[k].peer
             msg == Msg("TARGET_IP_AND_PORT", <<peer>>)
             state == Status("session", {peer}, NULL)
  <2>1. peer \in Peer /\ in.place # "nowhere"
      BY <1>1, <1>4, ServerTypes DEF Asked
  <2> HIDE DEF peer
  <2>2. msg \in Message /\ msg.cmd = "TARGET_IP_AND_PORT"
      BY <2>1, ServerTypes DEF Msg, PartnerNews
  <2>3. state \in State /\ state.place = "session"
      BY <1>2, <2>1, ServerTypes
  <2>4. Tell(k, msg, state)
      BY <1>4 DEF peer
  <2> HIDE DEF msg, state, in
  <2>5. Agreed(k, in, msg, state)
      BY <2>1, <2>2, <2>3, AgreedSame
  <2> QED
      BY <2>2, <2>3, <2>4, <2>5, TellServes DEF in
<1>5. CASE Tell(k, Msg("CLOSE_SESSION_ERROR", <<>>), in)
  <2> DEFINE msg == Msg("CLOSE_SESSION_ERROR", <<>>)
  <2>1. msg \in Message /\ msg.cmd = "CLOSE_SESSION_ERROR"
      BY ServerTypes DEF Msg, Bare
  <2>2. Tell(k, msg, in)
      BY <1>5
  <2> HIDE DEF msg, in
  <2>3. Agreed(k, in, msg, in)
      BY <2>1, AgreedSame
  <2> QED
      BY <1>1, <2>1, <2>2, <2>3, TellServes DEF in
<1>6. CASE in = LoggedOn /\ Tell(k, Msg("CHATROOM_CREATED", <<>>), Status("room", {}, k))
  <2> DEFINE msg == Msg("CHATROOM_CREATED", <<>>)
             state == Status("room", {}, k)
  <2>1. msg \in Message /\ msg.cmd = "CHATROOM_CREATED"
      BY ServerTypes DEF Msg, Bare
  <2>2. state \in State /\ state.place = "room" /\ state.with = {}
      BY <1>2, ServerTypes
  <2>3. Tell(k, msg, state) /\ in.place # "nowhere"
      BY <1>6, ServerTypes
  <2> HIDE DEF msg, state, in
  <2>4. Agreed(k, in, msg, state)
      BY <2>1, <2>2, <2>3, AgreedSame
  <2> QED
      BY <2>1, <2>2, <2>3, <2>4, TellServes DEF in
<1>7. ASSUME in = LoggedOn,
             NEW owner \in Peer, NEW others \in SUBSET (Peer \ {owner}),
             Tell(k, Msg("CHATROOM_LIST", ListFor(k, owner, others)),
                  Status("room", others \cup {owner}, owner))
      PROVE  Served
  <2> DEFINE msg == Msg("CHATROOM_LIST", ListFor(k, owner, others))
             state == Status("room", others \cup {owner}, owner)
  <2>0. others \in SUBSET Peer
      OBVIOUS
  <2>1. msg \in Message
      BY <2>0, ListOfRoom, ServerTypes
  <2>2. state \in State
    <3>1. others \cup {owner} \in SUBSET Peer /\ owner \in Nobody \cup Conn
        BY DEF Nobody
    <3> QED
        BY <3>1, ServerTypes
  <2>3. Tell(k, msg, state) /\ in.place # "nowhere"
      BY <1>7, ServerTypes
  <2>4. Agreed(k, in, msg, state)
    <3> HIDE DEF in
    <3> QED
        BY <2>0, <2>3, AgreedList
  <2> HIDE DEF msg, state, in
  <2> QED
      BY <2>1, <2>2, <2>3, <2>4, TellServes DEF in
<1>8. CASE /\ in.place = "room"
           /\ Tell(k, IF in.owner = k THEN Msg("CHATROOM_WAS_CLOSED", <<>>)
                      ELSE Msg("USER_HAS_LEFT_CHATROOM", <<k>>), LoggedOn)
  <2>1. /\ Msg("CHATROOM_WAS_CLOSED", <<>>) \in Message
        /\ Msg("USER_HAS_LEFT_CHATROOM", <<k>>) \in Message
        /\ LoggedOn \in State
      BY ServerTypes DEF Bare
  <2>2. /\ Agreed(k, in, Msg("USER_HAS_LEFT_CHATROOM", <<k>>), LoggedOn)
        /\ Agreed(k, in, Msg("CHATROOM_WAS_CLOSED", <<>>), LoggedOn)
      BY <1>8, AgreedOut
  <2>3. \/ Tell(k, Msg("CHATROOM_WAS_CLOSED", <<>>), LoggedOn)
        \/ Tell(k, Msg("USER_HAS_LEFT_CHATROOM", <<k>>), LoggedOn)
      BY <1>8
  <2> QED
      BY <2>1, <2>2, <2>3, TellServes
<1> HIDE DEF in
<1> QED
    BY <1>3, <1>4, <1>5, <1>6, <1>7, <1>8 DEF Granted, in

LEMMA HandleServes ==
    ASSUME Sound, NEW k \in Conn, Handle(k)
    PROVE  Served
<1>1. /\ asked[k] # NULL /\ (Granted(k) \/ Dropped(k))
      /\ asked' = [asked EXCEPT ![k] = NULL]
    BY DEF Handle
<1>2. asked' \in [Conn -> Asked \cup {NULL}]
    BY <1>1, TypedHas
<1> QED
    BY <1>1, <1>2, GrantedServes, DroppedServes

LEMMA ServerServes ==
    ASSUME Sound, NEW k \in Conn, Server(k)
    PROVE  Served
<1> DEFINE in == status[k]
<1>1. in \in State /\ LoggedOn \in State
    BY ServerTypes DEF Sound, Typed
<1>2. CASE Handle(k)
    BY <1>2, HandleServes
<1>3. ASSUME UNCHANGED asked
      PROVE  asked' \in [Conn -> Asked \cup {NULL}]
    BY <1>3, TypedHas
<1>4. ASSUME NEW peer \in Caller, Visit(k, peer), UNCHANGED asked
      PROVE  Served
  <2> DEFINE msg == Msg("INCOMIMG_SESSION", <<peer>>)
             state == Status("session", {peer}, NULL)
  <2>1. peer \in Peer /\ in.place # "nowhere"
      BY <1>4, Numbers, ServerTypes DEF Visit
  <2>2. msg \in Message /\ msg.cmd = "INCOMIMG_SESSION"
      BY <2>1, ServerTypes DEF Msg, PartnerNews
  <2>3. state \in State /\ state.place = "session"
    <3>1. NULL \in Nobody \cup Conn /\ {peer} \in SUBSET Peer
        BY <2>1 DEF Nobody
    <3> QED
        BY <3>1, ServerTypes
  <2>4. Tell(k, msg, state)
      BY <1>4 DEF Visit
  <2> HIDE DEF msg, state, in
  <2>5. Agreed(k, in, msg, state)
      BY <2>1, <2>2, <2>3, AgreedSame
  <2> QED
      BY <1>3, <1>4, <2>2, <2>3, <2>4, <2>5, TellServes DEF in
<1>5. ASSUME NEW peer \in Peer, PeerJoins(k, peer), UNCHANGED asked
      PROVE  Served
  <2> DEFINE msg == Msg("NEW_USER_TO_CHATROOM", <<peer>>)
             users == in.with \cup {peer}
             state == [in EXCEPT !.with = @ \cup {peer}]
  <2>1. in.place = "room" /\ Tell(k, msg, state)
      BY <1>5 DEF PeerJoins
  <2>2. msg \in Message
      BY ServerTypes DEF PartnerNews
  <2>3. state \in State
    <3>1. users \in SUBSET Peer
        BY <1>1 DEF State
    <3> QED
        BY <1>1, <3>1, ServerTypes
  <2> HIDE DEF in
  <2>4. Agreed(k, in, msg, state)
      BY <1>1, <2>1, AgreedJoins
  <2> HIDE DEF msg, state
  <2> QED
      BY <1>3, <1>5, <2>1, <2>2, <2>3, <2>4, TellServes DEF in
<1>6. ASSUME NEW peer \in Peer, PeerLeaves(k, peer), UNCHANGED asked
      PROVE  Served
  <2> DEFINE gone == Msg("CHATROOM_WAS_CLOSED", <<>>)
             left == Msg("USER_HAS_LEFT_CHATROOM", <<peer>>)
             users == in.with \ {peer}
             state == [in EXCEPT !.with = @ \ {peer}]
  <2>1. /\ in.place = "room" /\ peer \in in.with
        /\ Tell(k, gone, LoggedOn) \/ Tell(k, left, state)
      BY <1>6 DEF PeerLeaves
  <2>2. gone \in Message /\ left \in Message
      BY ServerTypes DEF Bare
  <2>3. state \in State
    <3>1. users \in SUBSET Peer
        BY <1>1 DEF State
    <3> QED
        BY <1>1, <3>1, ServerTypes
  <2> HIDE DEF in
  <2>4. Agreed(k, in, left, state) /\ Agreed(k, in, gone, LoggedOn)
      BY <1>1, <2>1, AgreedLeaves, AgreedOut
  <2> HIDE DEF gone, left, state
  <2> QED
      BY <1>1, <1>3, <1>6, <2>1, <2>2, <2>3, <2>4, TellServes DEF in
<1>7. CASE PartnerEnds(k) /\ UNCHANGED asked
  <2> DEFINE msg == Msg("SESSION_ENDED", <<>>)
  <2>1. in.place = "session" /\ Tell(k, msg, LoggedOn)
      BY <1>7 DEF PartnerEnds
  <2>2. msg \in Message /\ msg.cmd = "SESSION_ENDED" /\ LoggedOn.place = "account"
      BY ServerTypes DEF Msg, Bare
  <2> HIDE DEF msg, in
  <2>3. Agreed(k, in, msg, LoggedOn)
      BY <2>1, <2>2, AgreedSame
  <2> QED
      BY <1>1, <1>3, <1>7, <2>1, <2>2, <2>3, TellServes DEF in
<1>8. CASE ShutDown(k) /\ UNCHANGED asked
  <2> DEFINE msg == Msg("CHATROOM_IS_CLOSING", <<>>)
             state == Status("closed", {}, NULL)
  <2>1. in.place # "nowhere" /\ Tell(k, msg, state)
      BY <1>8 DEF ShutDown
  <2>2. /\ msg \in Message /\ msg.cmd = "CHATROOM_IS_CLOSING"
        /\ state \in State /\ state.place = "closed"
      BY ServerTypes DEF Msg, Bare
  <2> HIDE DEF msg, state, in
  <2>3. Agreed(k, in, msg, state)
      BY <2>1, <2>2, AgreedSame
  <2> QED
      BY <1>1, <1>3, <1>8, <2>1, <2>2, <2>3, TellServes DEF in
<1> QED
    BY <1>2, <1>4, <1>5, <1>6, <1>7, <1>8 DEF Server

-------------------------------------------------------------------------------
(* What holds until a disconnecting and a message are each inside the other. *)

\* The members were reset in the middle of a message.
Torn == typing.at = "leaving" /\ ~typing.calm

\* A command that no assignment has disturbed has seen one state.
Calm ==
    typing.calm =>
        /\ typing.at # "prompt" => Todo = <<>>
        /\ typing.at = "closing" => ~app.isInChatRoom
        /\ typing.at = "leaving" => /\ app.session_partner = NULL
                                    /\ residue \/ app.chatroom_partners = <<>>
        /\ typing.at = "saying" => app.isInSession /\ typing.to = <<>>
        /\ typing.at = "room" =>
              /\ app.isInChatRoom /\ typing.next <= Len(app.chatroom_partners) + 1
              /\ typing.to = SubSeq(app.chatroom_partners, 1, typing.next - 1)
        /\ typing.at = "said" => typing.to = Addressees(app)

\* No message is read half before the connection is closed, and afterwards there is
\* nothing left of the session.
Quiet ==
    /\ Reading # <<>> => server_sock \in open
    /\ ~connected /\ typing.at # "leaving" =>
          /\ ~InAMessage /\ app.session_partner = NULL
          /\ residue \/ app.chatroom_partners = <<>>

\* The assignments that are left lead to what the messages amount to.
Synced ==
    /\ told.alive
    /\ \E c, d \in Object : /\ Alike(c, app) /\ Leads(c, Todo, d) /\ Alike(d, told)
                            /\ ~Torn => c = app /\ d = told

\* Who is in a session has a socket for messages.
Armed ==
    /\ app.isInSession => udp_sock
    /\ Set("isInSession", TRUE) \in ToSet(Todo) => udp_sock
    /\ told.client_name # NULL => udp_sock \/ \E w \in ToSet(Todo) : w.member = "udp_sock"
    /\ typing.at = "room" => udp_sock

\* What is under way will make the client know what the server has it in.
Expected ==
    server_sock \in open =>
        \E a, b \in Prospect :
            /\ a.name = told.client_name /\ a.known \subseteq ToSet(told.chatroom_partners)
            /\ Chain(Foretold(server_sock), a, Coming, b)
            /\ Promise(server_sock, b, status[server_sock])

\* Every partner was named on this connection.
Met ==
    ~residue =>
        /\ app.session_partner \in met \cup {NULL}
        /\ ToSet(app.chatroom_partners) \subseteq met \cup {NULL}
        /\ ToSet(typing.to) \subseteq met \cup {NULL}
        /\ \A w \in ToSet(Todo) : Naming(w, met \cup {NULL})

Ordered == ~crossed => Calm /\ Quiet /\ Synced /\ Armed /\ Expected /\ Met

ThreadsInv == Sound /\ Ordered

LEMMA CalmKept ==
    ASSUME Calm, UNCHANGED <<app, typing, residue>>, Todo' = Todo
    PROVE  Calm'
BY DEF Calm, Addressees

\* A command that was disturbed, or none, need not have seen anything.
LEMMA CalmUnless ==
    ASSUME ~typing'.calm \/ typing'.at = "prompt"
    PROVE  Calm'
BY DEF Calm

LEMMA QuietKept ==
    ASSUME Quiet, UNCHANGED <<connected, server_sock, open, residue>>,
           app'.session_partner = app.session_partner,
           app'.chatroom_partners = app.chatroom_partners,
           typing'.at # "leaving", typing.at # "leaving",
           Reading' = Reading, InAMessage' = InAMessage
    PROVE  Quiet'
BY DEF Quiet

LEMMA SyncedKept ==
    ASSUME Synced, UNCHANGED <<app, told>>, Todo' = Todo, Torn => Torn'
    PROVE  Synced'
<1>1. told.alive /\ \E c, d \in Object : /\ Alike(c, app) /\ Leads(c, Todo, d) /\ Alike(d, told)
                                         /\ ~Torn => c = app /\ d = told
    BY DEF Synced
<1>2. \E c, d \in Object : /\ Alike(c, app') /\ Leads(c, Todo', d) /\ Alike(d, told')
                           /\ ~Torn' => c = app' /\ d = told'
    BY <1>1
<1>3. told'.alive
    BY <1>1
<1> QED
    BY <1>2, <1>3 DEF Synced

LEMMA ArmedKept ==
    ASSUME Armed, app'.isInSession = app.isInSession, told'.client_name = told.client_name,
           udp_sock' = udp_sock, Todo' = Todo,
           typing'.at = "room" => typing.at = "room" \/ udp_sock
    PROVE  Armed'
BY DEF Armed

LEMMA ExpectedKept ==
    ASSUME Expected, UNCHANGED <<server_sock, open, status>>, Coming' = Coming,
           told'.client_name = told.client_name,
           told'.chatroom_partners = told.chatroom_partners
    PROVE  Expected'
<1>1. ASSUME server_sock' \in open'
      PROVE  \E a, b \in Prospect :
                /\ a.name = told'.client_name
                /\ a.known \subseteq ToSet(told'.chatroom_partners)
                /\ Chain(Foretold(server_sock'), a, Coming', b)
                /\ Promise(server_sock', b, status'[server_sock'])
    BY <1>1 DEF Expected
<1> QED
    BY <1>1 DEF Expected

LEMMA MetKept ==
    ASSUME Met, residue' = FALSE => residue = FALSE, residue \in BOOLEAN,
           residue' \in BOOLEAN, met' = met, Todo' = Todo,
           app'.session_partner \in {app.session_partner, NULL},
           app'.chatroom_partners = app.chatroom_partners,
           ToSet(typing'.to) \subseteq
               ToSet(typing.to) \cup {app.session_partner} \cup ToSet(app.chatroom_partners)
    PROVE  Met'
BY DEF Met

LEMMA Empty == ToSet(<<>>) = {}
BY DEF ToSet

\* A step that none of this sees.
LEMMA OrderKept ==
    ASSUME ThreadsInv, Todo' = Todo, Reading' = Reading, InAMessage' = InAMessage,
           UNCHANGED <<app, connected, server_sock, udp_sock, typing, open, mail, status,
                       told, met, crossed, residue>>
    PROVE  Ordered'
<1>1. CASE ~crossed
  <2>1. Calm /\ Quiet /\ Synced /\ Armed /\ Expected /\ Met
      BY <1>1 DEF ThreadsInv, Ordered
  <2>2. Coming' = Coming
    <3>1. Here' = Here
        BY DEF Here
    <3> QED
        BY <3>1 DEF Coming
  <2>3. Calm' /\ Quiet'
      BY <2>1 DEF Calm, Quiet, Addressees
  <2>4. Synced'
      BY <2>1, SyncedKept DEF Torn
  <2>5. Armed'
      BY <2>1, ArmedKept
  <2>6. Expected'
      BY <2>1, <2>2, ExpectedKept
  <2>7. Met'
      BY <2>1, MetKept, TypedHas DEF ThreadsInv
  <2> QED
      BY <2>3, <2>4, <2>5, <2>6, <2>7 DEF Ordered
<1>2. CASE crossed
    BY <1>2 DEF Ordered
<1> QED
    BY <1>1, <1>2

\* With nothing left to assign, the object is what the messages amount to.
LEMMA Settled ==
    ASSUME Synced, ~Torn
    PROVE  Leads(app, Todo, told) /\ (Todo = <<>> => app = told)
<1>1. Leads(app, Todo, told)
    BY DEF Synced
<1>2. ASSUME Todo = <<>> PROVE app = told
    BY <1>1, <1>2, ChainNone DEF Leads
<1> QED
    BY <1>1, <1>2

\* Nothing to assign, and one object.
LEMMA SettledAgain ==
    ASSUME NEW c \in Object, app' = c, told' = c, c.alive, Todo' = <<>>
    PROVE  Synced'
<1>1. Leads(c, <<>>, c)
    BY ChainNone DEF Leads
<1>2. Alike(c, c)
    BY DEF Alike
<1>3. \E a, b \in Object : /\ Alike(a, app') /\ Leads(a, Todo', b) /\ Alike(b, told')
                           /\ ~Torn' => a = app' /\ b = told'
    BY <1>1, <1>2
<1> QED
    BY <1>3 DEF Synced

LEMMA OrderConnect ==
    ASSUME ThreadsInv, Connect
    PROVE  Ordered'
<1>1. /\ Sound' /\ Todo = <<>> /\ Todo' = <<>> /\ Reading' = <<>> /\ ~InAMessage'
      /\ ~connected /\ mail'[server_sock'] = <<>> /\ status'[server_sock'] = Nowhere
      /\ connected'
    BY SoundConnect DEF ThreadsInv
<1>2. /\ UNCHANGED <<app, udp_sock, typing, told, crossed, residue>>
      /\ met' = {} /\ ~crossed /\ typing = Prompt
    BY DEF Connect, AtPrompt, Followed
<1>3. Calm /\ Quiet /\ Synced /\ Armed /\ Expected /\ Met
    BY <1>2 DEF ThreadsInv, Ordered
<1>4. Prompt.at = "prompt" /\ Prompt.to = <<>>
    BY PromptType
<1>5. Calm' /\ Quiet'
    BY <1>1, <1>2, <1>4, CalmUnless DEF Quiet
<1>6. Synced'
    BY <1>1, <1>2, <1>3, SyncedKept DEF Torn
<1>7. Armed'
    BY <1>1, <1>2, <1>3, ArmedKept
<1>8. Expected'
  <2> DEFINE a == [name |-> told.client_name, known |-> {}]
  <2>1. a \in Prospect /\ a.name = told.client_name /\ a.known = {}
      BY TypedHas DEF ThreadsInv, Prospect, Object
  <2> HIDE DEF a
  <2>2. Coming' = <<>>
    <3>1. Coming' = <<>> \o <<>>
        BY <1>1 DEF Coming
    <3>2. <<>> \in Seq(Message)
        OBVIOUS
    <3> QED
        BY <3>1, <3>2, Before
  <2>3. Chain(Foretold(server_sock'), a, Coming', a)
      BY <2>2, ChainNone
  <2>4. Promise(server_sock', a, status'[server_sock'])
      BY <1>1, ServerTypes DEF Promise
  <2> QED
      BY <1>2, <2>1, <2>3, <2>4 DEF Expected
<1>9. Met'
  <2>1. ASSUME ~residue
        PROVE  app.session_partner = NULL /\ app.chatroom_partners = <<>>
      BY <1>1, <1>2, <1>3, <1>4, <2>1 DEF Quiet
  <2> QED
      BY <1>1, <1>2, <1>4, <2>1, Empty DEF Met
<1> QED
    BY <1>5, <1>6, <1>7, <1>8, <1>9 DEF Ordered

LEMMA OrderCloseBegins ==
    ASSUME ThreadsInv, CloseBegins
    PROVE  Ordered'
<1>1. /\ Sound' /\ Todo' = Todo /\ Reading' = Reading /\ InAMessage' = InAMessage
      /\ UNCHANGED <<app, connected, server_sock, udp_sock, receiver, open, mail,
                     status, told, met, crossed, residue>>
      /\ typing = Prompt
      /\ \/ typing' = Prompt
         \/ /\ typing'.at = "closing" /\ typing'.to = <<>> /\ typing'.calm = ~Midway
            /\ ~app.isInChatRoom
    BY SoundCloseBegins DEF ThreadsInv
<1>2. CASE typing' = Prompt
    BY <1>1, <1>2, OrderKept
<1>3. CASE /\ typing'.at = "closing" /\ typing'.to = <<>> /\ typing'.calm = ~Midway
           /\ ~app.isInChatRoom
  <2>1. SUFFICES ASSUME ~crossed PROVE Calm' /\ Quiet' /\ Synced' /\ Armed' /\ Expected' /\ Met'
      BY <1>1 DEF Ordered
  <2>2. Calm /\ Quiet /\ Synced /\ Armed /\ Expected /\ Met
      BY <2>1 DEF ThreadsInv, Ordered
  <2>3. Prompt.at = "prompt" /\ Prompt.to = <<>>
      BY PromptType
  <2>4. Calm'
    <3>1. Midway <=> Todo # <<>>
        BY Threads DEF ThreadsInv, Sound
    <3> QED
        BY <1>1, <1>3, <3>1 DEF Calm
  <2>5. Quiet'
      BY <1>1, <1>3, <2>2, <2>3, QuietKept
  <2>6. Synced'
      BY <1>1, <2>2, <2>3, SyncedKept DEF Torn
  <2>7. Armed'
      BY <1>1, <1>3, <2>2, ArmedKept
  <2>8. Expected'
    <3>1. Coming' = Coming
        BY <1>1 DEF Coming, Here
    <3> QED
        BY <1>1, <2>2, <3>1, ExpectedKept
  <2>9. Met'
      BY <1>1, <1>3, <2>2, Empty, MetKept, TypedHas DEF ThreadsInv
  <2> QED
      BY <2>4, <2>5, <2>6, <2>7, <2>8, <2>9
<1> QED
    BY <1>1, <1>2, <1>3

LEMMA OrderCloseEnds ==
    ASSUME ThreadsInv, CloseEnds
    PROVE  Ordered'
<1>1. /\ Sound' /\ Todo' = Todo /\ Reading' = Reading /\ InAMessage' = InAMessage
      /\ UNCHANGED <<connected, server_sock, udp_sock, receiver, open, mail,
                     status, met, residue>>
      /\ typing.at = "closing" /\ typing' = Prompt
      /\ app' = [app EXCEPT !.isInSession = FALSE] /\ told' = closeSession(told)
      /\ crossed' = (crossed \/ ~typing.calm)
    BY SoundCloseEnds DEF ThreadsInv
<1>2. SUFFICES ASSUME ~crossed, typing.calm
               PROVE  Calm' /\ Quiet' /\ Synced' /\ Armed' /\ Expected' /\ Met'
    BY <1>1 DEF Ordered
<1>3. Calm /\ Quiet /\ Synced /\ Armed /\ Expected /\ Met
    BY <1>2 DEF ThreadsInv, Ordered
<1>4. Prompt.at = "prompt" /\ Prompt.to = <<>>
    BY PromptType
<1>5. Todo = <<>> /\ ~app.isInChatRoom /\ app = told /\ told.alive
    BY <1>1, <1>2, <1>3, Settled DEF Calm, Torn, Synced
<1>6. app \in Object /\ residue \in BOOLEAN
    BY TypedHas DEF ThreadsInv
<1>7. /\ app'.session_partner = app.session_partner
      /\ app'.chatroom_partners = app.chatroom_partners
      /\ app'.isInSession = FALSE /\ app'.client_name = app.client_name
      /\ app'.alive = app.alive /\ app' \in Object
  <2>1. app' \in Object
      BY <1>1, <1>6, ObjectFlag
  <2> QED
      BY <1>1, <1>6, <2>1 DEF Object
<1>8. told' = app'
  <2>1. app.isInChatRoom = FALSE
      BY <1>5, <1>6 DEF Object
  <2> QED
      BY <1>1, <1>5, <2>1 DEF closeSession
<1>9. Calm'
    BY <1>1, <1>4, CalmUnless
<1>10. Quiet'
    BY <1>1, <1>3, <1>4, <1>7, QuietKept
<1>11. Synced'
    BY <1>1, <1>5, <1>7, <1>8, SettledAgain
<1>12. Armed'
    BY <1>1, <1>3, <1>4, <1>5, <1>7, <1>8 DEF Armed
<1>13. Expected'
  <2>1. Coming' = Coming
      BY <1>1 DEF Coming, Here
  <2> QED
      BY <1>1, <1>3, <1>5, <1>7, <1>8, <2>1, ExpectedKept
<1>14. Met'
    BY <1>1, <1>3, <1>4, <1>6, <1>7, Empty, MetKept
<1> QED
    BY <1>9, <1>10, <1>11, <1>12, <1>13, <1>14

\* Closing the connection leaves the partners of a room and the name.
LEMMA ResetIs ==
    ASSUME NEW c \in Object
    PROVE  /\ Reset(c) \in Object
           /\ Reset(c).session_partner = NULL /\ Reset(c).isInSession = FALSE
           /\ Reset(c).chatroom_partners = c.chatroom_partners
           /\ Reset(c).client_name = c.client_name /\ Reset(c).alive = c.alive
<1>1. NULL \in Nobody
    BY DEF Nobody
<1> QED
    BY <1>1 DEF Reset, Object

LEMMA NothingUnderWay ==
    ASSUME Sound, ~InAMessage
    PROVE  Todo = <<>> /\ Reading = <<>>
<1>1. Todo = <<>>
    BY Threads DEF Sound, Midway, InAMessage
<1>2. Reading = <<>>
    BY Threads DEF Sound, Reading
<1> QED
    BY <1>1, <1>2

LEMMA OrderDisconnectBegins ==
    ASSUME ThreadsInv, DisconnectBegins
    PROVE  Ordered'
<1>1. /\ Sound' /\ Todo' = Todo /\ Reading' = Reading /\ InAMessage' = InAMessage
      /\ UNCHANGED <<server_sock, udp_sock, receiver, open, mail, status, met, crossed>>
      /\ typing = Prompt /\ connected /\ ~connected'
      /\ app' = Reset(app) /\ told' = Reset(told)
      /\ residue' = (residue \/ app.chatroom_partners # <<>>)
      /\ typing'.at = "leaving" /\ typing'.to = <<>> /\ typing'.calm = ~InAMessage
    BY SoundDisconnectBegins DEF ThreadsInv
<1>2. SUFFICES ASSUME ~crossed
               PROVE  Calm' /\ Quiet' /\ Synced' /\ Armed' /\ Expected' /\ Met'
    BY <1>1 DEF Ordered
<1>3. Calm /\ Quiet /\ Synced /\ Armed /\ Expected /\ Met
    BY <1>2 DEF ThreadsInv, Ordered
<1>4. Prompt.at = "prompt" /\ Prompt.to = <<>>
    BY PromptType
<1>5. /\ app \in Object /\ told \in Object /\ residue \in BOOLEAN /\ residue' \in BOOLEAN
      /\ Sound
    BY <1>1, TypedHas DEF ThreadsInv
<1>6. /\ app' \in Object
      /\ app'.session_partner = NULL /\ app'.isInSession = FALSE
      /\ app'.chatroom_partners = app.chatroom_partners
    BY <1>1, <1>5, ResetIs
<1>7. /\ told' \in Object /\ told'.alive = told.alive
      /\ told'.client_name = told.client_name
      /\ told'.chatroom_partners = told.chatroom_partners
    BY <1>1, <1>5, ResetIs
<1>8. Leads(app, Todo, told) /\ (Todo = <<>> => app = told) /\ told.alive
    BY <1>1, <1>3, <1>4, Settled DEF Torn, Synced
<1>9. Calm'
    BY <1>1, <1>5, <1>6, NothingUnderWay DEF Calm
<1>10. Quiet'
    BY <1>1, <1>3 DEF Quiet
<1>11. Synced'
  <2>1. CASE InAMessage
    <3>1. Torn'
        BY <1>1, <2>1 DEF Torn
    <3>2. Alike(app, app') /\ Alike(told, told')
        BY <1>1, <1>5, ResetAlike DEF Alike
    <3>3. Alike(told, told') /\ told'.alive
        BY <1>7, <1>8, <3>2
    <3>4. \E c, d \in Object : /\ Alike(c, app') /\ Leads(c, Todo', d) /\ Alike(d, told')
                               /\ ~Torn' => c = app' /\ d = told'
        BY <1>1, <1>5, <1>8, <3>1, <3>2
    <3> QED
        BY <3>3, <3>4 DEF Synced
  <2>2. CASE ~InAMessage
    <3>1. Todo' = <<>> /\ app' = told'
        BY <1>1, <1>5, <1>8, <2>2, NothingUnderWay
    <3> QED
        BY <1>6, <1>7, <1>8, <3>1, SettledAgain
  <2> QED
      BY <2>1, <2>2
<1>12. Armed'
    BY <1>1, <1>3, <1>6, <1>7 DEF Armed
<1>13. Expected'
  <2>1. Coming' = Coming
      BY <1>1 DEF Coming, Here
  <2> QED
      BY <1>1, <1>3, <1>7, <2>1, ExpectedKept
<1>14. Met'
  <2>1. residue' = FALSE => residue = FALSE
      BY <1>1, <1>5
  <2> QED
      BY <1>1, <1>3, <1>5, <1>6, <2>1, Empty, MetKept
<1> QED
    BY <1>9, <1>10, <1>11, <1>12, <1>13, <1>14

LEMMA OrderDisconnectEnds ==
    ASSUME ThreadsInv, DisconnectEnds
    PROVE  Ordered'
<1>1. /\ Sound' /\ Todo' = Todo /\ Reading' = Reading /\ InAMessage' = InAMessage
      /\ UNCHANGED <<app, connected, server_sock, udp_sock, receiver, told, met, residue>>
      /\ typing.at = "leaving" /\ typing' = Prompt /\ ~connected /\ open' = {}
      /\ crossed' = (crossed \/ ~typing.calm \/ InAMessage)
    BY SoundDisconnectEnds DEF ThreadsInv
<1>2. SUFFICES ASSUME ~crossed, typing.calm, ~InAMessage
               PROVE  Calm' /\ Quiet' /\ Synced' /\ Armed' /\ Expected' /\ Met'
    BY <1>1 DEF Ordered
<1>3. Calm /\ Quiet /\ Synced /\ Armed /\ Expected /\ Met
    BY <1>2 DEF ThreadsInv, Ordered
<1>4. Prompt.at = "prompt" /\ Prompt.to = <<>>
    BY PromptType
<1>5. Todo = <<>> /\ Reading = <<>>
    BY <1>2, NothingUnderWay DEF ThreadsInv
<1>6. Calm'
    BY <1>1, <1>4, CalmUnless
<1>7. Quiet'
    BY <1>1, <1>2, <1>3, <1>5 DEF Quiet, Calm
<1>8. Synced'
    BY <1>1, <1>2, <1>3, SyncedKept DEF Torn
<1>9. Armed'
    BY <1>1, <1>3, <1>4, ArmedKept
<1>10. Expected'
    BY <1>1 DEF Expected
<1>11. Met'
    BY <1>1, <1>3, <1>4, Empty, MetKept, TypedHas DEF ThreadsInv
<1> QED
    BY <1>6, <1>7, <1>8, <1>9, <1>10, <1>11

\* A command that only moves on.
LEMMA OrderTyping ==
    ASSUME ThreadsInv, Sound', ~crossed,
           Todo' = Todo, Reading' = Reading, InAMessage' = InAMessage,
           UNCHANGED <<app, connected, server_sock, udp_sock, open, mail, status, told, met,
                       residue>>,
           typing.at # "leaving", typing'.at # "leaving", Calm',
           typing'.at = "room" => typing.at = "room" \/ udp_sock,
           ToSet(typing'.to) \subseteq
               ToSet(typing.to) \cup {app.session_partner} \cup ToSet(app.chatroom_partners)
    PROVE  Ordered'
<1>1. Calm /\ Quiet /\ Synced /\ Armed /\ Expected /\ Met
    BY DEF ThreadsInv, Ordered
<1>2. Quiet'
    BY <1>1, QuietKept
<1>3. Synced'
    BY <1>1, SyncedKept DEF Torn
<1>4. Armed'
    BY <1>1, ArmedKept
<1>5. Expected'
  <2>1. Coming' = Coming
      BY DEF Coming, Here
  <2> QED
      BY <1>1, <2>1, ExpectedKept
<1>6. Met'
    BY <1>1, MetKept, TypedHas DEF ThreadsInv
<1> QED
    BY <1>2, <1>3, <1>4, <1>5, <1>6 DEF Ordered

LEMMA OrderSayBegins ==
    ASSUME ThreadsInv, SayBegins
    PROVE  Ordered'
<1>1. /\ Sound' /\ Todo' = Todo /\ Reading' = Reading /\ InAMessage' = InAMessage
      /\ UNCHANGED <<app, connected, server_sock, udp_sock, receiver, open, mail, status,
                     told, met, crossed, residue>>
      /\ typing = Prompt /\ connected /\ app.isInSession
      /\ typing'.at = "saying" /\ typing'.to = <<>> /\ typing'.calm = ~Midway
    BY SoundSayBegins DEF ThreadsInv
<1>2. ~crossed /\ Prompt.at = "prompt"
    BY PromptType DEF SayBegins, AtPrompt, Followed
<1>3. Calm'
  <2>1. Midway <=> Todo # <<>>
      BY Threads DEF ThreadsInv, Sound
  <2> QED
      BY <1>1, <2>1 DEF Calm
<1> QED
    BY <1>1, <1>2, <1>3, Empty, OrderTyping

LEMMA OrderSayWhere ==
    ASSUME ThreadsInv, SayWhere
    PROVE  Ordered'
<1>1. /\ Sound' /\ Todo' = Todo /\ Reading' = Reading /\ InAMessage' = InAMessage
      /\ UNCHANGED <<connected, server_sock, udp_sock, receiver, open, mail, status,
                     told, met, crossed, residue>>
      /\ app.alive /\ typing.at = "saying" /\ typing'.calm = typing.calm
      /\ \/ ~app.isInSession /\ typing'.at = "said" /\ typing'.to = <<>> /\ app' = app
         \/ /\ app.isInSession /\ app.isInChatRoom /\ app' = app
            /\ typing'.at = "room" /\ typing'.next = 1 /\ typing'.to = typing.to
         \/ /\ app.isInSession /\ ~app.isInChatRoom
            /\ typing'.at = "said" /\ typing'.to = <<app.session_partner>>
            /\ app' = [app EXCEPT !.alive = udp_sock]
    BY SoundSayWhere DEF ThreadsInv
<1>2. SUFFICES ASSUME ~crossed PROVE Ordered'
    BY <1>1 DEF Ordered
<1>3. Calm /\ Quiet /\ Synced /\ Armed /\ Expected /\ Met
    BY <1>2 DEF ThreadsInv, Ordered
<1>4. app.isInSession => udp_sock
    BY <1>3 DEF Armed
<1>5. app' = app
    BY <1>1, <1>4, AliveSet DEF ThreadsInv
<1>6. typing.calm => Todo = <<>> /\ app.isInSession /\ typing.to = <<>>
    BY <1>1, <1>3 DEF Calm
<1>7. app.chatroom_partners \in Seq(Nobody) /\ Len(app.chatroom_partners) \in Nat
    BY TypedHas DEF ThreadsInv, Object
<1>8. CASE ~app.isInSession /\ typing'.at = "said" /\ typing'.to = <<>>
  <2>1. Calm'
      BY <1>1, <1>6, <1>8, CalmUnless
  <2> QED
      BY <1>1, <1>2, <1>5, <1>8, <2>1, Empty, OrderTyping
<1>9. CASE /\ app.isInSession /\ app.isInChatRoom
           /\ typing'.at = "room" /\ typing'.next = 1 /\ typing'.to = typing.to
  <2>1. SubSeq(app.chatroom_partners, 1, typing'.next - 1) = <<>>
      BY <1>7, <1>9
  <2>2. Calm'
    <3>1. typing'.next <= Len(app'.chatroom_partners) + 1
        BY <1>5, <1>7, <1>9
    <3>2. typing.calm => /\ typing'.to = SubSeq(app'.chatroom_partners, 1, typing'.next - 1)
                         /\ Todo' = <<>>
        BY <1>1, <1>5, <1>6, <1>9, <2>1
    <3> QED
        BY <1>1, <1>5, <1>9, <3>1, <3>2 DEF Calm
  <2> QED
      BY <1>1, <1>2, <1>4, <1>5, <1>9, <2>2, OrderTyping
<1>10. CASE /\ app.isInSession /\ ~app.isInChatRoom
            /\ typing'.at = "said" /\ typing'.to = <<app.session_partner>>
  <2>1. Calm'
      BY <1>1, <1>5, <1>6, <1>10 DEF Calm, Addressees
  <2>2. ToSet(typing'.to) = {app.session_partner}
      BY <1>10, FewElements
  <2> QED
      BY <1>1, <1>2, <1>5, <1>10, <2>1, <2>2, OrderTyping
<1> QED
    BY <1>1, <1>8, <1>9, <1>10

LEMMA OrderSayNext ==
    ASSUME ThreadsInv, SayNext
    PROVE  Ordered'
<1> DEFINE p == app.chatroom_partners
           n == typing.next
<1>1. /\ Sound' /\ Todo' = Todo /\ Reading' = Reading /\ InAMessage' = InAMessage
      /\ UNCHANGED <<connected, server_sock, udp_sock, receiver, open, mail, status,
                     told, met, crossed, residue>>
      /\ app.alive /\ typing.at = "room" /\ typing'.calm = typing.calm /\ n >= 1
      /\ \/ /\ n <= Len(p) /\ typing'.at = "room" /\ typing'.next = n + 1
            /\ p[n] \in Nobody /\ typing'.to = Append(typing.to, p[n])
            /\ app' = [app EXCEPT !.alive = udp_sock]
         \/ n > Len(p) /\ app' = app /\ typing'.at = "said" /\ typing'.to = typing.to
    BY SoundSayNext DEF ThreadsInv
<1>2. SUFFICES ASSUME ~crossed PROVE Ordered'
    BY <1>1 DEF Ordered
<1>3. Calm /\ Quiet /\ Synced /\ Armed /\ Expected /\ Met
    BY <1>2 DEF ThreadsInv, Ordered
<1>4. udp_sock
    BY <1>1, <1>3 DEF Armed
<1>5. app' = app
    BY <1>1, <1>4, AliveSet DEF ThreadsInv
<1>6. typing.calm => /\ Todo = <<>> /\ app.isInChatRoom
                     /\ n <= Len(p) + 1 /\ typing.to = SubSeq(p, 1, n - 1)
    BY <1>1, <1>3 DEF Calm
<1>7. p \in Seq(Nobody) /\ Len(p) \in Nat /\ n \in Nat /\ typing.to \in Seq(Nobody)
    BY TypedHas DEF ThreadsInv, Object, Command
<1>8. CASE /\ n <= Len(p) /\ typing'.at = "room" /\ typing'.next = n + 1
           /\ p[n] \in Nobody /\ typing'.to = Append(typing.to, p[n])
  <2>1. ASSUME typing.calm PROVE typing'.to = SubSeq(p, 1, n + 1 - 1)
    <3> DEFINE none == <<>>
    <3>1. n - 1 \in 0..(Len(p) - 1) /\ n - 1 + 1 = n /\ n + 1 - 1 = n
        BY <1>1, <1>7, <1>8
    <3>2. none \in Seq(Nobody)
        OBVIOUS
    <3>3. SubSeq(p, 1, n - 1) \in Seq(Nobody) /\ SubSeq(p, 1, n) \in Seq(Nobody)
        BY <1>1, <1>7, <1>8
    <3>4. /\ none \o SubSeq(p, 1, n - 1) = SubSeq(p, 1, n - 1)
          /\ none \o SubSeq(p, 1, n) = SubSeq(p, 1, n)
        BY <3>3, Before
    <3> HIDE DEF none
    <3>5. Append(none \o SubSeq(p, 1, n - 1), p[n]) = none \o SubSeq(p, 1, n)
      <4> DEFINE j == n - 1
      <4>1. j \in 0..(Len(p) - 1) /\ j + 1 = n /\ p[n] = p[j + 1]
          BY <3>1
      <4> HIDE DEF j, p, n
      <4>2. Append(none \o SubSeq(p, 1, j), p[n]) = none \o SubSeq(p, 1, j + 1)
          BY <1>7, <3>2, <4>1, SubSeqGrowsBy
      <4> QED
          BY <4>1, <4>2 DEF j
    <3> QED
        BY <1>6, <1>8, <2>1, <3>1, <3>4, <3>5
  <2>2. Calm'
      BY <1>1, <1>5, <1>6, <1>7, <1>8, <2>1, SMTT(60) DEF Calm
  <2>3. ToSet(typing'.to) \subseteq ToSet(typing.to) \cup ToSet(p)
    <3>1. ToSet(Append(typing.to, p[n])) = ToSet(typing.to) \cup {p[n]}
        BY <1>7, <1>8, MoreElements
    <3>2. p[n] \in ToSet(p)
      <4>1. n \in 1..Len(p)
          BY <1>1, <1>7, <1>8
      <4> QED
          BY <1>7, <4>1, Elements
    <3> QED
        BY <1>8, <3>1, <3>2
  <2> QED
      BY <1>1, <1>2, <1>5, <1>8, <2>2, <2>3, OrderTyping
<1>9. CASE n > Len(p) /\ typing'.at = "said" /\ typing'.to = typing.to
  <2>1. ASSUME typing.calm PROVE typing'.to = p
    <3>1. n - 1 = Len(p)
        BY <1>6, <1>7, <1>9, <2>1
    <3>2. SubSeq(p, 1, Len(p)) = p
      <4>1. p = SubSeq(p, 1, Len(p))
          BY <1>7
      <4> QED
          BY <4>1
    <3> QED
        BY <1>6, <1>9, <2>1, <3>1, <3>2
  <2>2. Calm'
      BY <1>1, <1>5, <1>6, <1>9, <2>1 DEF Calm, Addressees
  <2> QED
      BY <1>1, <1>2, <1>5, <1>9, <2>2, OrderTyping
<1> QED
    BY <1>1, <1>8, <1>9

LEMMA OrderSayEnds ==
    ASSUME ThreadsInv, SayEnds
    PROVE  Ordered'
<1>1. /\ Sound' /\ Todo' = Todo /\ Reading' = Reading /\ InAMessage' = InAMessage
      /\ UNCHANGED <<app, connected, server_sock, udp_sock, receiver, open, mail, status,
                     told, met, crossed, residue>>
      /\ typing.at = "said" /\ typing' = Prompt
    BY SoundSayEnds DEF ThreadsInv
<1>2. Prompt.at = "prompt" /\ Prompt.to = <<>>
    BY PromptType
<1>3. CASE crossed
    BY <1>1, <1>3 DEF Ordered
<1>4. CASE ~crossed
    BY <1>1, <1>2, <1>4, Empty, CalmUnless, OrderTyping
<1> QED
    BY <1>3, <1>4

\* While the thread is at work, no command is calm.
LEMMA CalmDisturbed ==
    ASSUME Sound, typing' = Disturbed
    PROVE  /\ Calm' /\ (Torn' <=> typing.at = "leaving") /\ (Torn => Torn')
           /\ typing'.at = typing.at /\ typing'.to = typing.to
<1>1. /\ Disturbed.at = typing.at /\ Disturbed.calm = (typing = Prompt)
      /\ Disturbed.to = typing.to
    BY DisturbedType
<1>2. Prompt.at = "prompt"
    BY PromptType
<1>3. Calm'
  <2>1. ~typing'.calm \/ typing'.at = "prompt"
      BY <1>1, <1>2
  <2> QED
      BY <2>1, CalmUnless
<1> QED
    BY <1>1, <1>2, <1>3 DEF Torn

LEMMA OrderHears ==
    ASSUME ThreadsInv, Sound', NEW msg, Hears(msg)
    PROVE  Ordered'
<1>1. /\ msg \in Message /\ Coming \in Seq(Message) /\ Coming # <<>>
      /\ msg = Head(Coming) /\ Coming' = Tail(Coming) /\ Reading' = <<>>
      /\ Todo = <<>> /\ Todo' = Writes(app, msg)
      /\ told' = Heard(told, msg)
      /\ met' = met \cup (ToSet(msg.names) \cap Peer)
      /\ typing' = Disturbed
      /\ server_sock \in open
      /\ UNCHANGED <<app, connected, server_sock, udp_sock, open, status, crossed, residue>>
    BY DEF Hears, Taken
<1>2. SUFFICES ASSUME ~crossed
               PROVE  Calm' /\ Quiet' /\ Synced' /\ Armed' /\ Expected' /\ Met'
    BY <1>1 DEF Ordered
<1>3. Calm /\ Quiet /\ Synced /\ Armed /\ Expected /\ Met
    BY <1>2 DEF ThreadsInv, Ordered
<1>4. app \in Object /\ told \in Object /\ server_sock \in Conn
    BY <1>1, TypedHas DEF ThreadsInv, Sound, Typed
<1>5. /\ Calm' /\ (Torn' <=> typing.at = "leaving") /\ (Torn => Torn')
      /\ typing'.at = typing.at /\ typing'.to = typing.to
    BY <1>1, CalmDisturbed DEF ThreadsInv
<1>6. PICK a, b \in Prospect :
            /\ a.name = told.client_name /\ a.known \subseteq ToSet(told.chatroom_partners)
            /\ Chain(Foretold(server_sock), a, Coming, b)
            /\ Promise(server_sock, b, status[server_sock])
    BY <1>1, <1>3 DEF Expected
<1>7. PICK e : /\ <<a, msg, e>> \in Foretold(server_sock)
               /\ Chain(Foretold(server_sock), e, Coming', b)
    BY <1>1, <1>6, ChainFirst
<1>8. /\ told'.alive = told.alive /\ e.name = told'.client_name
      /\ e.known \subseteq ToSet(told'.chatroom_partners)
      /\ msg.cmd \in Opening => told.client_name # NULL
      /\ told'.client_name = told.client_name \/ msg.cmd = "CONFIRM_USER"
    BY <1>1, <1>4, <1>6, <1>7, HeardForetold
<1>9. e \in Prospect
  <2> DEFINE t == <<a, msg, e>>
  <2>1. t \in Prospect \X Message \X Prospect
      BY <1>7 DEF Foretold
  <2> QED
      BY <2>1
<1>10. /\ Todo' \in Seq(Assignment)
       /\ Set("isInSession", TRUE) \in ToSet(Todo') => msg.cmd \in Opening
       /\ \A w \in ToSet(Todo') : Naming(w, (ToSet(msg.names) \cap Peer) \cup {NULL})
       /\ msg.cmd = "CONFIRM_USER" => \E w \in ToSet(Todo') : w.member = "udp_sock"
    BY <1>1, <1>4, WritesType
<1>11. Quiet'
  <2>1. ~connected => typing.at = "leaving"
      BY <1>1 DEF ThreadsInv, Sound, Linked
  <2> QED
      BY <1>1, <1>5, <2>1 DEF Quiet
<1>12. Synced'
  <2>1. PICK c, d \in Object : /\ Alike(c, app) /\ Leads(c, Todo, d) /\ Alike(d, told)
                               /\ ~Torn => c = app /\ d = told
      BY <1>3 DEF Synced
  <2>2. c = d
      BY <1>1, <2>1, ChainNone DEF Leads
  <2>3. Alike(app, told) /\ (~Torn => app = told)
      BY <2>1, <2>2 DEF Alike
  <2>4. Leads(app, Todo', Heard(app, msg)) /\ Heard(app, msg) \in Object
      BY <1>1, <1>4, WritesLead, HeardType
  <2>5. Alike(Heard(app, msg), told')
      BY <1>1, <1>4, <2>3, HeardAlike
  <2>6. Alike(app, app')
      BY <1>1 DEF Alike
  <2>7. ~Torn' => app = app' /\ Heard(app, msg) = told'
      BY <1>1, <1>5, <2>3
  <2>8. \E f, g \in Object : /\ Alike(f, app') /\ Leads(f, Todo', g) /\ Alike(g, told')
                             /\ ~Torn' => f = app' /\ g = told'
      BY <1>4, <2>4, <2>5, <2>6, <2>7
  <2>9. told'.alive
      BY <1>3, <1>8 DEF Synced
  <2> QED
      BY <2>8, <2>9 DEF Synced
<1>13. Armed'
  <2>1. told.client_name # NULL => udp_sock
      BY <1>1, <1>3, Empty DEF Armed
  <2>2. Set("isInSession", TRUE) \in ToSet(Todo') => udp_sock'
      BY <1>1, <1>8, <1>10, <2>1
  <2>3. told'.client_name # NULL => udp_sock' \/ \E w \in ToSet(Todo') : w.member = "udp_sock"
      BY <1>1, <1>8, <1>10, <2>1
  <2>4. /\ app'.isInSession => udp_sock'
        /\ typing'.at = "room" => udp_sock'
      BY <1>1, <1>3, <1>5 DEF Armed
  <2> QED
      BY <2>2, <2>3, <2>4 DEF Armed
<1>14. Expected'
    BY <1>1, <1>6, <1>7, <1>8, <1>9 DEF Expected
<1>15. Met'
  <2>1. ASSUME NEW w \in ToSet(Todo') PROVE Naming(w, met' \cup {NULL})
      BY <1>1, <1>10 DEF Naming
  <2> QED
      BY <1>1, <1>3, <1>5, <2>1 DEF Met
<1> QED
    BY <1>5, <1>11, <1>12, <1>13, <1>14, <1>15

LEMMA OrderReadCommand ==
    ASSUME ThreadsInv, NEW k \in Conn, ReadCommand(k)
    PROVE  Sound' /\ Ordered'
<1>1. /\ Sound'
      /\ \/ /\ Todo' = Todo /\ Coming' = Coming /\ server_sock \in open
            /\ UNCHANGED <<app, connected, server_sock, udp_sock, typing, open, status,
                           told, met, crossed, residue>>
         \/ \E msg \in Message : Hears(msg)
    BY SoundReadCommand DEF ThreadsInv
<1>2. CASE \E msg \in Message : Hears(msg)
    BY <1>1, <1>2, OrderHears
<1>3. CASE /\ Todo' = Todo /\ Coming' = Coming /\ server_sock \in open
           /\ UNCHANGED <<app, connected, server_sock, udp_sock, typing, open, status,
                          told, met, crossed, residue>>
  <2>1. SUFFICES ASSUME ~crossed
                 PROVE  Calm' /\ Quiet' /\ Synced' /\ Armed' /\ Expected' /\ Met'
      BY <1>1, <1>3 DEF Ordered
  <2>2. Calm /\ Quiet /\ Synced /\ Armed /\ Expected /\ Met
      BY <2>1 DEF ThreadsInv, Ordered
  <2>3. Calm'
      BY <1>3, <2>2, CalmKept
  <2>4. Quiet'
    <3>1. ~connected => typing.at = "leaving"
        BY <1>3 DEF ThreadsInv, Sound, Linked
    <3> QED
        BY <1>3, <3>1 DEF Quiet
  <2>5. Synced'
      BY <1>3, <2>2, SyncedKept DEF Torn
  <2>6. Armed'
      BY <1>3, <2>2, ArmedKept
  <2>7. Expected'
      BY <1>3, <2>2, ExpectedKept
  <2>8. Met'
      BY <1>3, <2>2, MetKept, TypedHas DEF ThreadsInv
  <2> QED
      BY <2>3, <2>4, <2>5, <2>6, <2>7, <2>8
<1> QED
    BY <1>1, <1>2, <1>3

LEMMA OrderReadStrings ==
    ASSUME ThreadsInv, NEW k \in Conn, ReadStrings(k)
    PROVE  Sound' /\ Ordered'
<1>1. /\ Sound' /\ Reading # <<>>
      /\ server_sock \in open => \E msg \in Message : Hears(msg)
      /\ crossed' = crossed
    BY SoundReadStrings DEF ThreadsInv
<1>2. CASE crossed
    BY <1>1, <1>2 DEF Ordered
<1>3. CASE ~crossed
  <2>1. server_sock \in open
      BY <1>1, <1>3 DEF ThreadsInv, Ordered, Quiet
  <2> QED
      BY <1>1, <2>1, OrderHears
<1> QED
    BY <1>2, <1>3

\* An assignment that ends the connection is Reset.
LEMMA ClosedIs ==
    ASSUME NEW c \in Object, NEW w \in Assignment, w.member = "closed"
    PROVE  Written(c, w) = Reset(c)
<1>1. PICK v : w = Set(w.member, v)
    BY AssignmentKinds
<1>2. w = Set("closed", v)
    BY <1>1
<1> QED
    BY <1>2, WrittenClosed

LEMMA OrderAssign ==
    ASSUME ThreadsInv, NEW k \in Conn, Assign(k)
    PROVE  Sound' /\ Ordered'
<1> DEFINE w == Head(Todo)
<1>1. /\ Sound' /\ InAMessage
      /\ Todo # <<>> /\ Todo \in Seq(Assignment) /\ w \in Assignment
      /\ Todo' = Tail(Todo) /\ Reading' = <<>>
      /\ typing' = Disturbed /\ UNCHANGED <<server_sock, told, crossed>>
      /\ \/ /\ w.member = "closed" /\ Todo' = <<>>
            /\ app' = Reset(app) /\ ~connected' /\ open' = {} /\ ~InAMessage'
            /\ residue' = (residue \/ app.chatroom_partners # <<>>)
            /\ UNCHANGED <<udp_sock, met>>
         \/ /\ w.member # "closed"
            /\ app' = Written(app, w)
            /\ udp_sock' = (udp_sock \/ w.member = "udp_sock")
            /\ Coming' = Coming
            /\ UNCHANGED <<connected, open, status, met, residue>>
    BY SoundAssign DEF ThreadsInv
<1>2. SUFFICES ASSUME ~crossed
               PROVE  Calm' /\ Quiet' /\ Synced' /\ Armed' /\ Expected' /\ Met'
    BY <1>1 DEF Ordered
<1>3. Calm /\ Quiet /\ Synced /\ Armed /\ Expected /\ Met
    BY <1>2 DEF ThreadsInv, Ordered
<1>4. /\ app \in Object /\ residue \in BOOLEAN /\ residue' \in BOOLEAN
      /\ udp_sock \in BOOLEAN
    BY <1>1, TypedHas DEF ThreadsInv
<1>5. /\ Calm' /\ (Torn' <=> typing.at = "leaving") /\ (Torn => Torn')
      /\ typing'.at = typing.at /\ typing'.to = typing.to
    BY <1>1, CalmDisturbed DEF ThreadsInv
<1>6. /\ w \in ToSet(Todo) /\ Tail(Todo) \in Seq(Assignment)
      /\ ToSet(Todo') \subseteq ToSet(Todo) /\ ToSet(Todo) \subseteq {w} \cup ToSet(Todo')
    BY <1>1, HeadAndTail
<1> HIDE DEF w
<1>7. app' = Written(app, w)
    BY <1>1, <1>4, ClosedIs
<1>8. Synced'
  <2>1. PICK c, d \in Object : /\ Alike(c, app) /\ Leads(c, Todo, d) /\ Alike(d, told)
                               /\ ~Torn => c = app /\ d = told
      BY <1>3 DEF Synced
  <2>2. PICK e : <<c, w, e>> \in Progress /\ Chain(Progress, e, Todo', d)
      BY <1>1, <2>1, ChainFirst DEF Leads, w
  <2>3. e = Written(c, w) /\ e \in Object
    <3> DEFINE t == <<c, w, e>>
    <3>1. t[1] = c /\ t[2] = w /\ t[3] = e
        OBVIOUS
    <3> HIDE DEF t
    <3>2. t[3] = Written(t[1], t[2]) /\ t \in Object \X Assignment \X Object
        BY <2>2 DEF Progress, t
    <3>3. t[3] \in Object
        BY <3>2
    <3> QED
        BY <3>1, <3>2, <3>3
  <2>4. Alike(e, app')
      BY <1>1, <1>4, <1>7, <2>1, <2>3, WrittenAlike
  <2>5. Alike(d, told') /\ told'.alive
      BY <1>1, <1>3, <2>1 DEF Synced
  <2>6. ~Torn' => e = app' /\ d = told'
      BY <1>1, <1>5, <1>7, <2>1, <2>3
  <2>7. Leads(e, Todo', d)
      BY <2>2 DEF Leads
  <2>8. \E f, g \in Object : /\ Alike(f, app') /\ Leads(f, Todo', g) /\ Alike(g, told')
                             /\ ~Torn' => f = app' /\ g = told'
      BY <2>1, <2>3, <2>4, <2>5, <2>6, <2>7
  <2> QED
      BY <2>5, <2>8 DEF Synced
<1>9. CASE /\ w.member = "closed" /\ Todo' = <<>>
           /\ app' = Reset(app) /\ ~connected' /\ open' = {} /\ ~InAMessage'
           /\ residue' = (residue \/ app.chatroom_partners # <<>>)
           /\ UNCHANGED <<udp_sock, met>>
  <2>1. /\ app'.session_partner = NULL /\ app'.isInSession = FALSE
        /\ app'.chatroom_partners = app.chatroom_partners
      BY <1>4, <1>9, ResetIs
  <2>2. Quiet'
      BY <1>1, <1>4, <1>9, <2>1 DEF Quiet
  <2>3. Armed'
    <3>1. told.client_name # NULL => udp_sock
        BY <1>3, <1>6, <1>9, Empty DEF Armed
    <3> QED
        BY <1>1, <1>3, <1>5, <1>9, <2>1, <3>1, Empty DEF Armed
  <2>4. Expected'
      BY <1>9 DEF Expected
  <2>5. Met'
    <3>1. ~residue' => ~residue
        BY <1>4, <1>9
    <3> QED
        BY <1>3, <1>5, <1>9, <2>1, <3>1, Empty DEF Met
  <2> QED
      BY <1>5, <1>8, <2>2, <2>3, <2>4, <2>5
<1>10. CASE /\ w.member # "closed"
            /\ udp_sock' = (udp_sock \/ w.member = "udp_sock")
            /\ Coming' = Coming
            /\ UNCHANGED <<connected, open, status, met, residue>>
  <2>1. /\ app'.isInSession => app.isInSession \/ w = Set("isInSession", TRUE)
        /\ \/ app'.session_partner \in {app.session_partner, NULL}
           \/ w.member = "session_partner" /\ app'.session_partner = w.value
        /\ \A x \in ToSet(app'.chatroom_partners) :
              \/ x \in ToSet(app.chatroom_partners)
              \/ w.member = "joined" /\ x = w.value
      BY <1>1, <1>4, <1>7, WrittenBrings
  <2>2. Quiet'
    <3>1. ~connected => typing.at = "leaving"
        BY <1>1, <1>3 DEF Quiet
    <3> QED
        BY <1>1, <1>5, <1>10, <3>1 DEF Quiet
  <2>3. Armed'
    <3>1. udp_sock => udp_sock'
        BY <1>10
    <3>2. Set("isInSession", TRUE) \in ToSet(Todo) => udp_sock'
        BY <1>3, <3>1 DEF Armed
    <3>3. app'.isInSession => udp_sock'
        BY <1>3, <1>6, <2>1, <3>1, <3>2 DEF Armed
    <3>4. ASSUME told'.client_name # NULL
          PROVE  udp_sock' \/ \E u \in ToSet(Todo') : u.member = "udp_sock"
      <4>1. udp_sock \/ \E u \in ToSet(Todo) : u.member = "udp_sock"
          BY <1>1, <1>3, <3>4 DEF Armed
      <4> QED
          BY <1>6, <1>10, <4>1
    <3>5. typing'.at = "room" => udp_sock'
        BY <1>3, <1>5, <3>1 DEF Armed
    <3> QED
        BY <1>6, <3>2, <3>3, <3>4, <3>5 DEF Armed
  <2>4. Expected'
      BY <1>1, <1>3, <1>10, ExpectedKept
  <2>5. Met'
    <3>1. SUFFICES ASSUME ~residue
                   PROVE  /\ app'.session_partner \in met \cup {NULL}
                          /\ ToSet(app'.chatroom_partners) \subseteq met \cup {NULL}
                          /\ ToSet(typing'.to) \subseteq met \cup {NULL}
                          /\ \A u \in ToSet(Todo') : Naming(u, met \cup {NULL})
        BY <1>10 DEF Met
    <3>2. /\ app.session_partner \in met \cup {NULL}
          /\ ToSet(app.chatroom_partners) \subseteq met \cup {NULL}
          /\ ToSet(typing.to) \subseteq met \cup {NULL}
          /\ \A u \in ToSet(Todo) : Naming(u, met \cup {NULL})
        BY <1>3, <3>1 DEF Met
    <3>3. w.member \in {"session_partner", "joined"} => w.value \in met \cup {NULL}
        BY <1>6, <3>2 DEF Naming
    <3> QED
        BY <1>5, <1>6, <2>1, <3>2, <3>3
  <2> QED
      BY <1>5, <1>8, <2>2, <2>3, <2>4, <2>5
<1> QED
    BY <1>1, <1>9, <1>10

LEMMA OrderServer ==
    ASSUME ThreadsInv, NEW k \in Conn, Server(k)
    PROVE  Sound' /\ Ordered'
<1>1. /\ Sound' /\ Todo' = Todo /\ Reading' = Reading /\ InAMessage' = InAMessage
      /\ UNCHANGED <<app, connected, server_sock, udp_sock, typing, open, told, met, crossed,
                     residue>>
      /\ server_sock \in open /\ Here /\ Informed
    BY ServerServes DEF ThreadsInv, Served
<1>2. SUFFICES ASSUME ~crossed
               PROVE  Calm' /\ Quiet' /\ Synced' /\ Armed' /\ Expected' /\ Met'
    BY <1>1 DEF Ordered
<1>3. Calm /\ Quiet /\ Synced /\ Armed /\ Expected /\ Met
    BY <1>2 DEF ThreadsInv, Ordered
<1>4. Calm' /\ Quiet'
    BY <1>1, <1>3, CalmKept DEF Quiet
<1>5. Synced'
    BY <1>1, <1>3, SyncedKept DEF Torn
<1>6. Armed'
    BY <1>1, <1>3, ArmedKept
<1>7. Expected'
  <2>1. PICK a, b \in Prospect :
            /\ a.name = told.client_name /\ a.known \subseteq ToSet(told.chatroom_partners)
            /\ Chain(Foretold(server_sock), a, Coming, b)
            /\ Promise(server_sock, b, status[server_sock])
      BY <1>1, <1>3 DEF Expected
  <2>2. CASE \E msg \in Message : /\ Coming' = Append(Coming, msg)
                                  /\ Agreed(server_sock, status[server_sock], msg,
                                            status'[server_sock])
    <3>1. PICK msg \in Message : /\ Coming' = Append(Coming, msg)
                                 /\ Agreed(server_sock, status[server_sock], msg,
                                           status'[server_sock])
        BY <2>2
    <3>2. PICK e \in Prospect : /\ <<b, msg, e>> \in Foretold(server_sock)
                                /\ Promise(server_sock, e, status'[server_sock])
        BY <2>1, <3>1 DEF Agreed
    <3>3. Chain(Foretold(server_sock), a, Coming', e)
        BY <2>1, <3>1, <3>2, ChainAppend, ComingType DEF ThreadsInv
    <3> QED
        BY <1>1, <2>1, <3>2, <3>3 DEF Expected
  <2>3. CASE /\ Coming' = Coming
             /\ \A c : Promise(server_sock, c, status[server_sock])
                          => Promise(server_sock, c, status'[server_sock])
    <3>1. Promise(server_sock, b, status'[server_sock])
        BY <2>1, <2>3
    <3> QED
        BY <1>1, <2>1, <2>3, <3>1 DEF Expected
  <2> QED
      BY <1>1, <2>2, <2>3 DEF Informed
<1>8. Met'
    BY <1>1, <1>3, MetKept, TypedHas DEF ThreadsInv
<1> QED
    BY <1>4, <1>5, <1>6, <1>7, <1>8

-------------------------------------------------------------------------------
(* The invariant. *)

LEMMA InitThreads == Init => ThreadsInv
<1> SUFFICES ASSUME Init PROVE ThreadsInv
    OBVIOUS
<1>1. /\ app = NewClient /\ connected = FALSE /\ server_sock = 0 /\ udp_sock = FALSE
      /\ receiver = [k \in Conn |-> Idle]
      /\ typing = Prompt
      /\ open = {}
      /\ asked = [k \in Conn |-> NULL]
      /\ mail = [k \in Conn |-> <<>>]
      /\ status = [k \in Conn |-> Nowhere]
      /\ told = NewClient /\ met = {}
      /\ crossed = FALSE /\ residue = FALSE
    BY DEF Init
<1>2. /\ NewClient \in Object /\ NewClient.alive /\ NewClient.isInSession = FALSE
      /\ NewClient.client_name = NULL
      /\ NewClient.session_partner = NULL /\ NewClient.chatroom_partners = <<>>
  <2>1. NULL \in Nobody /\ <<>> \in Seq(Nobody)
      BY DEF Nobody
  <2>2. LoggedIn(NULL) \in Object /\ LoggedIn(NULL).alive = TRUE
        /\ LoggedIn(NULL).isInSession = FALSE /\ LoggedIn(NULL).session_partner = NULL
        /\ LoggedIn(NULL).chatroom_partners = <<>>
      BY <2>1 DEF LoggedIn, Object
  <2> QED
      BY <2>2 DEF NewClient, Object
<1>3. /\ Prompt \in Command /\ Prompt.at = "prompt" /\ Prompt.to = <<>>
      /\ Idle \in Thread /\ Idle.at = "not started" /\ Idle.todo = <<>>
    BY PromptType
<1>4. 0 \notin Conn /\ 0 \in 0..MaxConn /\ MaxMail >= 0 /\ \A k \in Conn : k > 0
    BY Numbers DEF Conn
<1>5. ~Here /\ Todo = <<>> /\ Reading = <<>>
    BY <1>1, <1>4 DEF Here, Todo, Reading
<1>6. ~InAMessage
    BY <1>1, <1>3 DEF InAMessage
<1>7. Nowhere \in State
    BY DEF Nowhere, Status, State, Nobody
<1>8. mail \in [Conn -> Seq(Message)] /\ \A k \in Conn : mail[k] = <<>> /\ Len(mail[k]) <= MaxMail
  <2>1. <<>> \in Seq(Message) /\ Len(<<>>) = 0
      OBVIOUS
  <2> QED
      BY <1>1, <1>4, <2>1
<1>9. Typed
    BY <1>1, <1>2, <1>3, <1>4, <1>7, <1>8 DEF Typed
<1>10. OneReceiver
  <2>1. \A k \in Conn : ~(k < server_sock)
      BY <1>1, Numbers DEF Conn
  <2> QED
      BY <1>1, <1>5, <1>8, <2>1 DEF OneReceiver
<1>11. Linked
    BY <1>1, <1>3 DEF Linked
<1>12. Sound
    BY <1>9, <1>10, <1>11 DEF Sound
<1>13. Calm
    BY <1>1, <1>3 DEF Calm
<1>14. Quiet
    BY <1>1, <1>2, <1>5, <1>6 DEF Quiet
<1>15. Synced
  <2>1. Leads(NewClient, <<>>, NewClient) /\ Alike(NewClient, NewClient)
      BY ChainNone DEF Leads, Alike
  <2> QED
      BY <1>1, <1>2, <1>5, <2>1 DEF Synced
<1>16. Armed
    BY <1>1, <1>2, <1>3, <1>5, Empty DEF Armed
<1>17. Expected
    BY <1>1 DEF Expected
<1>18. Met
    BY <1>1, <1>2, <1>3, <1>5, Empty DEF Met
<1> QED
    BY <1>12, <1>13, <1>14, <1>15, <1>16, <1>17, <1>18 DEF ThreadsInv, Ordered

LEMMA CommandStep ==
    ASSUME ThreadsInv, CommandLine
    PROVE  ThreadsInv'
<1>0. Sound
    BY DEF ThreadsInv
<1>1. CASE Connect
    BY <1>0, <1>1, SoundConnect, OrderConnect DEF ThreadsInv
<1>2. CASE LogIn
  <2>1. /\ Sound' /\ Todo' = Todo /\ Reading' = Reading /\ InAMessage' = InAMessage
        /\ UNCHANGED <<app, connected, server_sock, udp_sock, receiver, typing, open, mail,
                       status, told, met, crossed, residue>>
      BY <1>0, <1>2, SoundLogIn
  <2> QED
      BY <2>1, OrderKept DEF ThreadsInv
<1>3. ASSUME NEW cmd, NEW peer, [cmd |-> cmd, peer |-> peer] \in Asked, Open(cmd, peer)
      PROVE  ThreadsInv'
  <2>1. /\ Sound' /\ Todo' = Todo /\ Reading' = Reading /\ InAMessage' = InAMessage
        /\ UNCHANGED <<app, connected, server_sock, udp_sock, receiver, typing, open, mail,
                       status, told, met, crossed, residue>>
      BY <1>0, <1>3, SoundOpen
  <2> QED
      BY <2>1, OrderKept DEF ThreadsInv
<1>4. CASE \E peer \in Caller : Open("OPEN_SESSION_WITH_USER", peer)
    BY <1>3, <1>4, Requests
<1>5. CASE Open("OPEN_CHATROOM", NULL)
    BY <1>3, <1>5, Requests
<1>6. CASE DisconnectBegins
    BY <1>0, <1>6, SoundDisconnectBegins, OrderDisconnectBegins DEF ThreadsInv
<1>7. CASE DisconnectEnds
    BY <1>0, <1>7, SoundDisconnectEnds, OrderDisconnectEnds DEF ThreadsInv
<1>8. CASE CloseBegins
    BY <1>0, <1>8, SoundCloseBegins, OrderCloseBegins DEF ThreadsInv
<1>9. CASE CloseEnds
    BY <1>0, <1>9, SoundCloseEnds, OrderCloseEnds DEF ThreadsInv
<1>10. CASE SayBegins
    BY <1>0, <1>10, SoundSayBegins, OrderSayBegins DEF ThreadsInv
<1>11. CASE SayWhere
    BY <1>0, <1>11, SoundSayWhere, OrderSayWhere DEF ThreadsInv
<1>12. CASE SayNext
    BY <1>0, <1>12, SoundSayNext, OrderSayNext DEF ThreadsInv
<1>13. CASE SayEnds
    BY <1>0, <1>13, SoundSayEnds, OrderSayEnds DEF ThreadsInv
<1> QED
    BY <1>1, <1>2, <1>4, <1>5, <1>6, <1>7, <1>8, <1>9, <1>10, <1>11, <1>12, <1>13
    DEF CommandLine

LEMMA ReceiverStep ==
    ASSUME ThreadsInv, NEW k \in Conn, Receiver(k)
    PROVE  ThreadsInv'
<1>1. CASE TestFlag(k)
  <2>1. /\ Sound' /\ Todo' = Todo /\ Reading' = Reading /\ InAMessage' = InAMessage
        /\ UNCHANGED <<app, connected, server_sock, udp_sock, typing, open, mail, status,
                       told, met, crossed, residue>>
      BY <1>1, SoundTestFlag DEF ThreadsInv
  <2> QED
      BY <2>1, OrderKept DEF ThreadsInv
<1>2. CASE EndOfFile(k)
  <2>1. /\ Sound' /\ Todo' = Todo /\ Reading' = Reading /\ InAMessage' = InAMessage
        /\ UNCHANGED <<app, connected, server_sock, udp_sock, typing, open, mail, status,
                       told, met, crossed, residue>>
      BY <1>2, SoundEndOfFile DEF ThreadsInv
  <2> QED
      BY <2>1, OrderKept DEF ThreadsInv
<1>3. CASE ReadCommand(k)
    BY <1>3, OrderReadCommand DEF ThreadsInv
<1>4. CASE ReadStrings(k)
    BY <1>4, OrderReadStrings DEF ThreadsInv
<1>5. CASE Assign(k)
    BY <1>5, OrderAssign DEF ThreadsInv
<1> QED
    BY <1>1, <1>2, <1>3, <1>4, <1>5 DEF Receiver

LEMMA StutterStep ==
    ASSUME ThreadsInv, UNCHANGED vars
    PROVE  ThreadsInv'
<1>1. UNCHANGED <<app, connected, server_sock, udp_sock, receiver, typing, open, asked, mail,
                  status, told, met, crossed, residue>>
    BY DEF vars, clientVars, serverVars, history
<1>2. Todo' = Todo /\ Reading' = Reading /\ InAMessage' = InAMessage
    BY <1>1 DEF Todo, Reading, InAMessage, Here
<1>3. Ordered'
    BY <1>1, <1>2, OrderKept
<1>4. Sound'
    BY <1>1 DEF ThreadsInv, Sound, Typed, OneReceiver, Linked, Here
<1> QED
    BY <1>3, <1>4 DEF ThreadsInv

LEMMA ThreadsStep == ThreadsInv /\ [Next]_vars => ThreadsInv'
<1> SUFFICES ASSUME ThreadsInv, [Next]_vars PROVE ThreadsInv'
    OBVIOUS
<1>1. CASE CommandLine
    BY <1>1, CommandStep
<1>2. ASSUME NEW k \in Conn, Receiver(k) PROVE ThreadsInv'
    BY <1>2, ReceiverStep
<1>3. ASSUME NEW k \in Conn, Server(k) PROVE ThreadsInv'
    BY <1>3, OrderServer DEF ThreadsInv
<1>4. CASE UNCHANGED vars
    BY <1>4, StutterStep
<1> QED
    BY <1>1, <1>2, <1>3, <1>4 DEF Next

\* The inductive invariant.
LEMMA InThreads == Spec => []ThreadsInv
BY InitThreads, ThreadsStep, PTL DEF Spec

-------------------------------------------------------------------------------
(* What follows. *)

LEMMA InvTypeOK ==
    ASSUME ThreadsInv
    PROVE  TypeOK
<1>1. Sound
    BY DEF ThreadsInv
<1>2. app \in Object /\ told \in Object /\ typing \in Command
    BY <1>1, TypedHas
<1>3. /\ app.session_partner \in Peer \cup {NULL}
      /\ app.chatroom_partners \in Seq(Peer \cup {NULL})
      /\ DOMAIN app = DOMAIN told
      /\ typing.to \in Seq(Peer \cup {NULL}) /\ typing.next \in Nat
    BY <1>2 DEF Object, Command, Nobody
<1>4. open \subseteq 1..server_sock
    BY <1>1 DEF Sound, Typed, Linked, Conn
<1>5. ASSUME NEW k \in Conn
      PROVE  /\ Len(mail[k]) <= MaxMail
             /\ receiver[k].todo # <<>> <=> receiver[k].at = "assigning"
  <2>1. Len(mail[k]) <= MaxMail
      BY <1>1 DEF Sound, OneReceiver
  <2>2. k < server_sock \/ k = server_sock \/ k > server_sock
      BY <1>1 DEF Sound, Typed, Conn
  <2>3. CASE k < server_sock
      BY <1>1, <2>1, <2>3 DEF Sound, OneReceiver
  <2>4. CASE k = server_sock
      BY <1>1, <2>1, <2>4 DEF Sound, OneReceiver, Fit, Here
  <2>5. CASE k > server_sock
      BY <1>1, <2>1, <2>5, PromptType DEF Sound, OneReceiver
  <2> QED
      BY <2>2, <2>3, <2>4, <2>5
<1>6. {connected, udp_sock, crossed, residue} \subseteq BOOLEAN
    BY <1>1 DEF Sound, Typed
<1> QED
    BY <1>3, <1>4, <1>5, <1>6 DEF TypeOK

\* Client.cpp:517-646: the members of the client and the progress of its threads stay in
\* their types, no connection is open but the last, and a receiver thread has something to
\* assign just while it handles a message.
THEOREM TypeCorrect == Spec => []TypeOK
BY InThreads, InvTypeOK, PTL

\* Client.cpp:517-646 and 331-351: unless d or cs and a message were each inside the other,
\* the assignments of the receiver thread and the commands typed between them leave the
\* object as if each message and each command were one step.
THEOREM OneStepEachAlways == Spec => []OneStepEach
<1>1. ThreadsInv => OneStepEach
  <2> SUFFICES ASSUME ThreadsInv, ~crossed, typing = Prompt, ~Midway PROVE app = told
      BY DEF OneStepEach
  <2>1. Todo = <<>>
      BY Threads DEF ThreadsInv, Sound
  <2>2. ~Torn
      BY PromptType DEF Torn
  <2> QED
      BY <2>1, <2>2, Settled DEF ThreadsInv, Ordered
<1> QED
    BY <1>1, InThreads, PTL

\* README.md:59: a message that is typed while the receiver thread takes nothing in goes
\* once to each partner, however many there are.
THEOREM AllAreReachedAlways == Spec => []AllAreReached
<1>1. ThreadsInv => AllAreReached
  <2> SUFFICES ASSUME ThreadsInv, typing.at = "said", typing.calm, ~crossed
               PROVE  typing.to = Addressees(told)
      BY DEF AllAreReached
  <2>1. Calm /\ Synced
      BY DEF ThreadsInv, Ordered
  <2>2. Todo = <<>> /\ typing.to = Addressees(app)
      BY <2>1 DEF Calm
  <2>3. app = told
      BY <2>1, <2>2, Settled DEF Torn
  <2> QED
      BY <2>2, <2>3
<1> QED
    BY <1>1, InThreads, PTL

\* Client.cpp:234: while news is taken in, too, what is typed goes to nobody but users that
\* the server has named since the client connected.
THEOREM NobodyElseIsReachedEver == Spec => []NobodyElseIsReached
<1>1. ThreadsInv => NobodyElseIsReached
    BY DEF ThreadsInv, Ordered, Met, NobodyElseIsReached
<1> QED
    BY <1>1, InThreads, PTL

\* Client.cpp:708 and 433: no message that the server writes makes the client erase the end
\* of the vector of its partners, and none typed finds no socket.
THEOREM SurvivesAlways == Spec => []Survives
<1>1. ThreadsInv => Survives
  <2> SUFFICES ASSUME ThreadsInv, ~crossed PROVE app.alive
      BY DEF Survives
  <2>1. PICK c, d \in Object : Alike(c, app) /\ Leads(c, Todo, d) /\ Alike(d, told)
      BY DEF ThreadsInv, Ordered, Synced
  <2>2. d.alive
      BY <2>1 DEF ThreadsInv, Ordered, Synced, Alike
  <2>3. Todo \in Seq(Assignment)
      BY Threads DEF ThreadsInv, Sound
  <2>4. c.alive
      BY <2>1, <2>2, <2>3, AliveBefore
  <2> QED
      BY <2>1, <2>4 DEF Alike
<1> QED
    BY <1>1, InThreads, PTL
===============================================================================
