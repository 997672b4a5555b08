----------------------------- MODULE SessionProofs -----------------------------
(***************************************************************************)
(* While nobody opens a room, a user is busy exactly when one session      *)
(* names it.  The handlers find and erase sessions by searching for either *)
(* side; that this finds the right one rests on there being only one.      *)
(***************************************************************************)
EXTENDS RoomProofs

\* What the handlers need to keep sessions apart: nobody points to a room, both sides
\* of a session are connected, and busy, and in no other session.
SessionInv ==
    /\ \A n \in Name : connectedToChatRoom[n] = NULL
    /\ \A k \in Name : in_session_with[k] # NULL =>
          k \in Connected /\ in_session_with[k] \in Connected
    /\ \A n \in Connected : connectionStatus[n] <=> Entries(n) # {}
    /\ \A n \in Name : \A j, k \in Entries(n) : j = k

-------------------------------------------------------------------------------
(* One entry more, or less. *)

\* A session between two users without one is the only entry of both.
LEMMA EntryAdded ==
    ASSUME TypeOK, NEW u \in Name, NEW to \in Name, Entries(u) = {}, Entries(to) = {},
           in_session_with' = [in_session_with EXCEPT ![u] = to]
    PROVE  \A n \in Name : Entries(n)' = IF n \in {u, to} THEN {u} ELSE Entries(n)
<1> SUFFICES ASSUME NEW n \in Name, NEW k \in Name
             PROVE  k \in Entries(n)' <=> k \in IF n \in {u, to} THEN {u} ELSE Entries(n)
    BY DEF Entries
<1>1. to # NULL
    BY NullIsNothing
<1>2. in_session_with'[k] = IF k = u THEN to ELSE in_session_with[k]
    BY DEF TypeOK
<1>3. in_session_with[k] # NULL =>
          /\ k # u /\ in_session_with[k] # u
          /\ k # to /\ in_session_with[k] # to
    BY DEF Entries
<1> QED
    BY <1>1, <1>2, <1>3 DEF Entries

\* An entry that is erased is nobody's any more.
LEMMA EntryErased ==
    ASSUME TypeOK, NEW k \in Name, in_session_with' = [in_session_with EXCEPT ![k] = NULL]
    PROVE  \A n \in Name : Entries(n)' = Entries(n) \ {k}
<1>1. \A j \in Name : in_session_with'[j] = IF j = k THEN NULL ELSE in_session_with[j]
    BY DEF TypeOK
<1> QED
    BY <1>1 DEF Entries

\* The search for a user's session finds its one entry, and that is the entry erased.
LEMMA OnlyEntry ==
    ASSUME TypeOK, SessionInv, NEW u \in Name, Entries(u) # {}
    PROVE  \E k \in Name : /\ in_session_with[k] # NULL
                           /\ Entries(u) = {k}
                           /\ {u, Partner(u)} = {k, in_session_with[k]}
                           /\ Ended(u) = [in_session_with EXCEPT ![k] = NULL]
<1>1. PICK k \in Name : Entries(u) = {k}
    BY DEF SessionInv, Entries
<1>2. in_session_with[k] # NULL /\ (k = u \/ in_session_with[k] = u)
    BY <1>1 DEF Entries
<1>3. k \in Nat
    BY NamesAreStrings
<1> DEFINE last == CHOOSE i \in Entries(u) : \A j \in Entries(u) : j <= i
<1>4. last = k
    BY <1>1, <1>3
<1> HIDE DEF last
<1>5. Partner(u) = IF k = u THEN in_session_with[u] ELSE k
  <2>1. Partner(u) = IF last = u THEN in_session_with[u] ELSE last
      BY DEF Partner, last
  <2> QED
      BY <1>4, <2>1
<1>6. in_session_with[u] # NULL => k = u
    BY <1>1 DEF Entries
<1> QED
    BY <1>1, <1>2, <1>5, <1>6 DEF Ended

-------------------------------------------------------------------------------
(* The steps that sessions depend on. *)

\* Two users who are not busy get a session.
LEMMA SessionOpens ==
    ASSUME TypeOK, SessionInv, NEW u \in Connected, NEW to \in Connected,
           ~connectionStatus[u], ~connectionStatus[to],
           connectionStatus' = [connectionStatus EXCEPT ![to] = TRUE, ![u] = TRUE],
           in_session_with' = [in_session_with EXCEPT ![u] = to],
           UNCHANGED <<users_map, connectedToChatRoom>>
    PROVE  SessionInv'
<1>1. u \in Name /\ to \in Name /\ Entries(u) = {} /\ Entries(to) = {}
    BY DEF SessionInv, Connected
<1>2. \A n \in Name : Entries(n)' = IF n \in {u, to} THEN {u} ELSE Entries(n)
    BY <1>1, EntryAdded
<1>3. Connected' = Connected
    BY DEF Connected
<1>4. \A k \in Name : in_session_with'[k] = IF k = u THEN to ELSE in_session_with[k]
    BY <1>1 DEF TypeOK
<1>5. \A n \in Name : connectionStatus'[n] = IF n \in {u, to} THEN TRUE
                                             ELSE connectionStatus[n]
    BY <1>1 DEF TypeOK
<1>6. \A n \in Connected' : connectionStatus'[n] <=> Entries(n)' # {}
  <2> SUFFICES ASSUME NEW n \in Connected
               PROVE  connectionStatus'[n] <=> Entries(n)' # {}
      BY <1>3
  <2>1. n \in Name
      BY DEF Connected
  <2>2. CASE n \in {u, to}
      BY <1>2, <1>5, <2>1, <2>2
  <2>3. CASE n \notin {u, to}
    <3>1. Entries(n)' = Entries(n) /\ (connectionStatus'[n] <=> connectionStatus[n])
        BY <1>2, <1>5, <2>1, <2>3
    <3> QED
        BY <3>1 DEF SessionInv
  <2> QED
      BY <2>2, <2>3
<1>7. \A n \in Name : \A j, k \in Entries(n)' : j = k
    BY <1>2 DEF SessionInv
<1>8. \A k \in Name : in_session_with'[k] # NULL =>
          k \in Connected' /\ in_session_with'[k] \in Connected'
    BY <1>3, <1>4 DEF SessionInv
<1> QED
    BY <1>6, <1>7, <1>8 DEF SessionInv

\* A session ends, and the user who ended it may be gone.
LEMMA SessionEnds ==
    ASSUME TypeOK, SessionInv, NEW u \in Connected, Entries(u) # {}, SessionOver(u),
           UNCHANGED connectedToChatRoom,
           users_map' \in {users_map, [users_map EXCEPT ![u] = NULL]}
    PROVE  SessionInv'
<1>1. u \in Name
    BY DEF Connected
<1>2. PICK k \in Name : /\ in_session_with[k] # NULL
                        /\ Entries(u) = {k}
                        /\ {u, Partner(u)} = {k, in_session_with[k]}
                        /\ in_session_with' = [in_session_with EXCEPT ![k] = NULL]
    BY <1>1, OnlyEntry DEF SessionOver
<1>3. \A n \in Name : Entries(n)' = Entries(n) \ {k}
    BY <1>2, EntryErased
<1>4. Partner(u) \in Name
    BY <1>1, PartnerFound
<1>5. \A n \in Name : connectionStatus'[n] = IF n \in {u, Partner(u)} THEN FALSE
                                             ELSE connectionStatus[n]
    BY <1>1, <1>4 DEF SessionOver, TypeOK
<1>6. \A n \in Name : k \in Entries(n) <=> n \in {u, Partner(u)}
    BY <1>2 DEF Entries
<1>7. \A n \in Name : n \in {u, Partner(u)} => Entries(n) = {k}
    BY <1>6 DEF SessionInv, Entries
<1>8. Connected' \in {Connected, Connected \ {u}}
    BY <1>1 DEF Connected, TypeOK
<1>9. ASSUME NEW n \in Connected'
      PROVE  connectionStatus'[n] <=> Entries(n)' # {}
  <2>1. n \in Connected /\ n \in Name
      BY <1>8 DEF Connected
  <2>2. CASE n \in {u, Partner(u)}
    <3>1. Entries(n)' = {} /\ ~connectionStatus'[n]
        BY <1>3, <1>5, <1>7, <2>1, <2>2
    <3> QED
        BY <3>1
  <2>3. CASE n \notin {u, Partner(u)}
    <3>1. Entries(n)' = Entries(n) /\ connectionStatus'[n] = connectionStatus[n]
        BY <1>3, <1>5, <1>6, <2>1, <2>3, ZenonT(60)
    <3>2. connectionStatus[n] <=> Entries(n) # {}
        BY <2>1 DEF SessionInv
    <3> QED
        BY <3>1, <3>2
  <2> QED
      BY <2>2, <2>3
<1>10. \A n \in Name : \A i, j \in Entries(n)' : i = j
    BY <1>3 DEF SessionInv
<1>11. ASSUME NEW j \in Name, in_session_with'[j] # NULL
       PROVE  j \in Connected' /\ in_session_with'[j] \in Connected'
  <2>1. j # k /\ in_session_with'[j] = in_session_with[j]
      BY <1>2, <1>11 DEF TypeOK
  <2>2. j \in Connected /\ in_session_with[j] \in Connected
      BY <1>11, <2>1 DEF SessionInv
  <2>3. j # u /\ in_session_with[j] # u
      BY <1>2, <1>11, <2>1 DEF Entries
  <2> QED
      BY <1>8, <2>1, <2>2, <2>3
<1> QED
    BY <1>9, <1>10, <1>11 DEF SessionInv

\* A user without a session comes or goes.
LEMMA UserComesOrGoes ==
    ASSUME TypeOK, SessionInv, NEW u \in Name, NEW s \in Sock, Entries(u) = {},
           users_map' \in {[users_map EXCEPT ![u] = s], [users_map EXCEPT ![u] = NULL]},
           connectionStatus' = [connectionStatus EXCEPT ![u] = FALSE],
           connectedToChatRoom' = [connectedToChatRoom EXCEPT ![u] = NULL],
           UNCHANGED in_session_with
    PROVE  SessionInv'
<1>1. \A n \in Name : Entries(n)' = Entries(n)
    BY DEF Entries
<1>2. \A n \in Name : n # u => (n \in Connected' <=> n \in Connected)
    BY DEF Connected, TypeOK
<1>3. \A n \in Name : connectionStatus'[n] = IF n = u THEN FALSE ELSE connectionStatus[n]
    BY DEF TypeOK
<1>4. \A n \in Name : connectedToChatRoom'[n] = NULL
    BY DEF SessionInv, TypeOK
<1>5. \A n \in Connected' : connectionStatus'[n] <=> Entries(n)' # {}
    BY <1>1, <1>2, <1>3 DEF SessionInv, Connected
<1>6. \A n \in Name : \A i, j \in Entries(n)' : i = j
    BY <1>1 DEF SessionInv
<1>7. ASSUME NEW k \in Name, in_session_with'[k] # NULL
      PROVE  k \in Connected' /\ in_session_with'[k] \in Connected'
  <2>1. k # u /\ in_session_with[k] # u
      BY <1>7 DEF Entries
  <2>2. k \in Connected /\ in_session_with[k] \in Connected
      BY <1>7 DEF SessionInv
  <2>3. in_session_with[k] \in Name
      BY <2>2 DEF Connected
  <2> QED
      BY <1>2, <2>1, <2>2, <2>3
<1> QED
    BY <1>4, <1>5, <1>6, <1>7 DEF SessionInv

\* What leaves users and sessions alone preserves it.
LEMMA SessionsKept ==
    ASSUME SessionInv, UNCHANGED <<userVars, in_session_with>>
    PROVE  SessionInv'
BY DEF SessionInv, Connected, Entries, userVars

-------------------------------------------------------------------------------

\* Every step preserves it, as long as there is no room to enter.
LEMMA SessionStep ==
    ASSUME Room = {}, IInv, SessionInv, Next
    PROVE  SessionInv'
<1> USE DEF IInv
<1>1. CASE Crash
    BY <1>1, SessionsKept DEF Crash
<1>2. ASSUME NEW s \in Sock, NEW n \in Name, AddUser(s, n)
      PROVE  SessionInv'
  <2>1. n \notin Connected
      BY <1>2 DEF AddUser, checkUser, Connected
  <2>2. Entries(n) = {}
      BY <2>1 DEF SessionInv, Entries
  <2> QED
      BY <1>2, <2>2, UserComesOrGoes DEF AddUser
<1>3. ASSUME ~Crash, NEW s \in Sock, NEW from \in Name, NEW to \in Name,
             OpenSession(s, from, to)
      PROVE  SessionInv'
  <2>1. UserOf(s) \in Connected
      BY <1>3, SenderFound DEF OpenSession
  <2>2. CASE \E msg : Answer(s, msg)
      BY <2>2, SessionsKept DEF Answer
  <2>3. CASE /\ users_map[to] # NULL
             /\ ~(connectionStatus[UserOf(s)] \/ connectionStatus[to])
             /\ connectionStatus' =
                   [connectionStatus EXCEPT ![to] = TRUE, ![UserOf(s)] = TRUE]
             /\ in_session_with' = [in_session_with EXCEPT ![UserOf(s)] = to]
             /\ UNCHANGED <<users_map, connectedToChatRoom>>
    <3>1. to \in Connected
        BY <2>3 DEF Connected
    <3> QED
        BY <2>1, <2>3, <3>1, SessionOpens
  <2> QED
      BY <1>3, <2>2, <2>3 DEF OpenSession
<1>4. ASSUME ~Crash, NEW s \in Sock, CloseSession(s) \/ ExitFromSession(s)
      PROVE  SessionInv'
  <2>1. UserOf(s) \in Connected
      BY <1>4, SenderFound DEF CloseSession, ExitFromSession
  <2>2. CASE \E msg : Answer(s, msg)
      BY <2>2, SessionsKept DEF Answer
  <2>3. CASE /\ Entries(UserOf(s)) # {} /\ SessionOver(UserOf(s))
             /\ UNCHANGED connectedToChatRoom
             /\ users_map' \in {users_map, [users_map EXCEPT ![UserOf(s)] = NULL]}
      BY <2>1, <2>3, SessionEnds
  <2> QED
      BY <1>4, <2>2, <2>3 DEF CloseSession, ExitFromSession, UserGone
<1>5. ASSUME ~Crash, NEW s \in Sock, ExitIdle(s)
      PROVE  SessionInv'
  <2>1. UserOf(s) \in Connected /\ UserOf(s) \in Name
      BY <1>5, SenderFound DEF ExitIdle
  <2>2. Entries(UserOf(s)) = {}
      BY <1>5, <2>1 DEF ExitIdle, SessionInv
  <2> QED
      BY <1>5, <2>1, <2>2, UserComesOrGoes DEF ExitIdle, UserGone
<1>6. ASSUME NEW s \in Sock
      PROVE  ~ExitAsOwner(s) /\ ~ExitAsMember(s) /\ ~LeaveAsOwner(s) /\ ~LeaveAsMember(s)
  <2>1. Serving(s) => connectedToChatRoom[UserOf(s)] = NULL
      BY SenderFound DEF SessionInv
  <2> QED
      BY <2>1 DEF ExitAsOwner, ExitAsMember, LeaveAsOwner, LeaveAsMember, InRoom
<1>7. ASSUME NEW s \in Sock, LeaveNothing(s) \/ ListUsers(s) \/ ListChatrooms(s)
      PROVE  SessionInv'
    BY <1>7, SessionsKept DEF LeaveNothing, ListUsers, ListChatrooms, Answer
<1> QED
    BY <1>1, <1>2, <1>3, <1>4, <1>5, <1>6, <1>7
    DEF Next, Handle, LeaveChatroom, UserExit, BrokenPipe

-------------------------------------------------------------------------------
(* What the two sides of a session are told. *)

\* The messages that give a client a session, or take it away.
Opening == {"TARGET_IP_AND_PORT", "INCOMIMG_SESSION"}

Ending == {"SESSION_ENDED", "OPEN_SESSION_ERROR", "CLOSE_SESSION_ERROR",
           "CHATROOM_NAME_ERROR"}

\* Those that are about rooms.
RoomNews == {"CHATROOM_CREATED", "CHATROOM_LIST", "NEW_USER_TO_CHATROOM",
             "CHATROOM_WAS_CLOSED", "USER_HAS_LEFT_CHATROOM"}

\* What a step does to user v, whose socket is t: its session is over, or it is what
\* it was and no message is about it, or the messages name its partner.
Told(v, t) ==
    /\ \A i \in DOMAIN sent'[t] : sent'[t][i].cmd \notin RoomNews
    /\ \/ Entries(v)' = {}
       \/ /\ Entries(v)' = Entries(v) /\ Partner(v)' = Partner(v)
          /\ \A i \in DOMAIN sent'[t] : sent'[t][i].cmd \notin Opening \cup Ending
       \/ /\ sent'[t] # <<>>
          /\ \A i \in DOMAIN sent'[t] : /\ sent'[t][i].cmd \in Opening
                                       /\ sent'[t][i].names[1] = Partner(v)'

\* The partner in a session that is the only one, before and after a step.
LEMMA PartnerInOne ==
    ASSUME NEW v \in Name, NEW k \in Name
    PROVE  /\ Entries(v) = {k} =>
                Partner(v) = IF k = v THEN in_session_with[v] ELSE k
           /\ Entries(v)' = {k} =>
                Partner(v)' = IF k = v THEN in_session_with'[v] ELSE k
<1> DEFINE last == CHOOSE i \in Entries(v) : \A j \in Entries(v) : j <= i
<1>1. k \in Nat
    BY NamesAreStrings
<1>2. Entries(v) = {k} => last = k
    BY <1>1
<1>3. Entries(v)' = {k} => last' = k
    BY <1>1
<1>4. /\ Partner(v) = IF last = v THEN in_session_with[v] ELSE last
      /\ Partner(v)' = IF last' = v THEN in_session_with'[v] ELSE last'
    BY DEF Partner
<1> HIDE DEF last
<1> QED
    BY <1>2, <1>3, <1>4

\* Writing to one socket, and to two.
LEMMA WrittenToOne ==
    ASSUME NEW s \in Sock, NEW m
    PROVE  \A t \in Sock : /\ Silent[t] = <<>>
                           /\ To(s, m)[t] = IF t = s THEN <<m>> ELSE <<>>
BY DEF Silent, To

LEMMA WrittenTo ==
    ASSUME NEW s \in Sock, NEW t \in Sock, NEW p \in Sock, NEW m, NEW n
    PROVE  Then(To(s, m), To(p, n))[t] =
               IF t = s THEN IF t = p THEN <<m, n>> ELSE <<m>>
                        ELSE IF t = p THEN <<n>> ELSE <<>>
<1>1. /\ To(s, m)[t] = (IF t = s THEN <<m>> ELSE <<>>)
      /\ To(p, n)[t] = (IF t = p THEN <<n>> ELSE <<>>)
    BY WrittenToOne
<1>2. Then(To(s, m), To(p, n))[t] = To(s, m)[t] \o To(p, n)[t]
    BY DEF Then
<1>3. /\ <<m>> \o <<n>> = <<m, n>> /\ <<m>> \o <<>> = <<m>>
      /\ <<>> \o <<n>> = <<n>> /\ <<>> \o <<>> = <<>>
  <2>1. <<m>> \in Seq({m, n}) /\ <<n>> \in Seq({m, n}) /\ <<>> \in Seq({m, n})
      OBVIOUS
  <2> DEFINE both == <<m>> \o <<n>>
  <2>2. both \in Seq({m, n}) /\ Len(both) = 2 /\ both[1] = m /\ both[2] = n
    <3>1. both \in Seq({m, n}) /\ Len(both) = Len(<<m>>) + Len(<<n>>)
        BY <2>1, ConcatProperties
    <3>2. \A i \in 1..(Len(<<m>>) + Len(<<n>>)) :
              both[i] = IF i <= Len(<<m>>) THEN <<m>>[i] ELSE <<n>>[i - Len(<<m>>)]
        BY <2>1, ConcatProperties
    <3> HIDE DEF both
    <3> QED
        BY <3>1, <3>2
  <2>3. <<m, n>> \in Seq({m, n})
      OBVIOUS
  <2> HIDE DEF both
  <2>4. both = <<m, n>>
      BY <2>2, <2>3, SeqEqual
  <2>5. \A w \in Seq({m, n}) : <<>> \o w = w /\ w \o <<>> = w
      BY ConcatEmptySeq
  <2> QED
      BY <2>1, <2>4, <2>5 DEF both
<1> QED
    BY <1>1, <1>2, <1>3

\* An exit is answered to who exits.
LEMMA ByeIsTo ==
    ASSUME NEW s \in Sock
    PROVE  /\ \A t \in Sock : t # s => Bye(s)[t] = <<>>
           /\ \A t, p \in Sock : \A m : t # s =>
                  Then(To(p, m), Bye(s))[t] = IF t = p THEN <<m>> ELSE <<>>
<1> DEFINE bye == Msg("BYE_BYE_MSG", <<>>)
<1>1. Bye(s) = To(s, bye)
    BY DEF Bye
<1> HIDE DEF bye
<1>2. \A t \in Sock : t # s => To(s, bye)[t] = <<>>
    BY WrittenToOne
<1>3. ASSUME NEW t \in Sock, NEW p \in Sock, NEW m, t # s
      PROVE  Then(To(p, m), Bye(s))[t] = IF t = p THEN <<m>> ELSE <<>>
  <2>1. Then(To(p, m), To(s, bye))[t] =
            IF t = p THEN IF t = s THEN <<m, bye>> ELSE <<m>>
                     ELSE IF t = s THEN <<bye>> ELSE <<>>
      BY WrittenTo
  <2> QED
      BY <1>1, <1>3, <2>1
<1> QED
    BY <1>1, <1>2, <1>3

\* What there is in lists of up to two.
LEMMA Elements ==
    ASSUME NEW m, NEW n
    PROVE  /\ DOMAIN <<>> = {}
           /\ <<m>> # <<>> /\ \A i \in DOMAIN <<m>> : <<m>>[i] = m
           /\ <<m, n>> # <<>> /\ \A i \in DOMAIN <<m, n>> : <<m, n>>[i] \in {m, n}
<1>1. DOMAIN <<>> = {} /\ DOMAIN <<m>> = {1} /\ DOMAIN <<m, n>> = {1, 2}
    OBVIOUS
<1> QED
    BY <1>1

\* A step that leaves sessions alone, and says nothing about them.
LEMMA NothingTold ==
    ASSUME SessionInv, NEW v \in Name, NEW t \in Sock, UNCHANGED in_session_with,
           \A i \in DOMAIN sent'[t] : sent'[t][i].cmd \notin Opening \cup Ending \cup RoomNews
    PROVE  Told(v, t)
<1>1. Entries(v)' = Entries(v)
    BY DEF Entries
<1>2. Entries(v) = {} \/ \E k \in Name : Entries(v) = {k}
    BY DEF SessionInv, Entries
<1>3. Entries(v) = {} \/ Partner(v)' = Partner(v)
    BY <1>1, <1>2, PartnerInOne
<1> QED
    BY <1>1, <1>3 DEF Told

\* The same of a step that writes only to somebody else.
LEMMA NotAddressed ==
    ASSUME SessionInv, NEW v \in Name, NEW t \in Sock, UNCHANGED in_session_with,
           sent'[t] = <<>>
    PROVE  Told(v, t)
BY NothingTold

\* A session is opened: both sides hear of it, each with the name of the other.
LEMMA OpeningIsTold ==
    ASSUME TypeOK, SocketsMatch, SessionInv, NEW u \in Connected, NEW to \in Connected,
           ~connectionStatus[u], ~connectionStatus[to],
           in_session_with' = [in_session_with EXCEPT ![u] = to],
           sent' = Then(To(users_map[u], Msg("TARGET_IP_AND_PORT", <<to>>)),
                        To(users_map[to], Msg("INCOMIMG_SESSION", <<u>>))),
           NEW v \in Name, NEW t \in Sock, users_map[v] = t
    PROVE  Told(v, t)
<1> DEFINE target == Msg("TARGET_IP_AND_PORT", <<to>>)
           incoming == Msg("INCOMIMG_SESSION", <<u>>)
<1>1. /\ u \in Name /\ to \in Name /\ v \in Connected
      /\ Entries(u) = {} /\ Entries(to) = {}
      /\ users_map[u] \in Sock /\ users_map[to] \in Sock
    BY NullIsNothing DEF SessionInv, Connected, TypeOK
<1>2. \A n \in Name : Entries(n)' = IF n \in {u, to} THEN {u} ELSE Entries(n)
    BY <1>1, EntryAdded
<1>3. in_session_with'[u] = to /\ \A n \in Name : n # u => in_session_with'[n] = in_session_with[n]
    BY <1>1 DEF TypeOK
<1>4. \A n \in {u, to} : users_map[n] = t => n = v
    BY <1>1 DEF SocketsMatch
<1>5. sent'[t] = IF t = users_map[u]
                 THEN IF t = users_map[to] THEN <<target, incoming>> ELSE <<target>>
                 ELSE IF t = users_map[to] THEN <<incoming>> ELSE <<>>
    BY <1>1, WrittenTo
<1>6. /\ target.cmd \in Opening /\ target.names[1] = to
      /\ incoming.cmd \in Opening /\ incoming.names[1] = u
    BY DEF Msg, Opening
<1> HIDE DEF target, incoming
<1>7. Opening \cap RoomNews = {}
    BY DEF Opening, RoomNews
<1>8. CASE v = u
  <2>1. Partner(v)' = to
      BY <1>1, <1>2, <1>3, <1>8, PartnerInOne
  <2>2. t = users_map[to] => to = u
      BY <1>4, <1>8
  <2>3. /\ sent'[t] \in {<<target>>, <<target, incoming>>}
        /\ sent'[t] = <<target>> \/ to = u
      BY <1>5, <1>8, <2>2
  <2>4. \A i \in DOMAIN sent'[t] :
            sent'[t][i] \in IF to = u THEN {target, incoming} ELSE {target}
    <3>1. CASE sent'[t] = <<target>>
        BY <3>1, Elements
    <3>2. CASE sent'[t] = <<target, incoming>> /\ to = u
        BY <3>2, Elements
    <3> QED
        BY <2>3, <3>1, <3>2
  <2>5. sent'[t] # <<>>
      BY <2>3, Elements
  <2>6. \A i \in DOMAIN sent'[t] : /\ sent'[t][i].cmd \in Opening
                                  /\ sent'[t][i].names[1] = Partner(v)'
      BY <1>6, <2>1, <2>4
  <2> QED
      BY <1>7, <2>5, <2>6 DEF Told
<1>9. CASE v = to /\ v # u
  <2>1. Partner(v)' = u
      BY <1>1, <1>2, <1>3, <1>9, PartnerInOne
  <2>2. sent'[t] = <<incoming>>
    <3>1. t = users_map[to] /\ t # users_map[u]
        BY <1>1, <1>4, <1>9
    <3> QED
        BY <1>5, <3>1
  <2>3. sent'[t] # <<>> /\ \A i \in DOMAIN sent'[t] : sent'[t][i] = incoming
    <3>1. <<incoming>> # <<>> /\ \A i \in DOMAIN <<incoming>> : <<incoming>>[i] = incoming
        BY Elements
    <3> QED
        BY <2>2, <3>1
  <2>4. \A i \in DOMAIN sent'[t] : /\ sent'[t][i].cmd \in Opening
                                  /\ sent'[t][i].names[1] = Partner(v)'
    <3>1. ASSUME NEW i \in DOMAIN sent'[t]
          PROVE  sent'[t][i].cmd \in Opening /\ sent'[t][i].names[1] = Partner(v)'
      <4>1. sent'[t][i] = incoming
          BY <2>3
      <4> QED
          BY <1>6, <2>1, <4>1
    <3> QED
        BY <3>1
  <2> QED
      BY <1>7, <2>3, <2>4 DEF Told
<1>10. CASE v \notin {u, to}
  <2>1. Entries(v)' = Entries(v)
      BY <1>2, <1>10
  <2>2. Entries(v) = {} \/ \E k \in Name : Entries(v) = {k}
      BY DEF SessionInv, Entries
  <2>3. Entries(v) = {} \/ Partner(v)' = Partner(v)
      BY <1>3, <1>10, <2>1, <2>2, PartnerInOne
  <2>4. sent'[t] = <<>>
      BY <1>1, <1>4, <1>5, <1>10
  <2>5. DOMAIN sent'[t] = {}
      BY <2>4, Elements
  <2> QED
      BY <2>1, <2>3, <2>5 DEF Told
<1> QED
    BY <1>8, <1>9, <1>10

\* A session ends: whoever is not on either side of it hears nothing.
LEMMA EndingIsTold ==
    ASSUME TypeOK, SocketsMatch, SessionInv, NEW u \in Connected, Entries(u) # {},
           in_session_with' = Ended(u), NEW v \in Name, NEW t \in Sock,
           users_map[v] = t,
           \A i \in DOMAIN sent'[t] : sent'[t][i].cmd \notin RoomNews,
           v \notin {u, Partner(u)} => sent'[t] = <<>>
    PROVE  Told(v, t)
<1>1. u \in Name
    BY DEF Connected
<1>2. PICK k \in Name : /\ in_session_with[k] # NULL
                        /\ Entries(u) = {k}
                        /\ {u, Partner(u)} = {k, in_session_with[k]}
                        /\ in_session_with' = [in_session_with EXCEPT ![k] = NULL]
    BY <1>1, OnlyEntry
<1>3. Entries(v)' = Entries(v) \ {k}
    BY <1>2, EntryErased
<1>4. k \in Entries(v) <=> v \in {u, Partner(u)}
    BY <1>2 DEF Entries
<1>5. Entries(v) = {} \/ \E j \in Name : Entries(v) = {j}
    BY DEF SessionInv, Entries
<1>6. CASE v \in {u, Partner(u)}
  <2>1. Entries(v)' = {}
      BY <1>3, <1>4, <1>5, <1>6
  <2> QED
      BY <2>1 DEF Told
<1>7. CASE v \notin {u, Partner(u)}
  <2>1. Entries(v)' = Entries(v) /\ v # k
      BY <1>2, <1>3, <1>4, <1>7
  <2>2. in_session_with'[v] = in_session_with[v]
      BY <1>2, <2>1 DEF TypeOK
  <2>3. Entries(v) = {} \/ Partner(v)' = Partner(v)
      BY <1>5, <2>1, <2>2, PartnerInOne
  <2> QED
      BY <1>7, <2>1, <2>3 DEF Told
<1> QED
    BY <1>6, <1>7

\* Whatever the dispatcher does, a user that stays connected is told of its session.
LEMMA PartiesAreTold ==
    ASSUME Room = {}, IInv, SessionInv, Next, ~crashed',
           NEW v \in Name, NEW t \in Sock, users_map[v] = t, users_map'[v] = t
    PROVE  Told(v, t)
<1>0. /\ TypeOK /\ SocketsMatch /\ v \in Connected
      /\ t # NULL
    BY NullIsNothing DEF IInv, Connected
<1>1. ~Crash
    BY DEF Crash
<1>2. ASSUME NEW s \in Sock, NEW n \in Name, AddUser(s, n)
      PROVE  Told(v, t)
    BY <1>2, NotAddressed DEF AddUser, Silent
<1>3. ASSUME NEW s \in Sock, Serving(s)
      PROVE  /\ UserOf(s) \in Connected /\ UserOf(s) \in Name
             /\ users_map[UserOf(s)] = s
             /\ t = s => v = UserOf(s)
    BY <1>0, <1>3, SenderFound
<1>4. ASSUME NEW s \in Sock, Serving(s), NEW msg, Answer(s, msg),
             msg.cmd \notin RoomNews \cup Opening,
             msg.cmd \in Ending => Entries(UserOf(s)) = {}
      PROVE  Told(v, t)
  <2>1. sent'[t] = IF t = s THEN <<msg>> ELSE <<>>
      BY <1>4, WrittenToOne DEF Answer
  <2>2. CASE t = s /\ msg.cmd \in Ending
    <3>1. v = UserOf(s) /\ Entries(v) = {}
        BY <1>3, <1>4, <2>2
    <3>2. Entries(v)' = {}
        BY <1>4, <3>1 DEF Answer, Entries
    <3>3. \A i \in DOMAIN sent'[t] : sent'[t][i] = msg
        BY <2>1, <2>2, Elements
    <3> QED
        BY <1>4, <3>2, <3>3 DEF Told
  <2>3. CASE t # s \/ msg.cmd \notin Ending
    <3>1. \A i \in DOMAIN sent'[t] : sent'[t][i] = msg /\ t = s
        BY <2>1, Elements
    <3> QED
        BY <1>4, <2>3, <3>1, NothingTold DEF Answer
  <2> QED
      BY <2>2, <2>3
<1>5. ASSUME NEW s \in Sock, NEW from \in Name, NEW to \in Name, OpenSession(s, from, to)
      PROVE  Told(v, t)
  <2> DEFINE u == UserOf(s)
  <2>1. Serving(s) /\ u \in Connected /\ u \in Name /\ users_map[u] = s
      BY <1>3, <1>5 DEF OpenSession
  <2>2. CASE Answer(s, Msg("OPEN_CONNECTION_ERROR", <<>>))
    <3>1. Msg("OPEN_CONNECTION_ERROR", <<>>).cmd \notin RoomNews \cup Opening \cup Ending
        BY DEF Msg, RoomNews, Opening, Ending
    <3> QED
        BY <1>4, <2>1, <2>2, <3>1
  <2>3. CASE ~connectionStatus[u] /\ Answer(s, Msg("OPEN_SESSION_ERROR", <<>>))
    <3>1. Msg("OPEN_SESSION_ERROR", <<>>).cmd \notin RoomNews \cup Opening
        BY DEF Msg, RoomNews, Opening
    <3>2. Entries(u) = {}
        BY <2>1, <2>3 DEF SessionInv
    <3> QED
        BY <1>4, <2>1, <2>3, <3>1, <3>2
  <2>4. CASE /\ users_map[to] # NULL
             /\ ~connectionStatus[u] /\ ~connectionStatus[to]
             /\ in_session_with' = [in_session_with EXCEPT ![u] = to]
             /\ sent' = Then(To(s, Msg("TARGET_IP_AND_PORT", <<to>>)),
                             To(users_map[to], Msg("INCOMIMG_SESSION", <<u>>)))
    <3> HIDE DEF u
    <3>1. to \in Connected
        BY <2>4 DEF Connected
    <3> QED
        BY <1>0, <2>1, <2>4, <3>1, OpeningIsTold
  <2> QED
      BY <1>1, <1>5, <2>2, <2>3, <2>4 DEF OpenSession
<1>6. ASSUME NEW s \in Sock, CloseSession(s)
      PROVE  Told(v, t)
  <2> DEFINE u == UserOf(s)
  <2>1. Serving(s) /\ u \in Connected /\ u \in Name /\ users_map[u] = s
      BY <1>3, <1>6 DEF CloseSession
  <2>2. CASE Entries(u) = {} /\ Answer(s, Msg("CLOSE_SESSION_ERROR", <<>>))
    <3>1. Msg("CLOSE_SESSION_ERROR", <<>>).cmd \notin RoomNews \cup Opening
        BY DEF Msg, RoomNews, Opening
    <3> QED
        BY <1>4, <2>1, <2>2, <3>1
  <2>3. CASE /\ Entries(u) # {} /\ users_map[Partner(u)] # NULL
             /\ SessionOver(u)
             /\ sent' = To(users_map[Partner(u)], Msg("SESSION_ENDED", <<>>))
    <3> HIDE DEF u
    <3>1. Partner(u) \in Connected /\ users_map[Partner(u)] \in Sock
        BY <1>0, <2>1, <2>3, PartnerFound DEF TypeOK, Connected
    <3>2. v # Partner(u) => t # users_map[Partner(u)]
        BY <1>0, <3>1 DEF SocketsMatch
    <3>3. sent'[t] = IF t = users_map[Partner(u)] THEN <<Msg("SESSION_ENDED", <<>>)>>
                                                  ELSE <<>>
        BY <2>3, <3>1, WrittenToOne
    <3>4. \A i \in DOMAIN sent'[t] : sent'[t][i] = Msg("SESSION_ENDED", <<>>)
        BY <3>3, Elements
    <3>5. Msg("SESSION_ENDED", <<>>).cmd \notin RoomNews
        BY DEF Msg, RoomNews
    <3>6. v \notin {u, Partner(u)} => sent'[t] = <<>>
        BY <3>2, <3>3
    <3> QED
        BY <1>0, <2>1, <2>3, <3>4, <3>5, <3>6, EndingIsTold DEF SessionOver
  <2> QED
      BY <1>1, <1>6, <2>2, <2>3 DEF CloseSession
<1>7. ASSUME NEW s \in Sock, ExitFromSession(s)
      PROVE  Told(v, t)
  <2> DEFINE u == UserOf(s)
  <2>1. Serving(s) /\ u \in Connected /\ u \in Name /\ users_map[u] = s
      BY <1>3, <1>7 DEF ExitFromSession
  <2>2. /\ Entries(u) # {} /\ users_map[Partner(u)] # NULL
        /\ SessionOver(u)
        /\ sent' = Then(To(users_map[Partner(u)], Msg("SESSION_ENDED", <<>>)), Bye(s))
        /\ users_map' = [users_map EXCEPT ![u] = NULL]
      BY <1>1, <1>7 DEF ExitFromSession, UserGone
  <2> HIDE DEF u
  <2>3. v # u
      BY <1>0, <2>1, <2>2 DEF TypeOK
  <2>4. t # s
      BY <1>0, <2>1, <2>3 DEF SocketsMatch
  <2>5. Partner(u) \in Connected /\ users_map[Partner(u)] \in Sock
      BY <1>0, <2>1, <2>2, PartnerFound DEF TypeOK, Connected
  <2>6. v # Partner(u) => t # users_map[Partner(u)]
      BY <1>0, <2>5 DEF SocketsMatch
  <2>7. sent'[t] = IF t = users_map[Partner(u)] THEN <<Msg("SESSION_ENDED", <<>>)>>
                                                ELSE <<>>
    <3>1. Then(To(users_map[Partner(u)], Msg("SESSION_ENDED", <<>>)), Bye(s))[t] =
              IF t = users_map[Partner(u)] THEN <<Msg("SESSION_ENDED", <<>>)>> ELSE <<>>
        BY <2>4, <2>5, ByeIsTo
    <3> QED
        BY <2>2, <3>1
  <2>8. \A i \in DOMAIN sent'[t] : sent'[t][i] = Msg("SESSION_ENDED", <<>>)
      BY <2>7, Elements
  <2>9. Msg("SESSION_ENDED", <<>>).cmd \notin RoomNews
      BY DEF Msg, RoomNews
  <2>10. v \notin {u, Partner(u)} => sent'[t] = <<>>
      BY <2>6, <2>7
  <2> QED
      BY <1>0, <2>1, <2>2, <2>8, <2>9, <2>10, EndingIsTold DEF SessionOver
<1>8. ASSUME NEW s \in Sock, ExitIdle(s)
      PROVE  Told(v, t)
  <2> DEFINE u == UserOf(s)
  <2>1. Serving(s) /\ u \in Connected /\ u \in Name /\ users_map[u] = s
      BY <1>3, <1>8 DEF ExitIdle
  <2>2. /\ users_map' = [users_map EXCEPT ![u] = NULL]
        /\ sent' \in {Then(To(s, Msg("CLOSE_SESSION_ERROR", <<>>)), Bye(s)), Bye(s)}
        /\ UNCHANGED in_session_with
      BY <1>8 DEF ExitIdle, UserGone
  <2> HIDE DEF u
  <2>3. v # u
      BY <1>0, <2>1, <2>2 DEF TypeOK
  <2>4. t # s
      BY <1>0, <2>1, <2>3 DEF SocketsMatch
  <2>5. sent'[t] = <<>>
    <3>1. Bye(s)[t] = <<>>
        BY <2>4, ByeIsTo
    <3>2. Then(To(s, Msg("CLOSE_SESSION_ERROR", <<>>)), Bye(s))[t] = <<>>
      <4> DEFINE refused == Msg("CLOSE_SESSION_ERROR", <<>>)
      <4> HIDE DEF refused
      <4>1. \A p \in Sock :
                Then(To(p, refused), Bye(s))[t] = IF t = p THEN <<refused>> ELSE <<>>
          BY <2>4, ByeIsTo
      <4> QED
          BY <2>4, <4>1 DEF refused
    <3> QED
        BY <2>2, <3>1, <3>2
  <2> QED
      BY <2>2, <2>5, NotAddressed
<1>9. ASSUME NEW s \in Sock
      PROVE  ~ExitAsOwner(s) /\ ~ExitAsMember(s) /\ ~LeaveAsOwner(s) /\ ~LeaveAsMember(s)
  <2>1. Serving(s) => connectedToChatRoom[UserOf(s)] = NULL
      BY <1>0, SenderFound DEF SessionInv
  <2> QED
      BY <2>1 DEF ExitAsOwner, ExitAsMember, LeaveAsOwner, LeaveAsMember, InRoom
<1>10. ASSUME NEW s \in Sock, LeaveNothing(s) \/ ListUsers(s) \/ ListChatrooms(s)
       PROVE  Told(v, t)
  <2>1. PICK cmd \in {"OPEN_SESSION_ERROR2", "CONNECTION_ERROR", "USERS_LIST", "CHATROOMS_LIST"} :
            \E names : Answer(s, Msg(cmd, names))
      BY <1>10 DEF LeaveNothing, ListUsers, ListChatrooms
  <2>2. PICK names : Answer(s, Msg(cmd, names))
      BY <2>1
  <2>3. Msg(cmd, names).cmd \notin RoomNews \cup Opening \cup Ending
      BY <2>1 DEF Msg, RoomNews, Opening, Ending
  <2>4. Serving(s)
      BY <1>10 DEF LeaveNothing, ListUsers, ListChatrooms
  <2> QED
      BY <1>4, <2>2, <2>3, <2>4
<1> QED
    BY <1>1, <1>2, <1>5, <1>6, <1>7, <1>8, <1>9, <1>10
    DEF Next, Handle, LeaveChatroom, UserExit, BrokenPipe

\* Nothing is written to a socket that no connected user has.
LEMMA OnlyUsersAreTold ==
    ASSUME Room = {}, IInv, SessionInv, Next,
           NEW t \in Sock, \A n \in Name : users_map[n] # t
    PROVE  sent'[t] = <<>>
<1>0. TypeOK /\ SocketsMatch
    BY DEF IInv
<1>1. \A p \in Sock : p # t => \A m : To(p, m)[t] = <<>>
    BY WrittenToOne
<1>2. ASSUME NEW p \in Sock, NEW q \in Sock, p # t, q # t, NEW m, NEW n
      PROVE  Then(To(p, m), To(q, n))[t] = <<>>
  <2>1. Then(To(p, m), To(q, n))[t] =
            IF t = p THEN IF t = q THEN <<m, n>> ELSE <<m>>
                     ELSE IF t = q THEN <<n>> ELSE <<>>
      BY WrittenTo
  <2> QED
      BY <1>2, <2>1
<1>3. CASE Crash
    BY <1>3 DEF Crash, Silent
<1>4. ASSUME NEW s \in Sock, NEW n \in Name, AddUser(s, n)
      PROVE  sent'[t] = <<>>
    BY <1>4 DEF AddUser, Silent
<1>5. ASSUME NEW s \in Sock, Serving(s)
      PROVE  /\ s # t
             /\ UserOf(s) \in Name
             /\ ~InRoom(UserOf(s))
             /\ \A m : Answer(s, m) => sent'[t] = <<>>
  <2>1. UserOf(s) \in Name /\ users_map[UserOf(s)] = s
      BY <1>0, <1>5, SenderFound
  <2>2. ~InRoom(UserOf(s))
      BY <2>1 DEF SessionInv, InRoom
  <2> QED
      BY <1>1, <2>1, <2>2 DEF Answer
<1>6. \A n \in Name : users_map[n] # NULL => users_map[n] \in Sock /\ users_map[n] # t
    BY <1>0 DEF TypeOK
<1>7. ASSUME NEW s \in Sock, NEW from \in Name, NEW to \in Name, OpenSession(s, from, to)
      PROVE  sent'[t] = <<>>
    BY <1>2, <1>3, <1>5, <1>6, <1>7 DEF OpenSession
<1>8. ASSUME NEW s \in Sock, CloseSession(s)
      PROVE  sent'[t] = <<>>
  <2>1. Entries(UserOf(s)) # {} => Partner(UserOf(s)) \in Name
      BY <1>0, <1>5, <1>8, PartnerFound DEF CloseSession
  <2> QED
      BY <1>1, <1>3, <1>5, <1>6, <1>8, <2>1 DEF CloseSession
<1>9. ASSUME NEW s \in Sock, ExitFromSession(s)
      PROVE  sent'[t] = <<>>
  <2>1. Entries(UserOf(s)) # {} => Partner(UserOf(s)) \in Name
      BY <1>0, <1>5, <1>9, PartnerFound DEF ExitFromSession
  <2> QED
      BY <1>2, <1>3, <1>5, <1>6, <1>9, <2>1 DEF ExitFromSession, Bye
<1>10. ASSUME NEW s \in Sock, ExitIdle(s)
       PROVE  sent'[t] = <<>>
    BY <1>1, <1>2, <1>5, <1>10 DEF ExitIdle, Bye
<1>11. ASSUME NEW s \in Sock
       PROVE  ~ExitAsOwner(s) /\ ~ExitAsMember(s) /\ ~LeaveAsOwner(s) /\ ~LeaveAsMember(s)
    BY <1>5 DEF ExitAsOwner, ExitAsMember, LeaveAsOwner, LeaveAsMember
<1>12. ASSUME NEW s \in Sock, LeaveNothing(s) \/ ListUsers(s) \/ ListChatrooms(s)
       PROVE  sent'[t] = <<>>
    BY <1>5, <1>12 DEF LeaveNothing, ListUsers, ListChatrooms
<1> QED
    BY <1>3, <1>4, <1>7, <1>8, <1>9, <1>10, <1>11, <1>12
    DEF Next, Handle, LeaveChatroom, UserExit, BrokenPipe

\* Only an exit takes a user out of the map, and only the one who exits.
LEMMA WhoExits ==
    ASSUME NEW s \in Sock, UserExit(s)
    PROVE  /\ Serving(s)
           /\ users_map' \in {users_map, [users_map EXCEPT ![UserOf(s)] = NULL]}
BY DEF UserExit, ExitAsOwner, ExitAsMember, ExitFromSession, ExitIdle, BrokenPipe, Crash,
       UserGone, userVars

\* Whoever closes a session is in none afterwards.
LEMMA CloserIsFree ==
    ASSUME IInv, SessionInv, NEW s \in Sock, CloseSession(s), ~crashed'
    PROVE  \A n \in Name : n = UserOf(s) => Entries(n)' = {}
<1>1. TypeOK /\ SocketsMatch /\ ~Crash
    BY DEF IInv, Crash
<1> SUFFICES ASSUME NEW n \in Name, n = UserOf(s) PROVE Entries(n)' = {}
    OBVIOUS
<1>2. CASE Entries(n) = {} /\ UNCHANGED in_session_with
    BY <1>2 DEF Entries
<1>3. CASE Entries(n) # {} /\ in_session_with' = Ended(n)
  <2>1. PICK k \in Name : /\ Entries(n) = {k}
                          /\ in_session_with' = [in_session_with EXCEPT ![k] = NULL]
      BY <1>1, <1>3, OnlyEntry
  <2>2. Entries(n)' = Entries(n) \ {k}
      BY <1>1, <2>1, EntryErased
  <2> QED
      BY <2>1, <2>2
<1> QED
    BY <1>1, <1>2, <1>3 DEF CloseSession, Answer, SessionOver

-------------------------------------------------------------------------------
(* The invariant, and what follows from it. *)

\* What SessionInv says while nobody opens a room.
SessionsKeptApart == Room = {} => SessionInv

LEMMA NoSession == Init => SessionsKeptApart
BY DEF Init, SessionsKeptApart, SessionInv, Entries, Connected

LEMMA SessionsStayApart == IInv /\ SessionsKeptApart /\ [Next]_vars => SessionsKeptApart'
BY SessionStep, SessionsKept DEF SessionsKeptApart, vars

\* While nobody opens a room, SessionInv holds.
THEOREM SessionsHold == Spec => []SessionsKeptApart
BY NoSession, SessionsStayApart, Invariance, PTL DEF Spec

\* A user with one entry at most, and busy with it, is in one session.
LEMMA InOneSession == SessionsKeptApart => BusyInOneSession
<1> SUFFICES ASSUME Room = {}, SessionInv, NEW n \in Connected
             PROVE  /\ connectionStatus[n] <=> Entries(n) # {}
                    /\ Cardinality(Entries(n)) <= 1
    BY DEF BusyInOneSession, SessionsKeptApart
<1>1. n \in Name
    BY DEF Connected
<1>2. connectionStatus[n] <=> Entries(n) # {}
    BY DEF SessionInv
<1>3. \A j, k \in Entries(n) : j = k
    BY <1>1 DEF SessionInv
<1>4. Entries(n) = {} \/ \E k : Entries(n) = {k}
    BY <1>3
<1>5. Cardinality(Entries(n)) <= 1
  <2>1. CASE Entries(n) = {}
    <3>1. Cardinality({}) = 0
        BY FS_EmptySet
    <3> QED
        BY <2>1, <3>1
  <2>2. ASSUME NEW k, Entries(n) = {k} PROVE Cardinality(Entries(n)) <= 1
    <3>1. Cardinality({k}) = 1
        BY FS_Singleton
    <3> QED
        BY <2>2, <3>1
  <2> QED
      BY <1>4, <2>1, <2>2
<1> QED
    BY <1>2, <1>5

\* While nobody opens a room, a user is busy exactly when one session names it, whatever
\* users ask for, and in whatever order.
THEOREM SessionsApart == Spec => []BusyInOneSession
BY InOneSession, SessionsHold, PTL
===============================================================================
