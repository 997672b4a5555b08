----------------------------- MODULE ServerProofs -----------------------------
(***************************************************************************)
(* Proofs about the threads of the server and how it closes, for any       *)
(* number of users and of threads: as long as nothing comes after x, the   *)
(* objects are deleted after the last thread that uses them has ended.     *)
(***************************************************************************)
EXTENDS Server, FiniteSetTheorems, WellFoundedInduction, TLAPS

-------------------------------------------------------------------------------
(* The inductive invariant. *)

Number == 1..MaxThreads

\* The types of what TypeOK leaves out.
MoreTypes ==
    /\ TypeOK
    /\ sender \in [Number -> Nat] /\ user \in [Number -> Nat]
    /\ {crossed, misled, late, crashed} \subseteq BOOLEAN
    /\ main = "waiting" =>
          \E k \in Number : joining \in {<<"dispatcher", k, "join dispatcher">>,
                                         <<"login", k, "join login">>}

AfterLogin == {"close socket", "delete login", "ended"}

AfterDispatcher == AfterLogin \cup {"flag", "delete dispatcher", "delete sockets", "join login"}

\* The main thread has waited for the thread of the object.
Past(w) ==
    \/ main \in (IF w = "login" THEN AfterLogin ELSE AfterDispatcher)
    \/ main = "waiting" /\ w = "dispatcher" /\ joining[1] = "login"

\* What is deleted is deleted in this order.
FreedInv ==
    /\ "dispatcher" \in freed => Past("dispatcher")
    /\ "login" \in freed => Past("login")
    /\ late => Closing

\* A thread that runs on an object is the one that its id tells, until close() has
\* waited for it; before x a flag is down only if no thread has been started.
ThreadInv ==
    ~late =>
        \A w \in Worker :
            /\ Active(w) \subseteq {threadId[w]}
            /\ ~Closing /\ ~status[w] => Active(w) = {}
            /\ Past(w) => threadId[w] = Zero
            /\ main = "waiting" /\ joining[1] = w => threadId[w] \in {joining[2], Zero}

\* The thread that looks for its sender has not gone past it.
LookInv ==
    ~late /\ ~crossed =>
        \A k \in Number :
            /\ at["dispatcher"][k] \in {"handle", "look", "next"} => sender[k] \in 1..users
            /\ at["dispatcher"][k] = "look" => users_iter <= sender[k]
            /\ at["dispatcher"][k] = "next" => users_iter < sender[k]
            /\ at["dispatcher"][k] = "act" => user[k] = sender[k]

IInv ==
    MoreTypes /\ FreedInv /\ ThreadInv /\ LookInv /\ DeletedAfterUse /\ MisledByOthers

-------------------------------------------------------------------------------
(* The operators of the model. *)

\* The order in which close() proceeds.
LEMMA AfterIs ==
    /\ After("delete listener") = "join dispatcher"
    /\ After("join dispatcher") = "flag"
    /\ After("flag") = "delete dispatcher"
    /\ After("delete dispatcher") = "delete sockets"
    /\ After("delete sockets") = "join login"
    /\ After("join login") = "close socket"
    /\ After("close socket") = "delete login"
    /\ After("delete login") = "ended"
<1>1. /\ Order[1] = "delete listener" /\ Order[2] = "join dispatcher" /\ Order[3] = "flag"
      /\ Order[4] = "delete dispatcher" /\ Order[5] = "delete sockets"
      /\ Order[6] = "join login" /\ Order[7] = "close socket" /\ Order[8] = "delete login"
      /\ Order[9] = "ended"
    BY DEF Order
<1>2. ASSUME NEW j \in 1..8
      PROVE  After(Order[j]) = Order[j + 1]
  <2>1. \A i \in 1..8 : i \in {1, 2, 3, 4, 5, 6, 7, 8}
      OBVIOUS
  <2>2. \A i \in 1..8 : Order[i] = Order[j] => i = j
      BY <1>1, <2>1, ZenonT(60)
  <2>3. (CHOOSE i \in 1..8 : Order[i] = Order[j]) = j
      BY <2>2
  <2> QED
      BY <2>3 DEF After
<1>3. /\ After(Order[1]) = Order[2] /\ After(Order[2]) = Order[3] /\ After(Order[3]) = Order[4]
      /\ After(Order[4]) = Order[5] /\ After(Order[5]) = Order[6] /\ After(Order[6]) = Order[7]
      /\ After(Order[7]) = Order[8] /\ After(Order[8]) = Order[9]
  <2>1. /\ After(Order[1]) = Order[1 + 1] /\ After(Order[2]) = Order[2 + 1]
        /\ After(Order[3]) = Order[3 + 1] /\ After(Order[4]) = Order[4 + 1]
        /\ After(Order[5]) = Order[5 + 1] /\ After(Order[6]) = Order[6 + 1]
        /\ After(Order[7]) = Order[7 + 1] /\ After(Order[8]) = Order[8 + 1]
    <3> HIDE DEF Order
    <3> QED
        BY <1>2
  <2> QED
      BY <2>1
<1> QED
    BY <1>1, <1>3

\* The places of the main thread.
Places == {"menu", "lcu", "tell", "waiting", "delete listener", "join dispatcher", "flag",
           "delete dispatcher", "delete sockets", "join login", "close socket",
           "delete login", "ended"}

LEMMA PlacesAre == Places = {"menu", "lcu", "tell", "waiting"} \cup {Order[i] : i \in 1..9}
<1>1. /\ Order[1] = "delete listener" /\ Order[2] = "join dispatcher" /\ Order[3] = "flag"
      /\ Order[4] = "delete dispatcher" /\ Order[5] = "delete sockets"
      /\ Order[6] = "join login" /\ Order[7] = "close socket" /\ Order[8] = "delete login"
      /\ Order[9] = "ended"
    BY DEF Order
<1>2. 1..9 = {1, 2, 3, 4, 5, 6, 7, 8, 9}
    OBVIOUS
<1>3. {Order[i] : i \in 1..9} = {Order[1], Order[2], Order[3], Order[4], Order[5], Order[6],
                                 Order[7], Order[8], Order[9]}
    BY <1>2
<1> QED
    BY <1>1, <1>3, ZenonT(60) DEF Places

\* There is a thread to start as long as one is idle.
LEMMA NextIsIdle ==
    ASSUME NEW w \in Worker, Idle(w) # {}
    PROVE  NextThread(w) \in Idle(w)
<1>1. Idle(w) \subseteq Nat
    BY Bounds DEF Idle
<1>2. \E k \in Idle(w) : \A j \in Idle(w) : ~(<<j, k>> \in OpToRel(<, Nat))
    BY <1>1, NatLessThanWellFounded, WFMin
<1>3. \E k \in Idle(w) : \A j \in Idle(w) : ~(j < k)
    BY <1>1, <1>2 DEF OpToRel
<1>4. \E k \in Idle(w) : \A j \in Idle(w) : k <= j
    BY <1>1, <1>3
<1> QED
    BY <1>4 DEF NextThread

\* The places of the worker threads.
Spots == {"none", "begin", "test", "listening", "handle", "look", "next", "act", "end",
          "ended"}

Map == [Worker -> [Number -> Spots]]

\* A thread goes to another place, the others stay.
LEMMA Goes ==
    ASSUME at \in Map, NEW w \in Worker, NEW k \in Number, NEW place \in Spots,
           To(w, k, place)
    PROVE  /\ at' \in Map /\ at'[w][k] = place
           /\ \A v \in Worker : \A j \in Number : v # w \/ j # k => at'[v][j] = at[v][j]
    BY DEF To, Map

\* What Start does: nothing, if the flag is up, or it begins a thread that was idle.
LEMMA Starts ==
    ASSUME TypeOK, NEW w \in Worker, NEW place \in Map, Start(w, place)
    PROVE  /\ at' \in Map /\ status' \in [Worker \cup {"server"} -> BOOLEAN]
           /\ threadId' \in [Worker -> Zero..Garbage]
           /\ status'[w] /\ \A o \in (Worker \cup {"server"}) \ {w} : status'[o] = status[o]
           /\ \/ status[w] /\ at' = place /\ threadId' = threadId
              \/ \E k \in Number :
                    /\ ~status[w] /\ at[w][k] = "none" /\ at'[w][k] = "begin"
                    /\ \A v \in Worker : \A j \in Number :
                          v # w \/ j # k => at'[v][j] = place[v][j]
                    /\ threadId'[w] = k
                    /\ \A v \in Worker \ {w} : threadId'[v] = threadId[v]
<1>1. status' = [status EXCEPT ![w] = TRUE] /\ status \in [Worker \cup {"server"} -> BOOLEAN]
    BY DEF Start, TypeOK
<1>2. CASE status[w]
    BY <1>1, <1>2 DEF Start, TypeOK
<1>3. CASE ~status[w]
  <2> DEFINE k == NextThread(w)
  <2>1. k \in Number /\ at[w][k] = "none"
    <3>1. k \in Idle(w)
        BY <1>3, NextIsIdle DEF Start
    <3> QED
        BY <3>1 DEF Idle, Number
  <2>2. at' = [place EXCEPT ![w][k] = "begin"] /\ threadId' = [threadId EXCEPT ![w] = k]
      BY <1>3 DEF Start
  <2> HIDE DEF k
  <2>3. k \in Zero..Garbage
      BY <2>1, Bounds DEF Number, Zero, Garbage
  <2>4. threadId \in [Worker -> Zero..Garbage]
      BY DEF TypeOK
  <2>5. threadId' \in [Worker -> Zero..Garbage] /\ threadId'[w] = k
        /\ \A v \in Worker \ {w} : threadId'[v] = threadId[v]
      BY <2>2, <2>3, <2>4
  <2>6. /\ at' \in Map /\ at'[w][k] = "begin"
        /\ \A v \in Worker : \A j \in Number : v # w \/ j # k => at'[v][j] = place[v][j]
      BY <2>1, <2>2 DEF Map, Spots
  <2> QED
      BY <1>1, <1>3, <2>1, <2>5, <2>6
<1> QED
    BY <1>2, <1>3

-------------------------------------------------------------------------------
(* Types. *)

\* TypeOK with the places written out.
LEMMA TypeIs ==
    TypeOK <=>
        /\ main \in Places /\ accept \in {"begin", "accepting", "ended"}
        /\ at \in Map /\ status \in [Worker \cup {"server"} -> BOOLEAN]
        /\ threadId \in [Worker -> Zero..Garbage]
        /\ listener \in [Worker -> {"NULL", "allocated", "deleted"}]
        /\ users \in 0..MaxUsers /\ users_iter \in 1..(users + 1) /\ broken \subseteq Kinds
    BY PlacesAre DEF TypeOK, Map, Spots, Number

LEMMA ZeroIsId == Zero \in Zero..Garbage
    BY Bounds DEF Zero, Garbage

LEMMA StillBelow ==
    ASSUME NEW m \in Nat, NEW n \in Nat, m <= n, NEW i \in 1..(m + 1)
    PROVE  i \in 1..(n + 1)
    OBVIOUS

LEMMA TypeNext ==
    ASSUME main' \in Places, accept' \in {"begin", "accepting", "ended"},
           at' \in Map, status' \in [Worker \cup {"server"} -> BOOLEAN],
           threadId' \in [Worker -> Zero..Garbage],
           listener' \in [Worker -> {"NULL", "allocated", "deleted"}],
           users' \in 0..MaxUsers, users_iter' \in 1..(users' + 1), broken' \subseteq Kinds
    PROVE  TypeOK'
    BY PlacesAre DEF TypeOK, Map, Spots, Number

\* What the shared pieces do to the types.
LEMMA DeleteType ==
    ASSUME TypeOK, NEW w \in Worker, Delete(w)
    PROVE  /\ listener' \in [Worker -> {"NULL", "allocated", "deleted"}]
           /\ broken' \in {broken, broken \cup {"double delete"}}
    BY DEF Delete, Breaks, TypeOK

LEMMA MoveIterType ==
    ASSUME TypeOK, NEW k, NEW position \in Nat \ {0}, MoveIter(k, position), users' = users
    PROVE  /\ users_iter' \in 1..(users' + 1)
           /\ broken' \in {broken, broken \cup {"iterator"}}
           /\ crossed \in BOOLEAN => crossed' \in BOOLEAN
           /\ position <= users + 1 => users_iter' = position
<1>1. users \in Nat /\ users_iter \in 1..(users + 1)
    BY Bounds DEF TypeOK
<1>2. users_iter' \in 1..(users' + 1) /\ (position <= users + 1 => users_iter' = position)
    BY <1>1 DEF MoveIter
<1>3. broken' \in {broken, broken \cup {"iterator"}}
    BY DEF MoveIter, Breaks
<1>4. crossed \in BOOLEAN => crossed' \in BOOLEAN
    BY DEF MoveIter
<1> QED
    BY <1>2, <1>3, <1>4

\* What a move of the iterator tells.
LEMMA MoveIterIs ==
    ASSUME NEW k, NEW position, MoveIter(k, position)
    PROVE  /\ "use after delete" \in broken' => "use after delete" \in broken
           /\ crossed => crossed'
           /\ ~crossed' => \A j \in Number \ {k} : ~Looking(j)
<1>1. broken' \in {broken, broken \cup {"iterator"}}
    BY DEF MoveIter, Breaks
<1>2. crossed' = (crossed \/ \E j \in Number : Looking(j) /\ j # k)
    BY DEF MoveIter, Number
<1> QED
    BY <1>1, <1>2

LEMMA UsersNat ==
    ASSUME TypeOK
    PROVE  users \in Nat /\ users_iter \in Nat
    BY Bounds DEF TypeOK

\* What is left of MoreTypes when the types are taken apart.
OtherTypes ==
    /\ sender \in [Number -> Nat] /\ user \in [Number -> Nat]
    /\ crossed \in BOOLEAN /\ misled \in BOOLEAN /\ late \in BOOLEAN /\ crashed \in BOOLEAN

JoiningType ==
    main = "waiting" =>
        \E k \in Number : joining \in {<<"dispatcher", k, "join dispatcher">>,
                                       <<"login", k, "join login">>}

LEMMA MoreTypesAre == MoreTypes <=> TypeOK /\ OtherTypes /\ JoiningType
    BY DEF MoreTypes, OtherTypes, JoiningType

LEMMA MoreTypesNext ==
    ASSUME TypeOK', OtherTypes', JoiningType'
    PROVE  MoreTypes'
    BY DEF MoreTypes, OtherTypes, JoiningType

\* A step of a worker thread keeps the types.
LEMMA WorkType ==
    ASSUME MoreTypes, NEW w \in Worker, NEW k \in Number, Work(w, k), UNCHANGED crashed
    PROVE  MoreTypes'
<1>1. TypeOK /\ OtherTypes /\ JoiningType /\ at \in Map
    BY MoreTypesAre, TypeIs
<1>2. JoiningType'
    BY <1>1
    DEF Work, Begin, Test, Listened, End, HandleLogin, LookFirst, Look, LookNext, Act, joinVars,
        JoiningType
<1>3. CASE Begin(w, k)
  <2>1. at' \in Map
      BY <1>1, <1>3, Goes DEF Begin, Spots
  <2>2. status' \in [Worker \cup {"server"} -> BOOLEAN] /\ broken' \subseteq Kinds
      BY <1>1, <1>3 DEF Begin, TypeOK, Breaks, Use, Kinds
  <2>3. late' \in BOOLEAN
      BY <1>1, <1>3 DEF Begin, OtherTypes
  <2>4. TypeOK'
      BY <1>1, <1>3, <2>1, <2>2, TypeIs, TypeNext DEF Begin, joinVars, iterVars
  <2>5. OtherTypes'
      BY <1>1, <1>3, <2>3 DEF Begin, OtherTypes, iterVars, lookVars
  <2> QED
      BY <1>2, <2>4, <2>5, MoreTypesNext
<1>4. CASE Test(w, k)
  <2>1. at' \in Map
      BY <1>1, <1>4, Goes DEF Test, Spots
  <2>2. /\ listener' \in [Worker -> {"NULL", "allocated", "deleted"}]
        /\ broken' \subseteq Kinds
      BY <1>1, <1>4 DEF Test, TypeOK, Breaks, Use, Kinds
  <2>3. TypeOK'
      BY <1>1, <1>4, <2>1, <2>2, TypeIs, TypeNext DEF Test, joinVars, iterVars
  <2>4. OtherTypes'
      BY <1>1, <1>4 DEF Test, OtherTypes, iterVars, lookVars
  <2> QED
      BY <1>2, <2>3, <2>4, MoreTypesNext
<1>5. CASE Listened(w, k)
  <2>1. at' \in Map
      BY <1>1, <1>5, Goes DEF Listened, Spots
  <2>2. Delete(w) /\ broken' \subseteq Kinds
        /\ listener' \in [Worker -> {"NULL", "allocated", "deleted"}]
      BY <1>1, <1>5, DeleteType DEF Listened, TypeOK, Kinds
  <2>3. TypeOK'
      BY <1>1, <1>5, <2>1, <2>2, TypeIs, TypeNext DEF Listened, joinVars, iterVars
  <2>4. sender' \in [Number -> Nat]
      BY <1>1, <1>5 DEF Listened, OtherTypes
  <2>5. OtherTypes'
      BY <1>1, <1>5, <2>4 DEF Listened, OtherTypes, iterVars
  <2> QED
      BY <1>2, <2>3, <2>5, MoreTypesNext
<1>6. CASE End(w, k)
  <2>1. at' \in Map
      BY <1>1, <1>6, Goes DEF End, Spots
  <2>2. threadId' \in [Worker -> Zero..Garbage] /\ broken' \subseteq Kinds
    <3>1. Zero \in Zero..Garbage
        BY ZeroIsId
    <3>2. threadId \in [Worker -> Zero..Garbage]
        BY <1>1 DEF TypeOK
    <3>3. threadId' \in [Worker -> Zero..Garbage]
        BY <1>6, <3>1, <3>2 DEF End
    <3> QED
        BY <1>1, <1>6, <3>3 DEF End, TypeOK, Breaks, Use, Kinds
  <2>3. TypeOK'
      BY <1>1, <1>6, <2>1, <2>2, TypeIs, TypeNext DEF End, iterVars
  <2>4. OtherTypes'
      BY <1>1, <1>6 DEF End, OtherTypes, iterVars, lookVars
  <2> QED
      BY <1>2, <2>3, <2>4, MoreTypesNext
<1>7. CASE w = "login" /\ HandleLogin(k)
  <2>1. /\ at' \in Map /\ status' \in [Worker \cup {"server"} -> BOOLEAN]
        /\ threadId' \in [Worker -> Zero..Garbage] /\ users' \in {users, users + 1}
        /\ users' <= MaxUsers
    <3>1. CASE To("login", k, "test") /\ UNCHANGED <<users, status, threadId>>
      <4>1. at' \in Map
          BY <1>1, <3>1, Goes DEF Spots, Worker
      <4> QED
          BY <1>1, <3>1, <4>1, Bounds DEF TypeOK
    <3>2. CASE /\ users < MaxUsers /\ users' = users + 1
               /\ Start("dispatcher", [at EXCEPT !["login"][k] = "test"])
      <4> DEFINE place == [at EXCEPT !["login"][k] = "test"]
      <4>1. place \in Map
          BY <1>1 DEF Map, Spots, Worker
      <4> HIDE DEF place
      <4>2. /\ at' \in Map /\ status' \in [Worker \cup {"server"} -> BOOLEAN]
            /\ threadId' \in [Worker -> Zero..Garbage]
          BY <1>1, <3>2, <4>1, Starts DEF place, Worker
      <4> QED
          BY <1>1, <3>2, <4>2, Bounds DEF TypeOK
    <3> QED
        BY <1>7, <3>1, <3>2 DEF HandleLogin
  <2>2. users' \in 0..MaxUsers /\ users_iter' \in 1..(users' + 1)
    <3>1. users \in Nat /\ MaxUsers \in Nat /\ users_iter \in 1..(users + 1)
        BY <1>1, Bounds DEF TypeOK
    <3>2. users_iter' = users_iter
        BY <1>7 DEF HandleLogin, iterVars
    <3>3. users' \in Nat /\ users <= users'
        BY <2>1, <3>1
    <3> QED
      <4>1. users' <= MaxUsers
          BY <2>1
      <4>2. users_iter' \in 1..(users' + 1)
          BY <3>1, <3>2, <3>3, StillBelow
      <4>3. users' \in 0..MaxUsers
          BY <3>1, <3>3, <4>1
      <4> QED
          BY <4>2, <4>3
  <2>3. broken' \subseteq Kinds /\ late' \in BOOLEAN
      BY <1>1, <1>7 DEF HandleLogin, TypeOK, Breaks, Use, Kinds, OtherTypes
  <2>4. TypeOK'
      BY <1>1, <1>7, <2>1, <2>2, <2>3, TypeIs, TypeNext DEF HandleLogin
  <2>5. OtherTypes'
      BY <1>1, <1>7, <2>3 DEF HandleLogin, OtherTypes, iterVars, lookVars
  <2> QED
      BY <1>2, <2>4, <2>5, MoreTypesNext
<1>8. CASE w = "dispatcher" /\ (LookFirst(k) \/ Look(k) \/ LookNext(k))
  <2>1. at' \in Map
      BY <1>1, <1>8, Goes DEF LookFirst, Look, LookNext, Spots
  <2>2. users_iter' \in 1..(users' + 1) /\ broken' \subseteq Kinds /\ crossed' \in BOOLEAN
    <3>1. CASE Look(k)
        BY <1>1, <3>1 DEF Look, iterVars, TypeOK, OtherTypes
    <3>2. CASE LookFirst(k)
      <4>1. MoveIter(k, 1) /\ users' = users
          BY <3>2 DEF LookFirst
      <4>2. /\ users_iter' \in 1..(users' + 1)
            /\ broken' \in {broken, broken \cup {"iterator"}} /\ crossed' \in BOOLEAN
        <5>1. 1 \in Nat \ {0}
            OBVIOUS
        <5> QED
            BY <1>1, <4>1, <5>1, MoveIterType DEF OtherTypes
      <4> QED
          BY <1>1, <4>2 DEF TypeOK, Kinds
    <3>3. CASE LookNext(k)
      <4>1. users_iter + 1 \in Nat \ {0}
          BY <1>1, Bounds DEF TypeOK
      <4> QED
          BY <1>1, <3>3, <4>1, MoveIterType DEF LookNext, TypeOK, Kinds, OtherTypes
    <3> QED
        BY <1>8, <3>1, <3>2, <3>3
  <2>3. TypeOK'
      BY <1>1, <1>8, <2>1, <2>2, TypeIs, TypeNext DEF LookFirst, Look, LookNext, joinVars
  <2>4. user' \in [Number -> Nat]
    <3>1. users_iter \in Nat
        BY <1>1, Bounds DEF TypeOK
    <3> QED
        BY <1>1, <1>8, <3>1 DEF LookFirst, Look, LookNext, OtherTypes, lookVars
  <2>5. OtherTypes'
      BY <1>1, <1>8, <2>2, <2>4 DEF LookFirst, Look, LookNext, OtherTypes, lookVars
  <2> QED
      BY <1>2, <2>3, <2>5, MoreTypesNext
<1>9. CASE w = "dispatcher" /\ Act(k)
  <2> DEFINE u == user[k]
  <2>1. at' \in Map
      BY <1>1, <1>9, Goes DEF Act, Spots
  <2>2. /\ users \in Nat /\ users <= MaxUsers /\ users_iter \in 1..(users + 1)
        /\ MaxUsers \in Nat /\ u \in Nat
      BY <1>1, Bounds DEF TypeOK, OtherTypes
  <2>3. users' \in 0..MaxUsers /\ users_iter' \in 1..(users' + 1) /\ broken' \subseteq Kinds
    <3>1. CASE UNCHANGED <<users, users_iter, broken>>
        BY <1>1, <3>1 DEF TypeOK
    <3>2. CASE /\ u \in 1..users /\ users' = users - 1
               /\ users_iter' = IF users_iter > u THEN users_iter - 1 ELSE users_iter
               /\ broken' \subseteq broken \cup {"iterator"}
      <4>1. users' \in 0..MaxUsers
          BY <2>2, <3>2
      <4>2. users_iter' \in 1..(users' + 1)
          BY <2>2, <3>2
      <4> QED
          BY <1>1, <3>2, <4>1, <4>2 DEF TypeOK, Kinds
    <3> QED
        BY <1>9, <3>1, <3>2 DEF Act, Breaks
  <2>4. sender' \in [Number -> Nat] /\ user' \in [Number -> Nat]
    <3> DEFINE Moved(n) == IF n > u THEN n - 1 ELSE IF n = u THEN 0 ELSE n
    <3>1. \A n \in Nat : Moved(n) \in Nat
        BY <2>2
    <3>2. CASE sender' = [sender EXCEPT ![k] = 0] /\ user' = [user EXCEPT ![k] = 0]
        BY <1>1, <3>2 DEF OtherTypes
    <3>3. CASE /\ sender' = [j \in Number |-> IF j = k THEN 0 ELSE Moved(sender[j])]
               /\ user' = [j \in Number |-> IF j = k THEN 0 ELSE Moved(user[j])]
      <4> HIDE DEF Moved
      <4> QED
          BY <1>1, <3>1, <3>3 DEF OtherTypes
    <3> QED
        BY <1>9, <3>2, <3>3 DEF Act, Number
  <2>5. TypeOK'
      BY <1>1, <1>9, <2>1, <2>3, TypeIs, TypeNext DEF Act, joinVars
  <2>6. misled' \in BOOLEAN
      BY <1>1, <1>9 DEF Act, OtherTypes
  <2>7. OtherTypes'
      BY <1>1, <1>9, <2>4, <2>6 DEF Act, OtherTypes
  <2> QED
      BY <1>2, <2>5, <2>7, MoreTypesNext
<1> QED
    BY <1>3, <1>4, <1>5, <1>6, <1>7, <1>8, <1>9 DEF Work

\* A step of the accept thread keeps the types.
LEMMA AcceptType ==
    ASSUME MoreTypes, Accept
    PROVE  MoreTypes'
<1>1. TypeOK /\ OtherTypes /\ JoiningType /\ at \in Map
    BY MoreTypesAre, TypeIs
<1>2. JoiningType'
    BY <1>1 DEF Accept, AcceptBegins, addPeer, AcceptFails, joinVars, JoiningType
<1>3. OtherTypes'
    BY <1>1
    DEF Accept, AcceptBegins, addPeer, AcceptFails, OtherTypes, iterVars, lookVars
<1>4. /\ at' \in Map /\ status' \in [Worker \cup {"server"} -> BOOLEAN]
      /\ threadId' \in [Worker -> Zero..Garbage]
  <2>1. CASE addPeer
      BY <1>1, <2>1, Starts DEF addPeer, Worker
  <2>2. CASE AcceptBegins \/ AcceptFails
      BY <1>1, <2>2 DEF AcceptBegins, AcceptFails, joinVars, TypeOK
  <2> QED
      BY <2>1, <2>2 DEF Accept
<1>5. accept' \in {"begin", "accepting", "ended"} /\ broken' \subseteq Kinds
    BY <1>1 DEF Accept, AcceptBegins, addPeer, AcceptFails, TypeOK, Breaks, Use, Kinds
<1>6. UNCHANGED <<main, listener, users, users_iter>>
    BY DEF Accept, AcceptBegins, addPeer, AcceptFails, iterVars
<1> QED
    BY <1>1, <1>2, <1>3, <1>4, <1>5, <1>6, TypeIs, TypeNext, MoreTypesNext

\* A step of the main thread keeps the types.
LEMMA MainType ==
    ASSUME MoreTypes, ShutDown \/ Command
    PROVE  MoreTypes'
<1>1. TypeOK /\ OtherTypes /\ JoiningType /\ at \in Map
    BY MoreTypesAre, TypeIs
<1>2. UNCHANGED <<accept, users, sender, user, misled, late, crashed>>
    BY DEF ShutDown, Shut, Command, PrintUsers, NextUser, Close, DeleteListener, Join, Joined,
           ClearFlag, DeleteObject, CloseSocket, lookVars
<1>3. CASE PrintUsers \/ (main \in {"lcu", "tell"} /\ NextUser) \/ Close
  <2>1. users_iter' \in 1..(users' + 1) /\ broken' \subseteq Kinds /\ crossed' \in BOOLEAN
    <3>1. CASE \E position \in {1, users_iter + 1} : MoveIter(0, position)
      <4>1. 1 \in Nat \ {0} /\ users_iter + 1 \in Nat \ {0}
          BY <1>1, Bounds DEF TypeOK
      <4>2. /\ users_iter' \in 1..(users' + 1) /\ crossed' \in BOOLEAN
            /\ broken' \in {broken, broken \cup {"iterator"}}
          BY <1>1, <1>2, <3>1, <4>1, MoveIterType DEF OtherTypes
      <4> QED
          BY <1>1, <4>2 DEF TypeOK, Kinds
    <3>2. CASE UNCHANGED <<iterVars, broken>>
        BY <1>1, <1>2, <3>2 DEF iterVars, TypeOK, OtherTypes
    <3> QED
        BY <1>3, <3>1, <3>2 DEF PrintUsers, NextUser, Close
  <2>2. /\ main' \in Places \ {"waiting"} /\ UNCHANGED <<threadId, at, listener>>
        /\ status' \in [Worker \cup {"server"} -> BOOLEAN]
      BY <1>1, <1>3
      DEF PrintUsers, NextUser, Close, joinVars, TypeOK, Places, Worker
  <2> QED
      BY <1>1, <1>2, <2>1, <2>2, TypeIs, TypeNext, MoreTypesNext DEF OtherTypes, JoiningType
<1>4. CASE \/ DeleteListener("dispatcher", "delete listener")
           \/ DeleteListener("login", "delete sockets")
  <2>1. main' \in Places \ {"waiting"}
      BY <1>4, AfterIs DEF DeleteListener, Places
  <2>2. /\ listener' \in [Worker -> {"NULL", "allocated", "deleted"}]
        /\ broken' \subseteq Kinds
      BY <1>1, <1>4, DeleteType DEF DeleteListener, TypeOK, Kinds, Worker
  <2>3. UNCHANGED <<at, status, threadId, users_iter, crossed>>
      BY <1>4 DEF DeleteListener, joinVars, iterVars
  <2> QED
      BY <1>1, <1>2, <2>1, <2>2, <2>3, TypeIs, TypeNext, MoreTypesNext
      DEF OtherTypes, JoiningType
<1>5. ASSUME NEW w \in Worker, NEW place,
             \/ w = "dispatcher" /\ place = "join dispatcher"
             \/ w = "login" /\ place = "join login",
             Join(w, place)
      PROVE  MoreTypes'
  <2>1. main' \in Places /\ broken' \subseteq Kinds
      BY <1>1, <1>5, AfterIs, ZenonT(60) DEF Join, Places, TypeOK, Breaks, Kinds
  <2>2. JoiningType'
      BY <1>5, AfterIs DEF Join, JoiningType, Number
  <2>3. threadId' \in [Worker -> Zero..Garbage]
    <3>1. Zero \in Zero..Garbage
        BY ZeroIsId
    <3>2. threadId \in [Worker -> Zero..Garbage]
        BY <1>1 DEF TypeOK
    <3> QED
        BY <1>5, <3>1, <3>2 DEF Join
  <2>4. UNCHANGED <<at, status, listener, users_iter, crossed>>
      BY <1>5 DEF Join, iterVars
  <2> QED
      BY <1>1, <1>2, <2>1, <2>2, <2>3, <2>4, TypeIs, TypeNext, MoreTypesNext DEF OtherTypes
<1>6. CASE Joined
  <2>1. main' \in Places \ {"waiting"}
    <3>1. joining[3] \in {"join dispatcher", "join login"}
      <4>1. PICK k \in Number : joining \in {<<"dispatcher", k, "join dispatcher">>,
                                            <<"login", k, "join login">>}
          BY <1>1, <1>6 DEF Joined, JoiningType
      <4>2. CASE joining = <<"dispatcher", k, "join dispatcher">>
          BY <4>2
      <4>3. CASE joining = <<"login", k, "join login">>
          BY <4>3
      <4> QED
          BY <4>1, <4>2, <4>3
    <3> QED
        BY <1>6, <3>1, AfterIs DEF Joined, Places
  <2>2. threadId' \in [Worker -> Zero..Garbage]
    <3>1. Zero \in Zero..Garbage
        BY ZeroIsId
    <3>2. threadId \in [Worker -> Zero..Garbage]
        BY <1>1 DEF TypeOK
    <3> QED
        BY <1>6, <3>1, <3>2 DEF Joined
  <2>3. UNCHANGED <<at, status, listener, users_iter, crossed, broken>>
      BY <1>6 DEF Joined, iterVars
  <2> QED
      BY <1>1, <1>2, <2>1, <2>2, <2>3, TypeIs, TypeNext, MoreTypesNext
      DEF OtherTypes, JoiningType
<1>7. CASE ClearFlag \/ CloseSocket
  <2>1. main' \in Places \ {"waiting"}
      BY <1>7, AfterIs DEF ClearFlag, CloseSocket, Places
  <2>2. status' \in [Worker \cup {"server"} -> BOOLEAN] /\ broken' \subseteq Kinds
      BY <1>1, <1>7 DEF ClearFlag, CloseSocket, TypeOK, Breaks, Kinds, Worker
  <2>3. UNCHANGED <<at, threadId, listener, users_iter, crossed>>
      BY <1>7 DEF ClearFlag, CloseSocket, joinVars, iterVars
  <2> QED
      BY <1>1, <1>2, <2>1, <2>2, <2>3, TypeIs, TypeNext, MoreTypesNext
      DEF OtherTypes, JoiningType
<1>8. CASE \/ DeleteObject("dispatcher", "delete dispatcher")
           \/ DeleteObject("login", "delete login")
  <2>1. main' \in Places \ {"waiting"}
      BY <1>8, AfterIs DEF DeleteObject, Places
  <2>2. at' \in Map
    <3>1. ASSUME NEW w \in Worker, threadId[w] \in Number, To(w, threadId[w], "ended")
          PROVE  at' \in Map
        BY <1>1, <3>1, Goes DEF Spots
    <3> QED
        BY <1>1, <1>8, <3>1 DEF DeleteObject, Worker, Number
  <2>3. broken' \subseteq Kinds
      BY <1>1, <1>8 DEF DeleteObject, TypeOK, Breaks, Kinds
  <2>4. UNCHANGED <<status, threadId, listener, users_iter, crossed>>
      BY <1>8 DEF DeleteObject, joinVars, iterVars
  <2> QED
      BY <1>1, <1>2, <2>1, <2>2, <2>3, <2>4, TypeIs, TypeNext, MoreTypesNext
      DEF OtherTypes, JoiningType
<1>9. CASE Join("dispatcher", "join dispatcher") \/ Join("login", "join login")
    BY <1>5, <1>9 DEF Worker
<1> QED
    BY <1>3, <1>4, <1>6, <1>7, <1>8, <1>9 DEF ShutDown, Shut, Command

\* Every step keeps the types.
LEMMA TypeStep ==
    ASSUME MoreTypes, [Next]_vars
    PROVE  MoreTypes'
<1>1. CASE UNCHANGED vars
    BY <1>1
    DEF MoreTypes, TypeOK, vars, joinVars, iterVars, lookVars
<1>2. CASE Die
    BY <1>2 DEF Die, MoreTypes, TypeOK, joinVars, iterVars, lookVars
<1>3. ASSUME NEW w \in Worker, NEW k \in Number, WorkerThread(w, k)
      PROVE  MoreTypes'
    BY <1>3, WorkType DEF WorkerThread
<1> QED
    BY <1>1, <1>2, <1>3, AcceptType, MainType DEF Next, Number

-------------------------------------------------------------------------------
(* The order of close(). *)

\* The main thread begins to wait, or finds no thread to wait for.
LEMMA JoinGoes ==
    ASSUME NEW w \in Worker, threadId \in [Worker -> Zero..Garbage], NEW place, Join(w, place)
    PROVE  /\ main = place /\ UNCHANGED <<freed, at>>
           /\ \/ /\ main' = "waiting" /\ joining' = <<w, threadId[w], place>>
                 /\ joining'[1] = w /\ joining'[2] = threadId[w] /\ threadId' = threadId
              \/ /\ main' = After(place) /\ threadId[w] \notin Number
                 /\ threadId' = [threadId EXCEPT ![w] = Zero]
<1>1. CASE threadId[w] \in 1..MaxThreads
  <2>1. joining' = <<w, threadId[w], place>>
      BY <1>1 DEF Join
  <2>2. joining'[1] = w /\ joining'[2] = threadId[w]
      BY <2>1
  <2> QED
      BY <1>1, <2>1, <2>2 DEF Join
<1>2. CASE threadId[w] \notin 1..MaxThreads
    BY <1>2 DEF Join, Number
<1> QED
    BY <1>1, <1>2

\* What a step of the main thread does to the place it is at.
LEMMA MainGoes ==
    ASSUME MoreTypes, ShutDown \/ Command
    PROVE  /\ late' = late
           /\ ~Closing' => ~Closing /\ status' = status
           /\ Closing => Closing'
           /\ \A w \in Worker :
                 /\ Past(w) => Past(w)'
                 /\ Past(w)' => Past(w) \/ threadId'[w] = Zero
                 /\ w \in freed' => w \in freed \/ Past(w)'
<1>1. late' = late
    BY DEF ShutDown, Shut, Command, PrintUsers, NextUser, Close, DeleteListener, Join, Joined,
           ClearFlag, DeleteObject, CloseSocket
<1>2. CASE PrintUsers \/ (main = "lcu" /\ NextUser)
    BY <1>1, <1>2 DEF PrintUsers, NextUser, Closing, Past, AfterDispatcher, AfterLogin
<1>3. CASE Close \/ (main = "tell" /\ NextUser)
    BY <1>1, <1>3 DEF Close, NextUser, Closing, Past, AfterDispatcher, AfterLogin, joinVars
<1>4. CASE DeleteListener("dispatcher", "delete listener")
  <2>1. main = "delete listener" /\ main' = "join dispatcher" /\ freed' = freed
      BY <1>4, AfterIs DEF DeleteListener
  <2> QED
      BY <1>1, <2>1 DEF Closing, Past, AfterDispatcher, AfterLogin
<1>5. CASE DeleteListener("login", "delete sockets")
  <2>1. main = "delete sockets" /\ main' = "join login" /\ freed' = freed
      BY <1>5, AfterIs DEF DeleteListener
  <2> QED
      BY <1>1, <2>1 DEF Closing, Past, AfterDispatcher, AfterLogin
<1>6. CASE ClearFlag
  <2>1. main = "flag" /\ main' = "delete dispatcher" /\ freed' = freed
      BY <1>6, AfterIs DEF ClearFlag
  <2> QED
      BY <1>1, <2>1 DEF Closing, Past, AfterDispatcher, AfterLogin
<1>7. CASE CloseSocket
  <2>1. main = "close socket" /\ main' = "delete login" /\ freed' = freed \cup {"listening socket"}
      BY <1>7, AfterIs DEF CloseSocket
  <2> QED
      BY <1>1, <2>1 DEF Closing, Past, AfterDispatcher, AfterLogin, Worker
<1>8. CASE DeleteObject("dispatcher", "delete dispatcher")
  <2>1. /\ main = "delete dispatcher" /\ main' = "delete sockets"
        /\ freed' = freed \cup {"dispatcher"}
      BY <1>8, AfterIs DEF DeleteObject
  <2> QED
      BY <1>1, <2>1 DEF Closing, Past, AfterDispatcher, AfterLogin, Worker
<1>9. CASE DeleteObject("login", "delete login")
  <2>1. main = "delete login" /\ main' = "ended" /\ freed' = freed \cup {"login"}
      BY <1>9, AfterIs DEF DeleteObject
  <2> QED
      BY <1>1, <2>1 DEF Closing, Past, AfterDispatcher, AfterLogin, Worker
<1>10. threadId \in [Worker -> Zero..Garbage]
    BY DEF MoreTypes, TypeOK
<1>11. CASE Join("dispatcher", "join dispatcher")
  <2>1. /\ main = "join dispatcher" /\ freed' = freed
        /\ \/ main' = "waiting" /\ joining'[1] = "dispatcher"
           \/ main' = "flag" /\ threadId'["dispatcher"] = Zero
      BY <1>10, <1>11, AfterIs, JoinGoes DEF Worker
  <2> QED
      BY <1>1, <2>1 DEF Closing, Past, AfterDispatcher, AfterLogin, Worker
<1>12. CASE Join("login", "join login")
  <2>1. /\ main = "join login" /\ freed' = freed
        /\ \/ main' = "waiting" /\ joining'[1] = "login"
           \/ main' = "close socket" /\ threadId'["login"] = Zero
      BY <1>10, <1>12, AfterIs, JoinGoes DEF Worker
  <2> QED
      BY <1>1, <2>1 DEF Closing, Past, AfterDispatcher, AfterLogin, Worker
<1>13. CASE Joined
  <2>1. main = "waiting" /\ freed' = freed
      BY <1>13 DEF Joined
  <2>2. PICK k \in Number : joining \in {<<"dispatcher", k, "join dispatcher">>,
                                         <<"login", k, "join login">>}
      BY <2>1 DEF MoreTypes
  <2>3. CASE joining = <<"dispatcher", k, "join dispatcher">>
    <3>1. joining[1] = "dispatcher" /\ joining[3] = "join dispatcher"
        BY <2>3
    <3>2. main' = "flag" /\ threadId'["dispatcher"] = Zero
        BY <1>10, <1>13, <3>1, AfterIs DEF Joined, Worker
    <3> QED
        BY <1>1, <2>1, <3>1, <3>2 DEF Closing, Past, AfterDispatcher, AfterLogin, Worker
  <2>4. CASE joining = <<"login", k, "join login">>
    <3>1. joining[1] = "login" /\ joining[3] = "join login"
        BY <2>4
    <3>2. main' = "close socket" /\ threadId'["login"] = Zero
        BY <1>10, <1>13, <3>1, AfterIs DEF Joined, Worker
    <3> QED
        BY <1>1, <2>1, <3>1, <3>2 DEF Closing, Past, AfterDispatcher, AfterLogin, Worker
  <2> QED
      BY <2>2, <2>3, <2>4
<1> QED
    BY <1>2, <1>3, <1>4, <1>5, <1>6, <1>7, <1>8, <1>9, <1>11, <1>12, <1>13
    DEF ShutDown, Shut, Command

\* A thread begins, a connection is accepted or a request is handled only before x or late.
LEMMA OthersGo ==
    ASSUME NEW w \in Worker, NEW k \in Number, Accept \/ Work(w, k)
    PROVE  /\ UNCHANGED <<main, joining, freed>>
           /\ late' => late \/ Closing
<1>1. CASE Accept
  <2>1. CASE AcceptBegins
      BY <2>1 DEF AcceptBegins, joinVars
  <2>2. CASE addPeer
      BY <2>2 DEF addPeer
  <2>3. CASE AcceptFails
      BY <2>3 DEF AcceptFails, joinVars
  <2> QED
      BY <1>1, <2>1, <2>2, <2>3 DEF Accept
<1>2. CASE Begin(w, k) \/ HandleLogin(k)
    BY <1>2 DEF Begin, HandleLogin, joinVars
<1>3. CASE Test(w, k) \/ Listened(w, k) \/ End(w, k)
    BY <1>3 DEF Test, Listened, End, joinVars
<1>4. CASE LookFirst(k) \/ Look(k) \/ LookNext(k) \/ Act(k)
    BY <1>4 DEF LookFirst, Look, LookNext, Act, joinVars
<1> QED
    BY <1>1, <1>2, <1>3, <1>4 DEF Work

LEMMA FreedStep ==
    ASSUME MoreTypes, FreedInv, [Next]_vars
    PROVE  FreedInv'
<1>1. CASE UNCHANGED <<main, joining, freed>> /\ (late' => late \/ Closing)
    BY <1>1 DEF FreedInv, Past, Closing
<1>2. CASE ShutDown \/ Command
    BY <1>2, MainGoes DEF FreedInv, Worker
<1>3. CASE Accept
  <2>1. 1 \in Number
      BY Bounds DEF Number
  <2> QED
      BY <1>1, <1>3, <2>1, OthersGo DEF Worker
<1>4. ASSUME NEW w \in Worker, NEW k \in Number, WorkerThread(w, k)
      PROVE  FreedInv'
    BY <1>1, <1>4, OthersGo DEF WorkerThread
<1> QED
    BY <1>1, <1>2, <1>3, <1>4 DEF Next, Die, vars, joinVars, Number

-------------------------------------------------------------------------------
(* One thread on each object. *)

\* A thread that goes on stays among the active ones, one that ends leaves them.
LEMMA ActiveGoes ==
    ASSUME at \in Map, NEW w \in Worker, NEW k \in Number, NEW place \in Spots \ {"none"},
           To(w, k, place)
    PROVE  /\ k \in Active(w) => Active(w)' \subseteq Active(w)
           /\ place = "ended" => Active(w)' \subseteq Active(w) \ {k}
           /\ \A v \in Worker \ {w} : Active(v)' = Active(v)
    BY Goes DEF Active, Number

\* A step of the main thread.
LEMMA ThreadMain ==
    ASSUME MoreTypes, ThreadInv, ShutDown \/ Command
    PROVE  ThreadInv'
<1> SUFFICES ASSUME ~late', NEW w \in Worker
             PROVE  /\ Active(w)' \subseteq {threadId'[w]}
                    /\ ~Closing' /\ ~status'[w] => Active(w)' = {}
                    /\ Past(w)' => threadId'[w] = Zero
                    /\ main' = "waiting" /\ joining'[1] = w =>
                          threadId'[w] \in {joining'[2], Zero}
    BY DEF ThreadInv
<1>1. /\ Active(w) \subseteq {threadId[w]} /\ Active(w) \subseteq Number
      /\ ~Closing /\ ~status[w] => Active(w) = {}
      /\ Past(w) => threadId[w] = Zero
      /\ main = "waiting" /\ joining[1] = w => threadId[w] \in {joining[2], Zero}
      /\ at \in Map /\ threadId \in [Worker -> Zero..Garbage] /\ Zero \notin Number
  <2>1. ~late
      BY MainGoes
  <2>2. Zero \notin Number
      BY DEF Zero, Number
  <2>3. at \in Map /\ threadId \in [Worker -> Zero..Garbage]
      BY MoreTypesAre, TypeIs
  <2> QED
      BY <2>1, <2>2, <2>3 DEF ThreadInv, Active, Number
<1>2. /\ ~Closing' => ~Closing /\ status' = status
      /\ Past(w)' => Past(w) \/ threadId'[w] = Zero
    BY MainGoes
<1>3. CASE threadId' = threadId /\ Active(w)' \subseteq Active(w) /\ main' # "waiting"
    BY <1>1, <1>2, <1>3
<1>4. CASE \/ PrintUsers \/ (main \in {"lcu", "tell"} /\ NextUser) \/ Close
           \/ DeleteListener("dispatcher", "delete listener")
           \/ DeleteListener("login", "delete sockets")
           \/ ClearFlag \/ CloseSocket
  <2>1. at' = at /\ threadId' = threadId /\ main' # "waiting"
      BY <1>4, AfterIs
      DEF PrintUsers, NextUser, Close, DeleteListener, ClearFlag, CloseSocket, joinVars
  <2> QED
      BY <1>3, <2>1 DEF Active
<1>5. CASE \/ DeleteObject("dispatcher", "delete dispatcher")
           \/ DeleteObject("login", "delete login")
  <2>1. threadId' = threadId /\ main' # "waiting"
      BY <1>5, AfterIs DEF DeleteObject, joinVars
  <2>2. \/ at' = at
        \/ \E v \in Worker : threadId[v] \in Number /\ To(v, threadId[v], "ended")
      BY <1>5 DEF DeleteObject, Worker, Number
  <2>3. Active(w)' \subseteq Active(w)
    <3>1. CASE at' = at
        BY <3>1 DEF Active
    <3>2. ASSUME NEW v \in Worker, threadId[v] \in Number, To(v, threadId[v], "ended")
          PROVE  Active(w)' \subseteq Active(w)
        BY <1>1, <3>2, ActiveGoes DEF Spots
    <3> QED
        BY <2>2, <3>1, <3>2
  <2> QED
      BY <1>3, <2>1, <2>3
<1>6. ASSUME NEW v \in Worker, NEW place \in {"join dispatcher", "join login"}, Join(v, place)
      PROVE  /\ Active(w)' \subseteq {threadId'[w]}
             /\ ~Closing' /\ ~status'[w] => Active(w)' = {}
             /\ Past(w)' => threadId'[w] = Zero
             /\ main' = "waiting" /\ joining'[1] = w => threadId'[w] \in {joining'[2], Zero}
  <2>1. Active(w)' = Active(w) /\ Closing'
    <3>1. After(place) \notin {"menu", "lcu", "waiting"}
        BY AfterIs
    <3>2. at' = at /\ main' \in {"waiting", After(place)}
        BY <1>1, <1>6, JoinGoes
    <3>3. main' \notin {"menu", "lcu"}
        BY <3>1, <3>2
    <3> QED
        BY <3>2, <3>3 DEF Active, Closing
  <2>2. CASE /\ main' = "waiting" /\ joining'[1] = v /\ joining'[2] = threadId[v]
             /\ threadId' = threadId
      BY <1>1, <1>2, <2>1, <2>2
  <2>3. CASE /\ main' = After(place) /\ threadId[v] \notin Number
             /\ threadId' = [threadId EXCEPT ![v] = Zero]
    <3>1. main' # "waiting"
        BY <1>6, <2>3, AfterIs
    <3>2. CASE v = w
        BY <1>1, <1>2, <2>1, <2>3, <3>1, <3>2
    <3>3. CASE v # w
        BY <1>1, <1>2, <2>1, <2>3, <3>1, <3>3
    <3> QED
        BY <3>2, <3>3
  <2> QED
      BY <1>1, <1>6, <2>2, <2>3, JoinGoes
<1>7. CASE Joined
  <2>1. main = "waiting" /\ at' = at
      BY <1>7 DEF Joined
  <2>2. PICK k \in Number : joining \in {<<"dispatcher", k, "join dispatcher">>,
                                         <<"login", k, "join login">>}
      BY <2>1 DEF MoreTypes
  <2>3. PICK v \in Worker : /\ joining[1] = v /\ joining[2] = k
                            /\ joining[3] \in {"join dispatcher", "join login"}
    <3>1. CASE joining = <<"dispatcher", k, "join dispatcher">>
        BY <3>1 DEF Worker
    <3>2. CASE joining = <<"login", k, "join login">>
        BY <3>2 DEF Worker
    <3> QED
        BY <2>2, <3>1, <3>2
  <2>4. /\ at[v][k] = "ended" /\ main' = After(joining[3])
        /\ threadId' = [threadId EXCEPT ![v] = Zero]
      BY <1>7, <2>3 DEF Joined
  <2>5. main' # "waiting" /\ Closing'
      BY <2>3, <2>4, AfterIs DEF Closing
  <2>6. Active(w)' = Active(w) /\ k \notin Active(v)
      BY <2>1, <2>4 DEF Active
  <2>7. CASE v = w
    <3>1. Active(w) = {}
        BY <1>1, <2>1, <2>3, <2>6, <2>7
    <3> QED
        BY <1>1, <2>4, <2>5, <2>6, <2>7, <3>1
  <2>8. CASE v # w
      BY <1>1, <1>2, <2>4, <2>5, <2>6, <2>8
  <2> QED
      BY <2>7, <2>8
<1> QED
    BY <1>4, <1>5, <1>6, <1>7 DEF ShutDown, Shut, Command, Worker

\* A thread is started, before x, on an object that has no active thread.
LEMMA ThreadStarts ==
    ASSUME MoreTypes, ThreadInv, FreedInv, ~late, ~Closing, UNCHANGED <<main, joining>>,
           NEW v \in Worker, NEW place \in Map, Start(v, place),
           \A w \in Worker : \A k \in Number :
               place[w][k] \in {"none", "ended"} <=> at[w][k] \in {"none", "ended"}
    PROVE  ThreadInv'
<1> SUFFICES ASSUME NEW w \in Worker
             PROVE  /\ Active(w)' \subseteq {threadId'[w]}
                    /\ ~status'[w] => Active(w)' = {}
    BY DEF ThreadInv, Closing, Past, AfterDispatcher, AfterLogin
<1>1. /\ Active(w) \subseteq {threadId[w]}
      /\ ~status[w] => Active(w) = {}
      /\ Active(v) \subseteq {threadId[v]}
      /\ ~status[v] => Active(v) = {}
    BY DEF ThreadInv
<1>2. /\ status'[v] /\ (w # v => status'[w] = status[w])
      /\ \/ at' = place /\ threadId' = threadId
         \/ \E k \in Number :
               /\ ~status[v]
               /\ \A u \in Worker : \A j \in Number : u # v \/ j # k => at'[u][j] = place[u][j]
               /\ threadId'[v] = k
               /\ \A u \in Worker \ {v} : threadId'[u] = threadId[u]
  <2>1. TypeOK
      BY DEF MoreTypes
  <2> QED
      BY <2>1, Starts
<1>3. CASE at' = place /\ threadId' = threadId
  <2>1. Active(w)' = Active(w)
      BY <1>3 DEF Active, Number
  <2> QED
      BY <1>1, <1>2, <1>3, <2>1
<1>4. ASSUME NEW k \in Number, ~status[v],
             \A u \in Worker : \A j \in Number : u # v \/ j # k => at'[u][j] = place[u][j],
             threadId'[v] = k, \A u \in Worker \ {v} : threadId'[u] = threadId[u]
      PROVE  /\ Active(w)' \subseteq {threadId'[w]}
             /\ ~status'[w] => Active(w)' = {}
  <2>1. CASE w = v
    <3>1. Active(w) = {}
        BY <1>1, <1>4, <2>1
    <3>2. Active(w)' \subseteq {k}
        BY <1>4, <2>1, <3>1 DEF Active, Number
    <3> QED
        BY <1>2, <1>4, <2>1, <3>2
  <2>2. CASE w # v
    <3>1. Active(w)' = Active(w)
        BY <1>4, <2>2 DEF Active, Number
    <3> QED
        BY <1>1, <1>2, <1>4, <2>2, <3>1
  <2> QED
      BY <2>1, <2>2
<1> QED
    BY <1>2, <1>3, <1>4

\* A step of the accept thread.
LEMMA ThreadAccept ==
    ASSUME MoreTypes, ThreadInv, FreedInv, Accept
    PROVE  ThreadInv'
<1> SUFFICES ASSUME ~late'
             PROVE  ThreadInv'
    BY DEF ThreadInv
<1>1. CASE addPeer
  <2>1. ~late /\ ~Closing /\ UNCHANGED <<main, joining>> /\ Start("login", at)
      BY <1>1 DEF addPeer
  <2>2. at \in Map
      BY MoreTypesAre, TypeIs
  <2> QED
      BY <2>1, <2>2, ThreadStarts DEF Worker
<1>2. CASE AcceptBegins \/ AcceptFails
  <2>1. ~late
      BY <1>2 DEF AcceptBegins, AcceptFails
  <2>2. /\ UNCHANGED <<main, joining, at, threadId>>
        /\ \A w \in Worker : status'[w] = status[w]
      BY <1>2 DEF AcceptBegins, AcceptFails, joinVars, Worker, MoreTypes, TypeOK
  <2> QED
      BY <2>1, <2>2 DEF ThreadInv, Active, Past, Closing
<1> QED
    BY <1>1, <1>2 DEF Accept

\* A step of a worker thread.
LEMMA ThreadWork ==
    ASSUME MoreTypes, ThreadInv, FreedInv, NEW w \in Worker, NEW k \in Number, Work(w, k)
    PROVE  ThreadInv'
<1> SUFFICES ASSUME ~late'
             PROVE  ThreadInv'
    BY DEF ThreadInv
<1>1. at \in Map /\ threadId \in [Worker -> Zero..Garbage]
    BY MoreTypesAre, TypeIs
<1>2. UNCHANGED <<main, joining>>
    BY OthersGo
<1>3. ASSUME NEW place \in Spots \ {"none"}, To(w, k, place), at[w][k] \notin {"none", "ended"},
             ~late, threadId' = threadId, \A v \in Worker : status'[v] = status[v] \/ status'[v]
      PROVE  ThreadInv'
  <2>1. k \in Active(w)
      BY <1>3 DEF Active, Number
  <2>2. \A v \in Worker : Active(v)' \subseteq Active(v)
      BY <1>1, <1>3, <2>1, ActiveGoes
  <2>3. Closing' = Closing /\ \A v \in Worker : Past(v)' = Past(v)
      BY <1>2 DEF Closing, Past
  <2> SUFFICES ASSUME NEW v \in Worker
               PROVE  /\ Active(v)' \subseteq {threadId'[v]}
                      /\ ~Closing' /\ ~status'[v] => Active(v)' = {}
                      /\ Past(v)' => threadId'[v] = Zero
                      /\ main' = "waiting" /\ joining'[1] = v =>
                            threadId'[v] \in {joining'[2], Zero}
      BY DEF ThreadInv
  <2>4. /\ Active(v) \subseteq {threadId[v]}
        /\ ~Closing /\ ~status[v] => Active(v) = {}
        /\ Past(v) => threadId[v] = Zero
        /\ main = "waiting" /\ joining[1] = v => threadId[v] \in {joining[2], Zero}
      BY <1>3 DEF ThreadInv
  <2> QED
      BY <1>2, <1>3, <2>2, <2>3, <2>4
<1>4. CASE Begin(w, k)
  <2>1. ~late /\ at[w][k] = "begin" /\ To(w, k, "test") /\ threadId' = threadId
      BY <1>4 DEF Begin, joinVars
  <2>2. \A v \in Worker : status'[v] = status[v] \/ status'[v]
      BY <1>4 DEF Begin, MoreTypes, TypeOK, Worker
  <2> QED
      BY <1>3, <2>1, <2>2 DEF Spots
<1>5. CASE \/ Test(w, k) \/ Listened(w, k)
           \/ w = "dispatcher" /\ (LookFirst(k) \/ Look(k) \/ LookNext(k) \/ Act(k))
  <2>1. /\ ~late /\ at[w][k] \notin {"none", "ended"} /\ threadId' = threadId
        /\ status' = status
      BY <1>5 DEF Test, Listened, LookFirst, Look, LookNext, Act, joinVars
  <2>2. \E place \in Spots \ {"none"} : To(w, k, place)
      BY <1>5 DEF Test, Listened, LookFirst, Look, LookNext, Act, Spots
  <2> QED
      BY <1>3, <2>1, <2>2
<1>6. CASE HandleLogin(k) /\ w = "login"
  <2>1. ~late /\ ~Closing /\ at["login"][k] = "handle"
      BY <1>6 DEF HandleLogin
  <2>2. CASE To("login", k, "test") /\ UNCHANGED <<status, threadId>>
      BY <1>3, <1>6, <2>1, <2>2 DEF Spots
  <2>3. CASE Start("dispatcher", [at EXCEPT !["login"][k] = "test"])
    <3> DEFINE place == [at EXCEPT !["login"][k] = "test"]
    <3>1. /\ place \in Map
          /\ \A v \in Worker : \A j \in Number :
                place[v][j] \in {"none", "ended"} <=> at[v][j] \in {"none", "ended"}
        BY <1>1, <2>1 DEF Map, Spots, Worker
    <3> HIDE DEF place
    <3>2. Start("dispatcher", place)
        BY <2>3 DEF place
    <3> QED
        BY <1>2, <2>1, <3>1, <3>2, ThreadStarts DEF Worker
  <2> QED
      BY <1>6, <2>2, <2>3 DEF HandleLogin
<1>7. CASE End(w, k)
  <2>1. /\ ~late /\ at[w][k] = "end" /\ To(w, k, "ended") /\ status' = status
        /\ threadId' = [threadId EXCEPT ![w] = Zero]
      BY <1>7 DEF End
  <2>2. /\ Active(w)' \subseteq Active(w) \ {k} /\ k \in Active(w)
        /\ \A v \in Worker \ {w} : Active(v)' = Active(v)
      BY <1>1, <2>1, ActiveGoes DEF Spots, Active, Number
  <2>3. Active(w)' = {}
      BY <2>1, <2>2 DEF ThreadInv
  <2>4. Closing' = Closing /\ \A v \in Worker : Past(v)' = Past(v)
      BY <1>2 DEF Closing, Past
  <2> SUFFICES ASSUME NEW v \in Worker
               PROVE  /\ Active(v)' \subseteq {threadId'[v]}
                      /\ ~Closing' /\ ~status'[v] => Active(v)' = {}
                      /\ Past(v)' => threadId'[v] = Zero
                      /\ main' = "waiting" /\ joining'[1] = v =>
                            threadId'[v] \in {joining'[2], Zero}
      BY DEF ThreadInv
  <2>5. /\ Active(v) \subseteq {threadId[v]}
        /\ ~Closing /\ ~status[v] => Active(v) = {}
        /\ Past(v) => threadId[v] = Zero
        /\ main = "waiting" /\ joining[1] = v => threadId[v] \in {joining[2], Zero}
      BY <2>1 DEF ThreadInv
  <2>6. CASE v = w
      BY <1>1, <2>1, <2>3, <2>6
  <2>7. CASE v # w
      BY <1>1, <1>2, <2>1, <2>2, <2>4, <2>5, <2>7
  <2> QED
      BY <2>6, <2>7
<1> QED
    BY <1>4, <1>5, <1>6, <1>7 DEF Work

LEMMA ThreadStep ==
    ASSUME MoreTypes, ThreadInv, FreedInv, [Next]_vars
    PROVE  ThreadInv'
<1>1. CASE UNCHANGED <<main, joining, at, status, threadId, late>>
    BY <1>1 DEF ThreadInv, Active, Past, Closing
<1>2. ASSUME NEW w \in Worker, NEW k \in Number, WorkerThread(w, k)
      PROVE  ThreadInv'
    BY <1>2, ThreadWork DEF WorkerThread
<1> QED
    BY <1>1, <1>2, ThreadAccept, ThreadMain DEF Next, Die, vars, joinVars, Number

-------------------------------------------------------------------------------
(* Nobody uses what was deleted. *)

LEMMA PastCloses ==
    ASSUME NEW w, Past(w)
    PROVE  Closing
    BY DEF Past, Closing, AfterDispatcher, AfterLogin

LEMMA UseStep ==
    ASSUME MoreTypes, FreedInv, ThreadInv, DeletedAfterUse, [Next]_vars
    PROVE  DeletedAfterUse'
<1> DEFINE uad == "use after delete"
<1>1. ASSUME NEW w \in Worker, w \in freed
      PROVE  Past(w) /\ Closing
    BY <1>1, PastCloses DEF FreedInv, Worker
<1>2. CASE late' = late /\ (uad \in broken' => uad \in broken)
    BY <1>2 DEF DeletedAfterUse
<1>3. ASSUME NEW w \in Worker, Breaks(Use(w)), late' = (late \/ Closing)
      PROVE  DeletedAfterUse'
  <2>1. uad \in broken' => uad \in broken \/ w \in freed
      BY <1>3 DEF Breaks, Use
  <2> QED
      BY <1>1, <1>3, <2>1 DEF DeletedAfterUse
<1>4. ASSUME NEW w \in Worker, NEW k \in Number, Breaks(Use(w)), late' = late,
             at[w][k] \notin {"none", "ended"}
      PROVE  DeletedAfterUse'
  <2>1. uad \in broken' => uad \in broken \/ w \in freed
      BY <1>4 DEF Breaks, Use
  <2>2. w \in freed => late
    <3> SUFFICES ASSUME w \in freed, ~late
                 PROVE  FALSE
        OBVIOUS
    <3>1. threadId[w] = Zero /\ Active(w) \subseteq {threadId[w]}
        BY <1>1 DEF ThreadInv
    <3>2. k \in Active(w) /\ k # Zero
        BY <1>4 DEF Active, Number, Zero
    <3> QED
        BY <3>1, <3>2
  <2> QED
      BY <1>4, <2>1, <2>2 DEF DeletedAfterUse
<1>5. CASE Accept
  <2>1. CASE addPeer
      BY <1>3, <2>1 DEF addPeer, Worker
  <2>2. CASE AcceptBegins
      BY <2>2 DEF AcceptBegins, DeletedAfterUse
  <2>3. CASE AcceptFails
      BY <1>2, <2>3 DEF AcceptFails
  <2> QED
      BY <1>5, <2>1, <2>2, <2>3 DEF Accept
<1>6. ASSUME NEW w \in Worker, NEW k \in Number, Work(w, k)
      PROVE  DeletedAfterUse'
  <2>1. CASE Begin(w, k)
      BY <1>3, <2>1 DEF Begin
  <2>2. CASE HandleLogin(k)
      BY <1>3, <2>2 DEF HandleLogin, Worker
  <2>3. CASE Test(w, k) \/ End(w, k)
      BY <1>4, <2>3 DEF Test, End
  <2>4. CASE Listened(w, k)
      BY <1>2, <2>4 DEF Listened, Delete, Breaks
  <2>5. CASE LookFirst(k) \/ LookNext(k)
      BY <1>2, <2>5, MoveIterIs DEF LookFirst, LookNext
  <2>6. CASE Look(k)
      BY <1>2, <2>6 DEF Look
  <2>7. CASE Act(k)
      BY <1>2, <2>7 DEF Act, Breaks
  <2> QED
      BY <1>6, <2>1, <2>2, <2>3, <2>4, <2>5, <2>6, <2>7 DEF Work
<1>7. CASE ShutDown \/ Command
  <2>1. late' = late
      BY <1>7, MainGoes
  <2>2. CASE PrintUsers \/ NextUser \/ Close
      BY <1>2, <2>1, <2>2, MoveIterIs DEF PrintUsers, NextUser, Close
  <2>3. ASSUME NEW w, NEW place, DeleteListener(w, place) \/ Join(w, place)
        PROVE  DeletedAfterUse'
    <3>1. CASE UNCHANGED broken
        BY <1>2, <2>1, <3>1
    <3>2. CASE Delete(w)
        BY <1>2, <2>1, <3>2 DEF Delete, Breaks
    <3>3. CASE Breaks({"join of no thread"})
        BY <1>2, <2>1, <3>3 DEF Breaks
    <3> QED
        BY <2>3, <3>1, <3>2, <3>3 DEF DeleteListener, Join
  <2>4. ASSUME NEW w, NEW place, DeleteObject(w, place)
        PROVE  DeletedAfterUse'
      BY <1>2, <2>1, <2>4 DEF DeleteObject, Breaks
  <2>5. CASE Joined \/ ClearFlag
      BY <1>2, <2>1, <2>5 DEF Joined, ClearFlag
  <2>6. CASE CloseSocket
      BY <1>2, <2>1, <2>6 DEF CloseSocket, Breaks
  <2> QED
      BY <1>7, <2>2, <2>3, <2>4, <2>5, <2>6 DEF ShutDown, Shut, Command
<1> QED
    BY <1>2, <1>5, <1>6, <1>7 DEF Next, Die, WorkerThread, vars, Number

-------------------------------------------------------------------------------
(* Every handler acts for its sender. *)

\* Nobody who looks for a sender is disturbed.
LEMMA LookQuiet ==
    ASSUME MoreTypes, LookInv, UNCHANGED <<sender, user>>, users' \in {users, users + 1},
           users_iter' = users_iter \/ \A j \in Number : ~Looking(j),
           late => late', crossed => crossed',
           \A j \in Number : \/ at'["dispatcher"][j] = at["dispatcher"][j]
                             \/ at'["dispatcher"][j] \notin {"handle", "look", "next", "act"}
    PROVE  LookInv'
<1> SUFFICES ASSUME ~late', ~crossed', NEW k \in Number,
                    at'["dispatcher"][k] = at["dispatcher"][k]
             PROVE  /\ at["dispatcher"][k] \in {"handle", "look", "next"} => sender[k] \in 1..users'
                    /\ at["dispatcher"][k] = "look" => users_iter' <= sender[k]
                    /\ at["dispatcher"][k] = "next" => users_iter' < sender[k]
                    /\ at["dispatcher"][k] = "act" => user[k] = sender[k]
    BY DEF LookInv
<1>1. /\ at["dispatcher"][k] \in {"handle", "look", "next"} => sender[k] \in 1..users
      /\ at["dispatcher"][k] = "look" => users_iter <= sender[k]
      /\ at["dispatcher"][k] = "next" => users_iter < sender[k]
      /\ at["dispatcher"][k] = "act" => user[k] = sender[k]
    BY DEF LookInv
<1>2. at["dispatcher"][k] \in {"look", "next"} => users_iter' = users_iter
    BY DEF Looking
<1>3. users \in Nat
    BY UsersNat DEF MoreTypes
<1>4. sender[k] \in 1..users => sender[k] \in 1..users'
    BY <1>3
<1> QED
    BY <1>1, <1>2, <1>4

\* A handler takes a step.
LEMMA LookGoes ==
    ASSUME MoreTypes, ThreadInv, LookInv, NEW k \in Number,
           Listened("dispatcher", k) \/ LookFirst(k) \/ Look(k) \/ LookNext(k) \/ Act(k)
    PROVE  LookInv'
<1> SUFFICES ASSUME ~late', ~crossed'
             PROVE  LookInv'
    BY DEF LookInv
<1>1. /\ at \in Map /\ users \in Nat /\ users_iter \in Nat
      /\ sender \in [Number -> Nat] /\ user \in [Number -> Nat]
    BY MoreTypesAre, TypeIs, Bounds DEF OtherTypes
<1>2. ~late /\ ~crossed
  <2>1. CASE LookFirst(k)
      BY <2>1, MoveIterIs DEF LookFirst
  <2>3. CASE LookNext(k)
      BY <2>3, MoveIterIs DEF LookNext
  <2>2. CASE Listened("dispatcher", k) \/ Look(k) \/ Act(k)
      BY <2>2 DEF Listened, Look, Act, iterVars
  <2> QED
      BY <2>1, <2>2, <2>3
<1>3. \A j \in Number :
         /\ at["dispatcher"][j] \in {"handle", "look", "next"} => sender[j] \in 1..users
         /\ at["dispatcher"][j] = "look" => users_iter <= sender[j]
         /\ at["dispatcher"][j] = "next" => users_iter < sender[j]
         /\ at["dispatcher"][j] = "act" => user[j] = sender[j]
    BY <1>2 DEF LookInv
<1>4. ASSUME NEW place \in Spots, To("dispatcher", k, place)
      PROVE  /\ at'["dispatcher"][k] = place
             /\ \A j \in Number \ {k} : at'["dispatcher"][j] = at["dispatcher"][j]
    BY <1>1, <1>4, Goes DEF Worker
<1>5. CASE Listened("dispatcher", k)
  <2>1. CASE To("dispatcher", k, "test") /\ UNCHANGED sender
    <3>1. UNCHANGED <<sender, user, users, users_iter>>
        BY <1>5, <2>1 DEF Listened, iterVars
    <3> QED
        BY <1>2, <1>4, <2>1, <3>1, LookQuiet DEF Spots
  <2>2. ASSUME NEW u \in 1..users, To("dispatcher", k, "handle"),
               sender' = [sender EXCEPT ![k] = u]
        PROVE  LookInv'
    <3>1. /\ UNCHANGED <<user, users, users_iter>> /\ sender'[k] = u
          /\ \A j \in Number \ {k} : sender'[j] = sender[j]
        BY <1>1, <1>5, <2>2 DEF Listened, iterVars
    <3> QED
        BY <1>3, <1>4, <2>2, <3>1 DEF LookInv, Spots
  <2> QED
      BY <1>5, <2>1, <2>2 DEF Listened
<1>6. CASE LookFirst(k)
  <2>1. /\ at["dispatcher"][k] = "handle" /\ To("dispatcher", k, "look") /\ MoveIter(k, 1)
        /\ UNCHANGED <<sender, user, users>>
      BY <1>6 DEF LookFirst, lookVars
  <2>2. users_iter' = 1 /\ \A j \in Number \ {k} : ~Looking(j)
    <3>1. TypeOK
        BY DEF MoreTypes
    <3>2. 1 <= users + 1 /\ 1 \in Nat \ {0}
        BY <1>1
    <3> QED
        BY <2>1, <3>1, <3>2, MoveIterIs, MoveIterType
  <2>3. sender[k] \in 1..users
      BY <1>3, <2>1
  <2>4. 1 <= sender[k]
      BY <1>1, <2>3
  <2> QED
      BY <1>3, <1>4, <2>1, <2>2, <2>3, <2>4 DEF LookInv, Looking, Spots
<1>7. CASE Look(k)
  <2>1. /\ at["dispatcher"][k] = "look" /\ UNCHANGED <<sender, users, users_iter>>
      BY <1>7 DEF Look, iterVars
  <2>2. sender[k] \in 1..users /\ users_iter <= sender[k]
      BY <1>3, <2>1
  <2>3. users_iter # users + 1
      BY <1>1, <2>2
  <2>4. /\ user' = [user EXCEPT ![k] = users_iter]
        /\ To("dispatcher", k, IF users_iter = sender[k] THEN "act" ELSE "next")
      BY <1>7, <2>3 DEF Look
  <2>5. user'[k] = users_iter /\ \A j \in Number \ {k} : user'[j] = user[j]
      BY <1>1, <2>4
  <2>6. users_iter # sender[k] => users_iter < sender[k]
      BY <1>1, <2>2
  <2>7. CASE users_iter = sender[k]
    <3>1. To("dispatcher", k, "act")
        BY <2>4, <2>7
    <3> QED
        BY <1>3, <1>4, <2>1, <2>5, <2>7, <3>1 DEF LookInv, Spots
  <2>8. CASE users_iter # sender[k]
    <3>1. To("dispatcher", k, "next")
        BY <2>4, <2>8
    <3> QED
        BY <1>3, <1>4, <2>1, <2>2, <2>5, <2>6, <2>8, <3>1 DEF LookInv, Spots
  <2> QED
      BY <2>7, <2>8
<1>8. CASE LookNext(k)
  <2>1. /\ at["dispatcher"][k] = "next" /\ To("dispatcher", k, "look")
        /\ MoveIter(k, users_iter + 1) /\ UNCHANGED <<sender, user, users>>
      BY <1>8 DEF LookNext, lookVars
  <2>2. sender[k] \in 1..users /\ users_iter < sender[k]
      BY <1>3, <2>1
  <2>3. users_iter + 1 <= users + 1 /\ users_iter + 1 <= sender[k]
      BY <1>1, <2>2
  <2>4. users_iter' = users_iter + 1 /\ \A j \in Number \ {k} : ~Looking(j)
    <3>1. TypeOK
        BY DEF MoreTypes
    <3>2. users_iter + 1 \in Nat \ {0}
        BY <1>1
    <3> QED
        BY <2>1, <2>3, <3>1, <3>2, MoveIterIs, MoveIterType
  <2> QED
      BY <1>3, <1>4, <2>1, <2>2, <2>3, <2>4 DEF LookInv, Looking, Spots
<1>9. CASE Act(k)
  <2>1. at["dispatcher"][k] = "act" /\ To("dispatcher", k, "test")
      BY <1>9 DEF Act
  <2>2. \A j \in Number \ {k} : at["dispatcher"][j] \in {"none", "ended"}
      BY <1>2, <2>1 DEF ThreadInv, Active, Worker, Number
  <2> QED
      BY <1>4, <2>1, <2>2 DEF LookInv, Spots
<1> QED
    BY <1>5, <1>6, <1>7, <1>8, <1>9

LEMMA LookStep ==
    ASSUME MoreTypes, ThreadInv, LookInv, [Next]_vars
    PROVE  LookInv'
<1>1. TypeOK /\ at \in Map
    BY MoreTypesAre, TypeIs
<1>2. CASE UNCHANGED <<at, sender, user, users, users_iter, late, crossed>>
    BY <1>2 DEF LookInv
<1>3. ASSUME NEW w \in Worker, NEW k \in Number, NEW place \in Spots, To(w, k, place),
             w = "login" \/ place \notin {"handle", "look", "next", "act"}
      PROVE  \A j \in Number : \/ at'["dispatcher"][j] = at["dispatcher"][j]
                               \/ at'["dispatcher"][j] \notin {"handle", "look", "next", "act"}
    BY <1>1, <1>3, Goes DEF Worker
<1>4. ASSUME NEW w \in Worker, NEW k \in Number, Start(w, at)
      PROVE  \A j \in Number : \/ at'["dispatcher"][j] = at["dispatcher"][j]
                               \/ at'["dispatcher"][j] \notin {"handle", "look", "next", "act"}
  <2>1. \/ at' = at
        \/ \E k1 \in Number :
              /\ at'[w][k1] = "begin"
              /\ \A v \in Worker : \A j \in Number : v # w \/ j # k1 => at'[v][j] = at[v][j]
      BY <1>1, <1>4, Starts
  <2> QED
      BY <2>1 DEF Worker
<1>5. CASE Accept
  <2>1. CASE addPeer
    <3>1. UNCHANGED <<sender, user, users, users_iter, crossed>> /\ (late => late')
        BY <2>1 DEF addPeer, iterVars, lookVars
    <3>2. 1 \in Number
        BY Bounds DEF Number
    <3>3. Start("login", at) /\ "login" \in Worker
        BY <2>1 DEF addPeer, Worker
    <3> QED
        BY <1>1, <1>4, <3>1, <3>2, <3>3, LookQuiet
  <2>2. CASE AcceptBegins \/ AcceptFails
    <3>1. UNCHANGED <<at, sender, user, users, users_iter, crossed>> /\ (late => late')
      <4>1. CASE AcceptBegins
          BY <4>1 DEF AcceptBegins, iterVars, lookVars
      <4>2. CASE AcceptFails
          BY <4>2 DEF AcceptFails, iterVars, lookVars
      <4> QED
          BY <2>2, <4>1, <4>2
    <3> QED
        BY <3>1, LookQuiet
  <2> QED
      BY <1>5, <2>1, <2>2 DEF Accept
<1>6. ASSUME NEW w \in Worker, NEW k \in Number, Work(w, k)
      PROVE  LookInv'
  <2>1. CASE Begin(w, k)
    <3>1. UNCHANGED <<sender, user, users, users_iter, crossed>> /\ (late => late')
        BY <2>1 DEF Begin, iterVars, lookVars
    <3>2. To(w, k, "test")
        BY <2>1 DEF Begin
    <3> QED
        BY <1>3, <3>1, <3>2, LookQuiet DEF Spots
  <2>2. CASE Test(w, k) \/ End(w, k)
    <3>1. UNCHANGED <<sender, user, users, users_iter, crossed, late>>
        BY <2>2 DEF Test, End, iterVars, lookVars
    <3>2. To(w, k, "listening") \/ To(w, k, "end") \/ To(w, k, "ended")
        BY <2>2 DEF Test, End
    <3> QED
        BY <1>3, <3>1, <3>2, LookQuiet DEF Spots
  <2>3. CASE Listened(w, k) /\ w = "login"
    <3>1. UNCHANGED <<sender, user, users, users_iter, crossed, late>>
        BY <2>3 DEF Listened, iterVars
    <3>2. To(w, k, "test") \/ To(w, k, "handle")
        BY <2>3 DEF Listened
    <3> QED
        BY <1>3, <2>3, <3>1, <3>2, LookQuiet DEF Spots
  <2>4. CASE HandleLogin(k)
    <3>1. /\ UNCHANGED <<sender, user, users_iter, crossed>> /\ (late => late')
          /\ users' \in {users, users + 1}
        BY <2>4 DEF HandleLogin, iterVars, lookVars
    <3>2. \A j \in Number : \/ at'["dispatcher"][j] = at["dispatcher"][j]
                            \/ at'["dispatcher"][j] \notin {"handle", "look", "next", "act"}
      <4>1. CASE To("login", k, "test")
          BY <1>3, <4>1 DEF Spots, Worker
      <4>2. CASE Start("dispatcher", [at EXCEPT !["login"][k] = "test"])
        <5> DEFINE place == [at EXCEPT !["login"][k] = "test"]
        <5>1. place \in Map /\ \A j \in Number : place["dispatcher"][j] = at["dispatcher"][j]
            BY <1>1 DEF Map, Spots, Worker
        <5> HIDE DEF place
        <5>2. Start("dispatcher", place)
            BY <4>2 DEF place
        <5>3. \/ at' = place
              \/ \E k1 \in Number :
                    /\ at'["dispatcher"][k1] = "begin"
                    /\ \A v \in Worker : \A j \in Number :
                          v # "dispatcher" \/ j # k1 => at'[v][j] = place[v][j]
            BY <1>1, <5>1, <5>2, Starts DEF Worker
        <5> QED
            BY <5>1, <5>3 DEF Worker
      <4> QED
          BY <2>4, <4>1, <4>2 DEF HandleLogin
    <3> QED
        BY <3>1, <3>2, LookQuiet
  <2>5. CASE /\ w = "dispatcher"
             /\ Listened(w, k) \/ LookFirst(k) \/ Look(k) \/ LookNext(k) \/ Act(k)
      BY <2>5, LookGoes
  <2> QED
      BY <1>6, <2>1, <2>2, <2>3, <2>4, <2>5 DEF Work, Worker
<1>7. CASE ShutDown \/ Command
  <2>1. late' = late /\ UNCHANGED <<sender, user, users>>
      BY <1>7
      DEF ShutDown, Shut, Command, PrintUsers, NextUser, Close, DeleteListener, Join, Joined,
          ClearFlag, DeleteObject, CloseSocket, lookVars
  <2>2. CASE \E position : MoveIter(0, position) /\ at' = at
    <3>1. (crossed => crossed') /\ (~crossed' => \A j \in Number : ~Looking(j))
      <4>1. 0 \notin Number
          BY DEF Number
      <4>2. (crossed => crossed') /\ (~crossed' => \A j \in Number \ {0} : ~Looking(j))
          BY <2>2, MoveIterIs
      <4> QED
          BY <4>1, <4>2
    <3>2. CASE crossed'
        BY <3>2 DEF LookInv
    <3>3. CASE ~crossed'
        BY <2>1, <2>2, <3>1, <3>3, LookQuiet
    <3> QED
        BY <3>2, <3>3
  <2>3. CASE UNCHANGED <<at, users_iter, crossed>>
      BY <1>2, <2>1, <2>3
  <2>4. ASSUME NEW w \in Worker, NEW place, DeleteObject(w, place)
        PROVE  LookInv'
    <3>1. UNCHANGED <<users_iter, crossed>>
        BY <2>4 DEF DeleteObject, iterVars
    <3>2. \/ at' = at
          \/ threadId[w] \in Number /\ To(w, threadId[w], "ended")
        BY <2>4 DEF DeleteObject, Number
    <3> QED
        BY <1>2, <1>3, <2>1, <3>1, <3>2, LookQuiet DEF Spots
  <2>5. CASE PrintUsers \/ NextUser \/ Close
      BY <2>2, <2>3, <2>5 DEF PrintUsers, NextUser, Close, iterVars
  <2>6. ASSUME NEW w, NEW place, DeleteListener(w, place) \/ Join(w, place)
        PROVE  LookInv'
      BY <2>3, <2>6 DEF DeleteListener, Join, iterVars
  <2>7. CASE Joined \/ ClearFlag \/ CloseSocket
      BY <2>3, <2>7 DEF Joined, ClearFlag, CloseSocket, iterVars
  <2> QED
      BY <1>7, <2>4, <2>5, <2>6, <2>7 DEF ShutDown, Shut, Command, Worker
<1> QED
    BY <1>2, <1>5, <1>6, <1>7 DEF Next, Die, WorkerThread, vars, iterVars, lookVars, Number

LEMMA MisledStep ==
    ASSUME MoreTypes, LookInv, MisledByOthers, [Next]_vars
    PROVE  MisledByOthers'
<1>1. CASE misled' = misled /\ (crossed => crossed') /\ (late => late')
    BY <1>1 DEF MisledByOthers
<1>2. ASSUME NEW k \in Number, Act(k)
      PROVE  MisledByOthers'
  <2>1. /\ misled' = (misled \/ user[k] # sender[k]) /\ at["dispatcher"][k] = "act"
        /\ UNCHANGED <<crossed, late>>
      BY <1>2 DEF Act
  <2> QED
      BY <1>2, <2>1 DEF MisledByOthers, LookInv
<1>3. CASE Accept
  <2>1. CASE AcceptBegins
      BY <1>1, <2>1 DEF AcceptBegins, iterVars, lookVars
  <2>2. CASE addPeer
      BY <1>1, <2>2 DEF addPeer, iterVars, lookVars
  <2>3. CASE AcceptFails
      BY <1>1, <2>3 DEF AcceptFails, iterVars, lookVars
  <2> QED
      BY <1>3, <2>1, <2>2, <2>3 DEF Accept
<1>4. ASSUME NEW w \in Worker, NEW k \in Number, Work(w, k)
      PROVE  MisledByOthers'
  <2>1. CASE Begin(w, k) \/ HandleLogin(k)
      BY <1>1, <2>1 DEF Begin, HandleLogin, iterVars, lookVars
  <2>2. CASE Test(w, k) \/ Listened(w, k) \/ End(w, k) \/ Look(k)
      BY <1>1, <2>2 DEF Test, Listened, End, Look, iterVars, lookVars
  <2>3. CASE LookFirst(k) \/ LookNext(k)
      BY <1>1, <2>3, MoveIterIs DEF LookFirst, LookNext, lookVars
  <2> QED
      BY <1>2, <1>4, <2>1, <2>2, <2>3 DEF Work
<1>5. CASE ShutDown \/ Command
  <2>1. late' = late
      BY <1>5, MainGoes
  <2>2. CASE PrintUsers \/ NextUser \/ Close
      BY <1>1, <2>1, <2>2, MoveIterIs DEF PrintUsers, NextUser, Close, iterVars, lookVars
  <2>3. ASSUME NEW w, NEW place, DeleteListener(w, place) \/ Join(w, place) \/ DeleteObject(w, place)
        PROVE  MisledByOthers'
      BY <1>1, <2>1, <2>3 DEF DeleteListener, Join, DeleteObject, iterVars, lookVars
  <2>4. CASE Joined \/ ClearFlag \/ CloseSocket
      BY <1>1, <2>1, <2>4 DEF Joined, ClearFlag, CloseSocket, iterVars, lookVars
  <2> QED
      BY <1>5, <2>2, <2>3, <2>4 DEF ShutDown, Shut, Command
<1> QED
    BY <1>1, <1>3, <1>4, <1>5 DEF Next, Die, WorkerThread, vars, iterVars, lookVars, Number

-------------------------------------------------------------------------------
(* The theorems. *)

LEMMA Invariance == Spec => []IInv
<1>1. Init => IInv
  <2> SUFFICES ASSUME Init PROVE IInv
      OBVIOUS
  <2>1. MoreTypes
    <3>1. /\ users \in 0..MaxUsers /\ users_iter \in 1..(users + 1)
          /\ threadId \in [Worker -> Zero..Garbage]
        BY Bounds DEF Init, Zero, Garbage
    <3>2. TypeOK
        BY <3>1 DEF Init, TypeOK
    <3>3. main # "waiting" /\ {crossed, misled, late, crashed} \subseteq BOOLEAN
        BY DEF Init
    <3>4. sender \in [Number -> Nat] /\ user \in [Number -> Nat]
        BY DEF Init, Number
    <3> QED
        BY <3>2, <3>3, <3>4 DEF MoreTypes
  <2>2. main = "menu" /\ freed = {} /\ broken = {} /\ ~late /\ ~misled
        /\ \A w \in Worker : \A k \in Number : at[w][k] = "none"
      BY DEF Init, Number
  <2>3. ThreadInv
      BY <2>2 DEF ThreadInv, Active, Past, Closing, AfterDispatcher, AfterLogin, Number
  <2>4. LookInv
      BY <2>2 DEF LookInv, Worker
  <2> QED
      BY <2>1, <2>2, <2>3, <2>4 DEF IInv, FreedInv, DeletedAfterUse, MisledByOthers
<1>2. IInv /\ [Next]_vars => IInv'
    BY TypeStep, FreedStep, ThreadStep, LookStep, UseStep, MisledStep DEF IInv
<1> QED
    BY <1>1, <1>2, PTL DEF Spec

\* Every variable keeps its type, for any numbers of users and threads.
THEOREM TypeCorrect == Spec => []TypeOK
<1>1. IInv => TypeOK
    BY DEF IInv, MoreTypes
<1> QED
    BY <1>1, Invariance, PTL

\* Nobody uses the dispatcher or the login object after it was deleted, unless a thread,
\* a connection or a login comes after x.
THEOREM NoUseAfterDelete == Spec => []DeletedAfterUse
<1>1. IInv => DeletedAfterUse
    BY DEF IInv
<1> QED
    BY <1>1, Invariance, PTL

\* Two threads never work on one object, unless something comes after x.
THEOREM OneThreadOnEach == Spec => []OneThreadEach
<1>1. IInv => OneThreadEach
  <2> SUFFICES ASSUME ThreadInv, ~late, NEW w \in Worker
               PROVE  Cardinality(Active(w)) <= 1
      BY DEF IInv, OneThreadEach
  <2>1. Active(w) \subseteq {threadId[w]}
      BY DEF ThreadInv
  <2>2. IsFiniteSet({threadId[w]}) /\ Cardinality({threadId[w]}) = 1
      BY FS_Singleton
  <2>3. Cardinality(Active(w)) <= Cardinality({threadId[w]})
      BY <2>1, <2>2, FS_Subset
  <2> QED
      BY <2>2, <2>3
<1> QED
    BY <1>1, Invariance, PTL

\* A handler acts for another user than its sender only after another thread has moved the
\* iterator, or something has come after x.
THEOREM SendersAreFound == Spec => []MisledByOthers
<1>1. IInv => MisledByOthers
    BY DEF IInv
<1> QED
    BY <1>1, Invariance, PTL
===============================================================================
