-------------------------------- MODULE Server --------------------------------
(***************************************************************************)
(* The threads of the server and how it closes: the main thread with the   *)
(* command line, the accept thread, and two workers, the login thread and  *)
(* the dispatcher, each the run() of an object that the main thread joins  *)
(* and deletes.  The flags, the thread ids, the pointers to the listeners  *)
(* and the iterator over the users are shared without any lock; what the   *)
(* requests do is the other modules' concern.                              *)
(*                                                                         *)
(* What C++ leaves undefined is collected in `broken': the process may die *)
(* of it at once, later, or never.                                         *)
(***************************************************************************)
EXTENDS Naturals, FiniteSets

CONSTANTS
    MaxUsers,   \* bound of the model: users logged in at a time
    MaxThreads  \* bound of the model: threads ever started on one object

ASSUME Bounds == MaxUsers \in Nat /\ MaxThreads \in Nat \ {0}

Worker == {"login", "dispatcher"}

\* A threadId that is no thread's: after worker() or waitForThread() have reset it,
\* and before start() has been called.
Zero == 0
Garbage == MaxThreads + 1

VARIABLES
    main,       \* where the main thread is
    joining,    \* the thread it waits for
    accept,     \* where the accept thread is
    at,         \* at[w][k]: where the k-th thread of w is
    status,     \* status[w]: the flag the loop of w tests
    threadId,   \* threadId[w]: the thread the object will be joined with
    listener,   \* listener[w]: the pointer to the MultipleTCPSocketsListener
    freed,      \* the objects that were deleted
    users,      \* how many users the map holds, the k-th of them called k
    users_iter, \* the iterator over them, users + 1 being end()
    sender,     \* sender[k]: whom the k-th dispatcher thread looks for
    user,       \* user[k]: its variable _user
    crossed,    \* the iterator was moved while another thread was looking
    misled,     \* a handler acted for another user than its sender
    broken,     \* the kinds of undefined behaviour there have been
    late,       \* since x was typed, a thread has begun, a connection was accepted
                \*   or a login request was handled
    crashed     \* the process has died

joinVars == <<joining, threadId>>
iterVars == <<users_iter, crossed>>
lookVars == <<sender, user, misled>>
vars == <<main, joinVars, accept, at, status, listener, freed, users, iterVars,
          lookVars, broken, late, crashed>>

Closing == main \notin {"menu", "lcu"}

-------------------------------------------------------------------------------
(* Shared pieces. *)

Breaks(kinds) == broken' = broken \cup kinds

\* An access to an object.
Use(object) == IF object \in freed THEN {"use after delete"} ELSE {}

\* delete of a pointer that is not set to NULL afterwards.
Delete(w) ==
    /\ listener' = [listener EXCEPT ![w] = "deleted"]
    /\ Breaks(IF listener[w] = "deleted" THEN {"double delete"} ELSE {})

Idle(w) == {k \in 1..MaxThreads : at[w][k] = "none"}

NextThread(w) == CHOOSE k \in Idle(w) : \A j \in Idle(w) : k <= j

\* Variant: the flag is left to the thread, which sets it once it runs.
StartUnset(w, place) ==
    /\ status' = status
    /\ IF status[w] THEN at' = place /\ UNCHANGED threadId
       ELSE /\ Idle(w) # {}
            /\ at' = [place EXCEPT ![w][NextThread(w)] = "begin"]
            /\ threadId' = [threadId EXCEPT ![w] = NextThread(w)]

\* A thread is started on an object whose flag is down, whatever the threads that
\* were started on it before are doing.
Start(w, place) ==
    /\ status' = [status EXCEPT ![w] = TRUE]
    /\ IF status[w] THEN at' = place /\ UNCHANGED threadId
       ELSE /\ Idle(w) # {}
            /\ at' = [place EXCEPT ![w][NextThread(w)] = "begin"]
            /\ threadId' = [threadId EXCEPT ![w] = NextThread(w)]

Looking(k) == at["dispatcher"][k] \in {"look", "next"}

\* Variant: it steps past the end.
MoveIterOn(k, position) ==
    /\ users_iter' = position
    /\ crossed' = (crossed \/ \E j \in 1..MaxThreads : Looking(j) /\ j # k)
    /\ Breaks(IF position > users + 1 THEN {"iterator"} ELSE {})

\* The k-th dispatcher thread, or the main thread as number 0, moves the iterator;
\* past end() is undefined.
MoveIter(k, position) ==
    /\ users_iter' = IF position > users + 1 THEN users_iter ELSE position
    /\ crossed' = (crossed \/ \E j \in 1..MaxThreads : Looking(j) /\ j # k)
    /\ Breaks(IF position > users + 1 THEN {"iterator"} ELSE {})

-------------------------------------------------------------------------------
(* The accept thread: Server::run. *)

AcceptBegins ==
    /\ accept = "begin"
    /\ accept' = "accepting"
    /\ status' = [status EXCEPT !["server"] = TRUE]
    /\ late' = (late \/ Closing)
    /\ UNCHANGED <<main, joinVars, at, listener, freed, users, iterVars, lookVars, broken>>

\* A connection is accepted.
addPeer ==
    /\ accept = "accepting" /\ "listening socket" \notin freed
    /\ Start("login", at)
    /\ Breaks(Use("login"))
    /\ late' = (late \/ Closing)
    /\ UNCHANGED <<main, joining, accept, listener, freed, users, iterVars, lookVars>>

\* The listening socket was closed: accept fails, and the loop ends with its flag.
AcceptFails ==
    /\ accept = "accepting" /\ "listening socket" \in freed
    /\ accept' = IF status["server"] THEN accept ELSE "ended"
    /\ UNCHANGED <<main, joinVars, at, status, listener, freed, users, iterVars, lookVars,
                   broken, late>>

-------------------------------------------------------------------------------
(* The workers: LoginAndSignUp::run and Dispatcher::run. *)

To(w, k, place) == at' = [at EXCEPT ![w][k] = place]

\* The login thread sets its flag once more.
Begin(w, k) ==
    /\ at[w][k] = "begin"
    /\ To(w, k, "test")
    /\ status' = IF w = "login" THEN [status EXCEPT ![w] = TRUE] ELSE status
    /\ late' = (late \/ Closing)
    /\ Breaks(Use(w))
    /\ UNCHANGED <<main, joinVars, accept, listener, freed, users, iterVars, lookVars>>

\* The head of the loop, and the new listener.
Test(w, k) ==
    /\ at[w][k] = "test"
    /\ IF status[w]
       THEN To(w, k, "listening") /\ listener' = [listener EXCEPT ![w] = "allocated"]
       ELSE To(w, k, "end") /\ UNCHANGED listener
    /\ Breaks(Use(w))
    /\ UNCHANGED <<main, joinVars, accept, status, freed, users, iterVars, lookVars, late>>

\* Two seconds are over, or a socket is readable; the listener was used and is deleted.
Listened(w, k) ==
    /\ at[w][k] = "listening"
    /\ \/ To(w, k, "test") /\ UNCHANGED sender
       \/ w = "login" /\ To(w, k, "handle") /\ UNCHANGED sender
       \/ /\ w = "dispatcher"
          /\ To(w, k, "handle")
          /\ \E u \in 1..users : sender' = [sender EXCEPT ![k] = u]
    /\ Delete(w)
    /\ UNCHANGED <<main, joinVars, accept, status, freed, users, iterVars, user, misled, late>>

\* The login thread asks the dispatcher for the name of a request, and adds the user.
HandleLogin(k) ==
    /\ at["login"][k] = "handle"
    /\ \/ /\ users < MaxUsers
          /\ users' = users + 1
          /\ Start("dispatcher", [at EXCEPT !["login"][k] = "test"])
       \/ /\ To("login", k, "test")
          /\ UNCHANGED <<users, status, threadId>>
    /\ Breaks(Use("dispatcher"))
    /\ late' = (late \/ Closing)
    /\ UNCHANGED <<main, joining, accept, listener, freed, iterVars, lookVars>>

\* The loop at the beginning of every handler of the dispatcher.
LookFirst(k) ==
    /\ at["dispatcher"][k] = "handle"
    /\ MoveIter(k, 1)
    /\ To("dispatcher", k, "look")
    /\ UNCHANGED <<main, joinVars, accept, status, listener, freed, users, lookVars, late>>

\* Variant: it looks at the next user after the one it has found, too.
LookOn(k) ==
    /\ at["dispatcher"][k] = "look"
    /\ IF users_iter = users + 1
       THEN To("dispatcher", k, "act") /\ UNCHANGED user
       ELSE /\ user' = [user EXCEPT ![k] = users_iter]
            /\ To("dispatcher", k, "next")
    /\ UNCHANGED <<main, joinVars, accept, status, listener, freed, users, iterVars,
                   sender, misled, broken, late>>

Look(k) ==
    /\ at["dispatcher"][k] = "look"
    /\ IF users_iter = users + 1
       THEN To("dispatcher", k, "act") /\ UNCHANGED user
       ELSE /\ user' = [user EXCEPT ![k] = users_iter]
            /\ To("dispatcher", k, IF users_iter = sender[k] THEN "act" ELSE "next")
    /\ UNCHANGED <<main, joinVars, accept, status, listener, freed, users, iterVars,
                   sender, misled, broken, late>>

LookNext(k) ==
    /\ at["dispatcher"][k] = "next"
    /\ MoveIter(k, users_iter + 1)
    /\ To("dispatcher", k, "look")
    /\ UNCHANGED <<main, joinVars, accept, status, listener, freed, users, lookVars, late>>

\* The handler proper; that of EXIT erases the user, under the iterator perhaps.
Act(k) ==
    LET u == user[k]
        Moved(n) == IF n > u THEN n - 1 ELSE IF n = u THEN 0 ELSE n
    IN  /\ at["dispatcher"][k] = "act"
        /\ To("dispatcher", k, "test")
        /\ misled' = (misled \/ u # sender[k])
        /\ \/ /\ sender' = [sender EXCEPT ![k] = 0]
              /\ user' = [user EXCEPT ![k] = 0]
              /\ UNCHANGED <<users, users_iter, broken>>
           \/ /\ u \in 1..users
              /\ users' = users - 1
              /\ users_iter' = IF users_iter > u THEN users_iter - 1 ELSE users_iter
              /\ sender' = [j \in 1..MaxThreads |-> IF j = k THEN 0 ELSE Moved(sender[j])]
              /\ user' = [j \in 1..MaxThreads |-> IF j = k THEN 0 ELSE Moved(user[j])]
              /\ Breaks(IF users_iter = u /\ main \in {"lcu", "tell"}
                        THEN {"iterator"} ELSE {})
        /\ UNCHANGED <<main, joinVars, accept, status, listener, freed, crossed, late>>

\* worker(), after run(): the id is reset, in an object that should still be there.
End(w, k) ==
    /\ at[w][k] = "end"
    /\ To(w, k, "ended")
    /\ threadId' = [threadId EXCEPT ![w] = Zero]
    /\ Breaks(Use(w))
    /\ UNCHANGED <<main, joining, accept, status, listener, freed, users, iterVars,
                   lookVars, late>>

Work(w, k) ==
    \/ Begin(w, k) \/ Test(w, k) \/ Listened(w, k) \/ End(w, k)
    \/ w = "login" /\ HandleLogin(k)
    \/ w = "dispatcher" /\ (LookFirst(k) \/ Look(k) \/ LookNext(k) \/ Act(k))

-------------------------------------------------------------------------------
(* The main thread: the commands lcu and x. *)

\* Dispatcher::printUsers takes a mutex that no other thread takes.
PrintUsers ==
    /\ main = "menu" /\ users > 0
    /\ main' = "lcu"
    /\ MoveIter(0, 1)
    /\ UNCHANGED <<joinVars, accept, at, status, listener, freed, users, lookVars, late>>

\* One user is printed, or told that the server closes; then comes the next.
NextUser ==
    /\ main \in {"lcu", "tell"}
    /\ IF users_iter = users + 1
       THEN /\ main' = IF main = "lcu" THEN "menu" ELSE "delete listener"
            /\ UNCHANGED <<iterVars, broken>>
       ELSE MoveIter(0, users_iter + 1) /\ UNCHANGED main
    /\ UNCHANGED <<joinVars, accept, at, status, listener, freed, users, lookVars, late>>

\* x: Server::close calls LoginAndSignUp::close, which calls Dispatcher::close.
Close ==
    /\ main = "menu"
    /\ main' = "tell"
    /\ status' = [status EXCEPT !["server"] = FALSE, !["dispatcher"] = FALSE]
    /\ MoveIter(0, 1)
    /\ UNCHANGED <<joinVars, accept, at, listener, freed, users, lookVars, late>>

\* After the users were told, the dispatcher is joined and deleted, then the login
\* thread's object and the listening socket.
Order ==
    <<"delete listener", "join dispatcher", "flag", "delete dispatcher",
      "delete sockets", "join login", "close socket", "delete login", "ended">>

\* Variant: the dispatcher is not waited for.
AfterUnjoined(place) ==
    IF place = "delete listener" THEN "flag"
    ELSE Order[(CHOOSE i \in 1..8 : Order[i] = place) + 1]

After(place) == Order[(CHOOSE i \in 1..8 : Order[i] = place) + 1]

\* The listener is deleted if there has been one.
DeleteListener(w, place) ==
    /\ main = place
    /\ main' = After(place)
    /\ IF listener[w] = "NULL" THEN UNCHANGED <<listener, broken>> ELSE Delete(w)
    /\ UNCHANGED <<joinVars, accept, at, status, freed, users, iterVars, lookVars, late>>

\* waitForThread: pthread_join of no thread is undefined.
Join(w, place) ==
    /\ main = place
    /\ IF threadId[w] \in 1..MaxThreads
       THEN /\ main' = "waiting" /\ joining' = <<w, threadId[w], place>>
            /\ UNCHANGED <<threadId, broken>>
       ELSE /\ main' = After(place)
            /\ threadId' = [threadId EXCEPT ![w] = Zero]
            /\ Breaks({"join of no thread"})
            /\ UNCHANGED joining
    /\ UNCHANGED <<accept, at, status, listener, freed, users, iterVars, lookVars, late>>

Joined ==
    /\ main = "waiting"
    /\ at[joining[1]][joining[2]] = "ended"
    /\ main' = After(joining[3])
    /\ threadId' = [threadId EXCEPT ![joining[1]] = Zero]
    /\ joining' = <<>>
    /\ UNCHANGED <<accept, at, status, listener, freed, users, iterVars, lookVars, broken,
                   late>>

\* ~MThread cancels the thread of the id, if it is one: that thread ends when it next
\* waits for something, or has ended before it comes to that.
DeleteObject(w, place) ==
    /\ main = place
    /\ main' = After(place)
    /\ freed' = freed \cup {w}
    /\ \/ UNCHANGED at
       \/ /\ threadId[w] \in 1..MaxThreads
          /\ To(w, threadId[w], "ended")
    /\ Breaks(IF threadId[w] = Garbage THEN {"cancel of no thread"} ELSE {})
    /\ UNCHANGED <<joinVars, accept, status, listener, users, iterVars, lookVars, late>>

\* Variant: the flag of the login thread stays up.
ClearFlagNot ==
    /\ main = "flag"
    /\ main' = After(main)
    /\ UNCHANGED <<joinVars, accept, at, status, listener, freed, users, iterVars, lookVars,
                   broken, late>>

ClearFlag ==
    /\ main = "flag"
    /\ main' = After(main)
    /\ status' = [status EXCEPT !["login"] = FALSE]
    /\ UNCHANGED <<joinVars, accept, at, listener, freed, users, iterVars, lookVars, broken,
                   late>>

\* The accept thread may not have created the socket yet.
CloseSocket ==
    /\ main = "close socket"
    /\ main' = After(main)
    /\ freed' = freed \cup {"listening socket"}
    /\ Breaks(IF accept = "begin" THEN {"null pointer"} ELSE {})
    /\ UNCHANGED <<joinVars, accept, at, status, listener, users, iterVars, lookVars, late>>

Shut ==
    \/ main = "tell" /\ NextUser
    \/ DeleteListener("dispatcher", "delete listener")
    \/ Join("dispatcher", "join dispatcher") \/ Joined
    \/ ClearFlag
    \/ DeleteObject("dispatcher", "delete dispatcher")
    \/ DeleteListener("login", "delete sockets")
    \/ Join("login", "join login")
    \/ CloseSocket
    \/ DeleteObject("login", "delete login")

-------------------------------------------------------------------------------
(* The whole. *)

Init ==
    /\ main = "menu" /\ joining = <<>> /\ accept = "begin"
    /\ at = [w \in Worker |-> [k \in 1..MaxThreads |-> "none"]]
    /\ status = [o \in Worker \cup {"server"} |-> FALSE]
    /\ threadId = [w \in Worker |-> Garbage]
    /\ listener = [w \in Worker |-> "NULL"]
    /\ freed = {}
    /\ users = 0 /\ users_iter = 1
    /\ sender = [k \in 1..MaxThreads |-> 0] /\ user = [k \in 1..MaxThreads |-> 0]
    /\ crossed = FALSE /\ misled = FALSE /\ late = FALSE /\ crashed = FALSE
    /\ broken = {}

Running == ~crashed /\ main # "ended"

Accept == Running /\ (AcceptBegins \/ addPeer \/ AcceptFails) /\ UNCHANGED crashed

WorkerThread(w, k) == Running /\ Work(w, k) /\ UNCHANGED crashed

ShutDown == Running /\ Shut /\ UNCHANGED crashed

Command == Running /\ (PrintUsers \/ (main = "lcu" /\ NextUser) \/ Close) /\ UNCHANGED crashed

\* What undefined behaviour does to the process.
Die == /\ Running /\ broken # {}
       /\ crashed' = TRUE
       /\ UNCHANGED <<main, joinVars, accept, at, status, listener, freed, users, iterVars,
                      lookVars, broken, late>>

Next == \/ Accept \/ Command \/ ShutDown \/ Die
        \/ \E w \in Worker, k \in 1..MaxThreads : WorkerThread(w, k)

\* The operating system schedules the main thread while it closes, and the workers.
Spec == /\ Init /\ [][Next]_vars
        /\ WF_vars(ShutDown)
        /\ \A w \in Worker, k \in 1..MaxThreads : WF_vars(WorkerThread(w, k))

-------------------------------------------------------------------------------
(* Properties. *)

Kinds == {"use after delete", "double delete", "iterator", "join of no thread",
          "cancel of no thread", "null pointer"}

TypeOK ==
    /\ main \in {"menu", "lcu", "tell", "waiting"} \cup {Order[i] : i \in 1..9}
    /\ accept \in {"begin", "accepting", "ended"}
    /\ at \in [Worker -> [1..MaxThreads -> {"none", "begin", "test", "listening", "handle",
                                            "look", "next", "act", "end", "ended"}]]
    /\ status \in [Worker \cup {"server"} -> BOOLEAN]
    /\ threadId \in [Worker -> Zero..Garbage]
    /\ listener \in [Worker -> {"NULL", "allocated", "deleted"}]
    /\ users \in 0..MaxUsers /\ users_iter \in 1..(users + 1)
    /\ broken \subseteq Kinds

\* LoginAndSignUp.cpp:26 waits before line 29 deletes: nobody uses the dispatcher or the
\* login object after it was deleted.  Whatever the workers are doing as x is typed,
\* close() ends them first, if no connection, login or thread comes after it.
DeletedAfterUse == "use after delete" \in broken => late

Active(w) == {k \in 1..MaxThreads : at[w][k] \notin {"none", "ended"}}

\* Dispatcher.cpp:41, LoginAndSignUp.cpp:132: the flags that keep a second thread from being started on an object do so until the
\* server closes, through all interleavings of accepting, logging in and beginning.
OneThreadEach == ~late => \A w \in Worker : Cardinality(Active(w)) <= 1

\* Dispatcher.cpp:129-137: a handler acts for another user than its sender only if
\* another thread has moved the iterator under it, as `lcu' or `x' of the server's
\* command line do; logins and exits in the middle of a handler do not harm.
MisledByOthers == misled => crossed \/ late

\* Server.cpp:71 "x - close the app": close() waits for threads that were told to end
\* and do, whatever they are doing as x is typed, so that x ends the server; if every
\* handler returns, and no connection, login or thread comes after it.
CloseEnds == Closing ~> (main = "ended" \/ crashed \/ late)
===============================================================================
