--------------------------------- MODULE Wire ---------------------------------
(***************************************************************************)
(* What commands and strings are on a connection: a command or a length is *)
(* four bytes in network order, a string is its length and its characters. *)
(* Each is written by a write() of its own and read by one read(), which   *)
(* returns what there is and no more than was asked for.                   *)
(***************************************************************************)
EXTENDS Naturals, Sequences, FiniteSets, SequencesExt

CONSTANTS
    NULL

\* NULL is neither a number, nor a request that is being read, nor a message that is
\* being written.
ASSUME NullIsNothing ==
    NULL \notin Nat \cup [cmd : Nat, count : Nat, args : Seq(Seq(1..255)), len : Nat \cup {NULL}]
                   \cup [cmd : Nat, begun : BOOLEAN]

\* The commands of Protocol.h that the model sends.
OPEN_SESSION_WITH_USER == 2
EXIT == 3
LOGIN == 7
SIGNUP == 8
OPEN_CHATROOM == 9
GET_ALL_USERS == 13
CONFIRM_USER == 16
LOGIN_DENIED == 17
BAD_COMMAND == 19
OPEN_SESSION_ERROR == 23
GET_CHATROOM_USERS == 38
TARGET_IP_AND_PORT == 41
ALL_USERS_LIST == 49

\* A message: a command, perhaps the number of its strings, and the strings.
Message == [cmd : Nat, args : Seq(Seq(1..255))]

Msg(cmd, args) == [cmd |-> cmd, args |-> args]

-------------------------------------------------------------------------------
(* Writing: the arguments of the calls of write(), in order. *)

\* htonl, for numbers of one byte.
Word(n) == <<0, 0, 0, n>>

writeCommand(n) == <<Word(n)>>

writeMsg(text) == <<Word(Len(text)), text>>

\* writeMsg for one string after the other: its writes alternate.
writeMsgs(texts) ==
    [k \in 1..(2 * Len(texts)) |-> LET i == (k + 1) \div 2
                                   IN  writeMsg(texts[i])[IF k = 2 * i THEN 2 ELSE 1]]

-------------------------------------------------------------------------------
(* Reading. *)

Least(m, n) == IF m <= n THEN m ELSE n

\* One read() of at most n bytes, and what it leaves.
Taken(bytes, n) == SubSeq(bytes, 1, Least(n, Len(bytes)))
Rest(bytes, n) == SubSeq(bytes, Least(n, Len(bytes)) + 1, Len(bytes))

\* ntohl of an int that was 0 before these bytes were read into it.
Number(bytes) ==
    LET b(i) == IF i <= Len(bytes) THEN bytes[i] ELSE 0
    IN  16777216 * b(1) + 65536 * b(2) + 256 * b(3) + b(4)

\* Variant: the buffer is not taken for a terminated string.
StringWhole(bytes) == bytes

\* The string that starts the zeroed buffer the bytes were read into.
String(bytes) ==
    LET zeros == {i \in DOMAIN bytes : bytes[i] = 0}
    IN  IF zeros = {} THEN bytes
        ELSE SubSeq(bytes, 1, (CHOOSE i \in zeros : \A j \in zeros : i <= j) - 1)

\* A request of which the command has been read: `count' strings belong to it, and the
\* next one has length `len', NULL before its length is read.
Begun(cmd, count) == [cmd |-> cmd, count |-> count, args |-> <<>>, len |-> NULL]

Complete(request) == Len(request.args) = request.count

\* How many bytes the next read() asks for.
Wanted(request) == IF request.len = NULL THEN 4 ELSE request.len

\* A read() waits for bytes unless none are asked for or the other side has closed.
Blocked(request, bytes, eof) == bytes = <<>> /\ ~eof /\ Wanted(request) # 0

\* readMsg once the length is known.
readMsg(request, bytes) ==
    [request EXCEPT !.args = Append(@, String(Taken(bytes, request.len))), !.len = NULL]

\* What one more read() makes of a request.  readMsg makes "0", character 48, of the
\* end of the file, if it comes instead of a length; nothing notices a short read.
ReadOn(request, bytes) ==
    IF request.len # NULL THEN readMsg(request, bytes)
    ELSE IF bytes = <<>> THEN [request EXCEPT !.args = Append(@, <<48>>)]
    ELSE [request EXCEPT !.len = Number(Taken(bytes, 4))]
===============================================================================
