--------------------------- MODULE ConnectionProofs ---------------------------
(***************************************************************************)
(* Proofs about one connection, for any requests a user may type and any   *)
(* number of them: what the reading threads take the bytes for, and whose  *)
(* writes may mix.                                                         *)
(***************************************************************************)
EXTENDS Connection, SequenceTheorems, WellFoundedInduction, TLAPS

Byte == 0..255
Text == Seq(1..255)

-------------------------------------------------------------------------------
(* A sequence that is put together from parts. *)

\* s is parts[1] \o parts[2] \o ... : `at' is where each of them ends.
Joined(s, parts) ==
    \E at \in [0..Len(parts) -> 0..Len(s)] :
        /\ at[0] = 0 /\ at[Len(parts)] = Len(s)
        /\ \A j, k \in 0..Len(parts) : j <= k => at[j] <= at[k]
        /\ \A k \in 1..Len(parts) :
              /\ at[k] = at[k - 1] + Len(parts[k])
              /\ \A i \in 1..Len(parts[k]) : s[at[k - 1] + i] = parts[k][i]

\* A part that ends inside the whole lies inside it.
LEMMA InsidePart ==
    ASSUME NEW start \in Nat, NEW len \in Nat, NEW whole \in Nat,
           NEW end \in 0..whole, end = start + len, NEW i \in Nat \ {0}, i <= len
    PROVE  start + i \in 1..whole
OBVIOUS

\* Nothing is put together from no parts.
LEMMA JoinedNone ==
    ASSUME NEW S, NEW s \in Seq(S)
    PROVE  Joined(s, <<>>) <=> s = <<>>
<1>1. ASSUME s = <<>>
      PROVE  Joined(s, <<>>)
  <2> DEFINE at == [k \in 0..0 |-> 0]
  <2>1. at \in [0..Len(<<>>) -> 0..Len(s)] /\ at[0] = 0 /\ Len(s) = 0 /\ Len(<<>>) = 0
      BY <1>1
  <2>2. \A k \in 0..0 : at[k] = 0
      OBVIOUS
  <2> HIDE DEF at
  <2> QED
      BY <2>1, <2>2 DEF Joined
<1>2. ASSUME Joined(s, <<>>)
      PROVE  s = <<>>
  <2>1. Len(s) = 0
      BY <1>2 DEF Joined
  <2> QED
      BY <2>1
<1> QED
    BY <1>1, <1>2

\* One part more, at the end.
LEMMA JoinedMore ==
    ASSUME NEW S, NEW s \in Seq(S), NEW parts \in Seq(Seq(S)), NEW part \in Seq(S),
           Joined(s, parts)
    PROVE  Joined(s \o part, Append(parts, part))
<1> DEFINE n == Len(parts)
           t == s \o part
           more == Append(parts, part)
<1>1. PICK at \in [0..n -> 0..Len(s)] :
         /\ at[0] = 0 /\ at[n] = Len(s)
         /\ \A j, k \in 0..n : j <= k => at[j] <= at[k]
         /\ \A k \in 1..n : /\ at[k] = at[k - 1] + Len(parts[k])
                            /\ \A i \in 1..Len(parts[k]) : s[at[k - 1] + i] = parts[k][i]
    BY DEF Joined
<1> DEFINE to == [k \in 0..(n + 1) |-> IF k = n + 1 THEN Len(t) ELSE at[k]]
<1>2. n \in Nat /\ Len(s) \in Nat /\ Len(part) \in Nat
    OBVIOUS
<1>3. /\ Len(t) = Len(s) + Len(part)
      /\ \A i \in 1..Len(s) : t[i] = s[i]
      /\ \A i \in 1..Len(part) : t[Len(s) + i] = part[i]
  <2>1. \A i \in 1..(Len(s) + Len(part)) : t[i] = IF i <= Len(s) THEN s[i] ELSE part[i - Len(s)]
      BY ConcatProperties
  <2> HIDE DEF t
  <2>2. \A i \in 1..Len(s) : t[i] = s[i]
      BY <1>2, <2>1
  <2>3. ASSUME NEW i \in 1..Len(part)
        PROVE  t[Len(s) + i] = part[i]
    <3>1. Len(s) + i \in 1..(Len(s) + Len(part)) /\ ~(Len(s) + i <= Len(s))
          /\ Len(s) + i - Len(s) = i
        BY <1>2
    <3> QED
        BY <2>1, <3>1, SMTT(30)
  <2> QED
      BY <2>2, <2>3, ConcatProperties DEF t
<1>4. /\ Len(more) = n + 1 /\ more[n + 1] = part
      /\ \A k \in 1..n : more[k] = parts[k]
    OBVIOUS
<1>5. \A k \in 1..n : Len(parts[k]) \in Nat
    OBVIOUS
<1> HIDE DEF t, more, n
<1>6. /\ \A k \in 0..n : to[k] = at[k]
      /\ to[n + 1] = Len(t)
      /\ \A k \in 0..n : at[k] \in 0..Len(s)
    BY <1>2
<1>7. to \in [0..(n + 1) -> 0..Len(t)]
    BY <1>1, <1>2, <1>3
<1> HIDE DEF to
<1>8. \A j, k \in 0..(n + 1) : j <= k => to[j] <= to[k]
  <2> SUFFICES ASSUME NEW j \in 0..(n + 1), NEW k \in 0..(n + 1), j <= k
               PROVE  to[j] <= to[k]
      OBVIOUS
  <2>1. CASE k = n + 1
      BY <1>2, <1>6, <1>7, <2>1
  <2>2. CASE k # n + 1
    <3>1. j \in 0..n /\ k \in 0..n
        BY <1>2, <2>2
    <3> QED
        BY <1>1, <1>6, <3>1
  <2> QED
      BY <2>1, <2>2
<1>9. ASSUME NEW k \in 1..(n + 1)
      PROVE  /\ to[k] = to[k - 1] + Len(more[k])
             /\ \A i \in 1..Len(more[k]) : t[to[k - 1] + i] = more[k][i]
  <2>1. CASE k = n + 1
    <3>1. k - 1 = n /\ n \in 0..n
        BY <1>2, <2>1
    <3>2. to[k - 1] = Len(s)
        BY <1>1, <1>6, <3>1
    <3> QED
        BY <1>3, <1>4, <1>6, <2>1, <3>2
  <2>2. CASE k # n + 1
    <3>1. k \in 1..n /\ k \in 0..n /\ k - 1 \in 0..n
        BY <1>2, <2>2
    <3>2. to[k] = at[k] /\ to[k - 1] = at[k - 1] /\ more[k] = parts[k]
        BY <1>4, <1>6, <3>1
    <3>3. ASSUME NEW i \in 1..Len(parts[k])
          PROVE  t[at[k - 1] + i] = parts[k][i]
      <4>1. at[k] = at[k - 1] + Len(parts[k]) /\ s[at[k - 1] + i] = parts[k][i]
          BY <1>1, <3>1
      <4>2. /\ at[k - 1] \in Nat /\ at[k] \in 0..Len(s)
            /\ Len(parts[k]) \in Nat /\ i <= Len(parts[k]) /\ i \in Nat \ {0}
          BY <1>5, <1>6, <3>1
      <4>3. at[k - 1] + i \in 1..Len(s)
          BY <1>2, <4>1, <4>2, InsidePart
      <4> QED
          BY <1>3, <4>1, <4>3
    <3> QED
        BY <1>1, <3>1, <3>2, <3>3
  <2> QED
      BY <2>1, <2>2
<1>10. 0 \in 0..n
    BY <1>2
<1>11. to[0] = 0
    BY <1>1, <1>6, <1>10
<1>12. Joined(t, more)
  <2>1. Len(more) = n + 1
      BY <1>4
  <2>2. to \in [0..Len(more) -> 0..Len(t)] /\ to[Len(more)] = Len(t)
      BY <1>6, <1>7, <2>1
  <2>3. \A j, k \in 0..Len(more) : j <= k => to[j] <= to[k]
      BY <1>8, <2>1
  <2>4. \A k \in 1..Len(more) :
           /\ to[k] = to[k - 1] + Len(more[k])
           /\ \A i \in 1..Len(more[k]) : t[to[k - 1] + i] = more[k][i]
      BY <1>9, <2>1
  <2> QED
      BY <1>11, <2>2, <2>3, <2>4 DEF Joined
<1> QED
    BY <1>12 DEF t, more

\* What is left of a sequence without its first elements.
LEMMA WithoutFirst ==
    ASSUME NEW S, NEW s \in Seq(S), NEW c \in Nat, c <= Len(s)
    PROVE  /\ SubSeq(s, c + 1, Len(s)) \in Seq(S)
           /\ Len(SubSeq(s, c + 1, Len(s))) = Len(s) - c
           /\ \A i \in 1..(Len(s) - c) : SubSeq(s, c + 1, Len(s))[i] = s[c + i]
<1> DEFINE n == Len(s)
           t == SubSeq(s, c + 1, n)
<1>1. n \in Nat /\ c + 1 \in Int /\ n \in Int
    OBVIOUS
<1>2. \A i \in (c + 1)..n : s[i] \in S
  <2>1. \A i \in 1..n : s[i] \in S
      OBVIOUS
  <2> QED
      BY <1>1, <2>1
<1> HIDE DEF n
<1>3. /\ t \in Seq(S)
      /\ Len(t) = IF c + 1 <= n THEN n - (c + 1) + 1 ELSE 0
      /\ \A i \in 1..(n - (c + 1) + 1) : t[i] = s[c + 1 + i - 1]
    BY <1>1, <1>2, SubSeqProperties
<1> HIDE DEF t
<1>4. c <= n
    BY DEF n
<1>5. Len(t) = n - c /\ n - (c + 1) + 1 = n - c
    BY <1>1, <1>3, <1>4
<1>6. \A i \in 1..(n - c) : c + 1 + i - 1 = c + i
    BY <1>1
<1> QED
    BY <1>3, <1>5, <1>6 DEF n, t

\* The first part, and what is left without it.
LEMMA JoinedHead ==
    ASSUME NEW S, NEW s \in Seq(S), NEW parts \in Seq(Seq(S)), parts # <<>>,
           Joined(s, parts)
    PROVE  /\ Len(Head(parts)) <= Len(s)
           /\ \A i \in 1..Len(Head(parts)) : s[i] = Head(parts)[i]
           /\ Joined(SubSeq(s, Len(Head(parts)) + 1, Len(s)), Tail(parts))
<1> DEFINE n == Len(parts)
           c == Len(Head(parts))
           t == SubSeq(s, c + 1, Len(s))
           less == Tail(parts)
<1>1. PICK at \in [0..n -> 0..Len(s)] :
         /\ at[0] = 0 /\ at[n] = Len(s)
         /\ \A j, k \in 0..n : j <= k => at[j] <= at[k]
         /\ \A k \in 1..n : /\ at[k] = at[k - 1] + Len(parts[k])
                            /\ \A i \in 1..Len(parts[k]) : s[at[k - 1] + i] = parts[k][i]
    BY DEF Joined
<1>2. /\ n \in Nat \ {0} /\ Len(s) \in Nat /\ c \in Nat
      /\ Head(parts) = parts[1]
      /\ Len(less) = n - 1
      /\ \A k \in 1..(n - 1) : less[k] = parts[k + 1]
      /\ \A k \in 1..n : Len(parts[k]) \in Nat
    OBVIOUS
<1> HIDE DEF n, less
<1>3. 1 \in 1..n /\ 0 \in 0..n /\ 1 \in 0..n /\ n \in 0..n /\ 1 - 1 = 0
    BY <1>2
<1>4. at[1] = c /\ c <= Len(s)
  <2>1. at[1] = at[1 - 1] + Len(parts[1])
      BY <1>1, <1>3
  <2>2. at[1] = c
      BY <1>1, <1>2, <1>3, <2>1
  <2> QED
      BY <1>1, <1>2, <1>3, <2>2
<1>5. \A i \in 1..c : s[i] = Head(parts)[i]
  <2> SUFFICES ASSUME NEW i \in 1..c
               PROVE  s[i] = parts[1][i]
      BY <1>2
  <2>1. s[at[1 - 1] + i] = parts[1][i]
      BY <1>1, <1>2, <1>3
  <2>2. at[1 - 1] + i = i
      BY <1>1, <1>2, <1>3
  <2> QED
      BY <2>1, <2>2
<1>6. /\ t \in Seq(S) /\ Len(t) = Len(s) - c
      /\ \A i \in 1..(Len(s) - c) : t[i] = s[c + i]
    BY <1>2, <1>4, WithoutFirst, ZenonT(60)
<1> DEFINE to == [k \in 0..(n - 1) |-> at[k + 1] - c]
<1>7. ASSUME NEW k \in 0..(n - 1)
      PROVE  /\ k + 1 \in 0..n /\ to[k] = at[k + 1] - c
             /\ at[k + 1] \in Nat /\ at[k + 1] >= c /\ at[k + 1] <= Len(s)
  <2>1. k + 1 \in 0..n /\ 1 <= k + 1
      BY <1>2
  <2> QED
      BY <1>1, <1>2, <1>3, <1>4, <2>1
<1> HIDE DEF c, t
<1>8. to \in [0..(n - 1) -> 0..Len(t)]
  <2>1. \A k \in 0..(n - 1) : at[k + 1] - c \in 0..Len(t)
      BY <1>2, <1>4, <1>6, <1>7
  <2> QED
      BY <2>1
<1> HIDE DEF to
<1>9. to[0] = 0 /\ to[n - 1] = Len(t)
  <2>1. 0 \in 0..(n - 1) /\ n - 1 \in 0..(n - 1) /\ n - 1 + 1 = n /\ 0 + 1 = 1
      BY <1>2
  <2>2. to[0] = at[1] - c /\ to[n - 1] = at[n] - c
      BY <1>7, <2>1
  <2> QED
      BY <1>1, <1>2, <1>4, <1>6, <2>2
<1>10. \A j, k \in 0..(n - 1) : j <= k => to[j] <= to[k]
  <2> SUFFICES ASSUME NEW j \in 0..(n - 1), NEW k \in 0..(n - 1), j <= k
               PROVE  to[j] <= to[k]
      OBVIOUS
  <2>1. j + 1 \in 0..n /\ k + 1 \in 0..n /\ j + 1 <= k + 1
      BY <1>2
  <2>2. at[j + 1] <= at[k + 1]
      BY <1>1, <2>1
  <2> QED
      BY <1>2, <1>7, <2>2, SMTT(30)
<1>11. ASSUME NEW k \in 1..(n - 1)
       PROVE  /\ to[k] = to[k - 1] + Len(less[k])
              /\ \A i \in 1..Len(less[k]) : t[to[k - 1] + i] = less[k][i]
  <2>1. /\ k \in 0..(n - 1) /\ k - 1 \in 0..(n - 1) /\ k + 1 \in 1..n
        /\ k - 1 + 1 = k /\ k + 1 - 1 = k
      BY <1>2
  <2>2. /\ to[k] = at[k + 1] - c /\ to[k - 1] = at[k] - c /\ less[k] = parts[k + 1]
        /\ at[k] \in Nat /\ at[k] >= c /\ at[k + 1] \in Nat /\ at[k + 1] <= Len(s)
        /\ Len(parts[k + 1]) \in Nat
      BY <1>2, <1>7, <2>1
  <2>3. /\ at[k + 1] = at[k] + Len(parts[k + 1])
        /\ \A i \in 1..Len(parts[k + 1]) : s[at[k] + i] = parts[k + 1][i]
      BY <1>1, <2>1
  <2>4. ASSUME NEW i \in 1..Len(parts[k + 1])
        PROVE  t[at[k] - c + i] = parts[k + 1][i]
    <3>1. at[k] - c + i \in 1..(Len(s) - c) /\ c + (at[k] - c + i) = at[k] + i
      <4>1. /\ at[k] + Len(parts[k + 1]) <= Len(s) /\ Len(s) \in Nat /\ c \in Nat
            /\ at[k] \in Nat /\ Len(parts[k + 1]) \in Nat /\ c <= at[k]
          BY <1>2, <2>2, <2>3
      <4>2. PICK a \in Nat, l \in Nat, w \in Nat, d \in Nat, e \in Nat :
               a = at[k] /\ l = Len(parts[k + 1]) /\ w = Len(s) /\ d = c /\ e = i
          BY <4>1
      <4>3. a + l <= w /\ d <= a /\ 1 <= e /\ e <= l
          BY <4>1, <4>2
      <4>4. a - d + e \in 1..(w - d) /\ d + (a - d + e) = a + e
          BY <4>3
      <4> QED
          BY <4>2, <4>4
    <3> QED
        BY <1>6, <2>3, <3>1
  <2>5. at[k + 1] - c = at[k] - c + Len(parts[k + 1])
    <3>1. /\ at[k] \in Nat /\ Len(parts[k + 1]) \in Nat /\ c \in Nat
          /\ at[k + 1] = at[k] + Len(parts[k + 1])
        BY <1>2, <2>2, <2>3
    <3> QED
        BY <3>1
  <2> QED
      BY <2>2, <2>4, <2>5
<1>12. Joined(t, less)
  <2>1. Len(less) = n - 1
      BY <1>2
  <2>2. to \in [0..Len(less) -> 0..Len(t)] /\ to[Len(less)] = Len(t)
      BY <1>8, <1>9, <2>1
  <2>3. \A j, k \in 0..Len(less) : j <= k => to[j] <= to[k]
      BY <1>10, <2>1
  <2>4. \A k \in 1..Len(less) :
           /\ to[k] = to[k - 1] + Len(less[k])
           /\ \A i \in 1..Len(less[k]) : t[to[k - 1] + i] = less[k][i]
      BY <1>11, <2>1
  <2> QED
      BY <1>9, <2>2, <2>3, <2>4 DEF Joined
<1> QED
    BY <1>4, <1>5, <1>12 DEF c, t, less

\* Something is put together from something.
LEMMA JoinedSome ==
    ASSUME NEW S, NEW s \in Seq(S), NEW parts \in Seq(Seq(S)), Joined(s, parts), s # <<>>
    PROVE  parts # <<>>
BY JoinedNone

-------------------------------------------------------------------------------
(* Bytes, numbers and strings. *)

\* What a read() returns, and leaves, are bytes.
LEMMA ReadType ==
    ASSUME NEW bytes \in Seq(Byte), NEW n \in Nat
    PROVE  Taken(bytes, n) \in Seq(Byte) /\ Rest(bytes, n) \in Seq(Byte)
<1> DEFINE m == Least(n, Len(bytes))
<1>1. m \in Nat /\ m <= Len(bytes) /\ Len(bytes) \in Nat
    BY DEF Least
<1> HIDE DEF m
<1>2. \A i \in 1..m : bytes[i] \in Byte
  <2>1. \A i \in 1..Len(bytes) : bytes[i] \in Byte
      OBVIOUS
  <2> QED
      BY <1>1, <2>1
<1>3. SubSeq(bytes, 1, m) \in Seq(Byte)
    BY <1>1, <1>2, SubSeqProperties
<1>4. SubSeq(bytes, m + 1, Len(bytes)) \in Seq(Byte)
    BY <1>1, WithoutFirst
<1> QED
    BY <1>3, <1>4 DEF Taken, Rest, m

\* A read() that asks for as many bytes as the first write has gets that write.
LEMMA ReadPart ==
    ASSUME NEW bytes \in Seq(Byte), NEW parts \in Seq(Seq(Byte)), parts # <<>>,
           Joined(bytes, parts)
    PROVE  LET n == Len(Head(parts))
           IN  /\ Taken(bytes, n) = Head(parts)
               /\ Joined(Rest(bytes, n), Tail(parts))
<1> DEFINE n == Len(Head(parts))
<1>1. /\ Head(parts) \in Seq(Byte) /\ n \in Nat /\ n <= Len(bytes)
      /\ \A i \in 1..n : bytes[i] = Head(parts)[i]
      /\ Joined(SubSeq(bytes, n + 1, Len(bytes)), Tail(parts))
  <2>1. Head(parts) \in Seq(Byte)
      OBVIOUS
  <2> QED
      BY <2>1, JoinedHead
<1> DEFINE first == Head(parts)
<1>2. first \in Seq(Byte) /\ Len(first) = n
    BY <1>1
<1> HIDE DEF first, n
<1>3. Least(n, Len(bytes)) = n
    BY <1>1 DEF Least
<1>4. SubSeq(bytes, 1, n) = first
  <2>1. \A i \in 1..n : bytes[i] \in Byte
    <3>1. \A i \in 1..Len(bytes) : bytes[i] \in Byte /\ Len(bytes) \in Nat
        OBVIOUS
    <3>2. Len(bytes) \in Nat
        OBVIOUS
    <3> QED
        BY <1>1, <3>1, <3>2
  <2>2. /\ SubSeq(bytes, 1, n) \in Seq(Byte)
        /\ Len(SubSeq(bytes, 1, n)) = IF 1 <= n THEN n - 1 + 1 ELSE 0
        /\ \A i \in 1..(n - 1 + 1) : SubSeq(bytes, 1, n)[i] = bytes[1 + i - 1]
      BY <1>1, <2>1, SubSeqProperties
  <2> DEFINE t == SubSeq(bytes, 1, n)
  <2> HIDE DEF t
  <2>3. t \in Seq(Byte) /\ Len(t) = n
      BY <1>1, <2>2 DEF t
  <2>4. \A i \in 1..n : t[i] = first[i]
    <3>1. \A i \in 1..n : i \in 1..(n - 1 + 1) /\ 1 + i - 1 = i
        BY <1>1
    <3>2. \A i \in 1..n : t[i] = bytes[i]
        BY <2>2, <3>1 DEF t
    <3> QED
        BY <1>1, <3>2 DEF first
  <2> QED
      BY <1>2, <2>3, <2>4, SeqEqual DEF t
<1> QED
    BY <1>1, <1>3, <1>4 DEF Taken, Rest, first, n

\* A number of one byte survives htonl and ntohl, and is four bytes in between.
LEMMA WordIsRead ==
    ASSUME NEW n \in Byte
    PROVE  /\ Word(n) \in Seq(Byte) /\ Len(Word(n)) = 4
           /\ Number(Word(n)) = n
<1>1. Word(n) \in Seq(Byte) /\ Len(Word(n)) = 4
    BY DEF Word, Byte
<1>2. Word(n)[1] = 0 /\ Word(n)[2] = 0 /\ Word(n)[3] = 0 /\ Word(n)[4] = n
    BY DEF Word
<1> QED
    BY <1>1, <1>2 DEF Number, Byte

\* Whatever is read is a number.
LEMMA NumberType ==
    ASSUME NEW bytes \in Seq(Byte)
    PROVE  Number(bytes) \in Nat
<1> DEFINE b(i) == IF i <= Len(bytes) THEN bytes[i] ELSE 0
<1>1. \A i \in {1, 2, 3, 4} : b(i) \in Nat
  <2>1. \A i \in 1..Len(bytes) : bytes[i] \in Byte
      OBVIOUS
  <2>2. Byte \in SUBSET Nat /\ Len(bytes) \in Nat
      BY DEF Byte
  <2>3. \A i \in {1, 2, 3, 4} : i <= Len(bytes) => i \in 1..Len(bytes)
      BY <2>2
  <2> QED
      BY <2>1, <2>2, <2>3
<1>2. PICK w \in Nat, x \in Nat, y \in Nat, z \in Nat :
         w = b(1) /\ x = b(2) /\ y = b(3) /\ z = b(4)
    BY <1>1
<1>3. Number(bytes) = 16777216 * b(1) + 65536 * b(2) + 256 * b(3) + b(4)
    BY DEF Number
<1> HIDE DEF b
<1>4. 16777216 * w + 65536 * x + 256 * y + z \in Nat
    OBVIOUS
<1> QED
    BY <1>2, <1>3, <1>4

\* A set of numbers has a first one.
LEMMA FirstOf ==
    ASSUME NEW S \in SUBSET Nat, S # {}
    PROVE  (CHOOSE i \in S : \A j \in S : i <= j) \in S
           /\ \A j \in S : (CHOOSE i \in S : \A k \in S : i <= k) <= j
<1>1. \E i \in S : \A j \in S : ~(<<j, i>> \in OpToRel(<, Nat))
    BY NatLessThanWellFounded, WFMin
<1>2. \E i \in S : \A j \in S : ~(j < i)
    BY <1>1 DEF OpToRel
<1>3. \E i \in S : \A j \in S : i <= j
    BY <1>2
<1> QED
    BY <1>3

\* Whatever is read into the zeroed buffer is a string without a zero.
LEMMA StringType ==
    ASSUME NEW bytes \in Seq(Byte)
    PROVE  String(bytes) \in Text
<1> DEFINE zeros == {i \in DOMAIN bytes : bytes[i] = 0}
<1>0. Len(bytes) \in Nat /\ DOMAIN bytes = 1..Len(bytes)
    OBVIOUS
<1>1. \A i \in 1..Len(bytes) : bytes[i] \in 1..255 \/ bytes[i] = 0
  <2>1. \A i \in 1..Len(bytes) : bytes[i] \in Byte
      OBVIOUS
  <2>2. \A b \in Byte : b \in 1..255 \/ b = 0
      BY DEF Byte
  <2> QED
      BY <2>1, <2>2
<1>2. CASE zeros = {}
  <2>1. \A i \in 1..Len(bytes) : bytes[i] \in 1..255
      BY <1>0, <1>1, <1>2
  <2>2. SubSeq(bytes, 1, Len(bytes)) \in Seq(1..255)
      BY <1>0, <2>1, SubSeqProperties
  <2>3. bytes \in Seq(1..255)
      BY <2>2, SubSeqFull
  <2> QED
      BY <1>2, <2>3 DEF String, Text
<1>3. CASE zeros # {}
  <2> DEFINE z == CHOOSE i \in zeros : \A j \in zeros : i <= j
  <2>1. zeros \in SUBSET Nat
      OBVIOUS
  <2>2. z \in zeros /\ \A j \in zeros : z <= j
      BY <1>3, <2>1, FirstOf
  <2>3. z \in 1..Len(bytes) /\ Len(bytes) \in Nat
      BY <2>2
  <2>4. String(bytes) = SubSeq(bytes, 1, z - 1)
      BY <1>3 DEF String
  <2> HIDE DEF z
  <2>5. ASSUME NEW i \in 1..(z - 1)
        PROVE  bytes[i] \in 1..255
    <3>1. i \in 1..Len(bytes) /\ ~(z <= i)
        BY <2>3
    <3>2. i \notin zeros
        BY <2>2, <3>1
    <3> QED
        BY <1>0, <1>1, <3>1, <3>2
  <2>6. 1 \in Int /\ z - 1 \in Int
      BY <2>3
  <2>7. SubSeq(bytes, 1, z - 1) \in Seq(1..255)
      BY <2>5, <2>6, SubSeqProperties
  <2> QED
      BY <2>4, <2>7 DEF Text
<1> QED
    BY <1>2, <1>3

\* A text that was read whole is the string.
LEMMA TextIsRead ==
    ASSUME NEW text \in Text
    PROVE  String(text) = text
<1>1. \A i \in DOMAIN text : text[i] # 0
  <2>1. text \in Seq(1..255)
      BY DEF Text
  <2>2. \A i \in DOMAIN text : text[i] \in 1..255
      BY <2>1, LenProperties, ElementOfSeq, ZenonT(60)
  <2>3. \A n \in 1..255 : n # 0
      OBVIOUS
  <2> QED
      BY <2>2, <2>3
<1> QED
    BY <1>1 DEF String

-------------------------------------------------------------------------------
(* What a request is on the wire. *)

\* What one write() writes.
Chunk == Seq(Byte)

\* The writes of a request.
Writes(req) == writeCommand(req.cmd) \o writeMsgs(req.args)

\* The writes of strings are, in turn, a length and the characters.
LEMMA StringsAlternate ==
    ASSUME NEW args \in Seq(Text), \A k \in DOMAIN args : Len(args[k]) \in Byte
    PROVE  LET w == writeMsgs(args)
               n == Len(args)
           IN  /\ w \in Seq(Chunk) /\ Len(w) = 2 * n
               /\ \A k \in 0..(n - 1) : /\ w[2 * k + 1] = Word(Len(args[k + 1]))
                                        /\ w[2 * k + 2] = args[k + 1]
<1> DEFINE w == writeMsgs(args)
           n == Len(args)
           i(k) == (k + 1) \div 2
<1>1. n \in Nat /\ DOMAIN args = 1..n
    OBVIOUS
<1>2. \A k \in 1..n : args[k] \in Text /\ Len(args[k]) \in Byte
    OBVIOUS
<1>3. \A k \in 1..n : args[k] \in Seq(Byte)
  <2>1. 1..255 \subseteq Byte
    <3>1. \A b \in 1..255 : b \in 0..255
        OBVIOUS
    <3> QED
        BY <3>1 DEF Byte
  <2>2. \A text \in Text : text \in Seq(Byte)
      BY <2>1, SeqMonotonic DEF Text
  <2> QED
      BY <1>2, <2>2
<1>4. \A k \in 1..n : Word(Len(args[k])) \in Seq(Byte)
    BY <1>2, WordIsRead
<1> HIDE DEF n
<1>5. \A k \in 1..(2 * n) : i(k) \in 1..n
    BY <1>1
<1>6. w = [k \in 1..(2 * n) |-> <<Word(Len(args[i(k)])), args[i(k)]>>[IF k = 2 * i(k) THEN 2 ELSE 1]]
    BY DEF writeMsgs, writeMsg, n
<1>7. \A k \in 1..(2 * n) : w[k] = IF k = 2 * i(k) THEN args[i(k)] ELSE Word(Len(args[i(k)]))
    BY <1>6
<1>8. \A k \in 1..(2 * n) : w[k] \in Seq(Byte)
    BY <1>3, <1>4, <1>5, <1>7
<1>9. Len(w) = 2 * n /\ w \in Seq(Chunk)
    BY <1>1, <1>6, <1>8 DEF Chunk
<1> HIDE DEF w
<1>10. ASSUME NEW k \in 0..(n - 1)
       PROVE  w[2 * k + 1] = Word(Len(args[k + 1])) /\ w[2 * k + 2] = args[k + 1]
  <2>1. /\ 2 * k + 1 \in 1..(2 * n) /\ i(2 * k + 1) = k + 1 /\ 2 * k + 1 # 2 * (k + 1)
        /\ 2 * k + 2 \in 1..(2 * n) /\ i(2 * k + 2) = k + 1 /\ 2 * k + 2 = 2 * (k + 1)
      BY <1>1
  <2> HIDE DEF i
  <2> QED
      BY <1>7, <2>1
<1> QED
    BY <1>9, <1>10 DEF w, n

\* What is typed are writes of bytes.
LEMMA WritesType ==
    ASSUME NEW req \in Typable
    PROVE  /\ req \in Message /\ req.cmd \in Byte \ {0} /\ req.args \in Seq(Text)
           /\ \A k \in DOMAIN req.args : Len(req.args[k]) \in Byte
           /\ Writes(req) \in Seq(Chunk)
           /\ Len(Writes(req)) = 1 + 2 * Len(req.args)
           /\ Writes(req)[1] = Word(req.cmd)
           /\ \A k \in 1..(2 * Len(req.args)) : Writes(req)[k + 1] = writeMsgs(req.args)[k]
<1>1. /\ req \in Message /\ req.cmd \in Byte \ {0} /\ req.args \in Seq(Text)
      /\ \A k \in DOMAIN req.args : Len(req.args[k]) \in Byte
  <2>1. req \in Message
      BY SomeRequests
  <2>2. req.args \in Seq(Seq(1..255))
      BY <2>1 DEF Message
  <2>3. req.cmd \in Byte \ {0}
    <3>1. req.cmd \in 1..255
        BY SomeRequests
    <3> QED
        BY <3>1 DEF Byte
  <2>4. \A k \in DOMAIN req.args : Len(req.args[k]) \in Byte
      BY SomeRequests DEF Byte
  <2> QED
      BY <2>1, <2>2, <2>3, <2>4 DEF Text
<1> DEFINE w == writeMsgs(req.args)
           c == <<Word(req.cmd)>>
<1>2. w \in Seq(Chunk) /\ Len(w) = 2 * Len(req.args) /\ Len(req.args) \in Nat
    BY <1>1, StringsAlternate
<1>3. Word(req.cmd) \in Seq(Byte)
    BY <1>1, WordIsRead
<1> HIDE DEF w
<1>4. c \in Seq(Chunk) /\ Len(c) = 1 /\ c[1] = Word(req.cmd)
    BY <1>3 DEF Chunk
<1>5. Writes(req) = c \o w
    BY DEF Writes, writeCommand, w
<1> HIDE DEF c
<1>6. /\ c \o w \in Seq(Chunk) /\ Len(c \o w) = 1 + Len(w)
      /\ \A k \in 1..(1 + Len(w)) : (c \o w)[k] = IF k <= 1 THEN c[k] ELSE w[k - 1]
  <2>1. /\ c \o w \in Seq(Chunk) /\ Len(c \o w) = Len(c) + Len(w)
        /\ \A k \in 1..(Len(c) + Len(w)) :
              (c \o w)[k] = IF k <= Len(c) THEN c[k] ELSE w[k - Len(c)]
      BY <1>2, <1>4, ConcatProperties
  <2> QED
      BY <1>4, <2>1
<1>7. \A k \in 1..Len(w) : k + 1 \in 1..(1 + Len(w)) /\ ~(k + 1 <= 1) /\ k + 1 - 1 = k
    BY <1>2
<1>8. 1 \in 1..(1 + Len(w)) /\ 1 <= 1
    BY <1>2
<1>9. Writes(req)[1] = Word(req.cmd)
    BY <1>4, <1>5, <1>6, <1>8
<1>10. \A k \in 1..Len(w) : Writes(req)[k + 1] = w[k]
    BY <1>5, <1>6, <1>7
<1> QED
    BY <1>1, <1>2, <1>5, <1>6, <1>9, <1>10 DEF w

-------------------------------------------------------------------------------
(* Types. *)

Request == [cmd : Nat, count : Nat, args : Seq(Text), len : Nat \cup {NULL}]
Answer == [cmd : Nat, begun : BOOLEAN]

\* TypeOK, and what it leaves open: the records, and that only what may be typed is.
Types ==
    /\ typed \in Seq(Typable) /\ understood \in Seq(Message)
    /\ outbox \in Seq(Chunk) /\ stream \in Seq(Byte)
    /\ {hungUp, early, torn, greeted, closing, mixed} \subseteq BOOLEAN
    /\ reader \in {"login", "handing over", "dispatcher"}
    /\ call \in Request \cup {NULL} /\ (call # NULL => ~Complete(call))
    /\ saying \in Answer \cup {NULL}

\* NULL is no record.
LEMMA NullIsOther == NULL \notin Nat \cup Request \cup Answer
BY NullIsNothing DEF Request, Answer, Text

LEMMA TypesImply == Types => TypeOK
<1> SUFFICES ASSUME Types PROVE TypeOK
    OBVIOUS
<1>1. typed \in Seq(Message)
    BY SomeRequests, SeqMonotonic DEF Types
<1>2. call # NULL => call.args \in Seq(Seq(1..255)) /\ ~Complete(call)
    BY DEF Types, Request, Text
<1>3. saying # NULL => saying.cmd \in Nat /\ saying.begun \in BOOLEAN
    BY DEF Types, Answer
<1>4. outbox \in Seq(Seq(0..255)) /\ stream \in Seq(0..255)
    BY DEF Chunk, Types, Byte
<1> QED
    BY <1>1, <1>2, <1>3, <1>4 DEF Types, TypeOK

\* The commands of answers are numbers.
LEMMA AnswersType == \A cmd : Answers(cmd) \subseteq Nat
BY DEF Answers, CONFIRM_USER, LOGIN_DENIED, BAD_COMMAND, TARGET_IP_AND_PORT,
       OPEN_SESSION_ERROR, ALL_USERS_LIST

\* A request that was just begun.
LEMMA BegunType ==
    ASSUME NEW cmd \in Nat
    PROVE  Begun(cmd, Takes(cmd)) \in Request
BY DEF Begun, Takes, Request

\* One read more.
LEMMA ReadOnType ==
    ASSUME NEW request \in Request
    PROVE  /\ ReadOn(request, stream) \in Request \/ stream \notin Seq(Byte)
           /\ ReadOn(request, stream).cmd = request.cmd
           /\ ReadOn(request, stream).count = request.count
<1>1. request.len \in Nat \cup {NULL} /\ request.args \in Seq(Text)
    BY DEF Request
<1>2. ASSUME stream \in Seq(Byte)
      PROVE  ReadOn(request, stream) \in Request
  <2>1. CASE request.len # NULL
    <3>1. String(Taken(stream, request.len)) \in Text
        BY <1>1, <1>2, <2>1, ReadType, StringType
    <3>2. Append(request.args, String(Taken(stream, request.len))) \in Seq(Text)
        BY <1>1, <3>1
    <3>3. ReadOn(request, stream) =
             [cmd |-> request.cmd, count |-> request.count, len |-> NULL,
              args |-> Append(request.args, String(Taken(stream, request.len)))]
        BY <2>1 DEF ReadOn, readMsg, Request
    <3> QED
        BY <3>2, <3>3 DEF Request
  <2>2. CASE request.len = NULL /\ stream = <<>>
    <3>1. <<48>> \in Text
        BY DEF Text
    <3>2. Append(request.args, <<48>>) \in Seq(Text)
        BY <1>1, <3>1
    <3> QED
        BY <2>2, <3>2 DEF ReadOn, Request
  <2>3. CASE request.len = NULL /\ stream # <<>>
    <3>1. Number(Taken(stream, 4)) \in Nat
        BY <1>2, ReadType, NumberType
    <3> QED
        BY <2>3, <3>1 DEF ReadOn, Request
  <2> QED
      BY <2>1, <2>2, <2>3
<1> QED
    BY <1>2 DEF ReadOn, readMsg, Request

\* What a reading thread does with a request it has read or not.
LEMMA GoOnType ==
    ASSUME Types, NEW request \in Request, GoOn(request)
    PROVE  /\ call' \in Request \cup {NULL} /\ (call' # NULL => ~Complete(call'))
           /\ understood' \in Seq(Message)
           /\ reader' \in {"login", "handing over", "dispatcher"}
           /\ saying' \in Answer \cup {NULL}
<1>1. CASE Complete(request) /\ Handle(request)
  <2>1. Msg(request.cmd, request.args) \in Message
      BY DEF Request, Msg, Message, Text
  <2>2. call' = NULL /\ understood' \in Seq(Message)
    <3>1. understood \in Seq(Message)
        BY DEF Types
    <3>2. Append(understood, Msg(request.cmd, request.args)) \in Seq(Message)
        BY <2>1, <3>1
    <3> QED
        BY <1>1, <3>2 DEF Handle
  <2>3. CASE Answers(request.cmd) = {}
      BY <1>1, <2>2, <2>3 DEF Handle, Types
  <2>4. CASE Answers(request.cmd) # {}
    <3>1. PICK cmd \in Answers(request.cmd) :
             /\ saying' = [cmd |-> cmd, begun |-> FALSE]
             /\ reader' = IF cmd = CONFIRM_USER THEN "handing over" ELSE reader
        BY <1>1, <2>4 DEF Handle
    <3>2. cmd \in Nat
        BY AnswersType
    <3>3. saying' \in Answer
        BY <3>1, <3>2 DEF Answer
    <3> QED
        BY <2>2, <3>1, <3>3 DEF Types
  <2> QED
      BY <2>3, <2>4
<1>2. CASE ~Complete(request)
    BY <1>2 DEF GoOn, Types
<1> QED
    BY <1>1, <1>2 DEF GoOn

\* The writes of a request are appended to the outbox.
LEMMA TypedWrites ==
    ASSUME Types, NEW req \in Typable, Type(req)
    PROVE  outbox' = outbox \o Writes(req)
<1> DEFINE c == writeCommand(req.cmd)
           w == writeMsgs(req.args)
<1>1. c \in Seq(Chunk) /\ w \in Seq(Chunk) /\ outbox \in Seq(Chunk)
  <2>1. Word(req.cmd) \in Seq(Byte)
      BY WritesType, WordIsRead
  <2>2. w \in Seq(Chunk)
      BY WritesType, StringsAlternate
  <2>3. <<Word(req.cmd)>> \in Seq(Chunk)
      BY <2>1 DEF Chunk
  <2>4. outbox \in Seq(Chunk)
      BY DEF Types
  <2> HIDE DEF w
  <2> QED
      BY <2>2, <2>3, <2>4 DEF writeCommand
<1>2. outbox' = outbox \o c \o w
    BY DEF Type
<1> HIDE DEF c, w
<1>3. outbox' = outbox \o (c \o w)
  <2>1. (outbox \o c) \o w = outbox \o (c \o w)
      BY <1>1, ConcatAssociative
  <2> QED
      BY <1>2, <2>1
<1> QED
    BY <1>3 DEF c, w, Writes

LEMMA InitTypes == Init => Types
<1> SUFFICES ASSUME Init PROVE Types
    OBVIOUS
<1>1. \A S : <<>> \in Seq(S)
    BY EmptySeq
<1>2. {hungUp, early, torn, greeted, closing, mixed} \subseteq BOOLEAN
    BY DEF Init
<1> QED
    BY <1>1, <1>2 DEF Init, Types

LEMMA TypesStep ==
    ASSUME Types, [Next]_vars
    PROVE  Types'
<1>1. ASSUME NEW req \in Typable, Type(req)
      PROVE  Types'
  <2>1. outbox' \in Seq(Chunk)
    <3>1. Writes(req) \in Seq(Chunk) /\ outbox \in Seq(Chunk)
        BY WritesType DEF Types
    <3>2. outbox' = outbox \o Writes(req)
        BY <1>1, TypedWrites
    <3> QED
        BY <3>1, <3>2, ConcatProperties
  <2>2. typed' \in Seq(Typable)
    <3>1. typed \in Seq(Typable) /\ typed' = Append(typed, req)
        BY <1>1 DEF Type, Types
    <3> QED
        BY <3>1
  <2>3. {hungUp', early'} \subseteq BOOLEAN
      BY <1>1 DEF Type, Types
  <2> QED
      BY <1>1, <2>1, <2>2, <2>3 DEF Type, Types, readVars, writeVars, Complete
<1>2. CASE CloseConnection
    BY <1>2 DEF CloseConnection, Types, netVars, readVars, writeVars, Complete
<1>3. CASE Arrive \/ ArriveInPart
  <2>1. /\ Head(outbox) \in Seq(Byte) /\ Tail(outbox) \in Seq(Chunk)
        /\ outbox \in Seq(Chunk) /\ stream \in Seq(Byte)
      BY <1>3, HeadTailProperties DEF Chunk, Arrive, ArriveInPart, Types
  <2>2. /\ Taken(Head(outbox), 1) \in Seq(Byte) /\ Rest(Head(outbox), 1) \in Seq(Byte)
      BY <2>1, ReadType
  <2>3. <<Rest(Head(outbox), 1)>> \in Seq(Chunk)
      BY <2>2 DEF Chunk
  <2>4. outbox' \in Seq(Chunk) /\ stream' \in Seq(Byte)
    <3>1. CASE Arrive
        BY <2>1, <3>1, ConcatProperties DEF Arrive
    <3>2. CASE ArriveInPart
        BY <2>1, <2>2, <2>3, <3>2, ConcatProperties DEF ArriveInPart
    <3> QED
        BY <1>3, <3>1, <3>2
  <2> QED
      BY <1>3, <2>4 DEF Arrive, ArriveInPart, Types, clientVars, readVars, writeVars, Complete
<1>4. CASE ReadCommand
  <2> DEFINE cmd == Number(Taken(stream, 4))
  <2>1. Taken(stream, 4) \in Seq(Byte) /\ stream' \in Seq(Byte)
      BY <1>4, ReadType DEF ReadCommand, Types
  <2>2. cmd \in Nat
      BY <2>1, NumberType
  <2> HIDE DEF cmd
  <2>3. CASE UNCHANGED <<readVars, saying>>
      BY <1>4, <2>1, <2>3 DEF ReadCommand, Types, clientVars, readVars, Complete
  <2>4. CASE GoOn(Begun(cmd, Takes(cmd)))
    <3>1. Begun(cmd, Takes(cmd)) \in Request
        BY <2>2, BegunType
    <3> QED
        BY <1>4, <2>1, <2>4, <3>1, GoOnType DEF ReadCommand, Types, clientVars
  <2> QED
      BY <1>4, <2>3, <2>4 DEF ReadCommand, cmd
<1>5. CASE ReadString
  <2>1. call \in Request /\ stream \in Seq(Byte)
      BY <1>5 DEF ReadString, Types
  <2>2. Wanted(call) \in Nat
      BY <2>1 DEF Wanted, Request
  <2>3. stream' \in Seq(Byte)
      BY <1>5, <2>1, <2>2, ReadType DEF ReadString
  <2>4. ReadOn(call, stream) \in Request
      BY <2>1, ReadOnType
  <2>5. GoOn(ReadOn(call, stream))
      BY <1>5 DEF ReadString
  <2> QED
      BY <1>5, <2>3, <2>4, <2>5, GoOnType DEF ReadString, Types, clientVars
<1>6. CASE HandOver
    BY <1>6 DEF HandOver, Types, clientVars, netVars, writeVars, Complete
<1>7. CASE WriteAnswer
  <2>1. saying' \in Answer \cup {NULL}
      BY <1>7 DEF WriteAnswer, Types, Answer
  <2> QED
      BY <1>7, <2>1 DEF WriteAnswer, Types, clientVars, netVars, readVars, Complete
<1>8. CASE Greet \/ Close
  <2>1. {greeted', closing', mixed'} \subseteq BOOLEAN
      BY <1>8 DEF Greet, Close, Interject, Types, Answer
  <2> QED
      BY <1>8, <2>1 DEF Greet, Close, Interject, Types, clientVars, netVars, readVars, Complete
<1>9. CASE UNCHANGED vars
    BY <1>9 DEF vars, clientVars, netVars, readVars, writeVars, Types, Complete
<1> QED
    BY <1>1, <1>2, <1>3, <1>4, <1>5, <1>6, <1>7, <1>8, <1>9 DEF Next, Serve

\* Every variable of a connection keeps its type.
THEOREM TypeCorrect == Spec => []TypeOK
<1>1. Init => Types
    BY InitTypes
<1>2. Types /\ [Next]_vars => Types'
    BY TypesStep
<1> QED
    BY <1>1, <1>2, TypesImply, PTL DEF Spec

-------------------------------------------------------------------------------
(* Whose writes may mix. *)

\* Until the greeting nothing has happened on the connection, if the client waits for
\* it: the login thread has nothing to answer.
Quiet == ~early /\ ~greeted =>
            outbox = <<>> /\ stream = <<>> /\ call = NULL /\ saying = NULL

LEMMA ApartStep ==
    ASSUME Types, Quiet, MessagesStayApart, [Next]_vars
    PROVE  Quiet' /\ MessagesStayApart'
<1> USE DEF Quiet, MessagesStayApart
<1>0. {early, greeted, closing, mixed} \subseteq BOOLEAN
    BY DEF Types
<1>1. ASSUME NEW req \in Typable, Type(req)
      PROVE  Quiet' /\ MessagesStayApart'
    BY <1>0, <1>1 DEF Type, writeVars
<1>2. CASE CloseConnection
    BY <1>2 DEF CloseConnection, netVars, readVars, writeVars
<1>3. CASE Arrive \/ ArriveInPart
    BY <1>3 DEF Arrive, ArriveInPart, clientVars, writeVars
<1>4. CASE ReadCommand
    BY <1>4 DEF ReadCommand, clientVars
<1>5. CASE ReadString
    BY <1>5 DEF ReadString, clientVars
<1>6. CASE HandOver
    BY <1>6 DEF HandOver, clientVars, netVars, writeVars
<1>7. CASE WriteAnswer
    BY <1>7 DEF WriteAnswer, clientVars, netVars, readVars
<1>8. CASE Greet
    BY <1>0, <1>8 DEF Greet, Interject, clientVars, netVars, readVars
<1>9. CASE Close
    BY <1>9 DEF Close, Interject, clientVars, netVars, readVars
<1>10. CASE UNCHANGED vars
    BY <1>10 DEF vars, clientVars, netVars, readVars, writeVars
<1> QED
    BY <1>1, <1>2, <1>3, <1>4, <1>5, <1>6, <1>7, <1>8, <1>9, <1>10 DEF Next, Serve

\* No two threads of the server write to a client at the same time, if it waits for
\* the greeting and the server is not closing.
THEOREM OneWriterAtATime == Spec => []MessagesStayApart
<1>1. Init => Types /\ Quiet /\ MessagesStayApart
  <2>1. Init => Types
      BY InitTypes
  <2> QED
      BY <2>1 DEF Init, Quiet, MessagesStayApart
<1>2. Types /\ Quiet /\ MessagesStayApart /\ [Next]_vars
         => (Types /\ Quiet /\ MessagesStayApart)'
    BY TypesStep, ApartStep
<1> QED
    BY <1>1, <1>2, PTL DEF Spec

-------------------------------------------------------------------------------
(* What a handler gets. *)

\* The writes of w that follow the first i, up to the j-th.
Part(w, i, j) == [k \in 1..(IF i <= j THEN j - i ELSE 0) |-> w[i + k]]

LEMMA PartType ==
    ASSUME NEW S, NEW w \in Seq(S), NEW i \in Nat, NEW j \in Nat, j <= Len(w)
    PROVE  /\ Part(w, i, j) \in Seq(S)
           /\ Len(Part(w, i, j)) = IF i <= j THEN j - i ELSE 0
           /\ \A k \in 1..Len(Part(w, i, j)) : Part(w, i, j)[k] = w[i + k]
<1> DEFINE n == IF i <= j THEN j - i ELSE 0
<1>1. n \in Nat /\ Len(w) \in Nat
    OBVIOUS
<1>2. \A k \in 1..n : i + k \in 1..Len(w)
    BY <1>1
<1>3. \A k \in 1..Len(w) : w[k] \in S
    OBVIOUS
<1>4. \A k \in 1..n : w[i + k] \in S
    BY <1>2, <1>3
<1>5. Part(w, i, j) = [k \in 1..n |-> w[i + k]]
    BY DEF Part
<1> HIDE DEF n
<1>6. [k \in 1..n |-> w[i + k]] \in Seq(S)
    BY <1>1, <1>4
<1>7. Len([k \in 1..n |-> w[i + k]]) = n
    BY <1>1
<1> QED
    BY <1>5, <1>6, <1>7 DEF n

\* The first of these writes, and those after it.
LEMMA PartHead ==
    ASSUME NEW S, NEW w \in Seq(S), NEW i \in Nat, NEW j \in Nat, i < j, j <= Len(w)
    PROVE  /\ Part(w, i, j) # <<>>
           /\ Head(Part(w, i, j)) = w[i + 1]
           /\ Tail(Part(w, i, j)) = Part(w, i + 1, j)
<1> DEFINE p == Part(w, i, j)
           q == Part(w, i + 1, j)
<1>1. /\ p \in Seq(S) /\ Len(p) = j - i
      /\ \A k \in 1..(j - i) : p[k] = w[i + k]
    BY PartType, SMTT(30)
<1>2. /\ q \in Seq(S) /\ Len(q) = j - (i + 1)
      /\ \A k \in 1..(j - (i + 1)) : q[k] = w[i + 1 + k]
  <2>1. PICK h \in Nat : h = i + 1
      OBVIOUS
  <2>2. h <= j
      BY <2>1
  <2> HIDE DEF p
  <2>3. /\ Part(w, h, j) \in Seq(S) /\ Len(Part(w, h, j)) = j - h
        /\ \A k \in 1..(j - h) : Part(w, h, j)[k] = w[h + k]
      BY <2>2, PartType
  <2> QED
      BY <2>1, <2>3
<1> HIDE DEF p, q
<1>3. p # <<>> /\ Head(p) = p[1] /\ 1 \in 1..(j - i)
    BY <1>1
<1>4. /\ Tail(p) \in Seq(S) /\ Len(Tail(p)) = j - i - 1
      /\ \A k \in 1..(j - i - 1) : Tail(p)[k] = p[k + 1]
    BY <1>1, <1>3
<1>5. \A k \in 1..(j - i - 1) : k + 1 \in 1..(j - i) /\ k \in 1..(j - (i + 1)) /\ i + (k + 1) = i + 1 + k
    OBVIOUS
<1>6. \A k \in 1..(j - i - 1) : Tail(p)[k] = q[k]
    BY <1>1, <1>2, <1>4, <1>5
<1>7. Tail(p) = q
  <2>1. Len(Tail(p)) = Len(q) /\ Len(q) = j - i - 1
      BY <1>2, <1>4
  <2> QED
      BY <1>2, <1>4, <1>6, <2>1, SeqEqual
<1> QED
    BY <1>1, <1>3, <1>7 DEF p, q

\* One of these writes more.
LEMMA PartMore ==
    ASSUME NEW S, NEW w \in Seq(S), NEW i \in Nat, NEW j \in Nat, i <= j, j < Len(w)
    PROVE  Part(w, i, j + 1) = Append(Part(w, i, j), w[j + 1])
<1> DEFINE p == Part(w, i, j)
           q == Part(w, i, j + 1)
<1>0. w[j + 1] \in S
    OBVIOUS
<1>1. /\ p \in Seq(S) /\ Len(p) = j - i
      /\ \A k \in 1..(j - i) : p[k] = w[i + k]
    BY PartType
<1>2. /\ q \in Seq(S) /\ Len(q) = j + 1 - i
      /\ \A k \in 1..(j + 1 - i) : q[k] = w[i + k]
  <2>1. PICK h \in Nat : h = j + 1
      OBVIOUS
  <2>2. i <= h /\ h <= Len(w)
      BY <2>1
  <2> HIDE DEF p
  <2>3. /\ Part(w, i, h) \in Seq(S) /\ Len(Part(w, i, h)) = h - i
        /\ \A k \in 1..(h - i) : Part(w, i, h)[k] = w[i + k]
      BY <2>2, PartType
  <2> QED
      BY <2>1, <2>3
<1> HIDE DEF p, q
<1>3. /\ Append(p, w[j + 1]) \in Seq(S) /\ Len(Append(p, w[j + 1])) = j + 1 - i
      /\ \A k \in 1..(j - i) : Append(p, w[j + 1])[k] = p[k]
      /\ Append(p, w[j + 1])[j - i + 1] = w[j + 1]
    BY <1>0, <1>1
<1>4. \A k \in 1..(j + 1 - i) : k \in 1..(j - i) \/ (k = j - i + 1 /\ i + k = j + 1)
    OBVIOUS
<1>5. \A k \in 1..(j + 1 - i) : Append(p, w[j + 1])[k] = q[k]
    BY <1>1, <1>2, <1>3, <1>4
<1>6. Append(p, w[j + 1]) = q
  <2>1. Len(Append(p, w[j + 1])) = Len(q) /\ Len(q) = j + 1 - i
      BY <1>2, <1>3
  <2> QED
      BY <1>2, <1>3, <1>5, <2>1, SeqEqual
<1> QED
    BY <1>6 DEF p, q

\* None of them.
LEMMA PartNone ==
    ASSUME NEW w, NEW i \in Nat, NEW j \in Nat, j <= i
    PROVE  Part(w, i, j) = <<>>
<1>1. 1..(IF i <= j THEN j - i ELSE 0) = {}
    OBVIOUS
<1>2. Part(w, i, j) = [k \in {} |-> w[i + k]]
    BY <1>1 DEF Part
<1>3. [k \in {} |-> w[i + k]] = <<>>
    OBVIOUS
<1> QED
    BY <1>2, <1>3

\* The last writes, and writes that follow them.
LEMMA PartOfMore ==
    ASSUME NEW S, NEW w \in Seq(S), NEW v \in Seq(S), NEW i \in Nat, i <= Len(w)
    PROVE  Part(w \o v, i, Len(w \o v)) = Part(w, i, Len(w)) \o v
<1> DEFINE t == w \o v
<1>1. /\ t \in Seq(S) /\ Len(t) = Len(w) + Len(v)
      /\ \A k \in 1..(Len(w) + Len(v)) : t[k] = IF k <= Len(w) THEN w[k] ELSE v[k - Len(w)]
    BY ConcatProperties
<1>2. Len(w) \in Nat /\ Len(v) \in Nat
    OBVIOUS
<1> HIDE DEF t
<1> DEFINE p == Part(w, i, Len(w))
           q == Part(t, i, Len(t))
<1>3. /\ p \in Seq(S) /\ Len(p) = Len(w) - i
      /\ \A k \in 1..(Len(w) - i) : p[k] = w[i + k]
    BY <1>2, PartType
<1>4. /\ q \in Seq(S) /\ Len(q) = Len(w) + Len(v) - i
      /\ \A k \in 1..(Len(w) + Len(v) - i) : q[k] = t[i + k]
  <2>1. PICK n \in Nat : n = Len(t)
      BY <1>1
  <2>2. i <= n /\ n <= Len(t) /\ n = Len(w) + Len(v)
      BY <1>1, <1>2, <2>1
  <2> HIDE DEF p
  <2>3. /\ Part(t, i, n) \in Seq(S) /\ Len(Part(t, i, n)) = n - i
        /\ \A k \in 1..(n - i) : Part(t, i, n)[k] = t[i + k]
    <3>1. t \in Seq(S)
        BY <1>1
    <3> QED
        BY <2>2, <3>1, PartType
  <2> QED
      BY <2>1, <2>2, <2>3
<1> HIDE DEF p, q
<1>5. /\ p \o v \in Seq(S) /\ Len(p \o v) = Len(p) + Len(v)
      /\ \A k \in 1..(Len(p) + Len(v)) :
            (p \o v)[k] = IF k <= Len(p) THEN p[k] ELSE v[k - Len(p)]
    BY <1>3, ConcatProperties
<1>6. PICK a \in Nat, b \in Nat : a = Len(w) /\ b = Len(v)
    BY <1>2
<1>7. ASSUME NEW k \in 1..(a + b - i)
      PROVE  (p \o v)[k] = q[k]
  <2>1. i + k \in 1..(a + b) /\ k \in 1..(a - i + b) /\ k - (a - i) = i + k - a
      BY <1>6
  <2>2. (p \o v)[k] = IF k <= a - i THEN p[k] ELSE v[i + k - a]
      BY <1>3, <1>5, <1>6, <2>1
  <2>3. q[k] = IF i + k <= a THEN w[i + k] ELSE v[i + k - a]
      BY <1>1, <1>4, <1>6, <2>1
  <2>4. CASE k <= a - i
    <3>1. k \in 1..(a - i) /\ i + k <= a
        BY <1>6, <2>4
    <3> QED
        BY <1>3, <1>6, <2>2, <2>3, <3>1
  <2>5. CASE ~(k <= a - i)
    <3>1. ~(i + k <= a)
        BY <1>6, <2>5
    <3> QED
        BY <2>2, <2>3, <2>5, <3>1
  <2> QED
      BY <2>4, <2>5
<1>8. Len(p \o v) = a + b - i /\ Len(q) = a + b - i
    BY <1>3, <1>4, <1>5, <1>6
<1>9. p \o v = q
    BY <1>4, <1>5, <1>7, <1>8, SeqEqual
<1> QED
    BY <1>9 DEF p, q, t

\* w are the writes of the requests reqs: `ends' is where those of each of them end.
Laid(w, ends, reqs) ==
    /\ ends[0] = 0 /\ ends[Len(reqs)] = Len(w)
    /\ \A k \in 1..Len(reqs) :
          /\ ends[k] = ends[k - 1] + 1 + 2 * Len(reqs[k].args)
          /\ ends[k] <= Len(w)
          /\ w[ends[k - 1] + 1] = Word(reqs[k].cmd)
          /\ \A i \in 1..Len(reqs[k].args) :
                /\ w[ends[k - 1] + 2 * i] = Word(Len(reqs[k].args[i]))
                /\ w[ends[k - 1] + 2 * i + 1] = reqs[k].args[i]

\* How many of the writes the reading thread has read.
Position(ends, taken, request) ==
    ends[taken] + (IF request = NULL THEN 0
                   ELSE 1 + 2 * Len(request.args) + (IF request.len = NULL THEN 0 ELSE 1))

\* Of all the writes of the user's requests the first `arrived' have arrived; those of
\* them that were not read are in the stream.  An empty string is read, by a read() of
\* no bytes, even if its write has not arrived.
Placed(w, ends, arrived) ==
    LET read == Position(ends, Len(understood), call)
    IN  /\ Laid(w, ends, typed)
        /\ arrived <= Len(w)
        /\ read > arrived => read = arrived + 1 /\ read <= Len(w) /\ w[read] = <<>>
        /\ Joined(stream, Part(w, read, arrived))
        /\ outbox = Part(w, arrived, Len(w))

\* What was taken is what was typed, and what is being read is what was typed next.
Agree ==
    /\ Len(understood) <= Len(typed)
    /\ \A k \in 1..Len(understood) : understood[k] = typed[k]

CallAgrees(request) ==
    LET req == typed[Len(understood) + 1]
    IN  /\ Len(understood) < Len(typed)
        /\ request.cmd = req.cmd /\ request.count = Len(req.args)
        /\ Len(request.args) < Len(req.args)
        /\ \A i \in 1..Len(request.args) : request.args[i] = req.args[i]
        /\ request.len # NULL => request.len = Len(req.args[Len(request.args) + 1])

InStep ==
    /\ Agree
    /\ call # NULL => CallAgrees(call)
    /\ \E w \in Seq(Chunk), ends \in [0..Len(typed) -> Nat], arrived \in Nat :
          Placed(w, ends, arrived)

\* A request was dismissed with its strings unread, all before it were not.
Dismissed ==
    \E k \in 1..Len(understood) :
        /\ k <= Len(typed)
        /\ \A j \in 1..(k - 1) : understood[j] = typed[j]
        /\ understood[k].cmd = typed[k].cmd /\ understood[k].args = <<>>
        /\ understood[k] # typed[k]

Framed == ~torn => InStep \/ Dismissed

LEMMA FramedImplies ==
    ASSUME Types, Framed
    PROVE  FirstMisreadIsDismissal
<1> SUFFICES ASSUME ~torn, NEW k \in DOMAIN understood,
                    \A j \in 1..(k - 1) : understood[j] = typed[j]
             PROVE  /\ k <= Len(typed)
                    /\ understood[k].cmd = typed[k].cmd
                    /\ understood[k].args \in {typed[k].args, <<>>}
    BY DEF FirstMisreadIsDismissal
<1>1. /\ k \in 1..Len(understood) /\ Len(understood) \in Nat /\ Len(typed) \in Nat
  <2>1. understood \in Seq(Message) /\ typed \in Seq(Typable)
      BY DEF Types
  <2> QED
      BY <2>1
<1>2. CASE InStep
    BY <1>1, <1>2 DEF InStep, Agree
<1>3. CASE Dismissed
  <2>1. PICK d \in 1..Len(understood) :
           /\ d <= Len(typed)
           /\ \A j \in 1..(d - 1) : understood[j] = typed[j]
           /\ understood[d].cmd = typed[d].cmd /\ understood[d].args = <<>>
           /\ understood[d] # typed[d]
      BY <1>3 DEF Dismissed
  <2>2. CASE k < d
    <3>1. k \in 1..(d - 1) /\ k <= Len(typed)
        BY <1>1, <2>1, <2>2
    <3> QED
        BY <2>1, <3>1
  <2>3. CASE k = d
      BY <2>1, <2>3
  <2>4. CASE k > d
    <3>1. d \in 1..(k - 1)
        BY <1>1, <2>4
    <3> QED
        BY <2>1, <3>1
  <2> QED
      BY <1>1, <2>2, <2>3, <2>4
<1> QED
    BY <1>2, <1>3 DEF Framed

\* The first write that was not read, if it has arrived, is read by one read().
LEMMA NextIsRead ==
    ASSUME NEW w \in Seq(Chunk), NEW bytes \in Seq(Byte), NEW r \in Nat, NEW a \in Nat,
           a <= Len(w), Joined(bytes, Part(w, r, a)), r < a
    PROVE  /\ Taken(bytes, Len(w[r + 1])) = w[r + 1]
           /\ Joined(Rest(bytes, Len(w[r + 1])), Part(w, r + 1, a))
           /\ Len(w[r + 1]) <= Len(bytes)
<1> DEFINE p == Part(w, r, a)
<1>1. p \in Seq(Chunk) /\ p # <<>> /\ Head(p) = w[r + 1] /\ Tail(p) = Part(w, r + 1, a)
    BY PartType, PartHead
<1> HIDE DEF p
<1>2. p \in Seq(Seq(Byte)) /\ Joined(bytes, p)
    BY <1>1 DEF Chunk, p
<1>3. /\ Taken(bytes, Len(Head(p))) = Head(p)
      /\ Joined(Rest(bytes, Len(Head(p))), Tail(p))
    BY <1>1, <1>2, ReadPart
<1>4. Len(Head(p)) <= Len(bytes)
    BY <1>1, <1>2, JoinedHead
<1> QED
    BY <1>1, <1>3, <1>4

\* What has arrived and was not read is the rest of some writes.
LEMMA SomeAreUnread ==
    ASSUME NEW w \in Seq(Chunk), NEW bytes \in Seq(Byte), NEW r \in Nat, NEW a \in Nat,
           a <= Len(w), Joined(bytes, Part(w, r, a)), bytes # <<>>
    PROVE  r < a
<1>1. SUFFICES ASSUME a <= r PROVE FALSE
    OBVIOUS
<1>2. Part(w, r, a) = <<>>
    BY <1>1, PartNone
<1> QED
    BY <1>2, JoinedNone

\* Where the writes of a request are.
LEMMA LaidAt ==
    ASSUME NEW reqs \in Seq(Message), NEW w \in Seq(Chunk), NEW ends \in [0..Len(reqs) -> Nat],
           Laid(w, ends, reqs), NEW u \in Nat, u < Len(reqs)
    PROVE  LET req == reqs[u + 1]
           IN  /\ ends[u] \in Nat /\ Len(req.args) \in Nat
               /\ ends[u + 1] = ends[u] + 1 + 2 * Len(req.args)
               /\ ends[u + 1] <= Len(w)
               /\ w[ends[u] + 1] = Word(req.cmd)
               /\ \A i \in 1..Len(req.args) : /\ w[ends[u] + 2 * i] = Word(Len(req.args[i]))
                                              /\ w[ends[u] + 2 * i + 1] = req.args[i]
<1>1. u + 1 \in 1..Len(reqs) /\ u \in 0..Len(reqs) /\ u + 1 - 1 = u
    OBVIOUS
<1>2. reqs[u + 1] \in Message
    BY <1>1
<1>3. Len(reqs[u + 1].args) \in Nat
    BY <1>2 DEF Message
<1>4. ends[u] \in Nat
    BY <1>1
<1>5. PICK k \in 1..Len(reqs) : k = u + 1 /\ k - 1 = u
    BY <1>1
<1>6. /\ ends[k] = ends[k - 1] + 1 + 2 * Len(reqs[k].args)
      /\ ends[k] <= Len(w)
      /\ w[ends[k - 1] + 1] = Word(reqs[k].cmd)
      /\ \A i \in 1..Len(reqs[k].args) :
            /\ w[ends[k - 1] + 2 * i] = Word(Len(reqs[k].args[i]))
            /\ w[ends[k - 1] + 2 * i + 1] = reqs[k].args[i]
    BY <1>5 DEF Laid
<1> QED
    BY <1>3, <1>4, <1>5, <1>6

\* What reading threads do when they go on.
LEMMA GoOnDoes ==
    ASSUME NEW request, GoOn(request)
    PROVE  \/ /\ Complete(request) /\ call' = NULL
              /\ understood' = Append(understood, [cmd |-> request.cmd, args |-> request.args])
           \/ /\ ~Complete(request) /\ call' = request
              /\ understood' = understood
BY DEF GoOn, Handle, Msg

\* A dismissed request stays one.
LEMMA DismissedStays ==
    ASSUME Types, Types', Dismissed,
           \/ typed' = typed
           \/ \E req \in Typable : typed' = Append(typed, req),
           \/ understood' = understood
           \/ \E m \in Message : understood' = Append(understood, m)
    PROVE  Dismissed'
<1>1. PICK k \in 1..Len(understood) :
         /\ k <= Len(typed)
         /\ \A j \in 1..(k - 1) : understood[j] = typed[j]
         /\ understood[k].cmd = typed[k].cmd /\ understood[k].args = <<>>
         /\ understood[k] # typed[k]
    BY DEF Dismissed
<1>2. /\ Len(typed) \in Nat /\ Len(understood) \in Nat
  <2>1. understood \in Seq(Message) /\ typed \in Seq(Typable)
      BY DEF Types
  <2> QED
      BY <2>1
<1>3. Len(typed) <= Len(typed)' /\ \A j \in 1..Len(typed) : typed'[j] = typed[j]
  <2>1. ASSUME NEW req \in Typable, typed' = Append(typed, req)
        PROVE  Len(typed) <= Len(typed)' /\ \A j \in 1..Len(typed) : typed'[j] = typed[j]
    <3>1. typed \in Seq(Typable)
        BY DEF Types
    <3> QED
        BY <2>1, <3>1
  <2> QED
      BY <1>2, <2>1
<1>4. Len(understood) <= Len(understood)' /\ \A j \in 1..Len(understood) : understood'[j] = understood[j]
  <2>1. ASSUME NEW m \in Message, understood' = Append(understood, m)
        PROVE  /\ Len(understood) <= Len(understood)'
               /\ \A j \in 1..Len(understood) : understood'[j] = understood[j]
    <3>1. understood \in Seq(Message)
        BY DEF Types
    <3> QED
        BY <2>1, <3>1
  <2> QED
      BY <1>2, <2>1
<1>5. Len(typed)' \in Nat /\ Len(understood)' \in Nat
  <2>1. understood' \in Seq(Message) /\ typed' \in Seq(Typable)
      BY DEF Types
  <2> QED
      BY <2>1
<1>6. /\ k \in 1..Len(understood)' /\ k <= Len(typed)'
      /\ k \in 1..Len(understood) /\ k \in 1..Len(typed)
      /\ \A j \in 1..(k - 1) : j \in 1..Len(understood) /\ j \in 1..Len(typed)
    BY <1>1, <1>2, <1>3, <1>4, <1>5
<1> QED
    BY <1>1, <1>3, <1>4, <1>6 DEF Dismissed

\* One request more is laid after the others.
LEMMA LaidMore ==
    ASSUME NEW reqs \in Seq(Typable), NEW req \in Typable, NEW w \in Seq(Chunk),
           NEW ends \in [0..Len(reqs) -> Nat], Laid(w, ends, reqs)
    PROVE  \E to \in [0..Len(Append(reqs, req)) -> Nat] :
              /\ Laid(w \o Writes(req), to, Append(reqs, req))
              /\ \A k \in 0..Len(reqs) : to[k] = ends[k]
<1> DEFINE n == Len(reqs)
           v == Writes(req)
           t == w \o v
           more == Append(reqs, req)
           m == Len(req.args)
           to == [k \in 0..(n + 1) |-> IF k = n + 1 THEN Len(t) ELSE ends[k]]
<1>1. /\ n \in Nat /\ Len(more) = n + 1 /\ more[n + 1] = req
      /\ \A k \in 1..n : more[k] = reqs[k]
    OBVIOUS
<1>2. /\ req.args \in Seq(Text) /\ m \in Nat
      /\ v \in Seq(Chunk) /\ Len(v) = 1 + 2 * m
      /\ v[1] = Word(req.cmd)
      /\ \A k \in 1..m : v[2 * k] = Word(Len(req.args[k])) /\ v[2 * k + 1] = req.args[k]
  <2> DEFINE x == writeMsgs(req.args)
  <2>1. /\ req.args \in Seq(Text) /\ v \in Seq(Chunk)
        /\ \A k \in DOMAIN req.args : Len(req.args[k]) \in Byte
        /\ Len(v) = 1 + 2 * m /\ v[1] = Word(req.cmd)
        /\ \A k \in 1..(2 * m) : v[k + 1] = x[k]
      BY WritesType
  <2>2. \A k \in 0..(m - 1) : x[2 * k + 1] = Word(Len(req.args[k + 1]))
                              /\ x[2 * k + 2] = req.args[k + 1]
      BY <2>1, StringsAlternate
  <2>3. m \in Nat
      BY <2>1
  <2> HIDE DEF x, v, m
  <2>4. ASSUME NEW k \in 1..m
        PROVE  v[2 * k] = Word(Len(req.args[k])) /\ v[2 * k + 1] = req.args[k]
    <3>1. /\ k - 1 \in 0..(m - 1) /\ k - 1 + 1 = k
          /\ 2 * (k - 1) + 1 = 2 * k - 1 /\ 2 * (k - 1) + 2 = 2 * k
          /\ 2 * k - 1 \in 1..(2 * m) /\ 2 * k \in 1..(2 * m) /\ 2 * k - 1 + 1 = 2 * k
        BY <2>3
    <3>2. x[2 * k - 1] = Word(Len(req.args[k])) /\ x[2 * k] = req.args[k]
        BY <2>2, <3>1
    <3>3. v[2 * k - 1 + 1] = x[2 * k - 1] /\ v[2 * k + 1] = x[2 * k]
        BY <2>1, <3>1
    <3> QED
        BY <3>1, <3>2, <3>3
  <2> QED
      BY <2>1, <2>3, <2>4
<1> HIDE DEF v, m
<1>3. /\ t \in Seq(Chunk) /\ Len(t) = Len(w) + Len(v) /\ Len(w) \in Nat
      /\ \A i \in 1..Len(w) : t[i] = w[i]
      /\ \A i \in 1..(1 + 2 * m) : t[Len(w) + i] = v[i]
  <2>1. PICK a \in Nat, b \in Nat : a = Len(w) /\ b = Len(v)
      BY <1>2
  <2>2. /\ t \in Seq(Chunk) /\ Len(t) = Len(w) + Len(v)
        /\ \A i \in 1..(a + b) : t[i] = IF i <= a THEN w[i] ELSE v[i - a]
      BY <1>2, <2>1, ConcatProperties, ZenonT(60)
  <2> HIDE DEF t
  <2>3. \A i \in 1..a : i \in 1..(a + b) /\ i <= a
      BY <2>1
  <2>4. \A i \in 1..b : a + i \in 1..(a + b) /\ ~(a + i <= a) /\ a + i - a = i
      BY <2>1
  <2>5. \A i \in 1..a : t[i] = w[i]
      BY <2>2, <2>3
  <2>6. \A i \in 1..b : t[a + i] = v[i]
      BY <2>2, <2>4
  <2> QED
      BY <1>2, <2>1, <2>2, <2>5, <2>6
<1> HIDE DEF t, more, n
<1>4. /\ to \in [0..(n + 1) -> Nat] /\ to[n + 1] = Len(t)
      /\ \A k \in 0..n : to[k] = ends[k] /\ ends[k] \in Nat
  <2>1. \A k \in 0..n : ends[k] \in Nat
      BY DEF n
  <2>2. Len(t) \in Nat
      BY <1>2, <1>3
  <2>3. \A k \in 0..(n + 1) : k = n + 1 \/ k \in 0..n
      BY <1>1
  <2>4. n + 1 \in 0..(n + 1) /\ \A k \in 0..n : k \in 0..(n + 1) /\ k # n + 1
      BY <1>1
  <2> QED
      BY <2>1, <2>2, <2>3, <2>4
<1> HIDE DEF to
<1>5. /\ ends[0] = 0 /\ ends[n] = Len(w)
      /\ \A k \in 1..n :
            /\ ends[k] = ends[k - 1] + 1 + 2 * Len(reqs[k].args)
            /\ ends[k] <= Len(w)
            /\ w[ends[k - 1] + 1] = Word(reqs[k].cmd)
            /\ \A i \in 1..Len(reqs[k].args) :
                  /\ w[ends[k - 1] + 2 * i] = Word(Len(reqs[k].args[i]))
                  /\ w[ends[k - 1] + 2 * i + 1] = reqs[k].args[i]
    BY DEF Laid, n
<1>6. ASSUME NEW k \in 1..(n + 1)
      PROVE  /\ to[k] = to[k - 1] + 1 + 2 * Len(more[k].args)
             /\ to[k] <= Len(t)
             /\ t[to[k - 1] + 1] = Word(more[k].cmd)
             /\ \A i \in 1..Len(more[k].args) :
                   /\ t[to[k - 1] + 2 * i] = Word(Len(more[k].args[i]))
                   /\ t[to[k - 1] + 2 * i + 1] = more[k].args[i]
  <2>1. CASE k = n + 1
    <3>1. k - 1 = n /\ n \in 0..n
        BY <1>1, <2>1
    <3>2. /\ to[k - 1] = Len(w) /\ to[k] = Len(t) /\ more[k] = req
        BY <1>1, <1>4, <1>5, <2>1, <3>1
    <3>3. to[k] = to[k - 1] + 1 + 2 * m /\ to[k] <= Len(t)
        BY <1>2, <1>3, <3>2
    <3>4. t[Len(w) + 1] = v[1]
      <4>1. 1 \in 1..(1 + 2 * m)
          BY <1>2
      <4> QED
          BY <1>3, <4>1
    <3>5. ASSUME NEW i \in 1..m
          PROVE  /\ t[Len(w) + 2 * i] = Word(Len(req.args[i]))
                 /\ t[Len(w) + 2 * i + 1] = req.args[i]
      <4>1. /\ 2 * i \in 1..(1 + 2 * m) /\ 2 * i + 1 \in 1..(1 + 2 * m)
            /\ Len(w) + (2 * i + 1) = Len(w) + 2 * i + 1
          BY <1>2, <1>3
      <4>2. t[Len(w) + 2 * i] = v[2 * i] /\ t[Len(w) + (2 * i + 1)] = v[2 * i + 1]
          BY <1>3, <4>1
      <4> QED
          BY <1>2, <4>1, <4>2
    <3> QED
        BY <1>2, <3>2, <3>3, <3>4, <3>5 DEF m
  <2>2. CASE k # n + 1
    <3>1. k \in 1..n /\ k \in 0..n /\ k - 1 \in 0..n
        BY <1>1, <2>2
    <3>2. to[k] = ends[k] /\ to[k - 1] = ends[k - 1] /\ more[k] = reqs[k]
        BY <1>1, <1>4, <3>1
    <3>3. Len(reqs[k].args) \in Nat
      <4>1. reqs[k] \in Typable
          BY <3>1 DEF n
      <4> QED
          BY <4>1, WritesType
    <3>4. PICK e \in Nat, l \in Nat, a \in Nat :
             e = ends[k - 1] /\ l = Len(reqs[k].args) /\ a = Len(w)
        BY <1>3, <1>4, <3>1, <3>3
    <3>5. /\ ends[k] = e + 1 + 2 * l /\ e + 1 + 2 * l <= a
          /\ w[e + 1] = Word(reqs[k].cmd)
          /\ \A i \in 1..l : /\ w[e + 2 * i] = Word(Len(reqs[k].args[i]))
                             /\ w[e + 2 * i + 1] = reqs[k].args[i]
        BY <1>5, <3>1, <3>4
    <3>6. /\ e + 1 \in 1..a
          /\ \A i \in 1..l : e + 2 * i \in 1..a /\ e + 2 * i + 1 \in 1..a
        BY <3>5
    <3>7. \A i \in 1..a : t[i] = w[i]
        BY <1>3, <3>4
    <3>8. /\ t[e + 1] = Word(reqs[k].cmd)
          /\ \A i \in 1..l : /\ t[e + 2 * i] = Word(Len(reqs[k].args[i]))
                             /\ t[e + 2 * i + 1] = reqs[k].args[i]
        BY <3>5, <3>6, <3>7
    <3>9. e + 1 + 2 * l <= Len(t)
      <4>1. PICK b \in Nat : b = Len(v)
          BY <1>2
      <4>2. Len(t) = a + b
          BY <1>3, <3>4, <4>1
      <4> QED
          BY <3>5, <4>2
    <3> QED
        BY <3>2, <3>4, <3>5, <3>8, <3>9
  <2> QED
      BY <2>1, <2>2
<1>7. to[0] = 0 /\ to[Len(more)] = Len(t)
  <2>1. 0 \in 0..n
      BY <1>1
  <2> QED
      BY <1>1, <1>4, <1>5, <2>1
<1>8. Laid(t, to, more)
    BY <1>1, <1>6, <1>7 DEF Laid
<1> QED
    BY <1>1, <1>4, <1>8 DEF t, v, more, n

\* The first writes are the same when others follow.
LEMMA PartSame ==
    ASSUME NEW S, NEW w \in Seq(S), NEW v \in Seq(S), NEW i \in Nat, NEW j \in Nat, j <= Len(w)
    PROVE  Part(w \o v, i, j) = Part(w, i, j)
<1> DEFINE n == IF i <= j THEN j - i ELSE 0
<1>1. \A k \in 1..(Len(w) + Len(v)) : (w \o v)[k] = IF k <= Len(w) THEN w[k] ELSE v[k - Len(w)]
    BY ConcatProperties
<1>2. \A k \in 1..n : i + k \in 1..(Len(w) + Len(v)) /\ i + k <= Len(w)
    OBVIOUS
<1> HIDE DEF n
<1>3. \A k \in 1..n : (w \o v)[i + k] = w[i + k]
    BY <1>1, <1>2
<1>4. [k \in 1..n |-> (w \o v)[i + k]] = [k \in 1..n |-> w[i + k]]
    BY <1>3
<1> QED
    BY <1>4 DEF Part, n

LEMMA PositionType ==
    ASSUME NEW request \in Request \cup {NULL}, NEW ends, NEW u, ends[u] \in Nat
    PROVE  Position(ends, u, request) \in Nat
<1>1. request # NULL => Len(request.args) \in Nat
  <2>1. request # NULL => request.args \in Seq(Text)
      BY DEF Request
  <2> QED
      BY <2>1
<1>2. CASE request = NULL
    BY <1>2 DEF Position
<1>3. CASE request # NULL
  <2>1. PICK m \in Nat, e \in Nat : m = Len(request.args) /\ e = ends[u]
      BY <1>1, <1>3
  <2>2. Position(ends, u, request) \in {e + (1 + 2 * m + 0), e + (1 + 2 * m + 1)}
      BY <1>3, <2>1 DEF Position
  <2>3. e + (1 + 2 * m + 0) \in Nat /\ e + (1 + 2 * m + 1) \in Nat
      OBVIOUS
  <2> QED
      BY <2>2, <2>3
<1> QED
    BY <1>2, <1>3

LEMMA TypeInStep ==
    ASSUME Types, Types', InStep, NEW req \in Typable, Type(req)
    PROVE  InStep'
<1>1. PICK w \in Seq(Chunk), ends \in [0..Len(typed) -> Nat], a \in Nat : Placed(w, ends, a)
    BY DEF InStep
<1> DEFINE read == Position(ends, Len(understood), call)
           v == Writes(req)
<1>2. /\ Laid(w, ends, typed)
      /\ a <= Len(w)
      /\ read > a => read = a + 1 /\ read <= Len(w) /\ w[read] = <<>>
      /\ Joined(stream, Part(w, read, a))
      /\ outbox = Part(w, a, Len(w))
    BY <1>1 DEF Placed
<1>3. /\ typed \in Seq(Typable) /\ understood \in Seq(Message)
      /\ call \in Request \cup {NULL}
    BY DEF Types
<1>4. /\ Len(typed) \in Nat /\ Len(understood) \in Nat /\ Len(understood) \in 0..Len(typed)
      /\ Len(typed') = Len(typed) + 1 /\ \A k \in 1..Len(typed) : typed'[k] = typed[k]
      /\ UNCHANGED <<understood, call, stream>> /\ typed' = Append(typed, req)
  <2>1. UNCHANGED <<understood, call, stream>> /\ typed' = Append(typed, req)
      BY DEF Type, readVars
  <2>2. Len(understood) <= Len(typed)
      BY DEF InStep, Agree
  <2> QED
      BY <1>3, <2>1, <2>2
<1>5. Agree'
    BY <1>4 DEF InStep, Agree
<1>6. call' # NULL => CallAgrees(call)'
  <2>1. SUFFICES ASSUME call # NULL PROVE CallAgrees(call)'
      BY <1>4
  <2>2. CallAgrees(call)
      BY <2>1 DEF InStep
  <2>3. typed'[Len(understood) + 1] = typed[Len(understood) + 1]
    <3>1. Len(understood) + 1 \in 1..Len(typed)
        BY <1>4, <2>2 DEF CallAgrees
    <3> QED
        BY <1>4, <3>1
  <2> QED
      BY <1>4, <2>2, <2>3 DEF CallAgrees
<1>7. v \in Seq(Chunk)
    BY WritesType
<1>8. PICK to \in [0..Len(typed') -> Nat] :
         Laid(w \o v, to, typed') /\ \A k \in 0..Len(typed) : to[k] = ends[k]
    BY <1>2, <1>3, <1>4, LaidMore
<1>9. Position(to, Len(understood), call) = read
    BY <1>4, <1>8 DEF Position
<1>10. read \in Nat
  <2>1. ends[Len(understood)] \in Nat
      BY <1>4
  <2> QED
      BY <1>3, <2>1, PositionType
<1> HIDE DEF read, v
<1>11. /\ w \o v \in Seq(Chunk) /\ Len(w) <= Len(w \o v)
       /\ \A k \in 1..Len(w) : (w \o v)[k] = w[k]
  <2>1. /\ w \o v \in Seq(Chunk) /\ Len(w \o v) = Len(w) + Len(v)
        /\ \A k \in 1..(Len(w) + Len(v)) : (w \o v)[k] = IF k <= Len(w) THEN w[k] ELSE v[k - Len(w)]
      BY <1>7, ConcatProperties
  <2>2. PICK m \in Nat, n \in Nat : m = Len(w) /\ n = Len(v)
      BY <1>7
  <2>3. \A k \in 1..m : k \in 1..(m + n) /\ k <= m
      BY <2>2
  <2> QED
      BY <2>1, <2>2, <2>3
<1>12. a <= Len(w \o v) /\ (read > a => read = a + 1 /\ read <= Len(w \o v) /\ (w \o v)[read] = <<>>)
  <2>1. PICK l \in Nat, m \in Nat : l = Len(w) /\ m = Len(w \o v)
      BY <1>11
  <2> QED
      BY <1>2, <1>10, <1>11, <2>1
<1>13. Part(w \o v, read, a) = Part(w, read, a)
    BY <1>2, <1>7, <1>10, PartSame
<1>14. outbox' = Part(w \o v, a, Len(w \o v))
  <2>1. outbox' = outbox \o v
      BY TypedWrites DEF v
  <2> QED
      BY <1>2, <1>7, <2>1, PartOfMore
<1>15. Placed(w \o v, to, a)'
  <2>1. /\ Laid(w \o v, to, typed') /\ Joined(stream', Part(w \o v, read, a))
        /\ Position(to, Len(understood'), call') = read
      BY <1>2, <1>4, <1>8, <1>9, <1>13
  <2> QED
      BY <1>12, <1>14, <2>1 DEF Placed
<1> QED
    BY <1>5, <1>6, <1>8, <1>11, <1>15 DEF InStep

LEMMA ArriveInStep ==
    ASSUME Types, Types', InStep, Arrive
    PROVE  InStep'
<1>1. PICK w \in Seq(Chunk), ends \in [0..Len(typed) -> Nat], a \in Nat : Placed(w, ends, a)
    BY DEF InStep
<1> DEFINE read == Position(ends, Len(understood), call)
<1>2. /\ Laid(w, ends, typed)
      /\ a <= Len(w)
      /\ read > a => read = a + 1 /\ read <= Len(w) /\ w[read] = <<>>
      /\ Joined(stream, Part(w, read, a))
      /\ outbox = Part(w, a, Len(w))
    BY <1>1 DEF Placed
<1>3. /\ typed \in Seq(Typable) /\ understood \in Seq(Message)
      /\ call \in Request \cup {NULL} /\ stream \in Seq(Byte)
    BY DEF Types
<1>4. UNCHANGED <<typed, understood, call>>
    BY DEF Arrive, clientVars, readVars
<1>5. Len(understood) \in 0..Len(typed)
  <2>1. Len(understood) <= Len(typed)
      BY DEF InStep, Agree
  <2> QED
      BY <1>3, <2>1
<1>6. read \in Nat
  <2>1. ends[Len(understood)] \in Nat
      BY <1>5
  <2> QED
      BY <1>3, <2>1, PositionType
<1> HIDE DEF read
<1>7. a < Len(w)
  <2>1. SUFFICES ASSUME a >= Len(w) PROVE FALSE
      BY <1>2
  <2>2. Len(w) \in Nat
      OBVIOUS
  <2>3. outbox = <<>>
      BY <1>2, <2>1, <2>2, PartNone
  <2> QED
      BY <2>3 DEF Arrive
<1>8. /\ stream' = stream \o w[a + 1] /\ outbox' = Part(w, a + 1, Len(w))
      /\ w[a + 1] \in Chunk
  <2>1. Len(w) \in Nat
      OBVIOUS
  <2>2. Head(outbox) = w[a + 1] /\ Tail(outbox) = Part(w, a + 1, Len(w))
    <3>1. PICK n \in Nat : n = Len(w)
        BY <2>1
    <3>2. a < n /\ n <= Len(w)
        BY <1>7, <3>1
    <3>3. Head(Part(w, a, n)) = w[a + 1] /\ Tail(Part(w, a, n)) = Part(w, a + 1, n)
        BY <3>2, PartHead
    <3> QED
        BY <1>2, <3>1, <3>3
  <2>3. a + 1 \in 1..Len(w)
      BY <1>7, <2>1
  <2>4. w[a + 1] \in Chunk
      BY <2>3
  <2> QED
      BY <2>2, <2>4 DEF Arrive
<1>9. Joined(stream', Part(w, read, a + 1))
  <2>1. CASE read <= a
    <3>1. Part(w, read, a + 1) = Append(Part(w, read, a), w[a + 1])
        BY <1>6, <1>7, <2>1, PartMore
    <3>2. Part(w, read, a) \in Seq(Chunk)
        BY <1>2, <1>6, PartType
    <3> QED
        BY <1>2, <1>3, <1>8, <3>1, <3>2, JoinedMore DEF Chunk
  <2>2. CASE read > a
    <3>1. read = a + 1 /\ w[a + 1] = <<>>
        BY <1>2, <2>2
    <3>2. Part(w, read, a) = <<>> /\ Part(w, read, a + 1) = <<>>
      <4>1. a + 1 \in Nat /\ a <= read /\ a + 1 <= read
          BY <1>6, <3>1
      <4> QED
          BY <1>6, <4>1, PartNone
    <3>3. stream' = stream
        BY <1>3, <1>8, <3>1
    <3> QED
        BY <1>2, <3>2, <3>3
  <2> QED
      BY <1>6, <2>1, <2>2
<1>10. Placed(w, ends, a + 1)'
  <2>1. /\ Laid(w, ends, typed') /\ Position(ends, Len(understood'), call') = read
      BY <1>2, <1>4 DEF read
  <2>2. a + 1 <= Len(w) /\ ~(read > a + 1)
      BY <1>2, <1>6, <1>7
  <2> QED
      BY <1>8, <1>9, <2>1, <2>2 DEF Placed
<1>11. Agree' /\ (call' # NULL => CallAgrees(call)')
    BY <1>4 DEF InStep, Agree, CallAgrees
<1>12. a + 1 \in Nat /\ ends \in [0..Len(typed') -> Nat]
    BY <1>4
<1> QED
    BY <1>10, <1>11, <1>12 DEF InStep

\* A handler takes the strings that are sent with its command, or none.
LEMMA TakesAllOrNone == \A cmd : Takes(cmd) \in {0, Sends(cmd)}
BY DEF Takes, Sends, LOGIN, SIGNUP, OPEN_SESSION_WITH_USER, OPEN_CHATROOM, GET_CHATROOM_USERS

\* The next write is where the thread has read to.
LEMMA PlacedAgain ==
    ASSUME NEW w, NEW ends, NEW a, Placed(w, ends, a), UNCHANGED <<typed, outbox>>,
           NEW read, Position(ends, Len(understood'), call') = read,
           read > a => read = a + 1 /\ read <= Len(w) /\ w[read] = <<>>,
           Joined(stream', Part(w, read, a))
    PROVE  Placed(w, ends, a)'
BY DEF Placed

\* The request that was typed next is taken.
LEMMA AgreeMore ==
    ASSUME Types, Agree, Len(understood) < Len(typed), UNCHANGED typed,
           LET req == typed[Len(understood) + 1]
           IN  understood' = Append(understood, [cmd |-> req.cmd, args |-> req.args])
    PROVE  Agree' /\ Len(understood') = Len(understood) + 1
<1> DEFINE u == Len(understood)
           req == typed[u + 1]
<1>1. typed \in Seq(Typable) /\ understood \in Seq(Message)
    BY DEF Types
<1>2. u \in Nat /\ Len(typed) \in Nat /\ u + 1 \in 1..Len(typed)
    BY <1>1
<1>3. req \in Message
  <2>1. req \in Typable
      BY <1>1, <1>2
  <2> QED
      BY <2>1, WritesType
<1>4. [cmd |-> req.cmd, args |-> req.args] = req
    BY <1>3 DEF Message
<1>5. understood' = Append(understood, req)
    BY <1>4
<1>6. \A k \in 1..u : understood[k] = typed[k]
    BY DEF Agree
<1> HIDE DEF req
<1>7. /\ Len(understood') = u + 1 /\ understood'[u + 1] = req
      /\ \A k \in 1..u : understood'[k] = understood[k]
    BY <1>1, <1>3, <1>5
<1> HIDE DEF u
<1>8. \A k \in 1..(u + 1) : k \in 1..u \/ k = u + 1
    BY <1>2
<1>9. \A k \in 1..(u + 1) : understood'[k] = typed[k]
    BY <1>6, <1>7, <1>8 DEF req
<1>10. Len(understood') <= Len(typed')
    BY <1>2, <1>7
<1> QED
    BY <1>7, <1>9, <1>10 DEF Agree, u

LEMMA ReadCommandInStep ==
    ASSUME Types, Types', InStep, ReadCommand
    PROVE  InStep' \/ Dismissed'
<1>1. PICK w \in Seq(Chunk), ends \in [0..Len(typed) -> Nat], a \in Nat : Placed(w, ends, a)
    BY DEF InStep
<1> DEFINE u == Len(understood)
           r == ends[u]
           req == typed[u + 1]
           n == Len(req.args)
<1>2. /\ typed \in Seq(Typable) /\ understood \in Seq(Message) /\ stream \in Seq(Byte)
      /\ typed \in Seq(Message)
  <2>1. typed \in Seq(Typable)
      BY DEF Types
  <2>2. typed \in Seq(Message)
      BY <2>1, SomeRequests, SeqMonotonic
  <2> QED
      BY <2>1, <2>2 DEF Types
<1>3. /\ call = NULL /\ stream # <<>> /\ stream' = Rest(stream, 4)
      /\ UNCHANGED <<typed, outbox>>
    BY DEF ReadCommand, clientVars
<1>4. /\ u \in Nat /\ Len(typed) \in Nat /\ u <= Len(typed) /\ u \in 0..Len(typed)
      /\ r \in Nat
  <2>1. u <= Len(typed)
      BY DEF InStep, Agree
  <2> QED
      BY <1>2, <2>1
<1>5. Position(ends, u, call) = r
    BY <1>3, <1>4 DEF Position
<1>6. /\ Laid(w, ends, typed) /\ a <= Len(w) /\ Joined(stream, Part(w, r, a))
    BY <1>1, <1>5 DEF Placed
<1>7. r < a
    BY <1>2, <1>3, <1>4, <1>6, SomeAreUnread
<1>8. u < Len(typed)
  <2>1. SUFFICES ASSUME u = Len(typed) PROVE FALSE
      BY <1>4
  <2>2. r = Len(w)
      BY <1>6, <2>1 DEF Laid
  <2> QED
      BY <1>4, <1>6, <1>7, <2>2
<1>9. /\ n \in Nat /\ ends[u + 1] = r + 1 + 2 * n /\ w[r + 1] = Word(req.cmd)
    BY <1>2, <1>4, <1>6, <1>8, LaidAt, ZenonT(60)
<1>10. /\ req \in Typable /\ req.cmd \in Byte \ {0} /\ n = Sends(req.cmd)
       /\ req.args \in Seq(Text) /\ req.cmd \in Nat
  <2>1. req \in Typable
      BY <1>2, <1>4, <1>8
  <2>2. req.cmd \in Byte \ {0} /\ n = Sends(req.cmd) /\ req.args \in Seq(Text)
      BY <2>1, WritesType, SomeRequests
  <2>3. Byte \subseteq Nat
      BY DEF Byte
  <2> QED
      BY <2>1, <2>2, <2>3
<1> HIDE DEF req, n, u, r
<1>11. /\ Taken(stream, 4) = Word(req.cmd) /\ Joined(Rest(stream, 4), Part(w, r + 1, a))
       /\ Number(Word(req.cmd)) = req.cmd
  <2>1. Len(w[r + 1]) = 4 /\ Number(Word(req.cmd)) = req.cmd
      BY <1>9, <1>10, WordIsRead
  <2>2. /\ Taken(stream, Len(w[r + 1])) = w[r + 1]
        /\ Joined(Rest(stream, Len(w[r + 1])), Part(w, r + 1, a))
      BY <1>2, <1>4, <1>6, <1>7, NextIsRead
  <2> QED
      BY <1>9, <2>1, <2>2
<1>12. GoOn(Begun(req.cmd, Takes(req.cmd)))
  <2>1. Number(Taken(stream, 4)) = req.cmd /\ req.cmd # 0
      BY <1>10, <1>11
  <2> QED
      BY <2>1 DEF ReadCommand
<1>13. ~(r + 1 > a)
    BY <1>4, <1>7
<1>14. CASE /\ Takes(req.cmd) = 0 /\ call' = NULL
            /\ understood' = Append(understood, [cmd |-> req.cmd, args |-> <<>>])
  <2>1. CASE req.args = <<>>
    <3>1. n = 0
        BY <2>1 DEF n
    <3>2. Agree' /\ Len(understood') = u + 1
      <4>1. understood' = Append(understood, [cmd |-> req.cmd, args |-> req.args])
          BY <1>14, <2>1
      <4>2. Agree /\ Len(understood) < Len(typed) /\ UNCHANGED typed
          BY <1>3, <1>8 DEF InStep, u
      <4> QED
          BY <4>1, <4>2, AgreeMore DEF req, u
    <3>3. Position(ends, Len(understood'), call') = r + 1
      <4>1. ends[u + 1] = r + 1
          BY <1>4, <1>9, <3>1
      <4> QED
          BY <1>4, <1>14, <3>2, <4>1 DEF Position
    <3>4. Placed(w, ends, a)'
        BY <1>1, <1>3, <1>11, <1>13, <3>3, PlacedAgain
    <3> QED
        BY <1>3, <1>14, <3>2, <3>4 DEF InStep
  <2>2. CASE req.args # <<>>
    <3> DEFINE m == [cmd |-> req.cmd, args |-> <<>>]
    <3>1. m \in Message
      <4>1. req.cmd \in Nat
          BY <1>10
      <4>2. <<>> \in Seq(Seq(1..255))
          BY EmptySeq
      <4> QED
          BY <4>1, <4>2 DEF Message
    <3>2. m.cmd = req.cmd /\ m.args = <<>> /\ m # req
        BY <2>2
    <3> HIDE DEF m
    <3>3. /\ Len(understood') = u + 1 /\ understood'[u + 1] = m
          /\ \A k \in 1..u : understood'[k] = understood[k]
      <4>1. understood' = Append(understood, m)
          BY <1>14 DEF m
      <4> QED
          BY <1>2, <3>1, <4>1 DEF u
    <3>4. \A k \in 1..u : understood'[k] = typed[k]
        BY <3>3 DEF InStep, Agree, u
    <3>5. /\ u + 1 \in 1..Len(understood') /\ u + 1 <= Len(typed') /\ u + 1 - 1 = u
          /\ typed'[u + 1] = req
        BY <1>3, <1>4, <1>8, <3>3 DEF req
    <3>6. PICK d \in 1..Len(understood') : d = u + 1
        BY <3>5
    <3>7. \A j \in 1..(d - 1) : understood'[j] = typed'[j]
      <4>1. typed' = typed
          BY <1>3
      <4>2. d - 1 = u
          BY <1>4, <3>6
      <4> QED
          BY <3>4, <4>1, <4>2
    <3>8. /\ d <= Len(typed') /\ understood'[d].cmd = typed'[d].cmd
          /\ understood'[d].args = <<>> /\ understood'[d] # typed'[d]
        BY <3>2, <3>3, <3>5, <3>6
    <3> QED
        BY <3>7, <3>8 DEF Dismissed
  <2> QED
      BY <2>1, <2>2
<1>15. CASE /\ Takes(req.cmd) # 0 /\ call' = Begun(req.cmd, Takes(req.cmd))
            /\ understood' = understood
  <2>1. Takes(req.cmd) = n
      BY <1>10, <1>15, TakesAllOrNone
  <2>2. /\ call'.cmd = req.cmd /\ call'.count = n /\ call'.args = <<>> /\ call'.len = NULL
        /\ Len(call'.args) = 0
      BY <1>15, <2>1 DEF Begun
  <2>3. call' # NULL
    <3>1. call' \in Request
      <4>1. req.cmd \in Nat
          BY <1>10
      <4> QED
          BY <1>15, <4>1, BegunType
    <3> QED
        BY <3>1, NullIsOther
  <2>4. Agree'
      BY <1>3, <1>15 DEF InStep, Agree
  <2>5. CallAgrees(call)'
    <3>1. 0 < n
        BY <1>9, <1>15, <2>1
    <3>2. typed'[Len(understood') + 1] = req /\ Len(understood') < Len(typed')
        BY <1>3, <1>8, <1>15 DEF req, u
    <3>3. \A i \in 1..0 : FALSE
        OBVIOUS
    <3> QED
        BY <2>2, <3>1, <3>2, <3>3 DEF CallAgrees, n
  <2>6. Position(ends, Len(understood'), call') = r + 1
    <3>1. Position(ends, Len(understood'), call') = r + (1 + 2 * 0 + 0)
        BY <1>15, <2>2, <2>3 DEF Position, u, r
    <3> QED
        BY <1>4, <3>1
  <2>7. Placed(w, ends, a)'
      BY <1>1, <1>3, <1>11, <1>13, <2>6, PlacedAgain
  <2> QED
      BY <1>3, <2>4, <2>5, <2>7 DEF InStep
<1>16. Begun(req.cmd, Takes(req.cmd)).cmd = req.cmd
       /\ Begun(req.cmd, Takes(req.cmd)).args = <<>>
       /\ (Complete(Begun(req.cmd, Takes(req.cmd))) <=> Takes(req.cmd) = 0)
    BY DEF Begun, Complete
<1> QED
    BY <1>12, <1>14, <1>15, <1>16, GoOnDoes

LEMMA ReadStringInStep ==
    ASSUME Types, Types', InStep, ReadString
    PROVE  InStep'
<1>1. PICK w \in Seq(Chunk), ends \in [0..Len(typed) -> Nat], a \in Nat : Placed(w, ends, a)
    BY DEF InStep
<1> DEFINE u == Len(understood)
           e == ends[u]
           req == typed[u + 1]
           n == Len(req.args)
           m == Len(call.args)
           text == req.args[m + 1]
           r == Position(ends, u, call)
<1>2. /\ typed \in Seq(Typable) /\ understood \in Seq(Message) /\ stream \in Seq(Byte)
      /\ typed \in Seq(Message)
  <2>1. typed \in Seq(Typable)
      BY DEF Types
  <2>2. typed \in Seq(Message)
      BY <2>1, SomeRequests, SeqMonotonic
  <2> QED
      BY <2>1, <2>2 DEF Types
<1>3. /\ call # NULL /\ ~Blocked(call, stream, Eof) /\ stream' = Rest(stream, Wanted(call))
      /\ GoOn(ReadOn(call, stream)) /\ UNCHANGED <<typed, outbox>>
    BY DEF ReadString, clientVars
<1>4. call \in Request
    BY <1>3 DEF Types
<1>5. /\ call.args \in Seq(Text) /\ m \in Nat
      /\ call.len \in Nat \cup {NULL}
  <2>1. call.args \in Seq(Text) /\ call.len \in Nat \cup {NULL}
      BY <1>4 DEF Request
  <2> QED
      BY <2>1
<1>6. /\ u < Len(typed)
      /\ call.cmd = req.cmd /\ call.count = n
      /\ m < n
      /\ \A i \in 1..m : call.args[i] = req.args[i]
      /\ call.len # NULL => call.len = Len(text)
    BY <1>3 DEF InStep, CallAgrees
<1>7. /\ Laid(w, ends, typed) /\ a <= Len(w) /\ Joined(stream, Part(w, r, a))
      /\ r > a => r = a + 1 /\ r <= Len(w) /\ w[r] = <<>>
      /\ outbox = Part(w, a, Len(w))
    BY <1>1 DEF Placed
<1>8. u \in Nat /\ Len(typed) \in Nat /\ u \in 0..Len(typed)
    BY <1>2, <1>6
<1>9. /\ e \in Nat /\ n \in Nat
      /\ ends[u + 1] = e + 1 + 2 * n
      /\ ends[u + 1] <= Len(w)
      /\ \A i \in 1..n : /\ w[e + 2 * i] = Word(Len(req.args[i]))
                         /\ w[e + 2 * i + 1] = req.args[i]
    BY <1>2, <1>6, <1>7, <1>8, LaidAt, ZenonT(60)
<1>10. /\ req.args \in Seq(Text) /\ \A i \in 1..n : Len(req.args[i]) \in Byte
  <2>1. req \in Typable
      BY <1>2, <1>6, <1>8
  <2>2. req.args \in Seq(Text) /\ \A i \in DOMAIN req.args : Len(req.args[i]) \in Byte
      BY <2>1, WritesType
  <2>3. DOMAIN req.args = 1..n
      BY <2>2
  <2> QED
      BY <2>2, <2>3
<1>11. r = e + (1 + 2 * m + (IF call.len = NULL THEN 0 ELSE 1))
    BY <1>3 DEF Position
<1> HIDE DEF u, e, n, m, r
<1>12. /\ m + 1 \in 1..n /\ Len(w) \in Nat
       /\ text \in Text /\ Len(text) \in Byte
  <2>1. m + 1 \in 1..n
      BY <1>5, <1>6, <1>9
  <2>2. req.args[m + 1] \in Text
      BY <1>10, <2>1 DEF n
  <2> QED
      BY <1>10, <2>1, <2>2
<1>13. w[e + 2 * m + 2] = Word(Len(text)) /\ w[e + 2 * m + 3] = text
  <2>1. e + 2 * (m + 1) = e + 2 * m + 2 /\ e + 2 * (m + 1) + 1 = e + 2 * m + 3
      BY <1>5, <1>9
  <2>2. w[e + 2 * (m + 1)] = Word(Len(text)) /\ w[e + 2 * (m + 1) + 1] = text
      BY <1>9, <1>12
  <2> QED
      BY <2>1, <2>2
<1>14. e + 2 * m + 3 <= Len(w) /\ (m + 1 = n => ends[u + 1] = e + 2 * m + 3)
    BY <1>5, <1>6, <1>9, <1>12
<1>15. Len(Word(Len(text))) = 4 /\ Number(Word(Len(text))) = Len(text)
       /\ Word(Len(text)) # <<>>
  <2>1. /\ Word(Len(text)) \in Seq(Byte) /\ Len(Word(Len(text))) = 4
        /\ Number(Word(Len(text))) = Len(text)
      BY <1>12, WordIsRead
  <2>2. ASSUME NEW b \in Seq(Byte), Len(b) = 4
        PROVE  b # <<>>
    <3>1. Len(b) # Len(<<>>)
        BY <2>2, EmptySeq
    <3> QED
        BY <3>1
  <2> QED
      BY <2>1, <2>2
<1> HIDE DEF text, req
<1>16. ASSUME r < Len(w), r \in Nat, a <= r
       PROVE  ~Eof /\ stream = <<>>
  <2>1. a < Len(w)
      BY <1>12, <1>16
  <2>2. outbox # <<>>
    <3>1. PICK l \in Nat : l = Len(w)
        BY <1>12
    <3>2. Part(w, a, l) # <<>>
        BY <2>1, <3>1, PartHead
    <3> QED
        BY <1>7, <3>1, <3>2
  <2>3. Part(w, r, a) = <<>>
      BY <1>16, PartNone
  <2>4. stream = <<>>
      BY <1>2, <1>7, <2>3, JoinedNone
  <2> QED
      BY <2>2, <2>4 DEF Eof
<1>17. CASE call.len = NULL
  <2>1. r = e + 2 * m + 1 /\ r \in Nat /\ r < Len(w) /\ r + 1 = e + 2 * m + 2
      BY <1>5, <1>9, <1>11, <1>12, <1>14, <1>17
  <2>2. w[r + 1] = Word(Len(text))
      BY <1>13, <2>1
  <2>3. Wanted(call) = 4
      BY <1>17 DEF Wanted
  <2>4. r < a
    <3>1. SUFFICES ASSUME a <= r PROVE FALSE
        BY <2>1
    <3> QED
        BY <1>3, <1>16, <2>1, <2>3, <3>1 DEF Blocked
  <2>5. /\ Taken(stream, 4) = Word(Len(text)) /\ Joined(Rest(stream, 4), Part(w, r + 1, a))
        /\ 4 <= Len(stream)
    <3>1. /\ Taken(stream, Len(w[r + 1])) = w[r + 1]
          /\ Joined(Rest(stream, Len(w[r + 1])), Part(w, r + 1, a))
          /\ Len(w[r + 1]) <= Len(stream)
        BY <1>2, <1>7, <2>1, <2>4, NextIsRead
    <3> QED
        BY <1>15, <2>2, <3>1
  <2>6. stream # <<>>
      BY <1>2, <2>5
  <2> DEFINE next == [call EXCEPT !.len = Len(text)]
  <2>7. ReadOn(call, stream) = next
      BY <1>15, <1>17, <2>5, <2>6 DEF ReadOn
  <2>8. /\ next.cmd = call.cmd /\ next.count = call.count /\ next.args = call.args
        /\ next.len = Len(text) /\ next \in Request /\ Len(text) \in Nat
    <3>1. Len(text) \in Nat
      <4>1. Byte \subseteq Nat
          BY DEF Byte
      <4> QED
          BY <1>12, <4>1
    <3> QED
        BY <1>4, <3>1 DEF Request
  <2>9. next # NULL /\ next.len # NULL
      BY <2>8, NullIsOther
  <2> HIDE DEF next
  <2>10. ~Complete(next)
      BY <1>5, <1>6, <1>9, <2>8 DEF Complete, m
  <2>11. call' = next /\ understood' = understood
      BY <1>3, <2>7, <2>10, GoOnDoes
  <2>12. Agree'
      BY <1>3, <2>11 DEF InStep, Agree
  <2>13. CallAgrees(call)'
      BY <1>3, <1>6, <2>8, <2>11 DEF CallAgrees, req, u, n, m, text
  <2>14. Position(ends, Len(understood'), call') = r + 1
    <3>1. Position(ends, Len(understood'), call') = e + (1 + 2 * m + 1)
        BY <2>8, <2>9, <2>11 DEF Position, e, u, m
    <3> QED
        BY <1>5, <1>9, <2>1, <3>1
  <2>15. Placed(w, ends, a)'
    <3>1. ~(r + 1 > a)
        BY <2>1, <2>4
    <3> QED
        BY <1>1, <1>3, <2>3, <2>5, <2>14, <3>1, PlacedAgain
  <2> QED
      BY <1>3, <2>12, <2>13, <2>15 DEF InStep
<1>18. CASE call.len # NULL
  <2>1. /\ r = e + 2 * m + 2 /\ r \in Nat /\ r < Len(w) /\ r + 1 = e + 2 * m + 3
        /\ r + 1 <= Len(w)
      BY <1>5, <1>9, <1>11, <1>12, <1>14, <1>18
  <2>2. w[r] = Word(Len(text)) /\ w[r + 1] = text
      BY <1>13, <2>1
  <2>3. Wanted(call) = Len(text) /\ call.len = Len(text)
      BY <1>6, <1>18 DEF Wanted
  <2>4. /\ Taken(stream, Len(text)) = text
        /\ Joined(stream', Part(w, r + 1, a))
        /\ r + 1 > a => r + 1 = a + 1 /\ w[r + 1] = <<>>
    <3>1. CASE r < a
      <4>1. /\ Taken(stream, Len(w[r + 1])) = w[r + 1]
            /\ Joined(Rest(stream, Len(w[r + 1])), Part(w, r + 1, a))
          BY <1>2, <1>7, <2>1, <3>1, NextIsRead
      <4>2. ~(r + 1 > a)
          BY <2>1, <3>1
      <4> QED
          BY <1>3, <2>2, <2>3, <4>1, <4>2
    <3>2. CASE a <= r
      <4>1. r = a
        <5>1. ~(r > a)
            BY <1>7, <1>15, <2>2
        <5> QED
            BY <2>1, <3>2, <5>1
      <4>2. ~Eof /\ stream = <<>>
          BY <1>16, <2>1, <3>2
      <4>3. Len(text) = 0 /\ text = <<>>
        <5>1. Len(text) = 0
            BY <1>3, <2>3, <4>2 DEF Blocked
        <5> QED
            BY <1>12, <5>1 DEF Text
      <4>4. Taken(<<>>, 0) = <<>> /\ Rest(<<>>, 0) = <<>>
          BY DEF Taken, Rest, Least
      <4>5. Part(w, r + 1, a) = <<>>
        <5>1. r + 1 \in Nat /\ a <= r + 1
            BY <2>1, <4>1
        <5> QED
            BY <5>1, PartNone
      <4>6. stream' = <<>>
          BY <1>3, <2>3, <4>2, <4>3, <4>4
      <4>7. Joined(stream', Part(w, r + 1, a))
        <5>1. <<>> \in Seq(Byte)
            BY EmptySeq
        <5> QED
            BY <4>5, <4>6, <5>1, JoinedNone
      <4> QED
          BY <2>2, <4>1, <4>2, <4>3, <4>4, <4>7
    <3> QED
        BY <2>1, <3>1, <3>2
  <2> DEFINE args == Append(call.args, text)
             next == [call EXCEPT !.args = args, !.len = NULL]
  <2>5. ReadOn(call, stream) = next
    <3>1. String(Taken(stream, call.len)) = text
        BY <1>12, <2>3, <2>4, TextIsRead
    <3> QED
        BY <1>18, <3>1 DEF ReadOn, readMsg
  <2>6. /\ args \in Seq(Text) /\ Len(args) = m + 1
        /\ \A i \in 1..(m + 1) : args[i] = req.args[i]
    <3>1. /\ args \in Seq(Text) /\ Len(args) = m + 1 /\ args[m + 1] = text
          /\ \A i \in 1..m : args[i] = call.args[i]
        BY <1>5, <1>12 DEF m
    <3> HIDE DEF args
    <3>2. \A i \in 1..(m + 1) : i \in 1..m \/ i = m + 1
        BY <1>5
    <3> QED
        BY <1>6, <3>1, <3>2 DEF text
  <2> HIDE DEF args
  <2>7. /\ next.cmd = call.cmd /\ next.count = call.count /\ next.args = args
        /\ next.len = NULL /\ next \in Request
      BY <1>4, <2>6 DEF Request
  <2>8. next # NULL
      BY <2>7, NullIsOther
  <2> HIDE DEF next
  <2>9. CASE /\ m + 1 = n /\ call' = NULL
             /\ understood' = Append(understood, [cmd |-> call.cmd, args |-> args])
    <3>1. args = req.args
      <4>1. Len(args) = Len(req.args) /\ Len(args) = m + 1
          BY <2>6, <2>9 DEF n
      <4> QED
          BY <1>10, <2>6, <4>1, SeqEqual
    <3>2. Agree' /\ Len(understood') = u + 1
      <4>1. understood' = Append(understood, [cmd |-> req.cmd, args |-> req.args])
          BY <1>6, <2>9, <3>1
      <4>2. Agree /\ Len(understood) < Len(typed) /\ UNCHANGED typed
          BY <1>3, <1>6 DEF InStep, u
      <4> QED
          BY <4>1, <4>2, AgreeMore DEF req, u
    <3>3. Position(ends, Len(understood'), call') = r + 1
      <4>1. ends[u + 1] = r + 1
          BY <1>14, <2>1, <2>9
      <4> QED
          BY <2>1, <2>9, <3>2, <4>1 DEF Position
    <3>4. Placed(w, ends, a)'
        BY <1>1, <1>3, <2>1, <2>4, <3>3, PlacedAgain
    <3> QED
        BY <1>3, <2>9, <3>2, <3>4 DEF InStep
  <2>10. CASE m + 1 # n /\ call' = next /\ understood' = understood
    <3>1. Agree'
        BY <1>3, <2>10 DEF InStep, Agree
    <3>2. m + 1 < n
        BY <1>5, <1>6, <1>9, <2>10
    <3>3. CallAgrees(call)'
        BY <1>3, <1>6, <2>6, <2>7, <2>10, <3>2 DEF CallAgrees, req, u, n
    <3>4. Position(ends, Len(understood'), call') = r + 1
      <4>1. Position(ends, Len(understood'), call') = e + (1 + 2 * (m + 1) + 0)
          BY <2>6, <2>7, <2>8, <2>10 DEF Position, e, u
      <4> QED
          BY <1>5, <1>9, <2>1, <4>1
    <3>5. Placed(w, ends, a)'
        BY <1>1, <1>3, <2>1, <2>4, <3>4, PlacedAgain
    <3> QED
        BY <1>3, <3>1, <3>3, <3>5 DEF InStep
  <2>11. Complete(next) <=> m + 1 = n
      BY <1>6, <2>6, <2>7 DEF Complete
  <2> QED
      BY <1>3, <2>5, <2>7, <2>9, <2>10, <2>11, GoOnDoes
<1> QED
    BY <1>17, <1>18

LEMMA FramedStep ==
    ASSUME Types, Types', Framed, [Next]_vars
    PROVE  Framed'
<1>0. torn \in BOOLEAN
    BY DEF Types
<1>1. SUFFICES ASSUME ~torn' PROVE InStep' \/ Dismissed'
    BY DEF Framed
<1>2. ~torn
    BY <1>0, <1>1 DEF Next, Type, CloseConnection, Arrive, ArriveInPart, Serve, ReadCommand,
       ReadString, HandOver, WriteAnswer, Greet, Close, Interject, vars, netVars
<1>3. CASE Dismissed
  <2>1. /\ understood' = understood \/ \E m \in Message : understood' = Append(understood, m)
        /\ typed' = typed \/ \E req \in Typable : typed' = Append(typed, req)
    <3>1. ASSUME NEW req \in Typable, Type(req)
          PROVE  understood' = understood /\ typed' = Append(typed, req)
        BY <3>1 DEF Type, readVars
    <3>2. ASSUME NEW request \in Request, GoOn(request)
          PROVE  understood' = understood \/ \E m \in Message : understood' = Append(understood, m)
      <4>1. [cmd |-> request.cmd, args |-> request.args] \in Message
          BY DEF Request, Message, Text
      <4> QED
          BY <3>2, <4>1, GoOnDoes
    <3>3. CASE ReadCommand
      <4>1. CASE UNCHANGED <<readVars, saying>>
          BY <3>3, <4>1 DEF ReadCommand, clientVars, readVars
      <4>2. CASE GoOn(Begun(Number(Taken(stream, 4)), Takes(Number(Taken(stream, 4)))))
        <5>1. stream \in Seq(Byte)
            BY DEF Types
        <5>2. Number(Taken(stream, 4)) \in Nat
            BY <5>1, ReadType, NumberType
        <5> QED
            BY <3>2, <3>3, <4>2, <5>2, BegunType DEF ReadCommand, clientVars
      <4> QED
          BY <3>3, <4>1, <4>2 DEF ReadCommand
    <3>4. CASE ReadString
      <4>1. call \in Request /\ stream \in Seq(Byte)
          BY <3>4 DEF ReadString, Types
      <4>2. ReadOn(call, stream) \in Request /\ GoOn(ReadOn(call, stream))
          BY <3>4, <4>1, ReadOnType DEF ReadString
      <4> QED
          BY <3>2, <3>4, <4>2 DEF ReadString, clientVars
    <3>5. CASE \/ CloseConnection \/ Arrive \/ ArriveInPart \/ HandOver \/ WriteAnswer
               \/ Greet \/ Close \/ UNCHANGED vars
        BY <3>5 DEF CloseConnection, Arrive, ArriveInPart, HandOver, WriteAnswer, Greet, Close,
           Interject, vars, clientVars, readVars
    <3> QED
        BY <3>1, <3>3, <3>4, <3>5 DEF Next, Serve
  <2> QED
      BY <1>3, <2>1, DismissedStays
<1>4. CASE InStep
  <2>1. ASSUME NEW req \in Typable, Type(req)
        PROVE  InStep'
      BY <1>4, <2>1, TypeInStep
  <2>2. CASE Arrive
      BY <1>4, <2>2, ArriveInStep
  <2>3. CASE ReadCommand
      BY <1>4, <2>3, ReadCommandInStep
  <2>4. CASE ReadString
      BY <1>4, <2>4, ReadStringInStep
  <2>5. CASE ArriveInPart
      BY <1>1, <2>5 DEF ArriveInPart
  <2>6. CASE CloseConnection \/ HandOver \/ WriteAnswer \/ Greet \/ Close \/ UNCHANGED vars
    <3>1. UNCHANGED <<typed, understood, call, stream, outbox>>
        BY <2>6 DEF CloseConnection, HandOver, WriteAnswer, Greet, Close, Interject, vars,
           clientVars, netVars, readVars
    <3> QED
        BY <1>4, <3>1 DEF InStep, Agree, CallAgrees, Placed
  <2> QED
      BY <2>1, <2>2, <2>3, <2>4, <2>5, <2>6 DEF Next, Serve
<1> QED
    BY <1>2, <1>3, <1>4 DEF Framed

LEMMA InitFramed == Init => Framed
<1> SUFFICES ASSUME Init PROVE Framed
    OBVIOUS
<1> DEFINE ends == [k \in 0..0 |-> 0]
<1>1. /\ typed = <<>> /\ understood = <<>> /\ stream = <<>> /\ outbox = <<>> /\ call = NULL
      /\ Len(<<>>) = 0
    BY DEF Init
<1>2. ends \in [0..Len(typed) -> Nat] /\ ends[0] = 0
    BY <1>1
<1> HIDE DEF ends
<1>3. Laid(<<>>, ends, typed)
  <2>1. \A k \in 1..0 : FALSE
      OBVIOUS
  <2> QED
      BY <1>1, <1>2, <2>1 DEF Laid
<1>4. Position(ends, Len(understood), call) = 0
    BY <1>1, <1>2 DEF Position
<1>5. Part(<<>>, 0, 0) = <<>> /\ Joined(<<>>, <<>>)
  <2>1. <<>> \in Seq(Byte)
      BY EmptySeq
  <2>2. Joined(<<>>, <<>>)
      BY <2>1, JoinedNone
  <2>3. 0 \in Nat /\ 0 <= 0
      OBVIOUS
  <2> QED
      BY <2>2, <2>3, PartNone
<1>6. Placed(<<>>, ends, 0)
    BY <1>1, <1>3, <1>4, <1>5 DEF Placed
<1>7. <<>> \in Seq(Chunk)
    BY EmptySeq
<1>8. Agree
  <2>1. \A k \in 1..0 : FALSE
      OBVIOUS
  <2> QED
      BY <1>1, <2>1 DEF Agree
<1> QED
    BY <1>1, <1>2, <1>6, <1>7, <1>8 DEF Framed, InStep

\* As long as no write has arrived in parts, a handler gets the strings that were typed
\* for it, whatever falls together, until a request is dismissed.
THEOREM StringsReachTheirHandler == Spec => []FirstMisreadIsDismissal
<1>1. Init => Types /\ Framed
    BY InitTypes, InitFramed
<1>2. Types /\ Framed /\ [Next]_vars => (Types /\ Framed)'
    BY TypesStep, FramedStep
<1>3. Types /\ Framed => FirstMisreadIsDismissal
    BY FramedImplies
<1> QED
    BY <1>1, <1>2, <1>3, PTL DEF Spec
===============================================================================
