--------------------------- MODULE DispatcherProofs ---------------------------
(***************************************************************************)
(* Proofs about the dispatcher, for any sets of names, rooms and sockets.  *)
(* The invariant IInv is preserved by every handler, one lemma each; the   *)
(* safety properties and the refinement of RoomDirectory follow from it.   *)
(* The theorems stated first say what add_user and remove_user do to the   *)
(* vector of a room, for every vector, and that the closed form of the     *)
(* latter is the loop of the code; the handlers' lemmas cite them.         *)
(***************************************************************************)
EXTENDS Dispatcher, FiniteSetTheorems, SequenceTheorems, TLAPS

-------------------------------------------------------------------------------
(* The vector of a room's users. *)

\* A set of positions of a vector is a finite set of naturals.
LEMMA PositionsAreFinite ==
    ASSUME NEW len \in Nat, NEW kept \in SUBSET (1..len)
    PROVE  kept \in SUBSET Nat /\ IsFiniteSet(kept) /\ Cardinality(kept) \in Nat
<1>1. IsFiniteSet(1..len)
    BY FS_Interval
<1>2. IsFiniteSet(kept)
    BY <1>1, FS_Subset
<1> QED
    BY <1>2, FS_CardinalityType

\* The rank of a kept position lies between 1 and the number of kept ones.
LEMMA RankInRange ==
    ASSUME NEW kept \in SUBSET Nat, IsFiniteSet(kept), NEW i \in kept
    PROVE  Rank(kept, i) \in 1..Cardinality(kept)
<1> DEFINE below == {j \in kept : j <= i}
<1>1. /\ IsFiniteSet(below)
      /\ Cardinality(below) <= Cardinality(kept)
    BY FS_Subset
<1>2. Cardinality(below) \in Nat /\ Cardinality(kept) \in Nat
    BY <1>1, FS_CardinalityType
<1>3. i \in below
    OBVIOUS
<1>4. Cardinality(below) # 0
    BY <1>1, <1>3, FS_EmptySet
<1> QED
    BY <1>1, <1>2, <1>4 DEF Rank

\* A later kept position has another rank.
LEMMA RankGrows ==
    ASSUME NEW kept \in SUBSET Nat, IsFiniteSet(kept),
           NEW i \in kept, NEW j \in kept, i < j
    PROVE  Rank(kept, i) # Rank(kept, j)
<1> DEFINE lower == {k \in kept : k <= i}
           upper == {k \in kept : k <= j}
<1>1. IsFiniteSet(upper)
    BY FS_Subset
<1>2. \A k \in kept : k <= i => k <= j
    OBVIOUS
<1>3. lower \in SUBSET upper
    BY <1>2, Zenon
<1>4. j \in upper /\ j \notin lower
    OBVIOUS
<1>5. Cardinality(lower) # Cardinality(upper)
    BY <1>1, <1>3, <1>4, FS_Subset
<1> QED
    BY <1>5 DEF Rank

\* No two kept positions have the same rank.
LEMMA RanksDiffer ==
    ASSUME NEW kept \in SUBSET Nat, IsFiniteSet(kept),
           NEW i \in kept, NEW j \in kept, Rank(kept, i) = Rank(kept, j)
    PROVE  i = j
<1>1. i = j \/ i < j \/ j < i
    OBVIOUS
<1> QED
    BY <1>1, RankGrows

\* The ranks of the kept positions are exactly 1, 2, ..., their number.
LEMMA EveryRankIsTaken ==
    ASSUME NEW kept \in SUBSET Nat, IsFiniteSet(kept),
           NEW k \in 1..Cardinality(kept)
    PROVE  \E i \in kept : Rank(kept, i) = k
<1> DEFINE card == Cardinality(kept)
           rank == [i \in kept |-> Rank(kept, i)]
<1>1. card \in Nat
    BY FS_CardinalityType
<1>2. rank \in [kept -> 1..card]
    BY RankInRange
<1>3. \A i, j \in kept : rank[i] = rank[j] => i = j
    BY RanksDiffer
<1>4. rank \in Injection(kept, 1..card)
    BY <1>2, <1>3 DEF Injection, IsInjective
<1>5. IsFiniteSet(1..card) /\ Cardinality(1..card) = card
    BY <1>1, FS_Interval
<1> HIDE DEF rank
<1>6. rank \in Surjection(kept, 1..card)
    BY <1>4, <1>5, FS_Injection
<1> USE DEF rank
<1> QED
    BY <1>6 DEF Surjection

\* A finite set of strings that is not empty has a last element: the one whose
\* rank is the size of the set.
LEMMA LastExists ==
    ASSUME NEW S \in SUBSET Nat, IsFiniteSet(S), S # {}
    PROVE  \E last \in S : \A j \in S : j <= last
<1>1. Cardinality(S) \in Nat /\ Cardinality(S) # 0
    BY FS_CardinalityType, FS_EmptySet
<1>2. PICK last \in S : Rank(S, last) = Cardinality(S)
    BY <1>1, EveryRankIsTaken
<1> DEFINE below == {j \in S : j <= last}
<1>3. below = S
    BY <1>2, FS_Subset DEF Rank
<1> QED
    BY <1>3

\* add_user returns a vector of names, keeps whoever is listed, and lists the
\* new user unless somebody listed carries the name of the room.
THEOREM AddUserLists ==
    ASSUME NEW S, NEW users \in Seq(S), NEW user \in S, NEW name
    PROVE  /\ add_user(name, users, user) \in Seq(S)
           /\ Range(users) \subseteq Range(add_user(name, users, user))
           /\ name \notin Range(users) =>
                 user \in Range(add_user(name, users, user))
           /\ Range(add_user(name, users, user)) \subseteq Range(users) \cup {user}
<1> DEFINE more == Append(users, user)
<1>1. more \in Seq(S) /\ DOMAIN more = 1..(Len(users) + 1)
    OBVIOUS
<1>2. \A i \in 1..Len(users) : more[i] = users[i]
    OBVIOUS
<1>3. more[Len(users) + 1] = user
    OBVIOUS
<1>4. Range(more) = Range(users) \cup {user}
    BY <1>1, <1>2, <1>3 DEF Range
<1> QED
    BY <1>1, <1>4 DEF add_user

\* remove_user returns a vector of names that were listed, and drops nobody but
\* the user: what its index skips is never another user's entry.
THEOREM RemoveUserKeepsOthers ==
    ASSUME NEW S, NEW users \in Seq(S), NEW user
    PROVE  /\ remove_user(users, user) \in Seq(S)
           /\ Range(remove_user(users, user)) \subseteq Range(users)
           /\ Range(users) \ {user} \subseteq Range(remove_user(users, user))
<1> DEFINE len == Len(users)
           kept == Kept(users, user)
           card == Cardinality(kept)
           at(k) == CHOOSE i \in kept : Rank(kept, i) = k
           rest == remove_user(users, user)
<1>1. len \in Nat /\ kept \in SUBSET (1..len) /\ DOMAIN users = 1..len
    BY DEF Kept
<1>2. kept \in SUBSET Nat /\ IsFiniteSet(kept) /\ card \in Nat
    BY <1>1, PositionsAreFinite
<1>3. rest = [k \in 1..card |-> users[at(k)]]
    BY DEF remove_user, Picked
<1> HIDE DEF kept, len
<1>4. \A k \in 1..card : at(k) \in kept /\ Rank(kept, at(k)) = k
    BY <1>2, EveryRankIsTaken
<1>5. \A k \in 1..card : at(k) \in 1..len
    BY <1>1, <1>4
<1>6. \A i \in 1..len : users[i] \in S
    BY <1>1
<1>7. rest \in [1..card -> S]
    BY <1>3, <1>5, <1>6
<1>8. rest \in Seq(S)
    BY <1>2, <1>7
<1>9. Range(rest) \subseteq Range(users)
  <2>1. \A k \in 1..card : rest[k] = users[at(k)] /\ at(k) \in DOMAIN users
      BY <1>1, <1>3, <1>5
  <2>2. DOMAIN rest = 1..card
      BY <1>3
  <2> HIDE DEF rest, at, card
  <2> QED
      BY <2>1, <2>2 DEF Range
<1>10. ASSUME NEW i \in 1..len, users[i] # user
       PROVE  users[i] \in Range(rest)
  <2>1. ~Erased(users, user, i)
    <3> SUFFICES ASSUME NEW n \in 0..(i - 1), \A j \in (i - n)..i : users[j] = user
                 PROVE  FALSE
        BY DEF Erased
    <3>1. i \in (i - n)..i
        OBVIOUS
    <3> QED
        BY <3>1, <1>10
  <2>2. i \in kept
      BY <1>1, <2>1 DEF Kept, kept
  <2>3. Rank(kept, i) \in 1..card
      BY <1>2, <2>2, RankInRange
  <2>4. at(Rank(kept, i)) = i
    <3>1. at(Rank(kept, i)) \in kept /\ Rank(kept, at(Rank(kept, i))) = Rank(kept, i)
        BY <1>4, <2>3
    <3> QED
        BY <1>2, <2>2, <3>1, RanksDiffer
  <2>5. rest[Rank(kept, i)] = users[i]
      BY <1>3, <2>3, <2>4
  <2> QED
      BY <1>3, <2>3, <2>5 DEF Range
<1> QED
    BY <1>1, <1>8, <1>9, <1>10 DEF Range

-------------------------------------------------------------------------------
(* The loop of remove_user. *)

\* A later kept position has a greater rank.
LEMMA RanksAscend ==
    ASSUME NEW kept \in SUBSET Nat, IsFiniteSet(kept),
           NEW i \in kept, NEW j \in kept, i < j
    PROVE  Rank(kept, i) \in Nat /\ Rank(kept, j) \in Nat /\ Rank(kept, i) < Rank(kept, j)
<1> DEFINE lower == {k \in kept : k <= i}
           upper == {k \in kept : k <= j}
<1>1. \A k \in kept : k <= i => k <= j
    OBVIOUS
<1>2. lower \in SUBSET upper
    BY <1>1, Zenon
<1>3. IsFiniteSet(upper) /\ IsFiniteSet(lower) /\ Cardinality(lower) <= Cardinality(upper)
    BY <1>2, FS_Subset
<1>4. Cardinality(lower) \in Nat /\ Cardinality(upper) \in Nat
    BY <1>3, FS_CardinalityType
<1>5. Cardinality(lower) # Cardinality(upper)
    BY RankGrows DEF Rank
<1> QED
    BY <1>3, <1>4, <1>5 DEF Rank

\* How many of the first positions are kept.
LEMMA RankNext ==
    ASSUME NEW len \in Nat, NEW kept \in SUBSET (1..len)
    PROVE  /\ Rank(kept, 0) = 0 /\ Rank(kept, len) = Cardinality(kept)
           /\ \A q \in 0..len : Rank(kept, q) \in 0..q
           /\ \A q \in 0..len : \A i \in kept : i <= q =>
                 Rank(kept, i) \in 1..Rank(kept, q)
           /\ \A q \in 0..(len - 1) :
                 /\ q + 1 \in kept => Rank(kept, q + 1) = Rank(kept, q) + 1
                 /\ q + 1 \notin kept => Rank(kept, q + 1) = Rank(kept, q)
<1> DEFINE upTo(q) == {j \in kept : j <= q}
<1>0. \A j \in kept : j \in Nat /\ j >= 1 /\ j <= len
    OBVIOUS
<1>1. upTo(0) = {} /\ upTo(len) = kept
  <2>1. \A j \in kept : ~(j <= 0) /\ j <= len
      BY <1>0
  <2> QED
      BY <2>1, Zenon
<1>2. \A q \in 0..len : upTo(q) \in SUBSET (1..q)
  <2> TAKE q \in 0..len
  <2>1. \A j \in kept : j <= q => j \in 1..q
      BY <1>0
  <2> QED
      BY <2>1, Zenon
<1>3. \A q \in 0..len : IsFiniteSet(upTo(q)) /\ Cardinality(upTo(q)) \in 0..q
  <2> TAKE q \in 0..len
  <2>1. IsFiniteSet(1..q) /\ Cardinality(1..q) = q
      BY FS_Interval
  <2>2. PICK T : T = upTo(q)
      OBVIOUS
  <2>3. IsFiniteSet(T) /\ Cardinality(T) <= q
      BY <1>2, <2>1, <2>2, FS_Subset
  <2>4. Cardinality(T) \in Nat
      BY <2>3, FS_CardinalityType
  <2> QED
      BY <2>2, <2>3, <2>4
<1>4. ASSUME NEW q \in 0..len, NEW i \in kept, i <= q
      PROVE  Rank(kept, i) \in 1..Rank(kept, q)
  <2>1. i \in 0..len /\ i \in upTo(i) /\ upTo(i) \in SUBSET upTo(q)
    <3>1. \A j \in kept : j <= i => j <= q
        BY <1>0, <1>4
    <3>2. i \in 0..len /\ i <= i
        BY <1>0, <1>4
    <3> QED
        BY <3>1, <3>2, Zenon
  <2>2. PICK T, U : T = upTo(i) /\ U = upTo(q)
      OBVIOUS
  <2>3. /\ IsFiniteSet(T) /\ Cardinality(T) \in Nat
        /\ IsFiniteSet(U) /\ Cardinality(U) \in Nat
      BY <1>3, <2>1, <2>2
  <2>4. Cardinality(T) <= Cardinality(U)
      BY <2>1, <2>2, <2>3, FS_Subset
  <2>5. Cardinality(T) # 0
      BY <2>1, <2>2, <2>3, FS_EmptySet
  <2> QED
      BY <2>2, <2>3, <2>4, <2>5 DEF Rank
<1>5. ASSUME NEW q \in 0..(len - 1)
      PROVE  /\ q + 1 \in kept => Rank(kept, q + 1) = Rank(kept, q) + 1
             /\ q + 1 \notin kept => Rank(kept, q + 1) = Rank(kept, q)
  <2>1. q \in 0..len
      OBVIOUS
  <2>2. IsFiniteSet(upTo(q)) /\ q + 1 \notin upTo(q)
      BY <1>3, <2>1
  <2>3. CASE q + 1 \in kept
    <3>1. upTo(q + 1) = upTo(q) \cup {q + 1}
      <4>1. \A j \in kept : j <= q + 1 <=> j <= q \/ j = q + 1
          BY <1>0
      <4> QED
          BY <2>3, <4>1, Zenon
    <3>2. PICK T : T = upTo(q)
        OBVIOUS
    <3>3. Cardinality(T \cup {q + 1}) = Cardinality(T) + 1
        BY <2>2, <3>2, FS_AddElement
    <3> QED
        BY <2>3, <3>1, <3>2, <3>3 DEF Rank
  <2>4. CASE q + 1 \notin kept
    <3>1. upTo(q + 1) = upTo(q)
      <4>1. \A j \in kept : j <= q + 1 <=> j <= q
          BY <1>0, <2>4
      <4> QED
          BY <4>1, Zenon
    <3> QED
        BY <2>4, <3>1 DEF Rank
  <2> QED
      BY <2>3, <2>4
<1>6. Rank(kept, 0) = 0
    BY <1>1, FS_EmptySet DEF Rank
<1>7. Rank(kept, len) = Cardinality(kept)
    BY <1>1 DEF Rank
<1>8. \A q \in 0..len : Rank(kept, q) \in 0..q
    BY <1>3 DEF Rank
<1> QED
    BY <1>4, <1>5, <1>6, <1>7, <1>8

\* An element is erased if it is the user's and the one before it is not erased.
LEMMA ErasedAfter ==
    ASSUME NEW S, NEW users \in Seq(S), NEW user, NEW i \in 1..Len(users)
    PROVE  Erased(users, user, i)
               <=> users[i] = user /\ (i = 1 \/ ~Erased(users, user, i - 1))
<1> DEFINE Run(k, n) == /\ n % 2 = 0
                        /\ \A j \in (k - n)..k : users[j] = user
                        /\ k - n = 1 \/ users[k - n - 1] # user
<1>1. \A k : Erased(users, user, k) <=> \E n \in 0..(k - 1) : Run(k, n)
    BY DEF Erased
<1>2. \A k \in 1..Len(users) : Erased(users, user, k) => users[k] = user
  <2> SUFFICES ASSUME NEW k \in 1..Len(users), NEW n \in 0..(k - 1), Run(k, n)
               PROVE  users[k] = user
      BY <1>1
  <2>1. k \in (k - n)..k
      OBVIOUS
  <2> QED
      BY <2>1
<1>3. ASSUME Erased(users, user, i), i # 1, Erased(users, user, i - 1) PROVE FALSE
  <2>1. PICK n \in 0..(i - 1) : Run(i, n)
      BY <1>1, <1>3
  <2>2. PICK m \in 0..(i - 2) : Run(i - 1, m)
    <3>1. PICK m \in 0..((i - 1) - 1) : Run(i - 1, m)
        BY <1>1, <1>3
    <3>2. m \in 0..(i - 2)
        BY <3>1
    <3> QED
        BY <3>1, <3>2
  <2>3. users[i - 1] = user
      BY <1>2, <1>3
  <2>4. n # 0
      BY <1>3, <2>1, <2>3
  <2>5. ~(i - n < i - 1 - m)
    <3> SUFFICES ASSUME i - n < i - 1 - m PROVE FALSE
        OBVIOUS
    <3>1. i - 1 - m - 1 \in (i - n)..i /\ i - 1 - m # 1
        OBVIOUS
    <3> QED
        BY <2>1, <2>2, <3>1
  <2>6. ~(i - 1 - m < i - n)
    <3> SUFFICES ASSUME i - 1 - m < i - n PROVE FALSE
        OBVIOUS
    <3>1. i - n - 1 \in (i - 1 - m)..(i - 1) /\ i - n # 1
        BY <2>4
    <3> QED
        BY <2>1, <2>2, <3>1
  <2>7. n = m + 1
      BY <2>5, <2>6
  <2> QED
      BY <2>1, <2>2, <2>7
<1>4. ASSUME users[i] = user, i = 1 \/ users[i - 1] # user PROVE Erased(users, user, i)
  <2>1. Run(i, 0)
      BY <1>4
  <2> QED
      BY <1>1, <2>1
<1>5. ASSUME users[i] = user, i # 1, users[i - 1] = user, ~Erased(users, user, i - 1)
      PROVE  Erased(users, user, i)
  <2>1. PICK k \in 1..(i - 1) : /\ \A j \in k..(i - 1) : users[j] = user
                                /\ k = 1 \/ users[k - 1] # user
    <3> DEFINE other == {l \in 1..(i - 1) : users[l] # user}
    <3>1. CASE other = {}
      <4>1. \A j \in 1..(i - 1) : users[j] = user
          BY <3>1
      <4>2. 1 \in 1..(i - 1)
          BY <1>5
      <4> QED
          BY <4>1, <4>2
    <3>2. CASE other # {}
      <4>1. other \in SUBSET (1..(i - 1)) /\ i - 1 \in Nat
          OBVIOUS
      <4>2. other \in SUBSET Nat /\ IsFiniteSet(other)
          BY <4>1, PositionsAreFinite
      <4>3. PICK l \in other : \A j \in other : j <= l
          BY <3>2, <4>2, LastExists
      <4>4. l + 1 \in 1..(i - 1) /\ users[l] # user
          BY <1>5, <4>3
      <4>5. \A j \in (l + 1)..(i - 1) : users[j] = user
        <5> SUFFICES ASSUME NEW j \in (l + 1)..(i - 1), users[j] # user PROVE FALSE
            OBVIOUS
        <5>1. j \in other
            BY <4>4
        <5> QED
            BY <4>3, <4>4, <5>1
      <4>6. (l + 1) - 1 = l
          BY <4>4
      <4> QED
          BY <4>4, <4>5, <4>6
    <3> QED
        BY <3>1, <3>2
  <2>2. (i - 1 - k) % 2 # 0
    <3>1. (i - 1 - k) % 2 = 0 => Run(i - 1, i - 1 - k)
        BY <2>1
    <3>2. i - 1 - k \in 0..(i - 1 - 1)
        BY <2>1
    <3> QED
        BY <1>1, <1>5, <3>1, <3>2
  <2>3. Run(i, i - k)
    <3>1. \A j \in k..i : j = i \/ j \in k..(i - 1)
        OBVIOUS
    <3>2. (i - k) % 2 = 0
        BY <2>2
    <3>3. i - (i - k) = k
        OBVIOUS
    <3> QED
        BY <1>5, <2>1, <3>1, <3>2, <3>3
  <2>4. i - k \in 0..(i - 1)
      BY <2>1
  <2> QED
      BY <1>1, <2>3, <2>4
<1> QED
    BY <1>2, <1>3, <1>4, <1>5

\* What the loop holds after each of its rounds.
LEMMA Rounds ==
    ASSUME NEW S, NEW users \in Seq(S), NEW user
    PROVE  \E after : /\ after[0] = users
                      /\ \A i \in 1..Len(users) :
                            after[i] = RemoveRound(after[i - 1], user, i)
                      /\ RemoveLoop(users, user) = after[Len(users)]
<1> DEFINE len == Len(users)
           Next1(f, i) == IF i = 0 THEN users ELSE RemoveRound(f[i - 1], user, i)
           Sol(f) == f = [i \in 0..len |-> Next1(f, i)]
           Good(k, f) == \A i \in 0..k : f[i] = Next1(f, i)
           some == {k \in 0..len : \E f : Good(k, f)}
<1>0. len \in Nat
    OBVIOUS
<1> HIDE DEF len
<1>1. some # {}
  <2> DEFINE f == [i \in 0..len |-> users]
  <2>1. Good(0, f)
      BY <1>0
  <2>2. 0 \in 0..len
      BY <1>0
  <2>3. \E h : Good(0, h)
      BY <2>1, Zenon
  <2> HIDE DEF f, Good
  <2> QED
      BY <2>2, <2>3, Zenon
<1>2. PICK last \in some : \A k \in some : k <= last
  <2>1. some \in SUBSET (0..len) /\ IsFiniteSet(0..len)
      BY <1>0, FS_Interval
  <2>2. some \in SUBSET Nat /\ IsFiniteSet(some)
    <3> HIDE DEF some
    <3>1. \A k \in 0..len : k \in Nat
        OBVIOUS
    <3> QED
        BY <2>1, <3>1, FS_Subset
  <2> HIDE DEF some
  <2> QED
      BY <1>1, <2>2, LastExists
<1>3. PICK f : Good(last, f)
    OBVIOUS
<1>4. last = len
  <2> SUFFICES ASSUME last # len PROVE FALSE
      OBVIOUS
  <2>1. last \in Nat /\ last + 1 \in 0..len
      BY <1>0
  <2> DEFINE g == [i \in 0..len |-> IF i = last + 1 THEN RemoveRound(f[last], user, i)
                                                    ELSE f[i]]
  <2>2. \A i \in 0..last : g[i] = f[i]
    <3>1. \A i \in 0..last : i \in 0..len /\ i # last + 1
        BY <1>0, <2>1
    <3> QED
        BY <3>1
  <2>3. g[last + 1] = RemoveRound(f[last], user, last + 1)
      BY <2>1
  <2> HIDE DEF g
  <2>4. ASSUME NEW i \in 0..(last + 1) PROVE g[i] = Next1(g, i)
    <3>1. CASE i = last + 1
      <4>1. i # 0 /\ i - 1 = last /\ last \in 0..last
          BY <2>1, <3>1
      <4> QED
          BY <2>2, <2>3, <3>1, <4>1
    <3>2. CASE i = 0
        BY <1>3, <2>1, <2>2, <3>2
    <3>3. CASE i # last + 1 /\ i # 0
      <4>1. i \in 0..last /\ i - 1 \in 0..last
          BY <2>1, <3>3
      <4> QED
          BY <1>3, <2>2, <3>3, <4>1
    <3> QED
        BY <3>1, <3>2, <3>3
  <2>5. Good(last + 1, g)
      BY <2>4
  <2> HIDE DEF Good
  <2>6. last + 1 \in some
      BY <2>1, <2>5
  <2>7. ~(last + 1 <= last)
      BY <2>1
  <2> QED
      BY <1>2, <2>6, <2>7
<1>5. \E h : Sol(h)
  <2> DEFINE h == [i \in 0..len |-> f[i]]
  <2>1. \A i \in 0..len : h[i] = f[i]
      OBVIOUS
  <2>2. \A i \in 0..len : i = 0 \/ i - 1 \in 0..len
      BY <1>0
  <2>3. \A i \in 0..len : Next1(h, i) = Next1(f, i)
      BY <2>1, <2>2
  <2>4. \A i \in 0..len : f[i] = Next1(f, i)
      BY <1>3, <1>4
  <2>5. h = [i \in 0..len |-> Next1(h, i)]
      BY <2>3, <2>4
  <2> HIDE DEF h
  <2> QED
      BY <2>5
<1>6. PICK after : after = (CHOOSE h : Sol(h))
    OBVIOUS
<1>7. Sol(after)
    BY <1>5, <1>6
<1>8. RemoveLoop(users, user) = after[len]
    BY <1>6 DEF RemoveLoop, len
<1>9. \A i \in 0..len : after[i] = Next1(after, i)
    BY <1>7
<1>10. after[0] = users /\ \A i \in 1..len : after[i] = RemoveRound(after[i - 1], user, i)
    BY <1>0, <1>9
<1> QED
    BY <1>8, <1>10 DEF len

\* What erasing one element does to a vector.
Without(rest, users, i) ==
    /\ Len(rest) = Len(users) - 1
    /\ \A k \in 1..(i - 1) : rest[k] = users[k]
    /\ \A k \in i..(Len(users) - 1) : rest[k] = users[k + 1]

LEMMA RoundErases ==
    ASSUME NEW S, NEW users \in Seq(S), NEW user, NEW i \in 1..Len(users), users[i] = user,
           NEW rest, rest = RemoveRound(users, user, i)
    PROVE  rest \in Seq(S) /\ Without(rest, users, i)
<1> DEFINE left == SubSeq(users, 1, i - 1)
           right == SubSeq(users, i + 1, Len(users))
<1>1. /\ left \in Seq(S) /\ Len(left) = i - 1
      /\ \A k \in 1..(i - 1) : left[k] = users[k]
    OBVIOUS
<1>2. /\ right \in Seq(S) /\ Len(right) = Len(users) - i
      /\ \A k \in 1..(Len(users) - i) : right[k] = users[i + k]
  <2>1. right \in Seq(S) /\ Len(right) = Len(users) - i
      OBVIOUS
  <2>2. ASSUME NEW k \in 1..(Len(users) - i) PROVE right[k] = users[i + k]
    <3>1. right[k] = users[i + 1 + k - 1] /\ i + 1 + k - 1 = i + k
        OBVIOUS
    <3> QED
        BY <3>1
  <2> QED
      BY <2>1, <2>2
<1>3. RemoveRound(users, user, i) = left \o right
  <2>1. i <= Len(users)
      OBVIOUS
  <2> QED
      BY <2>1 DEF RemoveRound
<1> HIDE DEF left, right
<1>4. /\ left \o right \in Seq(S) /\ Len(left \o right) = Len(users) - 1
      /\ \A k \in 1..(Len(users) - 1) :
            (left \o right)[k] = IF k <= i - 1 THEN left[k] ELSE right[k - (i - 1)]
  <2>1. /\ left \o right \in Seq(S) /\ Len(left \o right) = Len(left) + Len(right)
        /\ \A k \in 1..(Len(left) + Len(right)) :
              (left \o right)[k] = IF k <= Len(left) THEN left[k] ELSE right[k - Len(left)]
      BY <1>1, <1>2, ConcatProperties
  <2>2. Len(left) = i - 1 /\ Len(left) + Len(right) = Len(users) - 1
      BY <1>1, <1>2
  <2> QED
      BY <2>1, <2>2
<1>5. \A k \in i..(Len(users) - 1) : /\ k - (i - 1) \in 1..(Len(users) - i)
                                      /\ i + (k - (i - 1)) = k + 1 /\ ~(k <= i - 1)
                                      /\ k \in 1..(Len(users) - 1)
    OBVIOUS
<1>6. \A k \in 1..(i - 1) : k <= i - 1 /\ k \in 1..(Len(users) - 1)
    OBVIOUS
<1> QED
    BY <1>1, <1>2, <1>3, <1>4, <1>5, <1>6 DEF Without

\* After so many rounds the loop is past the first q of the users: it holds those of them
\* that are kept, and the others as they were.  It has been at as many positions as are
\* kept, unless it is at the end; what it was at last is kept.
Halfway(users, user, rounds, vector) ==
    LET kept == Kept(users, user)
    IN  \E q \in 0..Len(users) :
            /\ Len(vector) = Rank(kept, q) + (Len(users) - q)
            /\ \A i \in kept : i <= q => vector[Rank(kept, i)] = users[i]
            /\ \A i \in (q + 1)..Len(users) : vector[Rank(kept, q) + (i - q)] = users[i]
            /\ Rank(kept, q) <= rounds
            /\ q # Len(users) => Rank(kept, q) = rounds /\ (q = 0 \/ q \in kept)

LEMMA OneRoundMore ==
    ASSUME NEW S, NEW users \in Seq(S), NEW user, NEW n \in 0..(Len(users) - 1),
           NEW vector \in Seq(S), Halfway(users, user, n, vector)
    PROVE  /\ RemoveRound(vector, user, n + 1) \in Seq(S)
           /\ Halfway(users, user, n + 1, RemoveRound(vector, user, n + 1))
<1> DEFINE len == Len(users)
           K == Kept(users, user)
           next == RemoveRound(vector, user, n + 1)
<1>0. len \in Nat /\ K \in SUBSET (1..len) /\ n \in Nat /\ Len(vector) \in Nat
    BY DEF Kept
<1>1. PICK kept \in SUBSET (1..len) : kept = K
    BY <1>0
<1>2. PICK q \in 0..len :
          /\ Len(vector) = Rank(kept, q) + (len - q)
          /\ \A i \in kept : i <= q => vector[Rank(kept, i)] = users[i]
          /\ \A i \in (q + 1)..len : vector[Rank(kept, q) + (i - q)] = users[i]
          /\ Rank(kept, q) <= n
          /\ q # len => Rank(kept, q) = n /\ (q = 0 \/ q \in kept)
    BY <1>1 DEF Halfway
<1>3. /\ \A p \in 0..len : Rank(kept, p) \in 0..p
      /\ \A p \in 0..len : \A i \in kept : i <= p => Rank(kept, i) \in 1..Rank(kept, p)
      /\ \A p \in 0..(len - 1) :
            /\ p + 1 \in kept => Rank(kept, p + 1) = Rank(kept, p) + 1
            /\ p + 1 \notin kept => Rank(kept, p + 1) = Rank(kept, p)
  <2>1. PICK l \in Nat : l = len
      BY <1>0
  <2>2. kept \in SUBSET (1..l)
      BY <2>1
  <2> HIDE DEF len
  <2>3. /\ \A p \in 0..l : Rank(kept, p) \in 0..p
        /\ \A p \in 0..l : \A i \in kept : i <= p => Rank(kept, i) \in 1..Rank(kept, p)
        /\ \A p \in 0..(l - 1) :
              /\ p + 1 \in kept => Rank(kept, p + 1) = Rank(kept, p) + 1
              /\ p + 1 \notin kept => Rank(kept, p + 1) = Rank(kept, p)
      BY <2>2, RankNext
  <2> QED
      BY <2>1, <2>3
<1>4. \A i \in 1..len : i \in kept <=> ~(users[i] = user /\ (i = 1 \/ i - 1 \in kept))
  <2> TAKE i \in 1..len
  <2>1. i \in kept <=> ~Erased(users, user, i)
      BY <1>1 DEF Kept
  <2>2. i # 1 => (i - 1 \in kept <=> ~Erased(users, user, i - 1))
      BY <1>1 DEF Kept
  <2>3. Erased(users, user, i) <=> users[i] = user /\ (i = 1 \/ ~Erased(users, user, i - 1))
      BY ErasedAfter
  <2> QED
      BY <2>1, <2>2, <2>3
<1>5. SUFFICES
        /\ next \in Seq(S)
        /\ \E p \in 0..len :
              /\ Len(next) = Rank(kept, p) + (len - p)
              /\ \A i \in kept : i <= p => next[Rank(kept, i)] = users[i]
              /\ \A i \in (p + 1)..len : next[Rank(kept, p) + (i - p)] = users[i]
              /\ Rank(kept, p) <= n + 1
              /\ p # len => Rank(kept, p) = n + 1 /\ (p = 0 \/ p \in kept)
    BY <1>1 DEF Halfway
<1> HIDE DEF len, K, next
<1>6. CASE q = len
  <2>1. Len(vector) <= n
      BY <1>0, <1>2, <1>3, <1>6
  <2>2. next = vector
    <3>1. ~(n + 1 <= Len(vector))
        BY <1>0, <2>1
    <3> QED
        BY <3>1 DEF RemoveRound, next
  <2>3. Rank(kept, q) <= n + 1
      BY <1>0, <1>2, <1>3
  <2> QED
      BY <1>2, <1>6, <2>2, <2>3
<1>7. CASE q # len /\ users[q + 1] # user
  <2>1. q + 1 \in 1..len /\ q + 1 \in 0..len /\ q \in 0..(len - 1)
      BY <1>0, <1>7
  <2>2. q + 1 \in kept /\ Rank(kept, q + 1) = n + 1 /\ Rank(kept, q) = n
      BY <1>2, <1>3, <1>4, <1>7, <2>1
  <2>3. vector[n + 1] = users[q + 1]
    <3>1. q + 1 \in (q + 1)..len /\ n + (q + 1 - q) = n + 1
        BY <1>0, <2>1
    <3> QED
        BY <1>2, <2>2, <3>1
  <2>4. next = vector
      BY <1>7, <2>3 DEF RemoveRound, next
  <2>5. ASSUME NEW i \in kept, i <= q + 1 PROVE vector[Rank(kept, i)] = users[i]
    <3>1. i <= q \/ i = q + 1
        BY <1>0, <2>5
    <3> QED
        BY <1>2, <2>2, <2>3, <3>1
  <2>6. ASSUME NEW i \in ((q + 1) + 1)..len
        PROVE  vector[Rank(kept, q + 1) + (i - (q + 1))] = users[i]
    <3>1. i \in (q + 1)..len /\ n + 1 + (i - (q + 1)) = n + (i - q)
        BY <1>0
    <3> QED
        BY <1>2, <2>2, <3>1
  <2>7. Len(vector) = Rank(kept, q + 1) + (len - (q + 1))
      BY <1>0, <1>2, <2>2
  <2> QED
      BY <1>0, <2>1, <2>2, <2>4, <2>5, <2>6, <2>7
<1>8. CASE q # len /\ users[q + 1] = user
  <2>1. q + 1 \in 1..len /\ q + 1 \in 0..len /\ q \in 0..(len - 1)
      BY <1>0, <1>8
  <2>2. /\ q + 1 \notin kept /\ Rank(kept, q + 1) = n /\ Rank(kept, q) = n
    <3>1. (q + 1) - 1 = q /\ (q = 0 => q + 1 = 1)
        OBVIOUS
    <3>2. q + 1 \notin kept
        BY <1>2, <1>4, <1>8, <2>1, <3>1
    <3> QED
        BY <1>2, <1>3, <1>8, <2>1, <3>2
  <2>3. vector[n + 1] = user /\ n + 1 \in 1..Len(vector)
    <3>1. q + 1 \in (q + 1)..len /\ n + (q + 1 - q) = n + 1
        BY <1>0, <2>1
    <3>2. n + 1 \in 1..Len(vector)
        BY <1>0, <1>2, <2>1, <2>2
    <3> QED
        BY <1>2, <1>8, <2>2, <3>1, <3>2
  <2>4. /\ next \in Seq(S) /\ Len(next) = Len(vector) - 1
        /\ \A k \in 1..((n + 1) - 1) : next[k] = vector[k]
        /\ \A k \in (n + 1)..(Len(vector) - 1) : next[k] = vector[k + 1]
    <3>1. PICK k \in 1..Len(vector) : k = n + 1
        BY <2>3
    <3>2. next = RemoveRound(vector, user, k) /\ vector[k] = user
        BY <2>3, <3>1 DEF next
    <3>3. next \in Seq(S) /\ Without(next, vector, k)
        BY <3>2, RoundErases, Zenon
    <3> QED
        BY <3>1, <3>3 DEF Without
  <2>5. Len(next) = n + (len - (q + 1))
      BY <1>0, <1>2, <2>2, <2>4
  <2>6. ASSUME NEW i \in kept, i <= q PROVE next[Rank(kept, i)] = users[i]
    <3>1. Rank(kept, i) \in 1..((n + 1) - 1)
        BY <1>0, <1>3, <2>2, <2>6
    <3> QED
        BY <1>2, <2>4, <2>6, <3>1
  <2>7. ASSUME NEW i \in (q + 2)..len PROVE next[n + (i - (q + 1))] = users[i]
    <3>1. /\ n + (i - (q + 1)) \in (n + 1)..(Len(vector) - 1)
          /\ n + (i - (q + 1)) + 1 = n + (i - q)
          /\ i \in (q + 1)..len
      <4>1. Len(vector) = n + (len - q)
          BY <1>2, <2>2
      <4> QED
          BY <1>0, <4>1
    <3>2. next[n + (i - (q + 1))] = vector[n + (i - q)]
        BY <2>4, <3>1
    <3> QED
        BY <1>2, <2>2, <3>1, <3>2
  <2>8. CASE q + 1 = len
    <3>1. ASSUME NEW i \in kept, i <= len PROVE next[Rank(kept, i)] = users[i]
      <4>1. i # q + 1
          BY <2>2
      <4>2. i <= q
          BY <1>0, <2>8, <3>1, <4>1
      <4> QED
          BY <2>6, <4>2
    <3>2. \A i \in (len + 1)..len : FALSE
        BY <1>0
    <3>3. Rank(kept, len) = n /\ n <= n + 1 /\ len \in 0..len
        BY <1>0, <2>2, <2>8
    <3> QED
        BY <2>4, <2>5, <2>8, <3>1, <3>2, <3>3
  <2>9. CASE q + 1 # len
    <3>1. q + 2 \in 1..len /\ q + 2 \in 0..len /\ q + 1 \in 0..(len - 1)
        BY <1>0, <2>1, <2>9
    <3>2. q + 2 \in kept
      <4>1. q + 2 # 1 /\ (q + 2) - 1 = q + 1
          BY <1>0
      <4> QED
          BY <1>4, <2>2, <3>1, <4>1
    <3>3. Rank(kept, q + 2) = n + 1
      <4>1. (q + 1) + 1 = q + 2
          OBVIOUS
      <4> QED
          BY <1>3, <2>2, <3>1, <3>2, <4>1
    <3>4. next[n + 1] = users[q + 2]
      <4>1. q + 2 \in (q + 2)..len /\ n + ((q + 2) - (q + 1)) = n + 1
          BY <1>0, <3>1
      <4> QED
          BY <2>7, <4>1
    <3>5. ASSUME NEW i \in kept, i <= q + 2 PROVE next[Rank(kept, i)] = users[i]
      <4>1. i <= q \/ i = q + 1 \/ i = q + 2
          BY <1>0, <3>5
      <4> QED
          BY <2>2, <2>6, <3>3, <3>4, <4>1
    <3>6. ASSUME NEW i \in ((q + 2) + 1)..len
          PROVE  next[Rank(kept, q + 2) + (i - (q + 2))] = users[i]
      <4>1. i \in (q + 2)..len /\ n + 1 + (i - (q + 2)) = n + (i - (q + 1))
          BY <1>0
      <4> QED
          BY <2>7, <3>3, <4>1
    <3>7. Len(next) = Rank(kept, q + 2) + (len - (q + 2))
        BY <1>0, <2>5, <3>3
    <3>8. PICK p \in 0..len : p = q + 2
        BY <3>1
    <3>9. /\ Len(next) = Rank(kept, p) + (len - p)
          /\ \A i \in kept : i <= p => next[Rank(kept, i)] = users[i]
          /\ \A i \in (p + 1)..len : next[Rank(kept, p) + (i - p)] = users[i]
        BY <3>5, <3>6, <3>7, <3>8
    <3>10. Rank(kept, p) = n + 1 /\ p \in kept /\ n + 1 <= n + 1
        BY <1>0, <3>2, <3>3, <3>8
    <3> QED
        BY <2>4, <3>9, <3>10
  <2> QED
      BY <2>8, <2>9
<1> QED
    BY <1>6, <1>7, <1>8

\* The closed form of remove_user, which the handlers use, is what the loop computes, for
\* every vector of users: erasing an element makes it skip the next one, so that within a
\* run of equal names the first, the third, the fifth ... is erased.
THEOREM RemovesAsTheLoop ==
    ASSUME NEW S, NEW users \in Seq(S), NEW user
    PROVE  remove_user(users, user) = RemoveLoop(users, user)
<1> DEFINE len == Len(users)
           kept == Kept(users, user)
           card == Cardinality(kept)
<1>0. len \in Nat /\ kept \in SUBSET (1..len)
    BY DEF Kept
<1>1. PICK after : /\ after[0] = users
                   /\ \A i \in 1..len : after[i] = RemoveRound(after[i - 1], user, i)
                   /\ RemoveLoop(users, user) = after[len]
    BY Rounds
<1>2. /\ Rank(kept, 0) = 0 /\ Rank(kept, len) = card
      /\ \A q \in 0..len : Rank(kept, q) \in 0..q
  <2>1. PICK l \in Nat : l = len
      BY <1>0
  <2>2. kept \in SUBSET (1..l)
      BY <1>0, <2>1
  <2> HIDE DEF len, kept
  <2>3. /\ Rank(kept, 0) = 0 /\ Rank(kept, l) = card
        /\ \A q \in 0..l : Rank(kept, q) \in 0..q
      BY <2>2, RankNext
  <2> QED
      BY <2>1, <2>3
<1> DEFINE Done(n) == after[n] \in Seq(S) /\ Halfway(users, user, n, after[n])
           some == {n \in 0..len : Done(n)}
<1>3. Done(0)
  <2>1. \A i \in kept : ~(i <= 0)
      BY <1>0
  <2>2. \A i \in (0 + 1)..len : users[0 + (i - 0)] = users[i]
      BY <1>0
  <2>3. len = 0 + (len - 0) /\ 0 \in 0..len
      BY <1>0
  <2>4. \E q \in 0..len :
            /\ Len(users) = Rank(kept, q) + (len - q)
            /\ \A i \in kept : i <= q => users[Rank(kept, i)] = users[i]
            /\ \A i \in (q + 1)..len : users[Rank(kept, q) + (i - q)] = users[i]
            /\ Rank(kept, q) <= 0
            /\ q # len => Rank(kept, q) = 0 /\ (q = 0 \/ q \in kept)
    <3> HIDE DEF kept
    <3>1. PICK q \in 0..len : q = 0
        BY <2>3
    <3>2. /\ len = Rank(kept, q) + (len - q) /\ Rank(kept, q) <= 0
          /\ q # len => Rank(kept, q) = 0
        BY <1>2, <2>3, <3>1
    <3>3. \A i \in kept : ~(i <= q)
        BY <2>1, <3>1
    <3>4. \A i \in (q + 1)..len : users[Rank(kept, q) + (i - q)] = users[i]
        BY <1>2, <2>2, <3>1
    <3> QED
        BY <3>1, <3>2, <3>3, <3>4
  <2>5. Halfway(users, user, 0, users)
      BY <2>4 DEF Halfway
  <2> QED
      BY <1>1, <2>5
<1>4. ASSUME NEW n \in 0..(len - 1), Done(n) PROVE Done(n + 1)
  <2>1. n + 1 \in 1..len /\ (n + 1) - 1 = n
      BY <1>0
  <2>2. after[n + 1] = RemoveRound(after[n], user, n + 1)
      BY <1>1, <2>1
  <2>3. PICK vector \in Seq(S) : vector = after[n] /\ Halfway(users, user, n, vector)
      BY <1>4
  <2> QED
      BY <2>2, <2>3, OneRoundMore
<1> HIDE DEF Done
<1>5. PICK last \in some : \A n \in some : n <= last
  <2>1. 0 \in some
      BY <1>0, <1>3
  <2>2. IsFiniteSet(0..len) /\ 0..len \in SUBSET Nat
      BY <1>0, FS_Interval
  <2>3. some \in SUBSET (0..len)
      OBVIOUS
  <2> HIDE DEF some
  <2>4. IsFiniteSet(some) /\ some \in SUBSET Nat
      BY <2>2, <2>3, FS_Subset
  <2> QED
      BY <2>1, <2>4, LastExists
<1>6. last = len
  <2> SUFFICES ASSUME last # len PROVE FALSE
      OBVIOUS
  <2>1. last \in 0..(len - 1) /\ Done(last)
      BY <1>0
  <2>2. last + 1 \in 0..len /\ Done(last + 1) /\ ~(last + 1 <= last)
      BY <1>0, <1>4, <2>1
  <2> QED
      BY <1>5, <2>2
<1>7. PICK v \in Seq(S) : v = after[len] /\ Halfway(users, user, len, v)
    BY <1>6 DEF Done
<1>8. Len(v) = card /\ \A i \in kept : v[Rank(kept, i)] = users[i]
  <2>1. PICK q \in 0..len :
            /\ Len(v) = Rank(kept, q) + (len - q)
            /\ \A i \in kept : i <= q => v[Rank(kept, i)] = users[i]
            /\ q # len => Rank(kept, q) = len
      BY <1>7 DEF Halfway
  <2>2. q = len
      BY <1>0, <1>2, <2>1
  <2>3. card \in Nat /\ \A i \in kept : i <= len
      BY <1>0, <1>2
  <2>4. Len(v) = card
      BY <1>0, <1>2, <2>1, <2>2, <2>3
  <2> QED
      BY <2>1, <2>2, <2>3, <2>4
<1>9. kept \in SUBSET Nat /\ IsFiniteSet(kept) /\ card \in Nat
    BY <1>0, PositionsAreFinite
<1>10. v = [k \in 1..card |-> users[CHOOSE i \in kept : Rank(kept, i) = k]]
  <2> HIDE DEF kept
  <2>1. ASSUME NEW k \in 1..card
        PROVE  v[k] = users[CHOOSE i \in kept : Rank(kept, i) = k]
    <3>1. PICK i : i = CHOOSE j \in kept : Rank(kept, j) = k
        OBVIOUS
    <3>2. i \in kept /\ Rank(kept, i) = k
        BY <1>9, <3>1, EveryRankIsTaken
    <3> QED
        BY <1>8, <3>1, <3>2
  <2>2. v = [k \in 1..card |-> v[k]]
      BY <1>8
  <2> QED
      BY <2>1, <2>2
<1> QED
    BY <1>1, <1>7, <1>10 DEF remove_user, Picked

-------------------------------------------------------------------------------
(* What the loop leaves in place. *)

\* Picking some of the elements that were picked.
LEMMA PickedTwice ==
    ASSUME NEW kept \in SUBSET Nat, IsFiniteSet(kept), NEW some \in SUBSET kept, NEW users
    PROVE  Picked(Picked(users, kept), {Rank(kept, i) : i \in some}) = Picked(users, some)
<1> DEFINE part == Picked(users, kept)
           again == {Rank(kept, i) : i \in some}
           card == Cardinality(kept)
<1>1. IsFiniteSet(some) /\ some \in SUBSET Nat
    BY FS_Subset
<1>2. \A i \in kept : Rank(kept, i) \in 1..card
    BY RankInRange
<1>3. \A i, j \in kept : Rank(kept, i) = Rank(kept, j) => i = j
    BY RanksDiffer
<1>4. \A i, j \in kept : i <= j <=> Rank(kept, i) <= Rank(kept, j)
  <2> TAKE i, j \in kept
  <2>1. Rank(kept, i) \in Nat /\ Rank(kept, j) \in Nat /\ i \in Nat /\ j \in Nat
      BY <1>2
  <2>2. i < j => Rank(kept, i) < Rank(kept, j)
      BY RanksAscend
  <2>3. j < i => Rank(kept, j) < Rank(kept, i)
      BY RanksAscend
  <2> QED
      BY <2>1, <2>2, <2>3
<1>5. ASSUME NEW T \in SUBSET some
      PROVE  Cardinality({Rank(kept, i) : i \in T}) = Cardinality(T)
  <2> DEFINE image == {Rank(kept, i) : i \in T}
             f == [i \in T |-> Rank(kept, i)]
  <2>1. IsFiniteSet(T)
      BY <1>1, FS_Subset
  <2>2. f \in Surjection(T, image)
      BY DEF Surjection
  <2>3. f \in Injection(T, image)
    <3>1. \A i, j \in T : f[i] = f[j] => i = j
        BY <1>3
    <3> QED
        BY <3>1 DEF Injection, IsInjective
  <2> HIDE DEF f, image
  <2>4. Cardinality(image) = Cardinality(T)
      BY <2>1, <2>2, <2>3, FS_Surjection
  <2> QED
      BY <2>4 DEF image
<1>6. ASSUME NEW i \in some PROVE Rank(again, Rank(kept, i)) = Rank(some, i)
  <2> DEFINE T == {j \in some : j <= i}
  <2>1. {k \in again : k <= Rank(kept, i)} = {Rank(kept, j) : j \in T}
      BY <1>4
  <2>2. T \in SUBSET some
      OBVIOUS
  <2> HIDE DEF T
  <2>3. Cardinality({Rank(kept, j) : j \in T}) = Cardinality(T)
      BY <1>5, <2>2
  <2> QED
      BY <2>1, <2>3 DEF Rank, T
<1>7. Cardinality(again) = Cardinality(some)
    BY <1>5
<1>8. again \in SUBSET Nat /\ IsFiniteSet(again)
  <2>1. card \in Nat
      BY FS_CardinalityType
  <2>2. again \in SUBSET (1..card)
      BY <1>2
  <2> HIDE DEF again
  <2> QED
      BY <2>1, <2>2, PositionsAreFinite
<1>9. ASSUME NEW k \in 1..Cardinality(some)
      PROVE  part[CHOOSE a \in again : Rank(again, a) = k]
                = users[CHOOSE i \in some : Rank(some, i) = k]
  <2>1. PICK i : i = CHOOSE j \in some : Rank(some, j) = k
      OBVIOUS
  <2>2. i \in some /\ Rank(some, i) = k
      BY <1>1, <2>1, EveryRankIsTaken
  <2>3. PICK r : r = Rank(kept, i)
      OBVIOUS
  <2>4. r \in again /\ Rank(again, r) = k
      BY <1>6, <2>2, <2>3
  <2> HIDE DEF again
  <2>5. (CHOOSE a \in again : Rank(again, a) = k) = r
    <3>1. \A a \in again : Rank(again, a) = k => a = r
        BY <1>8, <2>4, RanksDiffer
    <3> QED
        BY <2>4, <3>1
  <2>6. part[r] = users[i]
    <3>1. r \in 1..card /\ i \in kept
        BY <1>2, <2>2, <2>3
    <3>2. (CHOOSE j \in kept : Rank(kept, j) = r) = i
        BY <1>3, <2>3, <3>1
    <3> QED
        BY <3>1, <3>2 DEF Picked
  <2> QED
      BY <2>1, <2>5, <2>6
<1> HIDE DEF again, part
<1>10. Picked(part, again) = [k \in 1..Cardinality(some) |->
                                part[CHOOSE a \in again : Rank(again, a) = k]]
    BY <1>7 DEF Picked
<1>11. Picked(part, again) = Picked(users, some)
  <2>1. Picked(part, again) = [k \in 1..Cardinality(some) |->
                                  users[CHOOSE i \in some : Rank(some, i) = k]]
      BY <1>9, <1>10, Zenon
  <2> QED
      BY <2>1 DEF Picked
<1> QED
    BY <1>10, <1>11 DEF part, again

\* Removing a user from a vector leaves all others in place: neither drops, duplicates
\* nor reorders them, however the erased elements shift the rest.
THEOREM OthersStay ==
    ASSUME NEW S, NEW users \in Seq(S), NEW user
    PROVE  OthersIn(remove_user(users, user), user) = OthersIn(users, user)
<1> DEFINE len == Len(users)
           kept == Kept(users, user)
           card == Cardinality(kept)
           rest == remove_user(users, user)
           some == {i \in DOMAIN users : users[i] # user}
<1>0. len \in Nat /\ kept \in SUBSET (1..len) /\ DOMAIN users = 1..len
    BY DEF Kept
<1>1. kept \in SUBSET Nat /\ IsFiniteSet(kept) /\ card \in Nat
    BY <1>0, PositionsAreFinite
<1>2. some \in SUBSET kept
  <2> SUFFICES ASSUME NEW i \in 1..len, users[i] # user PROVE i \in kept
      BY <1>0
  <2>1. ~Erased(users, user, i)
      BY ErasedAfter
  <2> QED
      BY <1>0, <2>1 DEF Kept
<1>3. rest = Picked(users, kept)
    BY DEF remove_user
<1>4. DOMAIN rest = 1..card
    BY <1>3 DEF Picked
<1> HIDE DEF kept, rest
<1>5. \A i \in kept : Rank(kept, i) \in 1..card /\ rest[Rank(kept, i)] = users[i]
  <2> TAKE i \in kept
  <2>1. Rank(kept, i) \in 1..card
      BY <1>1, RankInRange
  <2>2. (CHOOSE j \in kept : Rank(kept, j) = Rank(kept, i)) = i
      BY <1>1, RanksDiffer
  <2>3. rest[Rank(kept, i)] = users[CHOOSE j \in kept : Rank(kept, j) = Rank(kept, i)]
      BY <1>3, <2>1 DEF Picked
  <2> QED
      BY <2>1, <2>2, <2>3
<1>6. \A k \in 1..card : \E i \in kept : Rank(kept, i) = k
    BY <1>1, EveryRankIsTaken
<1>7. {k \in DOMAIN rest : rest[k] # user} = {Rank(kept, i) : i \in some}
  <2>1. ASSUME NEW k \in 1..card, rest[k] # user PROVE \E i \in some : k = Rank(kept, i)
    <3>1. PICK i \in kept : Rank(kept, i) = k
        BY <1>6
    <3> QED
        BY <1>0, <1>5, <2>1, <3>1
  <2>2. \A i \in some : Rank(kept, i) \in 1..card /\ rest[Rank(kept, i)] # user
      BY <1>2, <1>5
  <2> QED
      BY <1>4, <2>1, <2>2
<1> HIDE DEF some
<1>8. Picked(rest, {Rank(kept, i) : i \in some}) = Picked(users, some)
    BY <1>1, <1>2, <1>3, PickedTwice
<1> QED
    BY <1>7, <1>8 DEF rest, some, OthersIn

-------------------------------------------------------------------------------
(* The dispatcher. *)

Writes == [Sock -> Seq(Message)]

RoomInv == PointersLead /\ OwnerIsListed /\ OwnerHoldsLiveRoom

-------------------------------------------------------------------------------
(* What handlers write is well-formed. *)

\* A command with the names it carries is a message.
LEMMA MsgType ==
    /\ \A cmd \in Naming : \A n \in Name : Msg(cmd, <<n>>) \in Message
    /\ \A cmd \in Listing : \A names \in Seq(Name) : Msg(cmd, names) \in Message
    /\ \A names \in Seq(Room) : Msg("CHATROOMS_LIST", names) \in Message
    /\ \A cmd \in Bare : Msg(cmd, <<>>) \in Message
BY DEF Msg, Message

\* Writing nothing, and writing one message to one socket.
LEMMA ToType ==
    /\ Silent \in Writes
    /\ \A s \in Sock, msg \in Message : To(s, msg) \in Writes
<1>1. <<>> \in Seq(Message) /\ \A msg \in Message : <<msg>> \in Seq(Message)
    OBVIOUS
<1> QED
    BY <1>1 DEF Silent, To, Writes

\* Writing one thing after another.
LEMMA ThenType ==
    ASSUME NEW first \in Writes, NEW second \in Writes
    PROVE  Then(first, second) \in Writes
<1>1. \A t \in Sock : first[t] \o second[t] \in Seq(Message)
    BY ConcatProperties DEF Writes
<1> QED
    BY <1>1 DEF Then, Writes

\* Writing to everybody in a list.
LEMMA BroadcastType ==
    ASSUME NEW users \in Seq(Name), NEW msg \in Message
    PROVE  Broadcast(users, msg) \in Writes
<1> DEFINE at(t) == {i \in DOMAIN users : users_map[users[i]] = t}
           copies(t) == [k \in 1..Cardinality(at(t)) |-> msg]
<1>1. ASSUME NEW t \in Sock
      PROVE  copies(t) \in Seq(Message)
  <2>1. at(t) \in SUBSET (1..Len(users)) /\ Len(users) \in Nat
      OBVIOUS
  <2>2. Cardinality(at(t)) \in Nat
      BY <2>1, PositionsAreFinite
  <2> HIDE DEF at
  <2> QED
      BY <2>2
<1> HIDE DEF copies
<1>2. [t \in Sock |-> copies(t)] \in Writes
    BY <1>1 DEF Writes
<1> QED
    BY <1>2 DEF Broadcast, copies

\* The list of a finite set of names.
LEMMA SortedType ==
    ASSUME NEW All \in {Name, Room}, NEW S \in SUBSET All
    PROVE  Sorted(S) \in Seq(All)
<1>1. IsFiniteSet(All) /\ All \in SUBSET Nat
    BY NamesAreStrings
<1>2. IsFiniteSet(S) /\ S \in SUBSET Nat /\ Cardinality(S) \in Nat
    BY <1>1, FS_Subset, FS_CardinalityType
<1>3. \A k \in 1..Cardinality(S) : (CHOOSE n \in S : Rank(S, n) = k) \in All
    BY <1>2, EveryRankIsTaken
<1> QED
    BY <1>2, <1>3 DEF Sorted

-------------------------------------------------------------------------------
(* Looking things up finds what it should. *)

\* The user found for a served socket is connected on that socket.
LEMMA SenderFound ==
    ASSUME TypeOK, SocketsMatch, NEW s \in Sock, Serving(s)
    PROVE  /\ UserOf(s) \in Connected /\ UserOf(s) \in Name
           /\ users_map[UserOf(s)] = s
           /\ \A n \in Name : users_map[n] = s => n = UserOf(s)
<1> DEFINE match == {n \in Connected : users_map[n] = s}
<1>1. PICK u \in Connected : users_map[u] = s
    BY DEF SocketsMatch, Serving
<1>2. s # NULL
    BY NullIsNothing
<1>3. \A n \in Name : users_map[n] = s => n = u
    BY <1>1, <1>2 DEF SocketsMatch, Connected
<1>4. match = {u}
    BY <1>1, <1>3 DEF Connected
<1>5. u \in Nat
    BY <1>1, NamesAreStrings DEF Connected
<1>6. (CHOOSE n \in match : \A m \in match : n <= m) = u
    BY <1>4, <1>5
<1>7. UserOf(s) = u
    BY <1>4, <1>6 DEF UserOf
<1> QED
    BY <1>1, <1>3, <1>7 DEF Connected

\* The partner of a user with a session entry is a user name.
LEMMA PartnerFound ==
    ASSUME TypeOK, NEW u \in Name, Entries(u) # {}
    PROVE  Partner(u) \in Name
<1> DEFINE last == CHOOSE k \in Entries(u) : \A j \in Entries(u) : j <= k
<1>1. Entries(u) \in SUBSET Name
    BY DEF Entries
<1>2. Entries(u) \in SUBSET Nat /\ IsFiniteSet(Entries(u))
    BY <1>1, NamesAreStrings, FS_Subset
<1>3. last \in Entries(u)
    BY <1>2, LastExists
<1> HIDE DEF last
<1>4. in_session_with[last] # NULL /\ last \in Name
    BY <1>3 DEF Entries
<1>5. Partner(u) = IF last = u THEN in_session_with[u] ELSE last
    BY DEF Partner, last
<1> QED
    BY <1>4, <1>5 DEF TypeOK

-------------------------------------------------------------------------------
(* What leaves a part of the state alone preserves what is said of it. *)

\* A step that keeps users and sockets keeps their match.
LEMMA SocketsKept ==
    ASSUME SocketsMatch, UNCHANGED <<users_map, sockVars>>
    PROVE  SocketsMatch'
BY DEF SocketsMatch, sockVars, Connected

\* A user that leaves takes its socket along.
LEMMA SocketsAfterExit ==
    ASSUME TypeOK, SocketsMatch, NEW s \in Sock, Serving(s),
           UserGone(s, UserOf(s))
    PROVE  SocketsMatch'
<1> DEFINE u == UserOf(s)
<1>1. u \in Name /\ users_map[u] = s /\ \A n \in Name : users_map[n] = s => n = u
    BY SenderFound
<1> HIDE DEF u
<1>2. users_map' = [users_map EXCEPT ![u] = NULL] /\ closed' = closed \cup {s}
      /\ users_vector' = users_vector
    BY DEF UserGone, u
<1>3. Connected' = Connected \ {u}
    BY <1>1, <1>2 DEF Connected, TypeOK
<1>4. \A n \in Connected \ {u} : users_map'[n] = users_map[n] /\ users_map[n] # s
    BY <1>1, <1>2 DEF Connected, TypeOK
<1> QED
    BY <1>1, <1>2, <1>3, <1>4 DEF SocketsMatch

\* A step that keeps rooms and pointers keeps what is said of them.
LEMMA RoomsKept ==
    ASSUME RoomInv, UNCHANGED <<connectedToChatRoom, roomVars>>
    PROVE  RoomInv'
BY DEF RoomInv, PointersLead, OwnerIsListed, OwnerHoldsLiveRoom, roomVars

\* Dropping the pointer of one user harms nothing.
LEMMA PointerDropped ==
    ASSUME TypeOK, RoomInv, NEW u \in Name, UNCHANGED roomVars,
           connectedToChatRoom' = [connectedToChatRoom EXCEPT ![u] = NULL]
    PROVE  RoomInv'
<1>1. \A n \in Name : connectedToChatRoom'[n] \in {NULL, connectedToChatRoom[n]}
    BY DEF TypeOK
<1>2. NULL \notin RoomId
    BY NullIsNothing
<1>3. PointersLead'
    BY <1>1 DEF RoomInv, PointersLead, roomVars
<1>4. OwnerIsListed'
    BY DEF RoomInv, OwnerIsListed, roomVars
<1>5. OwnerHoldsLiveRoom'
    BY <1>1, <1>2 DEF RoomInv, OwnerHoldsLiveRoom, roomVars
<1> QED
    BY <1>3, <1>4, <1>5 DEF RoomInv

\* A member that leaves, or exits, drops its own pointer and is erased from the
\* vector of its room, which it does not own.
LEMMA MemberRemoved ==
    ASSUME TypeOK, RoomInv, NEW u \in Name, NEW i \in RoomId, ~Owns(u, i),
           connectedToChatRoom' = [connectedToChatRoom EXCEPT ![u] = NULL],
           rooms' = UserRemoved(u, i),
           chatrooms_map' = chatrooms_map
    PROVE  /\ rooms' \in [RoomId -> ChatRoomObject]
           /\ RoomInv'
<1> DEFINE rest == remove_user(rooms[i].users, u)
<1>1. rooms[i].users \in Seq(Name)
    BY DEF TypeOK, ChatRoomObject
<1>2. /\ rest \in Seq(Name)
      /\ Range(rooms[i].users) \ {u} \subseteq Range(rest)
    BY <1>1, RemoveUserKeepsOthers
<1> HIDE DEF rest
<1>3. rooms' = [rooms EXCEPT ![i].users = rest]
    BY DEF UserRemoved, rest
<1>4. rooms' \in [RoomId -> ChatRoomObject]
    BY <1>2, <1>3 DEF TypeOK, ChatRoomObject
<1>5. \A j \in RoomId : /\ rooms'[j].name = rooms[j].name
                        /\ rooms'[j].owner = rooms[j].owner
                        /\ j # i => rooms'[j].users = rooms[j].users
    BY <1>3 DEF TypeOK, ChatRoomObject
<1>6. rooms'[i].users = rest
    BY <1>3 DEF TypeOK, ChatRoomObject
<1>7. \A n \in Name : connectedToChatRoom'[n] \in {NULL, connectedToChatRoom[n]}
    BY DEF TypeOK
<1>8. NULL \notin RoomId
    BY NullIsNothing
<1>9. PointersLead'
  <2> SUFFICES ASSUME NEW n \in Name, connectedToChatRoom'[n] # NULL
               PROVE  rooms'[connectedToChatRoom'[n]].name \in Room
      BY DEF PointersLead
  <2>1. connectedToChatRoom'[n] = connectedToChatRoom[n]
      BY <1>7
  <2>2. connectedToChatRoom[n] \in RoomId
      BY <2>1 DEF TypeOK
  <2> QED
      BY <1>5, <2>1, <2>2 DEF RoomInv, PointersLead
<1>10. OwnerIsListed'
  <2> SUFFICES ASSUME NEW r \in Room, chatrooms_map[r] # NULL
               PROVE  /\ rooms'[chatrooms_map[r]].name = r
                      /\ rooms'[chatrooms_map[r]].owner \in
                            Range(rooms'[chatrooms_map[r]].users)
      BY DEF OwnerIsListed
  <2> DEFINE j == chatrooms_map[r]
  <2>1. j \in RoomId
      BY DEF TypeOK
  <2>2. rooms[j].name = r /\ rooms[j].owner \in Range(rooms[j].users)
      BY DEF RoomInv, OwnerIsListed
  <2>3. CASE j = i
      BY <1>2, <1>5, <1>6, <2>1, <2>2, <2>3 DEF Owns
  <2>4. CASE j # i
      BY <1>5, <2>1, <2>2, <2>4
  <2> QED
      BY <2>3, <2>4
<1>11. OwnerHoldsLiveRoom'
    BY <1>5, <1>7, <1>8 DEF RoomInv, OwnerHoldsLiveRoom
<1> QED
    BY <1>4, <1>9, <1>10, <1>11 DEF RoomInv

\* The room an owner points to is the one its name finds in the map, and erasing
\* that name leaves every other room where it was.
LEMMA RoomErasedByOwner ==
    ASSUME TypeOK, RoomInv, NEW u \in Name, NEW i \in RoomId,
           connectedToChatRoom[u] = i, Owns(u, i)
    PROVE  /\ rooms[i].name \in Room
           /\ chatrooms_map[rooms[i].name] = i
           /\ u \in Range(rooms[i].users)
           /\ RoomErased(i) \in [Room -> RoomId \cup {NULL}]
           /\ RoomErased(i)[rooms[i].name] = NULL
           /\ \A r \in Room : r # rooms[i].name => RoomErased(i)[r] = chatrooms_map[r]
<1>1. i # NULL
    BY NullIsNothing
<1>2. rooms[i].name \in Room
    BY <1>1 DEF RoomInv, PointersLead
<1>3. chatrooms_map[rooms[i].name] = i
    BY DEF RoomInv, OwnerHoldsLiveRoom, Owns
<1>4. u \in Range(rooms[i].users)
    BY <1>1, <1>2, <1>3 DEF RoomInv, OwnerIsListed, Owns
<1> QED
    BY <1>2, <1>3, <1>4 DEF RoomErased, TypeOK

-------------------------------------------------------------------------------
(* Every handler preserves the invariant. *)

\* IInv in the three parts the steps below are about.
LEMMA IInvParts == IInv <=> TypeOK /\ SocketsMatch /\ RoomInv
BY DEF IInv, RoomInv

\* A handler that crashes the process.
LEMMA CrashStep ==
    ASSUME IInv, Crash
    PROVE  IInv'
<1>1. TypeOK'
    BY ToType DEF IInv, Crash, TypeOK, Writes, userVars, roomVars, sockVars
<1>2. SocketsMatch' /\ RoomInv'
    BY SocketsKept, RoomsKept, IInvParts DEF Crash, userVars, roomVars, sockVars
<1> QED
    BY <1>1, <1>2 DEF IInv, RoomInv

\* A handler that only answers its sender.
LEMMA AnswerStep ==
    ASSUME IInv, NEW s \in Sock, NEW msg \in Message, Answer(s, msg)
    PROVE  IInv'
<1>1. TypeOK'
    BY ToType DEF IInv, Answer, TypeOK, Writes, userVars, roomVars, sockVars
<1>2. SocketsMatch' /\ RoomInv'
    BY SocketsKept, RoomsKept, IInvParts DEF Answer, userVars, roomVars, sockVars
<1> QED
    BY <1>1, <1>2 DEF IInv, RoomInv

\* The login thread adds a user.
LEMMA AddUserStep ==
    ASSUME IInv, NEW s \in Sock, NEW n \in Name, AddUser(s, n)
    PROVE  IInv'
<1>1. TypeOK
    BY DEF IInv
<1>2. TypeOK'
    BY <1>1, ToType DEF AddUser, TypeOK, Writes, roomVars
<1>3. /\ users_map' = [users_map EXCEPT ![n] = s]
      /\ users_map[n] = NULL
      /\ users_vector' = Append(users_vector, s)
      /\ closed' = closed
      /\ s \notin Range(users_vector) \cup closed
    BY DEF AddUser, checkUser
<1>4. SocketsMatch'
  <2>1. users_vector \in Seq(Sock)
      BY <1>1 DEF TypeOK
  <2>2. Range(users_vector') = Range(users_vector) \cup {s}
    <3>1. /\ DOMAIN users_vector' = 1..(Len(users_vector) + 1)
          /\ DOMAIN users_vector = 1..Len(users_vector)
          /\ \A i \in 1..Len(users_vector) : users_vector'[i] = users_vector[i]
          /\ users_vector'[Len(users_vector) + 1] = s
          /\ Len(users_vector) \in Nat
        BY <1>3, <2>1
    <3> QED
        BY <3>1 DEF Range
  <2>3. s # NULL
      BY NullIsNothing
  <2>4. Connected' = Connected \cup {n}
      BY <1>1, <1>3, <2>3 DEF Connected, TypeOK
  <2>5. \A m \in Connected : m # n /\ users_map'[m] = users_map[m] /\ users_map[m] # s
      BY <1>1, <1>3 DEF IInv, SocketsMatch, Connected, TypeOK
  <2>6. users_map'[n] = s
      BY <1>1, <1>3 DEF TypeOK
  <2> QED
      BY <1>3, <2>2, <2>4, <2>5, <2>6 DEF IInv, SocketsMatch
<1>5. RoomInv'
    BY <1>1, PointerDropped, IInvParts DEF AddUser
<1> QED
    BY <1>2, <1>4, <1>5 DEF IInv, RoomInv

\* A request for a session.
LEMMA OpenSessionStep ==
    ASSUME IInv, NEW s \in Sock, NEW from \in Name, NEW to \in Name,
           OpenSession(s, from, to)
    PROVE  IInv'
<1> DEFINE u == UserOf(s)
<1>1. TypeOK /\ u \in Name
    BY SenderFound DEF IInv, OpenSession
<1>2. CASE Crash
    BY <1>2, CrashStep
<1>3. CASE \E cmd \in {"OPEN_CONNECTION_ERROR", "OPEN_SESSION_ERROR"} :
              Answer(s, Msg(cmd, <<>>))
  <2>1. \A cmd \in {"OPEN_CONNECTION_ERROR", "OPEN_SESSION_ERROR"} :
            Msg(cmd, <<>>) \in Message
      BY MsgType DEF Naming, Listing, Bare
  <2> QED
      BY <1>3, <2>1, AnswerStep
<1>4. CASE /\ users_map[to] # NULL
           /\ connectionStatus' = [connectionStatus EXCEPT ![to] = TRUE, ![u] = TRUE]
           /\ in_session_with' = [in_session_with EXCEPT ![u] = to]
           /\ sent' = Then(To(s, Msg("TARGET_IP_AND_PORT", <<to>>)),
                           To(users_map[to], Msg("INCOMIMG_SESSION", <<u>>)))
           /\ UNCHANGED <<users_map, connectedToChatRoom, roomVars, sockVars, crashed>>
  <2>1. users_map[to] \in Sock
      BY <1>1, <1>4 DEF TypeOK
  <2>2. /\ Msg("TARGET_IP_AND_PORT", <<to>>) \in Message
        /\ Msg("INCOMIMG_SESSION", <<u>>) \in Message
      BY <1>1, MsgType DEF Naming, Listing, Bare
  <2>3. sent' \in Writes
      BY <1>4, <2>1, <2>2, ToType, ThenType
  <2> HIDE DEF u
  <2>4. /\ connectionStatus' \in [Name -> BOOLEAN]
        /\ in_session_with' \in [Name -> Name \cup {NULL}]
      BY <1>1, <1>4 DEF TypeOK
  <2>5. TypeOK'
      BY <1>1, <1>4, <2>3, <2>4 DEF TypeOK, Writes, roomVars, sockVars
  <2>6. SocketsMatch' /\ RoomInv'
      BY <1>4, SocketsKept, RoomsKept, IInvParts
  <2> QED
      BY <2>5, <2>6 DEF IInv, RoomInv
<1> QED
    BY <1>2, <1>3, <1>4 DEF OpenSession

\* Ending a session keeps the types.
LEMMA SessionOverType ==
    ASSUME TypeOK, NEW u \in Name, Entries(u) # {}, SessionOver(u)
    PROVE  /\ connectionStatus' \in [Name -> BOOLEAN]
           /\ in_session_with' \in [Name -> Name \cup {NULL}]
<1>1. Partner(u) \in Name
    BY PartnerFound
<1> QED
    BY <1>1 DEF SessionOver, Ended, TypeOK

\* A request to close a session.
LEMMA CloseSessionStep ==
    ASSUME IInv, NEW s \in Sock, CloseSession(s)
    PROVE  IInv'
<1> DEFINE u == UserOf(s)
<1>1. TypeOK /\ u \in Name
    BY SenderFound DEF IInv, CloseSession
<1>2. CASE Answer(s, Msg("CLOSE_SESSION_ERROR", <<>>))
    BY <1>2, AnswerStep, MsgType DEF Naming, Listing, Bare
<1>3. CASE Crash
    BY <1>3, CrashStep
<1>4. CASE /\ Entries(u) # {} /\ users_map[Partner(u)] # NULL
           /\ SessionOver(u)
           /\ sent' = To(users_map[Partner(u)], Msg("SESSION_ENDED", <<>>))
           /\ UNCHANGED <<users_map, connectedToChatRoom, roomVars, sockVars, crashed>>
  <2> HIDE DEF u
  <2>1. users_map[Partner(u)] \in Sock
      BY <1>1, <1>4, PartnerFound DEF TypeOK
  <2>2. Msg("SESSION_ENDED", <<>>) \in Message
      BY MsgType DEF Naming, Listing, Bare
  <2>3. sent' \in Writes
      BY <1>4, <2>1, <2>2, ToType
  <2>4. TypeOK'
      BY <1>1, <1>4, <2>3, SessionOverType DEF TypeOK, Writes, roomVars, sockVars
  <2>5. SocketsMatch' /\ RoomInv'
      BY <1>4, SocketsKept, RoomsKept, IInvParts
  <2> QED
      BY <2>4, <2>5 DEF IInv, RoomInv
<1> QED
    BY <1>2, <1>3, <1>4 DEF CloseSession

\* A room is created on an object nothing points to.
LEMMA CreateChatroomStep ==
    ASSUME IInv, NEW s \in Sock, NEW r \in Room, CreateChatroom(s, r)
    PROVE  IInv'
<1> DEFINE u == UserOf(s)
<1>1. TypeOK /\ RoomInv /\ u \in Name
    BY SenderFound, IInvParts DEF CreateChatroom
<1> DEFINE room == [name |-> r, owner |-> u, users |-> <<u>>]
<1>2. PICK i \in RoomId :
         /\ Fresh(i)
         /\ chatrooms_map' = [chatrooms_map EXCEPT ![r] = i]
         /\ rooms' = [rooms EXCEPT ![i] = room]
         /\ Enter(u, i)
    BY DEF CreateChatroom
<1>3. chatrooms_map[r] = NULL
    BY DEF CreateChatroom
<1> HIDE DEF u
<1>4. room \in ChatRoomObject /\ u \in Range(room.users)
    BY <1>1 DEF ChatRoomObject, Range
<1> HIDE DEF room
<1>5. /\ rooms'[i] = room
      /\ \A j \in RoomId : j # i => rooms'[j] = rooms[j]
      /\ chatrooms_map'[r] = i
      /\ \A q \in Room : q # r => chatrooms_map'[q] = chatrooms_map[q]
      /\ connectedToChatRoom'[u] = i
      /\ \A n \in Name : n # u => connectedToChatRoom'[n] = connectedToChatRoom[n]
    BY <1>1, <1>2 DEF TypeOK, Enter
<1>6. room.name = r /\ room.owner = u
    BY DEF room
<1>7. TypeOK'
  <2>1. sent' \in Writes
      BY ToType, MsgType DEF CreateChatroom, Naming, Listing, Bare
  <2>2. /\ rooms' \in [RoomId -> ChatRoomObject]
        /\ chatrooms_map' \in [Room -> RoomId \cup {NULL}]
        /\ connectionStatus' \in [Name -> BOOLEAN]
        /\ connectedToChatRoom' \in [Name -> RoomId \cup {NULL}]
      BY <1>1, <1>2, <1>4 DEF TypeOK, Enter
  <2> QED
      BY <1>1, <1>2, <2>1, <2>2 DEF TypeOK, Writes, Enter, sockVars
<1>8. SocketsMatch'
    BY <1>2, SocketsKept DEF IInv, Enter
<1>9. PointersLead'
  <2> SUFFICES ASSUME NEW n \in Name, connectedToChatRoom'[n] # NULL
               PROVE  rooms'[connectedToChatRoom'[n]].name \in Room
      BY DEF PointersLead
  <2>1. CASE n = u
      BY <1>5, <1>6, <2>1
  <2>2. CASE n # u
      BY <1>1, <1>2, <1>5, <2>2 DEF Fresh, RoomInv, PointersLead, TypeOK
  <2> QED
      BY <2>1, <2>2
<1>10. OwnerIsListed'
  <2> SUFFICES ASSUME NEW q \in Room, chatrooms_map'[q] # NULL
               PROVE  /\ rooms'[chatrooms_map'[q]].name = q
                      /\ rooms'[chatrooms_map'[q]].owner \in
                            Range(rooms'[chatrooms_map'[q]].users)
      BY DEF OwnerIsListed
  <2>1. CASE q = r
      BY <1>4, <1>5, <1>6, <2>1
  <2>2. CASE q # r
      BY <1>1, <1>2, <1>5, <2>2 DEF Fresh, RoomInv, OwnerIsListed, TypeOK
  <2> QED
      BY <2>1, <2>2
<1>11. OwnerHoldsLiveRoom'
  <2> SUFFICES ASSUME NEW n \in Name, NEW j \in RoomId,
                      connectedToChatRoom'[n] = j, rooms'[j].owner = n
               PROVE  chatrooms_map'[rooms'[j].name] = j
      BY DEF OwnerHoldsLiveRoom
  <2>1. CASE j = i
      BY <1>5, <1>6, <2>1
  <2>2. CASE j # i
    <3>1. n # u /\ connectedToChatRoom[n] = j /\ rooms[j] = rooms'[j]
        BY <1>5, <2>2
    <3>2. chatrooms_map[rooms[j].name] = j
        BY <1>1, <3>1 DEF RoomInv, OwnerHoldsLiveRoom
    <3>3. rooms[j].name \in Room
        BY <1>1, <3>1, NullIsNothing DEF RoomInv, PointersLead
    <3>4. rooms[j].name # r
        BY <1>3, <3>2, NullIsNothing
    <3> QED
        BY <1>5, <3>1, <3>2, <3>3, <3>4
  <2> QED
      BY <2>1, <2>2
<1> QED
    BY <1>7, <1>8, <1>9, <1>10, <1>11 DEF IInv

\* A user enters a room that is in the map.
LEMMA JoinChatroomStep ==
    ASSUME IInv, NEW s \in Sock, NEW r \in Room, JoinChatroom(s, r)
    PROVE  IInv'
<1> DEFINE u == UserOf(s)
           i == chatrooms_map[r]
           users == rooms[i].users
           more == add_user(rooms[i].name, users, u)
<1>1. TypeOK /\ RoomInv /\ u \in Name
    BY SenderFound, IInvParts DEF JoinChatroom
<1>2. i \in RoomId
    BY <1>1 DEF JoinChatroom, TypeOK
<1>3. users \in Seq(Name) /\ rooms[i].name = r
    BY <1>1, <1>2, NullIsNothing DEF RoomInv, OwnerIsListed, TypeOK, ChatRoomObject
<1>4. more \in Seq(Name) /\ Range(users) \subseteq Range(more)
    BY <1>1, <1>3, AddUserLists
<1>5. CASE Crash
    BY <1>5, CrashStep
<1>6. CASE /\ rooms' = [rooms EXCEPT ![i].users = more]
           /\ Enter(u, i)
           /\ sent' = Then(Broadcast(users, Msg("NEW_USER_TO_CHATROOM", <<u>>)),
                           To(s, Msg("CHATROOM_LIST", users)))
           /\ UNCHANGED chatrooms_map
  <2> HIDE DEF u, i, users, more
  <2>1. /\ \A j \in RoomId : /\ rooms'[j].name = rooms[j].name
                             /\ rooms'[j].owner = rooms[j].owner
                             /\ j # i => rooms'[j].users = rooms[j].users
        /\ rooms'[i].users = more
        /\ rooms' \in [RoomId -> ChatRoomObject]
      BY <1>1, <1>2, <1>4, <1>6 DEF TypeOK, ChatRoomObject
  <2>2. /\ connectedToChatRoom'[u] = i
        /\ \A n \in Name : n # u => connectedToChatRoom'[n] = connectedToChatRoom[n]
      BY <1>1, <1>6 DEF TypeOK, Enter
  <2>3. TypeOK'
    <3>1. users \in Seq(Name)
        BY <1>3
    <3>2. /\ Msg("NEW_USER_TO_CHATROOM", <<u>>) \in Message
          /\ Msg("CHATROOM_LIST", users) \in Message
        BY <1>1, <3>1, MsgType DEF Naming, Listing, Bare
    <3>3. sent' \in Writes
        BY <1>3, <1>6, <3>2, BroadcastType, ToType, ThenType
    <3>4. /\ connectionStatus' \in [Name -> BOOLEAN]
          /\ connectedToChatRoom' \in [Name -> RoomId \cup {NULL}]
        BY <1>1, <1>2, <1>6 DEF TypeOK, Enter
    <3> QED
        BY <1>1, <1>6, <2>1, <3>3, <3>4 DEF TypeOK, Writes, Enter, sockVars
  <2>4. SocketsMatch'
      BY <1>6, SocketsKept DEF IInv, Enter
  <2>5. PointersLead'
      BY <1>1, <1>2, <1>3, <2>1, <2>2 DEF RoomInv, PointersLead, TypeOK, i
  <2>6. OwnerIsListed'
    <3> SUFFICES ASSUME NEW q \in Room, chatrooms_map[q] # NULL
                 PROVE  /\ rooms'[chatrooms_map[q]].name = q
                        /\ rooms'[chatrooms_map[q]].owner \in
                              Range(rooms'[chatrooms_map[q]].users)
        BY <1>6 DEF OwnerIsListed
    <3> DEFINE j == chatrooms_map[q]
    <3>1. /\ j \in RoomId
          /\ rooms[j].name = q
          /\ rooms[j].owner \in Range(rooms[j].users)
        BY <1>1 DEF RoomInv, OwnerIsListed, TypeOK
    <3>2. CASE j = i
        BY <1>4, <2>1, <3>1, <3>2 DEF users
    <3>3. CASE j # i
        BY <2>1, <3>1, <3>3
    <3> QED
        BY <3>2, <3>3
  <2>7. OwnerHoldsLiveRoom'
    <3> SUFFICES ASSUME NEW n \in Name, NEW j \in RoomId,
                        connectedToChatRoom'[n] = j, rooms'[j].owner = n
                 PROVE  chatrooms_map'[rooms'[j].name] = j
        BY DEF OwnerHoldsLiveRoom
    <3>1. CASE j = i
        BY <1>2, <1>3, <1>6, <2>1, <3>1 DEF i
    <3>2. CASE j # i
        BY <1>1, <1>6, <2>1, <2>2, <3>2 DEF RoomInv, OwnerHoldsLiveRoom
    <3> QED
        BY <3>1, <3>2
  <2> QED
      BY <2>3, <2>4, <2>5, <2>6, <2>7 DEF IInv
<1> QED
    BY <1>5, <1>6 DEF JoinChatroom

\* A member leaves its room.
LEMMA LeaveAsMemberStep ==
    ASSUME IInv, NEW s \in Sock, LeaveAsMember(s)
    PROVE  IInv'
<1> DEFINE u == UserOf(s)
           i == connectedToChatRoom[u]
           users == rooms[i].users
<1>1. TypeOK /\ RoomInv /\ u \in Name
    BY SenderFound, IInvParts DEF LeaveAsMember
<1>2. i \in RoomId /\ ~Owns(u, i)
    BY <1>1 DEF LeaveAsMember, InRoom, TypeOK
<1>3. CASE Crash
    BY <1>3, CrashStep
<1>4. CASE /\ connectionStatus' = [connectionStatus EXCEPT ![u] = FALSE]
           /\ connectedToChatRoom' = [connectedToChatRoom EXCEPT ![u] = NULL]
           /\ rooms' = UserRemoved(u, i)
           /\ sent' = Broadcast(users, Msg("USER_HAS_LEFT_CHATROOM", <<u>>))
           /\ UNCHANGED <<users_map, in_session_with, chatrooms_map, sockVars, crashed>>
  <2>1. rooms' \in [RoomId -> ChatRoomObject] /\ RoomInv'
      BY <1>1, <1>2, <1>4, MemberRemoved
  <2>2. users \in Seq(Name)
      BY <1>1, <1>2 DEF TypeOK, ChatRoomObject
  <2>3. sent' \in Writes
      BY <1>1, <1>4, <2>2, BroadcastType, MsgType DEF Naming, Listing, Bare
  <2> HIDE DEF u, i, users
  <2>4. TypeOK'
      BY <1>1, <1>4, <2>1, <2>3 DEF TypeOK, Writes, sockVars
  <2>5. SocketsMatch'
      BY <1>4, SocketsKept DEF IInv
  <2> QED
      BY <2>1, <2>4, <2>5 DEF IInv, RoomInv
<1> QED
    BY <1>3, <1>4 DEF LeaveAsMember

\* A member exits.
LEMMA ExitAsMemberStep ==
    ASSUME IInv, NEW s \in Sock, ExitAsMember(s)
    PROVE  IInv'
<1> DEFINE u == UserOf(s)
           i == connectedToChatRoom[u]
           rest == remove_user(rooms[i].users, u)
<1>1. TypeOK /\ SocketsMatch /\ RoomInv /\ u \in Name
    BY SenderFound, IInvParts DEF ExitAsMember
<1>2. i \in RoomId /\ ~Owns(u, i) /\ Serving(s)
    BY <1>1 DEF ExitAsMember, InRoom, TypeOK
<1>3. CASE Crash
    BY <1>3, CrashStep
<1>4. CASE /\ rooms' = UserRemoved(u, i)
           /\ connectionStatus' = [connectionStatus EXCEPT ![u] = FALSE]
           /\ connectedToChatRoom' = [connectedToChatRoom EXCEPT ![u] = NULL]
           /\ UserGone(s, u)
           /\ sent' = Then(Broadcast(rest, Msg("USER_HAS_LEFT_CHATROOM", <<u>>)), Bye(s))
           /\ UNCHANGED <<in_session_with, chatrooms_map>>
  <2>1. rooms' \in [RoomId -> ChatRoomObject] /\ RoomInv'
      BY <1>1, <1>2, <1>4, MemberRemoved
  <2>2. rest \in Seq(Name)
      BY <1>1, <1>2, RemoveUserKeepsOthers DEF TypeOK, ChatRoomObject
  <2>3. /\ Msg("USER_HAS_LEFT_CHATROOM", <<u>>) \in Message
        /\ Msg("BYE_BYE_MSG", <<>>) \in Message
      BY <1>1, MsgType DEF Naming, Listing, Bare
  <2>4. sent' \in Writes
      BY <1>4, <2>2, <2>3, BroadcastType, ToType, ThenType DEF Bye
  <2>5. SocketsMatch'
      BY <1>1, <1>2, <1>4, SocketsAfterExit
  <2> HIDE DEF u, i, rest
  <2>6. TypeOK'
      BY <1>1, <1>4, <2>1, <2>4 DEF TypeOK, Writes, UserGone
  <2> QED
      BY <2>1, <2>5, <2>6 DEF IInv, RoomInv
<1> QED
    BY <1>3, <1>4 DEF ExitAsMember

\* The owner leaves: the room is erased from the map and every listed user,
\* the owner among them, loses its pointer.
LEMMA LeaveAsOwnerStep ==
    ASSUME IInv, NEW s \in Sock, LeaveAsOwner(s)
    PROVE  IInv'
<1> DEFINE u == UserOf(s)
           i == connectedToChatRoom[u]
           users == rooms[i].users
           name == rooms[i].name
<1>1. TypeOK /\ RoomInv /\ u \in Name
    BY SenderFound, IInvParts DEF LeaveAsOwner
<1>2. i \in RoomId /\ Owns(u, i)
    BY <1>1 DEF LeaveAsOwner, InRoom, TypeOK
<1>3. CASE Crash
    BY <1>3, CrashStep
<1>4. CASE /\ connectionStatus' =
                 [n \in Name |-> n \notin Range(users) /\ connectionStatus[n]]
           /\ connectedToChatRoom' = Disconnected(users)
           /\ chatrooms_map' = RoomErased(i)
           /\ rooms' = UserRemoved(u, i)
           /\ sent' = Broadcast(users, Msg("CHATROOM_WAS_CLOSED", <<>>))
           /\ UNCHANGED <<users_map, in_session_with, sockVars, crashed>>
  <2>1. /\ name \in Room
        /\ chatrooms_map[name] = i
        /\ u \in Range(users)
        /\ chatrooms_map' \in [Room -> RoomId \cup {NULL}]
        /\ chatrooms_map'[name] = NULL
        /\ \A r \in Room : r # name => chatrooms_map'[r] = chatrooms_map[r]
      BY <1>1, <1>2, <1>4, RoomErasedByOwner
  <2>2. users \in Seq(Name)
      BY <1>1, <1>2 DEF TypeOK, ChatRoomObject
  <2>3. remove_user(users, u) \in Seq(Name)
      BY <2>2, RemoveUserKeepsOthers
  <2>4. rooms' = [rooms EXCEPT ![i].users = remove_user(users, u)]
      BY <1>4 DEF UserRemoved
  <2>5. /\ rooms' \in [RoomId -> ChatRoomObject]
        /\ \A j \in RoomId : /\ rooms'[j].name = rooms[j].name
                             /\ rooms'[j].owner = rooms[j].owner
                             /\ j # i => rooms'[j].users = rooms[j].users
      BY <1>1, <1>2, <2>3, <2>4 DEF TypeOK, ChatRoomObject
  <2>6. sent' \in Writes
      BY <1>4, <2>2, BroadcastType, MsgType DEF Naming, Listing, Bare
  <2>7. \A n \in Name : connectedToChatRoom'[n] =
                            IF n \in Range(users) THEN NULL ELSE connectedToChatRoom[n]
      BY <1>4 DEF Disconnected
  <2>8. connectedToChatRoom' \in [Name -> RoomId \cup {NULL}]
      BY <1>1, <1>4 DEF Disconnected, TypeOK
  <2>9. connectionStatus' \in [Name -> BOOLEAN]
    <3>1. \A n \in Name : (n \notin Range(users) /\ connectionStatus[n]) \in BOOLEAN
        OBVIOUS
    <3> QED
        BY <1>4, <3>1
  <2>10. rooms[i].owner = u
      BY <1>2 DEF Owns
  <2>11. connectedToChatRoom[u] = i
      OBVIOUS
  <2> HIDE DEF u, i, users, name
  <2>12. TypeOK'
      BY <1>1, <1>4, <2>1, <2>5, <2>6, <2>8, <2>9 DEF TypeOK, Writes, sockVars
  <2>13. SocketsMatch'
      BY <1>4, SocketsKept DEF IInv
  <2>14. PointersLead'
      BY <1>1, <2>5, <2>7 DEF RoomInv, PointersLead, TypeOK
  <2>15. OwnerIsListed'
    <3> SUFFICES ASSUME NEW r \in Room, chatrooms_map'[r] # NULL
                 PROVE  /\ rooms'[chatrooms_map'[r]].name = r
                        /\ rooms'[chatrooms_map'[r]].owner \in
                              Range(rooms'[chatrooms_map'[r]].users)
        BY DEF OwnerIsListed
    <3>1. chatrooms_map'[r] = chatrooms_map[r] /\ r # name
        BY <2>1
    <3>2. chatrooms_map[r] \in RoomId /\ rooms[chatrooms_map[r]].name = r
        BY <1>1, <3>1 DEF RoomInv, OwnerIsListed, TypeOK
    <3>3. chatrooms_map[r] # i
        BY <3>1, <3>2 DEF name
    <3> QED
        BY <1>1, <2>5, <3>1, <3>2, <3>3 DEF RoomInv, OwnerIsListed
  <2>16. OwnerHoldsLiveRoom'
    <3> SUFFICES ASSUME NEW n \in Name, NEW j \in RoomId,
                        connectedToChatRoom'[n] = j, rooms'[j].owner = n
                 PROVE  chatrooms_map'[rooms'[j].name] = j
        BY DEF OwnerHoldsLiveRoom
    <3>1. n \notin Range(users) /\ connectedToChatRoom[n] = j
        BY <2>7, NullIsNothing
    <3>2. rooms[j].owner = n
        BY <2>5
    <3>3. chatrooms_map[rooms[j].name] = j
        BY <1>1, <3>1, <3>2 DEF RoomInv, OwnerHoldsLiveRoom
    <3>4. rooms[j].name \in Room
        BY <1>1, <3>1, NullIsNothing DEF RoomInv, PointersLead
    <3>5. j # i
        BY <2>1, <2>10, <3>1, <3>2
    <3>6. rooms[j].name # name
        BY <2>1, <3>3, <3>5
    <3> QED
        BY <2>1, <2>5, <3>3, <3>4, <3>6
  <2> QED
      BY <2>12, <2>13, <2>14, <2>15, <2>16 DEF IInv
<1> QED
    BY <1>3, <1>4 DEF LeaveAsOwner

\* The owner exits: the room is erased from the map, the others keep their
\* pointers, and none of them owns the room.
LEMMA ExitAsOwnerStep ==
    ASSUME IInv, NEW s \in Sock, ExitAsOwner(s)
    PROVE  IInv'
<1> DEFINE u == UserOf(s)
           i == connectedToChatRoom[u]
           users == rooms[i].users
           name == rooms[i].name
<1>1. TypeOK /\ SocketsMatch /\ RoomInv /\ u \in Name
    BY SenderFound, IInvParts DEF ExitAsOwner
<1>2. i \in RoomId /\ Owns(u, i) /\ Serving(s)
    BY <1>1 DEF ExitAsOwner, InRoom, TypeOK
<1>3. CASE Crash
    BY <1>3, CrashStep
<1>4. CASE /\ chatrooms_map' = RoomErased(i)
           /\ connectionStatus' = [connectionStatus EXCEPT ![u] = FALSE]
           /\ connectedToChatRoom' = [connectedToChatRoom EXCEPT ![u] = NULL]
           /\ UserGone(s, u)
           /\ sent' = Then(Broadcast(users, Msg("CHATROOM_WAS_CLOSED", <<>>)), Bye(s))
           /\ UNCHANGED <<in_session_with, rooms>>
  <2>1. /\ name \in Room
        /\ chatrooms_map[name] = i
        /\ chatrooms_map' \in [Room -> RoomId \cup {NULL}]
        /\ chatrooms_map'[name] = NULL
        /\ \A r \in Room : r # name => chatrooms_map'[r] = chatrooms_map[r]
      BY <1>1, <1>2, <1>4, RoomErasedByOwner
  <2>2. users \in Seq(Name)
      BY <1>1, <1>2 DEF TypeOK, ChatRoomObject
  <2>3. /\ Msg("CHATROOM_WAS_CLOSED", <<>>) \in Message
        /\ Msg("BYE_BYE_MSG", <<>>) \in Message
      BY MsgType DEF Naming, Listing, Bare
  <2>4. sent' \in Writes
      BY <1>4, <2>2, <2>3, BroadcastType, ToType, ThenType DEF Bye
  <2>5. SocketsMatch'
      BY <1>1, <1>2, <1>4, SocketsAfterExit
  <2>6. rooms[i].owner = u
      BY <1>2 DEF Owns
  <2> HIDE DEF u, i, users, name
  <2>7. \A n \in Name : connectedToChatRoom'[n] =
                            IF n = u THEN NULL ELSE connectedToChatRoom[n]
      BY <1>1, <1>4 DEF TypeOK
  <2>8. TypeOK'
      BY <1>1, <1>4, <2>1, <2>4 DEF TypeOK, Writes, UserGone
  <2>9. PointersLead'
      BY <1>1, <1>4, <2>7 DEF RoomInv, PointersLead
  <2>10. OwnerIsListed'
      BY <1>1, <1>4, <2>1 DEF RoomInv, OwnerIsListed
  <2>11. OwnerHoldsLiveRoom'
    <3> SUFFICES ASSUME NEW n \in Name, NEW j \in RoomId,
                        connectedToChatRoom'[n] = j, rooms[j].owner = n
                 PROVE  chatrooms_map'[rooms[j].name] = j
        BY <1>4 DEF OwnerHoldsLiveRoom
    <3>1. n # u /\ connectedToChatRoom[n] = j
        BY <2>7, NullIsNothing
    <3>2. chatrooms_map[rooms[j].name] = j /\ rooms[j].name \in Room
        BY <1>1, <3>1, NullIsNothing DEF RoomInv, OwnerHoldsLiveRoom, PointersLead
    <3>3. j # i
        BY <2>6, <3>1
    <3> QED
        BY <2>1, <3>2, <3>3
  <2> QED
      BY <2>5, <2>8, <2>9, <2>10, <2>11 DEF IInv
<1> QED
    BY <1>3, <1>4 DEF ExitAsOwner

\* A user in a session exits.
LEMMA ExitFromSessionStep ==
    ASSUME IInv, NEW s \in Sock, ExitFromSession(s)
    PROVE  IInv'
<1> DEFINE u == UserOf(s)
<1>1. TypeOK /\ SocketsMatch /\ RoomInv /\ u \in Name /\ Serving(s)
    BY SenderFound, IInvParts DEF ExitFromSession
<1>2. CASE Crash
    BY <1>2, CrashStep
<1>3. CASE /\ Entries(u) # {} /\ users_map[Partner(u)] # NULL
           /\ SessionOver(u)
           /\ sent' = Then(To(users_map[Partner(u)], Msg("SESSION_ENDED", <<>>)), Bye(s))
           /\ UserGone(s, u)
           /\ UNCHANGED <<connectedToChatRoom, roomVars>>
  <2>1. SocketsMatch'
      BY <1>1, <1>3, SocketsAfterExit
  <2>2. RoomInv'
      BY <1>1, <1>3, RoomsKept
  <2> HIDE DEF u
  <2>3. users_map[Partner(u)] \in Sock
      BY <1>1, <1>3, PartnerFound DEF TypeOK
  <2>4. /\ Msg("SESSION_ENDED", <<>>) \in Message
        /\ Msg("BYE_BYE_MSG", <<>>) \in Message
      BY MsgType DEF Naming, Listing, Bare
  <2>5. sent' \in Writes
      BY <1>3, <2>3, <2>4, ToType, ThenType DEF Bye
  <2>6. TypeOK'
      BY <1>1, <1>3, <2>5, SessionOverType DEF TypeOK, Writes, UserGone, roomVars
  <2> QED
      BY <2>1, <2>2, <2>6 DEF IInv, RoomInv
<1> QED
    BY <1>2, <1>3 DEF ExitFromSession

\* A user in no room and no session exits.
LEMMA ExitIdleStep ==
    ASSUME IInv, NEW s \in Sock, ExitIdle(s)
    PROVE  IInv'
<1> DEFINE u == UserOf(s)
<1>1. TypeOK /\ SocketsMatch /\ RoomInv /\ u \in Name
    BY SenderFound, IInvParts DEF ExitIdle
<1>2. /\ connectionStatus' = [connectionStatus EXCEPT ![u] = FALSE]
      /\ connectedToChatRoom' = [connectedToChatRoom EXCEPT ![u] = NULL]
      /\ UserGone(s, u)
      /\ UNCHANGED <<in_session_with, roomVars>>
      /\ Serving(s)
    BY DEF ExitIdle
<1>3. SocketsMatch'
    BY <1>1, <1>2, SocketsAfterExit
<1>4. RoomInv'
    BY <1>1, <1>2, PointerDropped
<1>5. /\ Msg("CLOSE_SESSION_ERROR", <<>>) \in Message
      /\ Msg("BYE_BYE_MSG", <<>>) \in Message
    BY MsgType DEF Naming, Listing, Bare
<1>6. sent' \in Writes
    BY <1>5, ToType, ThenType DEF ExitIdle, Bye
<1> HIDE DEF u
<1>7. TypeOK'
    BY <1>1, <1>2, <1>6 DEF TypeOK, Writes, UserGone, roomVars
<1> QED
    BY <1>3, <1>4, <1>7 DEF IInv, RoomInv

\* The requests that only read.
LEMMA ReadStep ==
    ASSUME IInv, NEW s \in Sock,
           \/ LeaveNothing(s) \/ ListUsers(s) \/ ListChatrooms(s)
           \/ \E r \in Room : ListChatroomUsers(s, r)
    PROVE  IInv'
<1>1. CASE LeaveNothing(s)
  <2>1. /\ Msg("OPEN_SESSION_ERROR2", <<>>) \in Message
        /\ Msg("CONNECTION_ERROR", <<>>) \in Message
      BY MsgType DEF Naming, Listing, Bare
  <2> QED
      BY <1>1, <2>1, AnswerStep DEF LeaveNothing
<1>2. CASE ListUsers(s)
  <2>1. Sorted(Connected) \in Seq(Name)
      BY SortedType DEF Connected
  <2>2. Msg("USERS_LIST", Sorted(Connected)) \in Message
      BY <2>1, MsgType DEF Naming, Listing, Bare
  <2> QED
      BY <1>2, <2>2, AnswerStep DEF ListUsers
<1>3. CASE ListChatrooms(s)
  <2> DEFINE open == {r \in Room : chatrooms_map[r] # NULL}
  <2>1. Sorted(open) \in Seq(Room)
      BY SortedType
  <2>2. Msg("CHATROOMS_LIST", Sorted(open)) \in Message
      BY <2>1, MsgType DEF Naming, Listing, Bare
  <2> QED
      BY <1>3, <2>2, AnswerStep DEF ListChatrooms
<1>4. ASSUME NEW r \in Room, ListChatroomUsers(s, r)
      PROVE  IInv'
  <2> DEFINE users == rooms[chatrooms_map[r]].users
  <2>1. Msg("CHATROOM_NAME_ERROR", <<>>) \in Message
      BY MsgType DEF Naming, Listing, Bare
  <2>2. CASE chatrooms_map[r] = NULL
      BY <1>4, <2>1, <2>2, AnswerStep DEF ListChatroomUsers
  <2>3. CASE chatrooms_map[r] # NULL
    <3>1. users \in Seq(Name)
        BY <2>3 DEF IInv, TypeOK, ChatRoomObject
    <3>2. Msg("CHATROOM_USERS_LIST", users) \in Message
        BY <3>1, MsgType DEF Naming, Listing, Bare
    <3> QED
        BY <1>4, <2>3, <3>2, AnswerStep DEF ListChatroomUsers
  <2> QED
      BY <2>2, <2>3
<1> QED
    BY <1>1, <1>2, <1>3, <1>4

-------------------------------------------------------------------------------
(* The invariant, and what follows from it. *)

\* The dispatcher starts with nobody connected and no room.
LEMMA InitEstablishes == Init => IInv
<1> SUFFICES ASSUME Init PROVE IInv
    OBVIOUS
<1>1. /\ TypeOK
      /\ Connected = {}
      /\ Range(users_vector) = {}
  <2>1. <<>> \in Seq(Sock) /\ <<>> \in Seq(Name)
      OBVIOUS
  <2>2. rooms \in [RoomId -> ChatRoomObject]
      BY <2>1 DEF Init, ChatRoomObject
  <2>3. sent \in Writes
      BY ToType DEF Init
  <2>4. Connected = {}
      BY DEF Init, Connected
  <2>5. Range(users_vector) = {}
    <3>1. DOMAIN users_vector = {}
        BY DEF Init
    <3> QED
        BY <3>1 DEF Range
  <2>6. TypeOK
      BY <2>1, <2>2, <2>3 DEF Init, TypeOK, Writes
  <2> QED
      BY <2>4, <2>5, <2>6
<1>2. SocketsMatch
    BY <1>1 DEF SocketsMatch
<1>3. RoomInv
    BY NullIsNothing DEF Init, RoomInv, PointersLead, OwnerIsListed, OwnerHoldsLiveRoom
<1> QED
    BY <1>1, <1>2, <1>3 DEF IInv, RoomInv

\* Every step preserves the invariant: one case per handler.
LEMMA StepPreserves == IInv /\ [Next]_vars => IInv'
<1> SUFFICES ASSUME IInv, [Next]_vars
             PROVE  IInv'
    OBVIOUS
<1>1. CASE UNCHANGED vars
  <2>1. TypeOK'
      BY <1>1 DEF IInv, TypeOK, vars, userVars, roomVars, sockVars
  <2>2. SocketsMatch' /\ RoomInv'
      BY <1>1, SocketsKept, RoomsKept, IInvParts DEF vars, userVars
  <2> QED
      BY <2>1, <2>2 DEF IInv, RoomInv
<1>2. ASSUME NEW s \in Sock, NEW n \in Name, AddUser(s, n)
      PROVE  IInv'
    BY <1>2, AddUserStep
<1>3. ASSUME NEW s \in Sock, Handle(s)
      PROVE  IInv'
  <2>1. CASE \E from, to \in Name : OpenSession(s, from, to)
      BY <2>1, OpenSessionStep
  <2>2. CASE CloseSession(s)
      BY <2>2, CloseSessionStep
  <2>3. CASE \E r \in Room : JoinChatroom(s, r) \/ CreateChatroom(s, r)
      BY <2>3, JoinChatroomStep, CreateChatroomStep
  <2>4. CASE LeaveChatroom(s)
      BY <2>4, LeaveAsOwnerStep, LeaveAsMemberStep, ReadStep DEF LeaveChatroom
  <2>5. CASE UserExit(s)
      BY <2>5, ExitAsOwnerStep, ExitAsMemberStep, ExitFromSessionStep, ExitIdleStep,
         CrashStep DEF UserExit, BrokenPipe
  <2>6. CASE ListUsers(s) \/ ListChatrooms(s) \/ \E r \in Room : ListChatroomUsers(s, r)
      BY <2>6, ReadStep
  <2> QED
      BY <1>3, <2>1, <2>2, <2>3, <2>4, <2>5, <2>6 DEF Handle
<1> QED
    BY <1>1, <1>2, <1>3 DEF Next

\* IInv is inductive.
THEOREM Invariance == Spec => []IInv
<1>1. Init => IInv
    BY InitEstablishes
<1>2. IInv /\ [Next]_vars => IInv'
    BY StepPreserves
<1> QED
    BY <1>1, <1>2, PTL DEF Spec

\* The types hold whatever the clients send.
THEOREM TypeCorrect == Spec => []TypeOK
<1>1. IInv => TypeOK
    BY DEF IInv
<1> QED
    BY <1>1, Invariance, PTL

\* No request is taken for somebody else's, for any number of users, logins
\* and exits in any order.
THEOREM SendersAreKnown == Spec => []SenderIsKnown
<1>1. IInv => SenderIsKnown
  <2> SUFFICES ASSUME IInv, NEW s \in Range(users_vector) \ closed
               PROVE  \E n \in Name : \A m \in Name : users_map[m] = s <=> m = n
      BY DEF SenderIsKnown
  <2>1. s \in Sock /\ s # NULL
      BY NullIsNothing DEF IInv, TypeOK, Range
  <2>2. PICK n \in Connected : users_map[n] = s
      BY DEF IInv, SocketsMatch
  <2>3. \A m \in Name : users_map[m] = s => m = n
      BY <2>1, <2>2 DEF IInv, SocketsMatch, Connected
  <2> QED
      BY <2>2, <2>3 DEF Connected
<1> QED
    BY <1>1, Invariance, PTL

\* The owner of an open room is always in its vector.
THEOREM OwnersAreListed == Spec => []OwnerIsListed
<1>1. IInv => OwnerIsListed
    BY DEF IInv
<1> QED
    BY <1>1, Invariance, PTL

\* Erasing a room by its name erases the room its owner is in.
THEOREM OwnersHoldLiveRooms == Spec => []OwnerHoldsLiveRoom
<1>1. IInv => OwnerHoldsLiveRoom
    BY DEF IInv
<1> QED
    BY <1>1, Invariance, PTL

\* The vectors the model tries the loop with.
LEMMA VectorsOfNames == IInv => Vectors \subseteq Seq(Name)
<1> SUFFICES ASSUME IInv PROVE Vectors \subseteq Seq(Name)
    OBVIOUS
<1>1. \A list \in OpenLists : list \in Seq(Name)
  <2> SUFFICES ASSUME NEW r \in Room, chatrooms_map[r] # NULL
               PROVE  rooms[chatrooms_map[r]].users \in Seq(Name)
      BY DEF OpenLists
  <2>1. chatrooms_map[r] \in RoomId
      BY DEF IInv, TypeOK
  <2> QED
      BY <2>1 DEF IInv, TypeOK, ChatRoomObject
<1>2. \A more \in Arrivals : more \in Seq(Name)
  <2> TAKE more \in Arrivals
  <2>1. PICK k \in 0..MoreUsers : more \in [1..k -> Name]
      BY DEF Arrivals
  <2>2. k \in Nat
      BY DEF MoreUsers
  <2> QED
      BY <2>1, <2>2
<1>3. \A list \in OpenLists : \A more \in Arrivals : list \o more \in Seq(Name)
    BY <1>1, <1>2, ConcatProperties
<1> SUFFICES ASSUME NEW v \in Vectors PROVE v \in Seq(Name)
    OBVIOUS
<1>4. \E list \in OpenLists, more \in Arrivals : v = list \o more
    BY DEF Vectors
<1> QED
    BY <1>3, <1>4

\* The closed form that the handlers use is the code's loop, for the vector of every open
\* room and whatever joins it.
THEOREM HandlersRemoveAsTheLoop == Spec => []RemoveIsLoop
<1>1. IInv => RemoveIsLoop
    BY VectorsOfNames, RemovesAsTheLoop DEF RemoveIsLoop
<1> QED
    BY <1>1, Invariance, PTL

\* Whoever leaves a room, the others stay in it as they are, in their order.
THEOREM OthersKeepPlace == Spec => []OthersKeepTheirPlace
<1>1. IInv => OthersKeepTheirPlace
  <2> SUFFICES ASSUME IInv, NEW list \in Vectors, NEW user \in Name
               PROVE  OthersIn(remove_user(list, user), user) = OthersIn(list, user)
      BY DEF OthersKeepTheirPlace
  <2>1. list \in Seq(Name)
      BY VectorsOfNames
  <2> QED
      BY <2>1, OthersStay
<1> QED
    BY <1>1, Invariance, PTL
===============================================================================
