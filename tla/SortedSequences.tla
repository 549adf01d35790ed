-------------------------- MODULE SortedSequences --------------------------
(***************************************************************************)
(* Facts about ORDER BY with LIMIT and OFFSET.  R is the order, a set of   *)
(* pairs, and S the finite set of rows that are sorted by it.  Place is    *)
(* the position of a row in the answer, counted from the rows before it;   *)
(* the lemmas say that places are the positions of the sorted sequence,    *)
(* how they move when a row leaves S or joins it, and what a page adds to  *)
(* the copies of a row that were sent before it.                           *)
(***************************************************************************)
EXTENDS Integers, Sequences, FiniteSets, FiniteSetTheorems, SequenceTheorems, TLAPS

\* There are n positions from 1 to n.
LEMMA PositionsCount ==
    ASSUME NEW n \in Nat
    PROVE  IsFiniteSet(1..n) /\ Cardinality(1..n) = n
BY FS_Interval

-----------------------------------------------------------------------------

Orders(R, S) ==
    /\ \A x \in S : <<x, x>> \notin R
    /\ \A x, y, z \in S : <<x, y>> \in R /\ <<y, z>> \in R => <<x, z>> \in R
    /\ \A x, y \in S : x # y => <<x, y>> \in R \/ <<y, x>> \in R

Before(R, S, x) == {y \in S : <<y, x>> \in R}

Place(R, S, x) == Cardinality(Before(R, S, x)) + 1

\* s is S sorted by R.
Sorted(R, S, s) == /\ s \in [1..Cardinality(S) -> S]
                   /\ \A k \in 1..Cardinality(S) : Place(R, S, s[k]) = k

-----------------------------------------------------------------------------

\* A row has one of the positions of the answer.
LEMMA PlaceIsPosition ==
    ASSUME NEW R, NEW S, IsFiniteSet(S), NEW x \in S, <<x, x>> \notin R
    PROVE  /\ IsFiniteSet(Before(R, S, x)) /\ Cardinality(S) \in Nat
           /\ Place(R, S, x) \in 1..Cardinality(S)
<1>1. Before(R, S, x) \in SUBSET S /\ Before(R, S, x) # S BY DEF Before
<1>2. /\ IsFiniteSet(Before(R, S, x))
      /\ Cardinality(Before(R, S, x)) <= Cardinality(S)
      /\ Cardinality(Before(R, S, x)) # Cardinality(S)
  BY <1>1, FS_Subset
<1>3. Cardinality(Before(R, S, x)) \in Nat /\ Cardinality(S) \in Nat
  BY <1>2, FS_CardinalityType
<1> QED BY <1>2, <1>3 DEF Place

\* The place of a row, as the count of the rows before it.
LEMMA RankIsPlace ==
    ASSUME NEW R, NEW S, IsFiniteSet(S), NEW x \in S, NEW k \in 1..Cardinality(S)
    PROVE  Place(R, S, x) = k <=> Cardinality(Before(R, S, x)) = k - 1
<1>1. IsFiniteSet(Before(R, S, x))
  <2>1. Before(R, S, x) \in SUBSET S BY DEF Before
  <2> QED BY <2>1, FS_Subset
<1>2. Cardinality(Before(R, S, x)) \in Nat /\ Cardinality(S) \in Nat BY <1>1, FS_CardinalityType
<1> QED BY <1>2 DEF Place

\* A row that precedes another has the smaller place.
LEMMA PlaceFollowsOrder ==
    ASSUME NEW R, NEW S, IsFiniteSet(S), Orders(R, S),
           NEW x \in S, NEW y \in S, <<x, y>> \in R
    PROVE  Place(R, S, x) < Place(R, S, y)
<1>1. Before(R, S, x) \in SUBSET Before(R, S, y) BY DEF Before, Orders
<1>2. x \in Before(R, S, y) /\ x \notin Before(R, S, x) BY DEF Before, Orders
<1>3. IsFiniteSet(Before(R, S, y)) BY PlaceIsPosition DEF Orders
<1>4. /\ Cardinality(Before(R, S, x)) <= Cardinality(Before(R, S, y))
      /\ Cardinality(Before(R, S, x)) # Cardinality(Before(R, S, y))
  <2>1. /\ Cardinality(Before(R, S, x)) <= Cardinality(Before(R, S, y))
        /\ Cardinality(Before(R, S, y)) = Cardinality(Before(R, S, x)) =>
             Before(R, S, y) = Before(R, S, x)
    BY <1>1, <1>3, FS_Subset
  <2> QED BY <2>1, <1>2
<1>5. Place(R, S, x) \in 1..Cardinality(S) /\ Place(R, S, y) \in 1..Cardinality(S)
      /\ Cardinality(S) \in Nat
  BY PlaceIsPosition DEF Orders
<1>6. Cardinality(Before(R, S, x)) \in Nat /\ Cardinality(Before(R, S, y)) \in Nat
  BY <1>1, <1>3, FS_Subset, FS_CardinalityType
<1> QED BY <1>4, <1>6 DEF Place

\* No two rows have the same place.
LEMMA PlaceIsUnique ==
    ASSUME NEW R, NEW S, IsFiniteSet(S), Orders(R, S),
           NEW x \in S, NEW y \in S, Place(R, S, x) = Place(R, S, y)
    PROVE  x = y
<1> SUFFICES ASSUME x # y PROVE FALSE OBVIOUS
<1>1. Place(R, S, x) \in Int
  <2>1. <<x, x>> \notin R BY DEF Orders
  <2>2. Place(R, S, x) \in 1..Cardinality(S) /\ Cardinality(S) \in Nat
    BY <2>1, PlaceIsPosition
  <2> QED BY <2>2
<1>2. CASE <<x, y>> \in R BY <1>1, <1>2, PlaceFollowsOrder
<1>3. CASE <<y, x>> \in R BY <1>1, <1>3, PlaceFollowsOrder
<1> QED BY <1>2, <1>3 DEF Orders

\* Every position is the place of a row.
LEMMA PlacesAreTaken ==
    ASSUME NEW R, NEW S, IsFiniteSet(S), Orders(R, S), NEW k \in 1..Cardinality(S)
    PROVE  \E x \in S : Place(R, S, x) = k
<1> DEFINE n == Cardinality(S)
           f == [x \in S |-> Place(R, S, x)]
<1>1. n \in Nat BY FS_CardinalityType
<1>2. f \in [S -> 1..n] BY PlaceIsPosition DEF Orders
<1>3. \A x, y \in S : f[x] = f[y] => x = y BY PlaceIsUnique
<1>4. f \in Injection(S, 1..n) BY <1>2, <1>3 DEF Injection, IsInjective
<1>5. IsFiniteSet(1..n) /\ Cardinality(1..n) = n BY <1>1, FS_Interval
<1>6. f \in Surjection(S, 1..n) BY <1>4, <1>5, FS_Injection
<1>7. \A j \in 1..n : \E x \in S : f[x] = j BY <1>6 DEF Surjection
<1> QED BY <1>7

\* The sorted sequence has each row at its place, and nowhere else.
LEMMA SortedAtPlace ==
    ASSUME NEW R, NEW S, IsFiniteSet(S), Orders(R, S), NEW s, Sorted(R, S, s),
           NEW x \in S, NEW k \in 1..Cardinality(S)
    PROVE  s[k] = x <=> k = Place(R, S, x)
<1>1. s[k] \in S /\ Place(R, S, s[k]) = k BY DEF Sorted
<1> QED BY <1>1, PlaceIsUnique

\* The sorted sequence is S in a row, each once.
LEMMA SortedIsBijection ==
    ASSUME NEW R, NEW S, IsFiniteSet(S), Orders(R, S), NEW s, Sorted(R, S, s)
    PROVE  s \in Bijection(1..Cardinality(S), S)
<1> PICK n : n = Cardinality(S) OBVIOUS
<1>1. s \in [1..n -> S] /\ \A k \in 1..n : Place(R, S, s[k]) = k BY DEF Sorted
<1>2. \A j, k \in 1..n : s[j] = s[k] => j = k BY <1>1
<1>3. ASSUME NEW x \in S PROVE \E k \in 1..n : s[k] = x
  <2>1. <<x, x>> \notin R BY DEF Orders
  <2>2. Place(R, S, x) \in 1..Cardinality(S) BY <2>1, PlaceIsPosition
  <2>3. s[Place(R, S, x)] = x BY <2>2, SortedAtPlace
  <2> QED BY <2>2, <2>3
<1>4. s \in Injection(1..n, S) BY <1>1, <1>2 DEF Injection, IsInjective
<1>5. s \in Surjection(1..n, S) BY <1>1, <1>3 DEF Surjection
<1> QED BY <1>4, <1>5 DEF Bijection

\* A part of S stands at as many positions as it has rows.
LEMMA PositionsOf ==
    ASSUME NEW n \in Nat, NEW S, NEW s \in Bijection(1..n, S), NEW B \in SUBSET S
    PROVE  Cardinality({k \in 1..n : s[k] \in B}) = Cardinality(B)
<1> DEFINE K == {k \in 1..n : s[k] \in B}
           f == [k \in K |-> s[k]]
<1>1. /\ s \in [1..n -> S]
      /\ \A x, y \in 1..n : s[x] = s[y] => x = y
      /\ \A y \in S : \E x \in 1..n : s[x] = y
  BY DEF Bijection, Injection, Surjection, IsInjective
<1>2. f \in [K -> B] OBVIOUS
<1>3. \A x, y \in K : f[x] = f[y] => x = y BY <1>1
<1>4. \A y \in B : \E x \in K : f[x] = y BY <1>1
<1>5. IsFiniteSet(1..n) /\ K \in SUBSET (1..n) BY PositionsCount
<1> HIDE DEF K, f
<1>6. f \in Bijection(K, B) BY <1>2, <1>3, <1>4 DEF Bijection, Injection, Surjection, IsInjective
<1>7. IsFiniteSet(K) BY <1>5, FS_Subset
<1>8. Cardinality(B) = Cardinality(K) BY <1>6, <1>7, FS_Bijection DEF ExistsBijection
<1> QED BY <1>8 DEF K

\* There is one way to sort.
LEMMA SortedIsUnique ==
    ASSUME NEW R, NEW S, IsFiniteSet(S), Orders(R, S), NEW s, NEW t,
           Sorted(R, S, s), Sorted(R, S, t)
    PROVE  s = t
<1>1. \A k \in 1..Cardinality(S) : s[k] = t[k]
  <2> SUFFICES ASSUME NEW k \in 1..Cardinality(S) PROVE s[k] = t[k] OBVIOUS
  <2>1. t[k] \in S /\ Place(R, S, t[k]) = k BY DEF Sorted
  <2>2. PICK x \in S : x = t[k] BY <2>1
  <2>3. s[k] = x BY <2>1, <2>2, SortedAtPlace
  <2> QED BY <2>2, <2>3
<1>2. s \in [1..Cardinality(S) -> S] /\ t \in [1..Cardinality(S) -> S] BY DEF Sorted
<1>3. s = [k \in 1..Cardinality(S) |-> s[k]] /\ t = [k \in 1..Cardinality(S) |-> t[k]]
  BY <1>2
<1> QED BY <1>1, <1>3, Zenon

-----------------------------------------------------------------------------

\* A subset is ordered too.
LEMMA OrdersSubset ==
    ASSUME NEW R, NEW S, NEW T \in SUBSET S, Orders(R, S)
    PROVE  Orders(R, T)
<1>1. \A x \in T : <<x, x>> \notin R BY DEF Orders
<1>2. \A x, y \in T : x # y => <<x, y>> \in R \/ <<y, x>> \in R BY DEF Orders
<1>3. \A x, y, z \in T : <<x, y>> \in R /\ <<y, z>> \in R => <<x, z>> \in R
  <2> SUFFICES ASSUME NEW x \in T, NEW y \in T, NEW z \in T, <<x, y>> \in R, <<y, z>> \in R
               PROVE  <<x, z>> \in R
    OBVIOUS
  <2>1. x \in S /\ y \in S /\ z \in S OBVIOUS
  <2> QED BY <2>1 DEF Orders
<1> QED BY <1>1, <1>2, <1>3 DEF Orders

\* A row that leaves moves up those behind it.
LEMMA PlaceWithout ==
    ASSUME NEW R, NEW S, IsFiniteSet(S), NEW o \in S, NEW x \in S \ {o}
    PROVE  Place(R, S \ {o}, x) =
              IF <<o, x>> \in R THEN Place(R, S, x) - 1 ELSE Place(R, S, x)
<1>1. IsFiniteSet(Before(R, S, x)) BY FS_Subset DEF Before
<1>2. Before(R, S \ {o}, x) = Before(R, S, x) \ {o} BY DEF Before
<1>3. Cardinality(Before(R, S, x)) \in Nat BY <1>1, FS_CardinalityType
<1>4. Cardinality(Before(R, S, x) \ {o}) =
        IF o \in Before(R, S, x) THEN Cardinality(Before(R, S, x)) - 1
                                 ELSE Cardinality(Before(R, S, x))
  BY <1>1, FS_RemoveElement
<1>5. o \in Before(R, S, x) <=> <<o, x>> \in R BY DEF Before
<1>6. CASE <<o, x>> \in R
  <2>1. Cardinality(Before(R, S \ {o}, x)) = Cardinality(Before(R, S, x)) - 1
    BY <1>2, <1>4, <1>5, <1>6
  <2> QED BY <1>3, <1>6, <2>1 DEF Place
<1>7. CASE <<o, x>> \notin R
  <2>1. Place(R, S \ {o}, x) = Place(R, S, x) BY <1>2, <1>4, <1>5, <1>7 DEF Place
  <2> QED BY <1>7, <2>1
<1> QED BY <1>6, <1>7

\* A row that joins moves down those behind it.
LEMMA PlaceWith ==
    ASSUME NEW R, NEW S, IsFiniteSet(S), NEW n, n \notin S, NEW x \in S
    PROVE  Place(R, S \cup {n}, x) =
              IF <<n, x>> \in R THEN Place(R, S, x) + 1 ELSE Place(R, S, x)
<1>1. IsFiniteSet(Before(R, S, x)) BY FS_Subset DEF Before
<1>3. Cardinality(Before(R, S, x)) \in Nat BY <1>1, FS_CardinalityType
<1>4. CASE <<n, x>> \in R
  <2>1. Before(R, S \cup {n}, x) = Before(R, S, x) \cup {n} BY <1>4 DEF Before
  <2>2. n \notin Before(R, S, x) BY DEF Before
  <2>3. Cardinality(Before(R, S, x) \cup {n}) = Cardinality(Before(R, S, x)) + 1
    BY <1>1, <2>2, FS_AddElement
  <2> QED BY <1>3, <1>4, <2>1, <2>3 DEF Place
<1>5. CASE <<n, x>> \notin R
  <2>1. Before(R, S \cup {n}, x) = Before(R, S, x) BY <1>5 DEF Before
  <2> QED BY <1>5, <2>1 DEF Place
<1> QED BY <1>4, <1>5

-----------------------------------------------------------------------------
(* A sequence of rows, each at its place.                                  *)

\* A sequence that has every row once, none before one that precedes it, is sorted.
LEMMA InOrderIsSorted ==
    ASSUME NEW R, NEW S, IsFiniteSet(S), Orders(R, S),
           NEW s \in [1..Cardinality(S) -> S],
           \A a, b \in 1..Cardinality(S) : a # b => s[a] # s[b],
           \A a, b \in 1..Cardinality(S) : a < b => <<s[b], s[a]>> \notin R
    PROVE  Sorted(R, S, s)
<1> PICK n : n = Cardinality(S) OBVIOUS
<1>1. n \in Nat BY FS_CardinalityType
<1>2. IsFiniteSet(1..n) /\ Cardinality(1..n) = n BY <1>1, FS_Interval
<1>3. s \in Injection(1..n, S) BY DEF Injection, IsInjective
<1>4. s \in Surjection(1..n, S) BY <1>2, <1>3, FS_Injection
<1>5. \A x \in S : \E j \in 1..n : s[j] = x BY <1>4 DEF Surjection
<1>6. ASSUME NEW k \in 1..n PROVE Place(R, S, s[k]) = k
  <2> DEFINE B == Before(R, S, s[k])
             f == [j \in 1..k - 1 |-> s[j]]
  <2>1. \A j \in 1..k - 1 : j \in 1..n BY <1>1
  <2>2. \A j \in 1..n : s[j] \in B <=> j < k
    <3> SUFFICES ASSUME NEW j \in 1..n PROVE <<s[j], s[k]>> \in R <=> j < k BY DEF Before
    <3>1. s[j] \in S /\ s[k] \in S OBVIOUS
    <3>2. CASE j < k
      <4>1. <<s[k], s[j]>> \notin R /\ s[j] # s[k] BY <3>2
      <4> QED BY <3>1, <3>2, <4>1 DEF Orders
    <3>3. CASE j = k BY <3>1, <3>3 DEF Orders
    <3>4. CASE k < j BY <3>4
    <3> QED BY <1>1, <3>2, <3>3, <3>4
  <2>3. B \subseteq S BY DEF Before
  <2> HIDE DEF B
  <2>4. f \in [1..k - 1 -> B] BY <2>1, <2>2
  <2>5. f \in Injection(1..k - 1, B) BY <2>1, <2>4 DEF Injection, IsInjective
  <2>6. \A x \in B : \E j \in 1..k - 1 : f[j] = x
    <3> SUFFICES ASSUME NEW x \in B PROVE \E j \in 1..k - 1 : f[j] = x OBVIOUS
    <3>1. PICK j \in 1..n : s[j] = x BY <1>5, <2>3
    <3>2. j < k BY <2>2, <3>1
    <3> QED BY <1>1, <3>1, <3>2
  <2>7. f \in Surjection(1..k - 1, B) BY <2>4, <2>6 DEF Surjection
  <2>8. IsFiniteSet(1..k - 1) /\ Cardinality(1..k - 1) = k - 1
    <3>1. PICK m \in Nat : m = k - 1 BY <1>1
    <3>2. IsFiniteSet(1..m) /\ Cardinality(1..m) = m BY FS_Interval
    <3> QED BY <3>1, <3>2
  <2>9. Cardinality(B) = k - 1 BY <2>5, <2>7, <2>8, FS_Surjection
  <2> QED BY <1>1, <2>9 DEF B, Place
<1> QED BY <1>6 DEF Sorted

-----------------------------------------------------------------------------
(* Pages put one after the other.                                          *)

SentAt(sent, x) == {k \in DOMAIN sent : sent[k] = x}

\* The rows of s from the offset on, as far as piece goes, with n rows in s.
Piece(s, n, offset, piece) ==
    /\ piece # <<>> => offset + Len(piece) <= n
    /\ \A j \in 1..Len(piece) : piece[j] = s[offset + j]

\* What a piece of the result, from the offset on, adds to the copies of a record.
LEMMA SentGrows ==
    ASSUME NEW R, NEW W, IsFiniteSet(W), Orders(R, W), NEW s, Sorted(R, W, s),
           NEW T, NEW sent \in Seq(T), NEW piece \in Seq(T), NEW offset \in Nat,
           Piece(s, Cardinality(W), offset, piece),
           NEW x \in W
    PROVE  LET here == offset < Place(R, W, x) /\ Place(R, W, x) <= offset + Len(piece)
           IN  /\ IsFiniteSet(SentAt(sent, x)) /\ Cardinality(SentAt(sent, x)) \in Nat
               /\ here => /\ SentAt(sent \o piece, x) # {}
                          /\ Cardinality(SentAt(sent \o piece, x)) =
                                Cardinality(SentAt(sent, x)) + 1
               /\ ~here => SentAt(sent \o piece, x) = SentAt(sent, x)
<1> DEFINE here == offset < Place(R, W, x) /\ Place(R, W, x) <= offset + Len(piece)
           at == Len(sent) + Place(R, W, x) - offset
<1>1. /\ DOMAIN sent = 1..Len(sent) /\ Len(sent) \in Nat
      /\ DOMAIN piece = 1..Len(piece) /\ Len(piece) \in Nat
      /\ Len(sent \o piece) = Len(sent) + Len(piece)
      /\ DOMAIN (sent \o piece) = 1..Len(sent) + Len(piece)
  OBVIOUS
<1>2. \A k \in 1..Len(sent) + Len(piece) : (sent \o piece)[k] =
         IF k <= Len(sent) THEN sent[k] ELSE piece[k - Len(sent)]
  BY ConcatProperties
<1>3. Place(R, W, x) \in 1..Cardinality(W) /\ Cardinality(W) \in Nat
  <2>1. <<x, x>> \notin R BY DEF Orders
  <2> QED BY <2>1, PlaceIsPosition
<1>4. \A j \in 1..Len(piece) : piece[j] = x <=> offset + j = Place(R, W, x)
  <2> SUFFICES ASSUME NEW j \in 1..Len(piece)
               PROVE  piece[j] = x <=> offset + j = Place(R, W, x)
    OBVIOUS
  <2>1. piece # <<>> BY <1>1
  <2>2. PICK k \in 1..Cardinality(W) : k = offset + j BY <1>1, <1>3, <2>1 DEF Piece
  <2>3. piece[j] = s[k] BY <2>2 DEF Piece
  <2>4. s[k] = x <=> k = Place(R, W, x) BY SortedAtPlace
  <2> QED BY <2>2, <2>3, <2>4
<1>5. IsFiniteSet(SentAt(sent, x)) /\ Cardinality(SentAt(sent, x)) \in Nat
  <2>1. SentAt(sent, x) \in SUBSET (1..Len(sent)) BY <1>1 DEF SentAt
  <2>2. IsFiniteSet(1..Len(sent)) BY <1>1, FS_Interval
  <2> QED BY <2>1, <2>2, FS_Subset, FS_CardinalityType
<1>6. ASSUME here
      PROVE  SentAt(sent \o piece, x) = SentAt(sent, x) \cup {at} /\ at \notin SentAt(sent, x)
  <2>1. at \in Len(sent) + 1..Len(sent) + Len(piece) /\ at - Len(sent) \in 1..Len(piece)
        /\ offset + (at - Len(sent)) = Place(R, W, x)
    <3>1. PICK p \in Nat : p = Place(R, W, x) BY <1>3
    <3>2. Len(sent) \in Nat /\ Len(piece) \in Nat BY <1>1
    <3>3. offset < p /\ p <= offset + Len(piece) BY <1>6, <3>1
    <3>4. at = Len(sent) + p - offset BY <3>1
    <3> HIDE DEF at
    <3> QED BY <3>1, <3>2, <3>3, <3>4
  <2>2. (sent \o piece)[at] = x BY <1>1, <1>2, <1>4, <2>1
  <2>3. \A k \in 1..Len(sent) + Len(piece) : k > Len(sent) /\ (sent \o piece)[k] = x => k = at
    <3> SUFFICES ASSUME NEW k \in 1..Len(sent) + Len(piece), k > Len(sent),
                        (sent \o piece)[k] = x
                 PROVE  k = at
      OBVIOUS
    <3>1. PICK j \in 1..Len(piece) : k = Len(sent) + j BY <1>1
    <3>2. piece[j] = x BY <1>1, <1>2, <3>1
    <3>3. offset + j = Place(R, W, x) BY <1>4, <3>2
    <3> QED BY <1>1, <1>3, <3>1, <3>3
  <2>4. \A k \in 1..Len(sent) : (sent \o piece)[k] = sent[k] BY <1>1, <1>2
  <2> HIDE DEF at
  <2>5. at \notin 1..Len(sent) /\ at \in 1..Len(sent) + Len(piece) BY <1>1, <2>1
  <2> QED BY <1>1, <2>2, <2>3, <2>4, <2>5 DEF SentAt
<1>7. ASSUME ~here
      PROVE  SentAt(sent \o piece, x) = SentAt(sent, x)
  <2>1. \A k \in 1..Len(sent) + Len(piece) : k > Len(sent) => (sent \o piece)[k] # x
    <3> SUFFICES ASSUME NEW k \in 1..Len(sent) + Len(piece), k > Len(sent),
                        (sent \o piece)[k] = x
                 PROVE  FALSE
      OBVIOUS
    <3>1. PICK j \in 1..Len(piece) : k = Len(sent) + j BY <1>1
    <3>2. piece[j] = x BY <1>1, <1>2, <3>1
    <3>3. offset + j = Place(R, W, x) BY <1>4, <3>2
    <3> QED BY <1>1, <1>3, <1>7, <3>3
  <2>2. \A k \in 1..Len(sent) : (sent \o piece)[k] = sent[k] BY <1>1, <1>2
  <2> QED BY <1>1, <2>1, <2>2 DEF SentAt
<1>8. here => Cardinality(SentAt(sent \o piece, x)) = Cardinality(SentAt(sent, x)) + 1
  BY <1>5, <1>6, FS_AddElement
<1> HIDE DEF at, here
<1>9. here => SentAt(sent \o piece, x) # {} BY <1>6
<1> QED BY <1>5, <1>7, <1>8, <1>9 DEF here
=============================================================================
