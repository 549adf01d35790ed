------------------------- MODULE CommentTreeProofs -------------------------
(***************************************************************************)
(* Proofs about the table of CommentTree and the pages over it, for any    *)
(* number of comments: the cascade of Delete, given as the least set       *)
(* closed under replies, leaves no reply behind, no chain of parents goes  *)
(* round except from a comment to itself, and a client that walks the      *)
(* pages of a list, when the order tells the comments apart and none       *)
(* leaves the list, misses nothing and sees a comment again only for one   *)
(* that joined before it.  The nested answer of GetSubtree is the tree of  *)
(* the reference: each comment below the root has one path, ORDER BY path  *)
(* keeps replies by their ids, and the two recursions have solutions that  *)
(* agree from the last level upwards.                                      *)
(***************************************************************************)
EXTENDS CommentTree, SortedSequences, WellFoundedInduction

\* The ids of the table, and those that are not to be seen yet, come from the sequence.
IdsAreGiven == /\ lastId \in Nat /\ inserting \in SUBSET (1..lastId)
               /\ \A i \in DOMAIN comments : i \in 1..lastId /\ i \notin inserting

\* Parents within a set of comments come to an end in it only at a comment that is its
\* own parent.
NoCircle ==
    \A S \in SUBSET DOMAIN comments :
        S # {} /\ (\A i \in S : comments[i].parent \in S) => \E i \in S : comments[i].parent = i

IInv == IdsAreGiven /\ RepliesHaveParents /\ NoCircle

-----------------------------------------------------------------------------

\* What Delete removes is closed: with a comment go its replies.
LEMMA BelowIsClosed ==
    ASSUME NEW c \in DOMAIN comments, NEW y \in DOMAIN comments, comments[y].parent \in Below(c)
    PROVE  y \in Below(c)
BY DEF Below

LEMMA InitHolds == Init => IInv
BY DEF Init, IInv, IdsAreGiven, RepliesHaveParents, NoCircle

\* The row that a Create adds, and nothing else.
Adds(i, p, t, k) ==
    /\ DOMAIN comments' = DOMAIN comments \cup {i}
    /\ \A j \in DOMAIN comments : comments'[j] = comments[j]
    /\ comments'[i] = [parent |-> p, created |-> t, rank |-> k]
    /\ lastId' = lastId /\ inserting' = inserting \ {i}
    /\ p \in DOMAIN comments \cup {NoParent, i}
    /\ walk.pc # "done"
    /\ walk' = IF walk.pc # "none" /\ InList(walk.list, comments'[i])
               THEN [walk EXCEPT !.joined = walk.joined \cup {i}] ELSE walk

LEMMA CreateAdds ==
    ASSUME NEW i, NEW p, NEW t, NEW k, Create(i, p, t, k), i \notin DOMAIN comments
    PROVE  Adds(i, p, t, k)
<1> DEFINE row == [parent |-> p, created |-> t, rank |-> k]
<1>1. comments' = [j \in DOMAIN comments \cup {i} |-> IF j = i THEN row ELSE comments[j]]
  BY DEF Create
<1>2. comments'[i] = row BY <1>1
<1>3. walk' = IF walk.pc # "none" /\ InList(walk.list, row)
              THEN [walk EXCEPT !.joined = walk.joined \cup {i}] ELSE walk
  BY DEF Create, NoteJoined
<1> QED BY <1>1, <1>2, <1>3 DEF Create, MayChange, Adds

LEMMA CreateKeeps ==
    ASSUME IInv, NEW i \in Ids, NEW p \in 0..MaxId, NEW t \in 1..MaxTime, NEW k \in {0, 1},
           Create(i, p, t, k)
    PROVE  IInv'
<1>1. i \in inserting /\ i \notin DOMAIN comments BY DEF Create, IInv, IdsAreGiven
<1>2. /\ DOMAIN comments' = DOMAIN comments \cup {i}
      /\ \A j \in DOMAIN comments : comments'[j].parent = comments[j].parent
      /\ comments'[i].parent = p
      /\ lastId' = lastId /\ inserting' = inserting \ {i}
      /\ p \in DOMAIN comments \cup {NoParent, i}
  <2>1. Adds(i, p, t, k) BY <1>1, CreateAdds
  <2> QED BY <2>1 DEF Adds
<1>3. IdsAreGiven' BY <1>1, <1>2 DEF IInv, IdsAreGiven
<1>4. RepliesHaveParents' BY <1>2 DEF IInv, RepliesHaveParents
<1>5. NoCircle'
  <2> SUFFICES ASSUME NEW S \in SUBSET DOMAIN comments', S # {},
                      \A j \in S : comments'[j].parent \in S
               PROVE  \E j \in S : comments'[j].parent = j
    BY DEF NoCircle
  <2>1. i # NoParent BY <1>1 DEF IInv, IdsAreGiven, NoParent
  <2>2. CASE S \subseteq {i} BY <2>2
  <2>3. CASE ~(S \subseteq {i})
    <3> DEFINE T == S \ {i}
    <3>1. T \in SUBSET DOMAIN comments /\ T # {} BY <1>2, <2>3
    <3>2. ASSUME NEW j \in T PROVE comments[j].parent \in T
      <4>1. j \in DOMAIN comments /\ comments[j].parent \in S BY <1>2, <3>1
      <4>2. comments[j].parent \in DOMAIN comments \cup {NoParent}
        BY <4>1 DEF IInv, RepliesHaveParents
      <4> QED BY <1>1, <2>1, <4>1, <4>2
    <3> HIDE DEF T
    <3>3. PICK j \in T : comments[j].parent = j BY <3>1, <3>2 DEF IInv, NoCircle
    <3> QED BY <1>2, <3>1, <3>3 DEF T
  <2> QED BY <2>2, <2>3
<1> QED BY <1>3, <1>4, <1>5 DEF IInv

LEMMA DeleteKeeps == ASSUME IInv, NEW c \in Ids, Delete(c) PROVE IInv'
<1>1. /\ c \in DOMAIN comments /\ lastId' = lastId /\ inserting' = inserting
      /\ DOMAIN comments' = DOMAIN comments \ Below(c)
      /\ \A i \in DOMAIN comments' : comments'[i] = comments[i]
  BY DEF Delete
<1>2. IdsAreGiven' BY <1>1 DEF IInv, IdsAreGiven
<1>3. \A i \in DOMAIN comments' : comments[i].parent \notin Below(c)
  BY <1>1, BelowIsClosed
<1>4. RepliesHaveParents' BY <1>1, <1>3 DEF IInv, RepliesHaveParents
<1>5. NoCircle'
  <2> SUFFICES ASSUME NEW S \in SUBSET DOMAIN comments', S # {},
                      \A j \in S : comments'[j].parent \in S
               PROVE  \E j \in S : comments'[j].parent = j
    BY DEF NoCircle
  <2>1. S \in SUBSET DOMAIN comments /\ \A j \in S : comments'[j].parent = comments[j].parent
    BY <1>1
  <2> QED BY <2>1 DEF IInv, NoCircle
<1> QED BY <1>2, <1>4, <1>5 DEF IInv

LEMMA NextKeeps == ASSUME IInv, [Next]_vars PROVE IInv'
<1>1. CASE Insert
  <2>1. /\ comments' = comments /\ lastId' = lastId + 1
        /\ inserting' = inserting \cup {lastId + 1}
    BY <1>1 DEF Insert
  <2>2. IdsAreGiven' BY <2>1 DEF IInv, IdsAreGiven
  <2> QED BY <2>1, <2>2 DEF IInv, RepliesHaveParents, NoCircle
<1>2. ASSUME NEW i \in Ids, NEW p \in Ids, CreateRefused(i, p) PROVE IInv'
  <2>1. comments' = comments /\ lastId' = lastId /\ inserting' = inserting \ {i}
    BY <1>2 DEF CreateRefused
  <2> QED BY <2>1 DEF IInv, IdsAreGiven, RepliesHaveParents, NoCircle
<1>3. ASSUME UNCHANGED <<comments, lastId, inserting>> PROVE IInv'
  BY <1>3 DEF IInv, IdsAreGiven, RepliesHaveParents, NoCircle
<1>4. ASSUME NEW list \in Lists, NEW sort \in Sorts(list), NEW order \in {"asc", "desc"},
             NEW limit \in 1..MaxLimit, StartWalk(list, sort, order, limit)
      PROVE  IInv'
  BY <1>3, <1>4 DEF StartWalk
<1>5. CASE NextPage BY <1>3, <1>5 DEF NextPage
<1>6. CASE UNCHANGED vars BY <1>3, <1>6 DEF vars
<1> QED BY <1>1, <1>2, <1>4, <1>5, <1>6, CreateKeeps, DeleteKeeps DEF Next

LEMMA TableIsSound == Spec => []IInv
<1>1. IInv /\ [Next]_vars => IInv' BY NextKeeps
<1> QED BY InitHolds, <1>1, PTL DEF Spec

\* No reply is ever without its parent: a reply is refused when the parent is gone,
\* and goes when the parent, or any comment above it, is deleted.
THEOREM ParentsStay == Spec => []RepliesHaveParents
<1>1. IInv => RepliesHaveParents BY DEF IInv
<1> QED BY TableIsSound, <1>1, PTL

\* Whatever order INSERTs commit in, replies never go round in a circle of two or more:
\* of the comments of a circle the first to commit would have had no parent to refer to.
THEOREM CirclesAreSelfReferences == Spec => []NoCircle
<1>1. IInv => NoCircle BY DEF IInv
<1> QED BY TableIsSound, <1>1, PTL

-----------------------------------------------------------------------------
(* The walk over the pages.                                                *)

RowOrder(list, sort, order) == {p \in Ids \X Ids : Precedes(list, sort, order, p[1], p[2])}

JoinedOf(R, joined, x) == {j \in joined : <<j, x>> \in R}

\* The accounts of a walk over the rows S in the order R: a row that was there at the
\* start has been sent when the offset has passed its place, and a row was sent once for
\* that, and once for each row that joined before it.
Explained(R, S, start, joined, seen, offset) ==
    /\ S = start \cup joined
    /\ \A k \in DOMAIN seen : seen[k] \in S
    /\ \A x \in start : Place(R, S, x) <= offset => SentAt(seen, x) # {}
    /\ \A x \in S : Cardinality(SentAt(seen, x)) <=
                       Cardinality(JoinedOf(R, joined, x))
                       + IF Place(R, S, x) <= offset THEN 1 ELSE 0

\* While the walk goes on its accounts are settled, however many comments have joined.
WalkIsExplained ==
    walk.pc = "walking" /\ ~walk.left /\ NoTies(walk.list, walk.sort, walk.order) =>
        Explained(RowOrder(walk.list, walk.sort, walk.order), Listed(walk.list),
                  walk.start, walk.joined, walk.seen, walk.offset)

\* The end of a walk is told by the property itself.
WalkInv == TypeOK /\ WalkIsExplained /\ PagesWhileGrowing

-----------------------------------------------------------------------------
(* The list, its order and its pages.                                      *)

LEMMA RowsAreTyped ==
    ASSUME TypeOK
    PROVE  /\ IsFiniteSet(DOMAIN comments) /\ DOMAIN comments \in SUBSET Ids
           /\ \A i \in DOMAIN comments : /\ i \in Nat /\ comments[i].parent \in Nat
                                         /\ comments[i].created \in Nat /\ comments[i].rank \in Nat
<1>1. PICK m \in Nat : m = lastId /\ m <= MaxId BY ConstantsAssumption DEF TypeOK
<1>2. DOMAIN comments \in SUBSET (1..m) BY <1>1 DEF TypeOK
<1>3. IsFiniteSet(DOMAIN comments) BY <1>2, PositionsCount, FS_Subset
<1>4. DOMAIN comments \in SUBSET Ids BY <1>1, <1>2, ConstantsAssumption DEF Ids
<1>5. \A i \in DOMAIN comments : /\ comments[i].parent \in Nat
                                 /\ comments[i].created \in Nat /\ comments[i].rank \in Nat
  BY ConstantsAssumption DEF TypeOK, Rows
<1> QED BY <1>2, <1>3, <1>4, <1>5

LEMMA ListIsTyped ==
    ASSUME TypeOK, NEW list
    PROVE  /\ Listed(list) \in SUBSET DOMAIN comments /\ Listed(list) \in SUBSET Ids
           /\ IsFiniteSet(Listed(list)) /\ Cardinality(Listed(list)) \in Nat
<1>1. Listed(list) \in SUBSET DOMAIN comments BY DEF Listed
<1>2. IsFiniteSet(Listed(list)) BY <1>1, RowsAreTyped, FS_Subset
<1>3. Listed(list) \in SUBSET Ids BY <1>1, RowsAreTyped
<1> QED BY <1>1, <1>2, <1>3, FS_CardinalityType

\* Without ties the ORDER BY is an order of the list.
KeysAreOrdered ==
    \A list, sort, order :
       sort \in {"rank", "created_at", "id"} /\ order \in {"asc", "desc"}
       /\ NoTies(list, sort, order) => Orders(RowOrder(list, sort, order), Listed(list))

LEMMA KeysOrder == TypeOK => KeysAreOrdered
<1> SUFFICES ASSUME TypeOK, NEW list, NEW sort, sort \in {"rank", "created_at", "id"}, NEW order,
                    order \in {"asc", "desc"}, NoTies(list, sort, order)
             PROVE  Orders(RowOrder(list, sort, order), Listed(list))
  BY DEF KeysAreOrdered
<1> PICK S : S = Listed(list) OBVIOUS
<1>1. \A x \in S : x \in Ids /\ Key(sort, x) \in Nat /\ comments[x].created \in Nat
  BY ListIsTyped, RowsAreTyped DEF Key
<1>2. \A x, y \in S : <<x, y>> \in RowOrder(list, sort, order)
                        <=> Precedes(list, sort, order, x, y)
  BY <1>1 DEF RowOrder
<1>3. ASSUME NEW x \in S PROVE ~Precedes(list, sort, order, x, x)
  <2>1. comments[x].created \in Nat BY <1>1
  <2> QED BY <1>1, <2>1 DEF Precedes
<1>4. ASSUME NEW x \in S, NEW y \in S, NEW z \in S,
             Precedes(list, sort, order, x, y), Precedes(list, sort, order, y, z)
      PROVE  Precedes(list, sort, order, x, z)
  <2>1. PICK a \in Nat : a = Key(sort, x) BY <1>1
  <2>2. PICK b \in Nat : b = Key(sort, y) BY <1>1
  <2>3. PICK c \in Nat : c = Key(sort, z) BY <1>1
  <2>4. PICK d \in Nat : d = comments[x].created BY <1>1
  <2>5. PICK e \in Nat : e = comments[y].created BY <1>1
  <2>6. PICK f \in Nat : f = comments[z].created BY <1>1
  <2>7. (IF order = "asc" THEN a < b ELSE a > b) \/ (list = "search" /\ a = b /\ d > e)
    BY <1>4, <2>1, <2>2, <2>4, <2>5 DEF Precedes
  <2>8. (IF order = "asc" THEN b < c ELSE b > c) \/ (list = "search" /\ b = c /\ e > f)
    BY <1>4, <2>2, <2>3, <2>5, <2>6 DEF Precedes
  <2>9. (IF order = "asc" THEN a < c ELSE a > c) \/ (list = "search" /\ a = c /\ d > f)
    BY <2>7, <2>8
  <2> QED BY <2>1, <2>3, <2>4, <2>6, <2>9 DEF Precedes
<1>5. \A x, y \in S : x # y => \/ Precedes(list, sort, order, x, y)
                               \/ Precedes(list, sort, order, y, x)
  BY DEF NoTies
<1> QED BY <1>2, <1>3, <1>4, <1>5 DEF Orders

LEMMA KeysOrderNext == TypeOK' => KeysAreOrdered'
BY KeysOrder, PTL

\* Whatever the plan does, without ties it returns the sorted list.
LEMMA OrderingIsSorted ==
    ASSUME TypeOK, NEW list, NEW sort \in {"rank", "created_at", "id"},
           NEW order \in {"asc", "desc"}, NoTies(list, sort, order),
           NEW rows \in Orderings(list, sort, order)
    PROVE  Sorted(RowOrder(list, sort, order), Listed(list), rows)
<1> PICK S : S = Listed(list) OBVIOUS
<1> PICK n : n = Cardinality(S) OBVIOUS
<1>1. /\ rows \in [1..n -> S]
      /\ \A a, b \in 1..n : a # b => rows[a] # rows[b]
      /\ \A a, b \in DOMAIN rows : a < b => ~Precedes(list, sort, order, rows[b], rows[a])
  BY DEF Orderings, SetToSeqs
<1>2. S \in SUBSET Ids /\ IsFiniteSet(S) BY ListIsTyped
<1>3. \A a, b \in 1..n : a < b => <<rows[b], rows[a]>> \notin RowOrder(list, sort, order)
  BY <1>1 DEF RowOrder
<1>4. Orders(RowOrder(list, sort, order), S) BY KeysOrder DEF KeysAreOrdered
<1> QED BY <1>1, <1>2, <1>3, <1>4, InOrderIsSorted

\* The page cut from the rows, and what the row beyond it says.
PageOf(items, limit) == IF Len(items) > limit THEN SubSeq(items, 1, limit) ELSE items

PageFits(rows, limit, offset, items, page) ==
    /\ page \in Seq(Ids) /\ Len(page) \in Nat /\ Len(page) <= limit
    /\ Len(items) > limit <=> offset + limit < Len(rows)
    /\ \A j \in 1..Len(page) : offset + j <= Len(rows) /\ page[j] = rows[offset + j]
    /\ Len(page) = limit \/ Len(rows) <= offset + Len(page)

LEMMA PageOfRows ==
    ASSUME NEW rows \in Seq(Ids), NEW limit \in Nat \ {0}, NEW offset \in Nat
    PROVE  PageFits(rows, limit, offset, FetchPage(rows, limit, offset),
                    PageOf(FetchPage(rows, limit, offset), limit))
<1> PICK items : items = FetchPage(rows, limit, offset) OBVIOUS
<1> PICK page : page = PageOf(items, limit) OBVIOUS
<1>0. page = IF Len(items) > limit THEN SubSeq(items, 1, limit) ELSE items BY DEF PageOf
<1> SUFFICES PageFits(rows, limit, offset, items, page) OBVIOUS
<1> PICK n \in Nat : n = Len(rows) OBVIOUS
<1> PICK from \in Nat : from = offset + 1 OBVIOUS
<1> PICK to \in Nat : to = IF offset + limit + 1 < n THEN offset + limit + 1 ELSE n
  OBVIOUS
<1>1. items = SubSeq(rows, from, to) BY DEF FetchPage
<1>2. \A i \in 1..n : rows[i] \in Ids OBVIOUS
<1>3. \A i \in from..to : rows[i] \in Ids
  <2>1. \A i \in from..to : i \in 1..n OBVIOUS
  <2> QED BY <1>2, <2>1
<1>4. /\ items \in Seq(Ids) /\ Len(items) = IF from <= to THEN to - from + 1 ELSE 0
      /\ \A i \in 1..to - from + 1 : items[i] = rows[from + i - 1]
  BY <1>1, <1>3, SubSeqProperties
<1>5. PICK m \in Nat : m = Len(items)
  <2>1. Len(items) \in Nat BY <1>4
  <2> QED BY <2>1
<1>6. m = IF offset < to THEN to - offset ELSE 0 BY <1>4, <1>5
<1>7. m > limit <=> offset + limit < n BY <1>6
<1>8. ASSUME NEW j \in 1..m PROVE offset + j <= n /\ items[j] = rows[offset + j]
  <2>1. j \in 1..to - from + 1 /\ from + j - 1 = offset + j /\ offset + j <= n BY <1>6
  <2> QED BY <1>4, <2>1
<1>9. CASE m > limit
  <2>1. page = SubSeq(items, 1, limit) BY <1>0, <1>5, <1>9
  <2>2. \A i \in 1..limit : items[i] \in Ids BY <1>4, <1>5, <1>9
  <2>3. /\ SubSeq(items, 1, limit) \in Seq(Ids)
        /\ Len(SubSeq(items, 1, limit)) = IF 1 <= limit THEN limit - 1 + 1 ELSE 0
        /\ \A i \in 1..limit - 1 + 1 : SubSeq(items, 1, limit)[i] = items[1 + i - 1]
    BY <2>2, SubSeqProperties
  <2>4. page \in Seq(Ids) /\ Len(page) = limit /\ \A j \in 1..limit : page[j] = items[j]
    BY <2>1, <2>3
  <2>5. \A j \in 1..limit : offset + j <= n /\ page[j] = rows[offset + j]
    BY <1>8, <1>9, <2>4
  <2> QED BY <1>5, <1>7, <1>9, <2>4, <2>5 DEF PageFits
<1>10. CASE ~(m > limit)
  <2>1. page = items BY <1>0, <1>5, <1>10
  <2>2. page \in Seq(Ids) /\ Len(page) = m BY <1>4, <1>5, <2>1
  <2>3. ~(offset + limit < n) BY <1>7, <1>10
  <2>4. m <= limit /\ n <= offset + m BY <1>6, <2>3
  <2>5. \A j \in 1..m : offset + j <= n /\ page[j] = rows[offset + j] BY <1>8, <2>1
  <2> QED BY <1>5, <1>10, <2>2, <2>3, <2>4, <2>5 DEF PageFits
<1> QED BY <1>9, <1>10

-----------------------------------------------------------------------------
(* What keeps the accounts: a row joins, a page is sent.                   *)

LEMMA AccountTypes ==
    ASSUME NEW R, NEW S, IsFiniteSet(S), Orders(R, S), NEW joined \in SUBSET S,
           NEW T, NEW seen \in Seq(T), NEW x \in S
    PROVE  /\ Place(R, S, x) \in 1..Cardinality(S) /\ Cardinality(S) \in Nat
           /\ IsFiniteSet(SentAt(seen, x)) /\ Cardinality(SentAt(seen, x)) \in Nat
           /\ IsFiniteSet(JoinedOf(R, joined, x)) /\ Cardinality(JoinedOf(R, joined, x)) \in Nat
<1>1. Place(R, S, x) \in 1..Cardinality(S) /\ Cardinality(S) \in Nat
  BY PlaceIsPosition DEF Orders
<1>2. IsFiniteSet(SentAt(seen, x))
  <2>1. DOMAIN seen = 1..Len(seen) /\ Len(seen) \in Nat OBVIOUS
  <2>2. SentAt(seen, x) \in SUBSET (1..Len(seen)) BY <2>1 DEF SentAt
  <2> QED BY <2>1, <2>2, PositionsCount, FS_Subset
<1>3. IsFiniteSet(JoinedOf(R, joined, x))
  <2>1. JoinedOf(R, joined, x) \in SUBSET S BY DEF JoinedOf
  <2> QED BY <2>1, FS_Subset
<1> QED BY <1>1, <1>2, <1>3, FS_CardinalityType

\* A row that joins moves down those behind it, and is an account for each of them.
LEMMA JoinedExplained ==
    ASSUME NEW R, NEW S, NEW n, n \notin S, IsFiniteSet(S \cup {n}), Orders(R, S \cup {n}),
           NEW start, NEW joined, NEW T, NEW seen \in Seq(T), NEW offset \in Nat,
           Explained(R, S, start, joined, seen, offset)
    PROVE  Explained(R, S \cup {n}, start, joined \cup {n}, seen, offset)
<1> PICK V : V = S \cup {n} OBVIOUS
<1> PICK more : more = joined \cup {n} OBVIOUS
<1>1. S \in SUBSET V /\ IsFiniteSet(S) /\ Orders(R, S)
  <2>1. S \in SUBSET V OBVIOUS
  <2> QED BY <2>1, FS_Subset, OrdersSubset
<1>2. S = start \cup joined /\ joined \in SUBSET S /\ more \in SUBSET V /\ V = start \cup more
  BY DEF Explained
<1>3. ASSUME NEW x \in S
      PROVE  /\ Place(R, S, x) \in Nat /\ Cardinality(SentAt(seen, x)) \in Nat
             /\ Cardinality(JoinedOf(R, joined, x)) \in Nat
             /\ \/ /\ Place(R, V, x) = Place(R, S, x) + 1
                   /\ Cardinality(JoinedOf(R, more, x)) = Cardinality(JoinedOf(R, joined, x)) + 1
                \/ /\ Place(R, V, x) = Place(R, S, x)
                   /\ Cardinality(JoinedOf(R, more, x)) = Cardinality(JoinedOf(R, joined, x))
  <2>1. /\ Place(R, S, x) \in Nat /\ Cardinality(SentAt(seen, x)) \in Nat
        /\ IsFiniteSet(JoinedOf(R, joined, x)) /\ Cardinality(JoinedOf(R, joined, x)) \in Nat
    <3>1. /\ Place(R, S, x) \in 1..Cardinality(S) /\ Cardinality(S) \in Nat
          /\ Cardinality(SentAt(seen, x)) \in Nat
          /\ IsFiniteSet(JoinedOf(R, joined, x)) /\ Cardinality(JoinedOf(R, joined, x)) \in Nat
      BY <1>1, <1>2, AccountTypes
    <3> QED BY <3>1
  <2>2. Place(R, V, x) = IF <<n, x>> \in R THEN Place(R, S, x) + 1 ELSE Place(R, S, x)
    BY <1>1, PlaceWith
  <2>3. CASE <<n, x>> \in R
    <3>1. JoinedOf(R, more, x) = JoinedOf(R, joined, x) \cup {n} BY <2>3 DEF JoinedOf
    <3>2. n \notin JoinedOf(R, joined, x) BY <1>2 DEF JoinedOf
    <3>3. Cardinality(JoinedOf(R, more, x)) = Cardinality(JoinedOf(R, joined, x)) + 1
      BY <2>1, <3>1, <3>2, FS_AddElement
    <3> QED BY <2>1, <2>2, <2>3, <3>3
  <2>4. CASE <<n, x>> \notin R
    <3>1. JoinedOf(R, more, x) = JoinedOf(R, joined, x) BY <2>4 DEF JoinedOf
    <3> QED BY <2>1, <2>2, <2>4, <3>1
  <2> QED BY <2>3, <2>4
<1>4. \A k \in DOMAIN seen : seen[k] \in V BY <1>1 DEF Explained
<1>5. ASSUME NEW x \in start, Place(R, V, x) <= offset PROVE SentAt(seen, x) # {}
  <2>1. x \in S BY <1>2
  <2>2. PICK p \in Nat : p = Place(R, S, x) BY <1>3, <2>1
  <2>3. p + 1 <= offset \/ p <= offset BY <1>3, <1>5, <2>1, <2>2
  <2>4. p <= offset BY <2>3
  <2> QED BY <2>2, <2>4 DEF Explained
<1>6. ASSUME NEW x \in V
      PROVE  Cardinality(SentAt(seen, x)) <= Cardinality(JoinedOf(R, more, x))
                                             + IF Place(R, V, x) <= offset THEN 1 ELSE 0
  <2>1. CASE x \in S
    <3>1. PICK p \in Nat : p = Place(R, S, x) BY <1>3, <2>1
    <3>2. PICK c \in Nat : c = Cardinality(SentAt(seen, x)) BY <1>3, <2>1
    <3>3. PICK h \in Nat : h = Cardinality(JoinedOf(R, joined, x)) BY <1>3, <2>1
    <3>4. c <= h + IF p <= offset THEN 1 ELSE 0 BY <2>1, <3>1, <3>2, <3>3 DEF Explained
    <3>5. PICK q : q = Place(R, V, x) OBVIOUS
    <3>6. PICK g : g = Cardinality(JoinedOf(R, more, x)) OBVIOUS
    <3>7. (q = p + 1 /\ g = h + 1) \/ (q = p /\ g = h)
      BY <1>3, <2>1, <3>1, <3>3, <3>5, <3>6
    <3>8. c <= g + IF q <= offset THEN 1 ELSE 0 BY <3>4, <3>7
    <3> QED BY <3>2, <3>5, <3>6, <3>8
  <2>2. CASE x = n
    <3>1. SentAt(seen, x) = {} BY <2>2 DEF Explained, SentAt
    <3>2. Cardinality(SentAt(seen, x)) = 0 BY <3>1, FS_EmptySet
    <3>3. Cardinality(JoinedOf(R, more, x)) \in Nat BY <1>2, AccountTypes
    <3>4. PICK g \in Nat : g = Cardinality(JoinedOf(R, more, x)) BY <3>3
    <3>5. 0 <= g + IF Place(R, V, x) <= offset THEN 1 ELSE 0 OBVIOUS
    <3> QED BY <3>2, <3>4, <3>5
  <2> QED BY <2>1, <2>2
<1> QED BY <1>2, <1>4, <1>5, <1>6 DEF Explained

\* A page settles the accounts of the rows it passes over.
LEMMA PageExplained ==
    ASSUME NEW R, NEW S, IsFiniteSet(S), Orders(R, S), NEW rows, Sorted(R, S, rows),
           NEW start, NEW joined, NEW T, NEW seen \in Seq(T), NEW page \in Seq(T),
           NEW offset \in Nat, NEW limit \in Nat,
           Explained(R, S, start, joined, seen, offset),
           Piece(rows, Cardinality(S), offset, page), Len(page) <= limit,
           Len(page) = limit \/ Cardinality(S) <= offset + Len(page)
    PROVE  Explained(R, S, start, joined, seen \o page, offset + limit)
<1> PICK both : both = seen \o page OBVIOUS
<1>1. S = start \cup joined /\ joined \in SUBSET S BY DEF Explained
<1>2. PICK n \in Nat : n = Cardinality(S) BY FS_CardinalityType
<1>3. PICK l \in Nat : l = Len(page) OBVIOUS
<1>4. ASSUME NEW x \in S
      PROVE  /\ Place(R, S, x) \in Nat /\ Cardinality(SentAt(seen, x)) \in Nat
             /\ Cardinality(JoinedOf(R, joined, x)) \in Nat
             /\ \/ /\ offset < Place(R, S, x) /\ Place(R, S, x) <= offset + limit
                   /\ SentAt(both, x) # {}
                   /\ Cardinality(SentAt(both, x)) = Cardinality(SentAt(seen, x)) + 1
                \/ /\ Place(R, S, x) <= offset \/ offset + limit < Place(R, S, x)
                   /\ SentAt(both, x) = SentAt(seen, x)
  <2>1. /\ Place(R, S, x) \in 1..n /\ Cardinality(SentAt(seen, x)) \in Nat
        /\ Cardinality(JoinedOf(R, joined, x)) \in Nat
    BY <1>1, <1>2, AccountTypes
  <2>2. PICK p \in 1..n : p = Place(R, S, x) BY <2>1
  <2>3. CASE offset < p /\ p <= offset + l
    <3>1. p <= offset + limit BY <1>3, <2>3
    <3>2. /\ SentAt(both, x) # {}
          /\ Cardinality(SentAt(both, x)) = Cardinality(SentAt(seen, x)) + 1
      BY <1>3, <2>2, <2>3, SentGrows
    <3> QED BY <2>1, <2>2, <2>3, <3>1, <3>2
  <2>4. CASE ~(offset < p /\ p <= offset + l)
    <3>1. p <= offset \/ offset + limit < p BY <1>2, <1>3, <2>2, <2>4
    <3>2. SentAt(both, x) = SentAt(seen, x) BY <1>3, <2>2, <2>4, SentGrows
    <3> QED BY <2>1, <2>2, <3>1, <3>2
  <2> QED BY <2>3, <2>4
<1>5. ASSUME NEW k \in DOMAIN both PROVE both[k] \in S
  <2>1. PICK m \in Nat : m = Len(seen) OBVIOUS
  <2>2. /\ DOMAIN both = 1..m + l
        /\ \A i \in 1..m + l : both[i] = IF i <= m THEN seen[i] ELSE page[i - m]
    BY <1>3, <2>1, ConcatProperties
  <2>3. CASE k <= m
    <3>1. k \in DOMAIN seen /\ both[k] = seen[k] BY <2>1, <2>2, <2>3
    <3> QED BY <3>1 DEF Explained
  <2>4. CASE ~(k <= m)
    <3>1. PICK i \in 1..l : i = k - m BY <2>2, <2>4
    <3>2. both[k] = page[i] BY <2>2, <2>4, <3>1
    <3>3. page[i] = rows[offset + i] /\ offset + l <= n
      <4>1. page # <<>> BY <1>3, <3>1
      <4> QED BY <1>2, <1>3, <3>1, <4>1 DEF Piece
    <3>4. offset + i \in 1..n BY <3>1, <3>3
    <3>5. rows[offset + i] \in S BY <1>2, <3>4 DEF Sorted
    <3> QED BY <3>2, <3>3, <3>5
  <2> QED BY <2>3, <2>4
<1>6. ASSUME NEW x \in start, Place(R, S, x) <= offset + limit PROVE SentAt(both, x) # {}
  <2>1. x \in S BY <1>1
  <2>2. PICK p \in Nat : p = Place(R, S, x) BY <1>4, <2>1
  <2>3. CASE p <= offset
    <3>1. SentAt(seen, x) # {} BY <2>2, <2>3 DEF Explained
    <3>2. SentAt(both, x) = SentAt(seen, x) BY <1>4, <2>1, <2>2, <2>3
    <3> QED BY <3>1, <3>2
  <2>4. CASE ~(p <= offset) BY <1>4, <1>6, <2>1, <2>2, <2>4
  <2> QED BY <2>3, <2>4
<1>7. ASSUME NEW x \in S
      PROVE  Cardinality(SentAt(both, x)) <= Cardinality(JoinedOf(R, joined, x))
                                             + IF Place(R, S, x) <= offset + limit THEN 1 ELSE 0
  <2>1. PICK p \in Nat : p = Place(R, S, x) BY <1>4
  <2>2. PICK c \in Nat : c = Cardinality(SentAt(seen, x)) BY <1>4
  <2>3. PICK h \in Nat : h = Cardinality(JoinedOf(R, joined, x)) BY <1>4
  <2>4. c <= h + IF p <= offset THEN 1 ELSE 0 BY <2>1, <2>2, <2>3 DEF Explained
  <2>5. PICK d : d = Cardinality(SentAt(both, x)) OBVIOUS
  <2>6. \/ offset < p /\ p <= offset + limit /\ d = c + 1
        \/ (p <= offset \/ offset + limit < p) /\ d = c
    BY <1>4, <2>1, <2>2, <2>5
  <2>7. d <= h + IF p <= offset + limit THEN 1 ELSE 0 BY <2>4, <2>6
  <2> QED BY <2>1, <2>3, <2>5, <2>7
<1> QED BY <1>1, <1>5, <1>6, <1>7 DEF Explained

\* The accounts look at the order of the rows there are, and at no other.
LEMMA SameOrder ==
    ASSUME NEW R, NEW Q, NEW S, \A x, y \in S : <<x, y>> \in R <=> <<x, y>> \in Q,
           NEW start, NEW joined, NEW seen, NEW offset,
           Explained(R, S, start, joined, seen, offset)
    PROVE  Explained(Q, S, start, joined, seen, offset)
<1>1. S = start \cup joined BY DEF Explained
<1>2. ASSUME NEW x \in S
      PROVE  Place(Q, S, x) = Place(R, S, x) /\ JoinedOf(Q, joined, x) = JoinedOf(R, joined, x)
  <2>1. Before(Q, S, x) = Before(R, S, x) BY DEF Before
  <2>2. JoinedOf(Q, joined, x) = JoinedOf(R, joined, x) BY <1>1 DEF JoinedOf
  <2> QED BY <2>1, <2>2 DEF Place
<1>3. \A x \in start : Place(Q, S, x) = Place(R, S, x) BY <1>1, <1>2
<1> QED BY <1>2, <1>3, Zenon DEF Explained

-----------------------------------------------------------------------------
(* The walk beside the other steps.                                        *)

Walk == [pc : {"none", "walking", "done"}, list : Lists,
         sort : {"rank", "created_at", "id"}, order : {"asc", "desc"},
         limit : 1..MaxLimit, offset : Nat, seen : Seq(Ids),
         start : SUBSET Ids, joined : SUBSET Ids, left : BOOLEAN]

LEMMA WalkType ==
    ASSUME TypeOK
    PROVE  /\ walk \in Walk /\ walk.pc \in {"none", "walking", "done"} /\ walk.list \in Lists
           /\ walk.sort \in {"rank", "created_at", "id"} /\ walk.order \in {"asc", "desc"}
           /\ walk.limit \in Nat \ {0} /\ walk.offset \in Nat /\ walk.seen \in Seq(Ids)
           /\ walk.start \in SUBSET Ids /\ walk.joined \in SUBSET Ids /\ walk.left \in BOOLEAN
<1>1. walk \in Walk BY DEF TypeOK, Walk
<1>2. 1..MaxLimit \subseteq Nat \ {0} BY ConstantsAssumption
<1> QED BY <1>1, <1>2 DEF Walk

\* A step that leaves the table and the client leaves the accounts.
LEMMA WalkStays ==
    ASSUME WalkInv, comments' = comments, walk' = walk
    PROVE  WalkIsExplained' /\ PagesWhileGrowing'
<1>1. /\ Listed(walk.list)' = Listed(walk.list)
      /\ RowOrder(walk.list, walk.sort, walk.order)' = RowOrder(walk.list, walk.sort, walk.order)
      /\ NoTies(walk.list, walk.sort, walk.order)' <=> NoTies(walk.list, walk.sort, walk.order)
  BY DEF Listed, RowOrder, NoTies, Precedes, Key
<1>2. \A i : Copies(i)' = Copies(i) /\ JoinedBefore(i)' = JoinedBefore(i)
  BY DEF Copies, JoinedBefore, Precedes, Key
<1>3. WalkIsExplained' BY <1>1 DEF WalkInv, WalkIsExplained
<1>4. PagesWhileGrowing' BY <1>1, <1>2 DEF WalkInv, PagesWhileGrowing
<1> QED BY <1>3, <1>4

\* The order of the rows of a list is read from these rows alone.
LEMMA OrderStays ==
    ASSUME NEW S, S \subseteq DOMAIN comments, S \subseteq Ids,
           \A i \in S : comments'[i] = comments[i], NEW list, NEW sort, NEW order
    PROVE  /\ \A x, y \in S : Precedes(list, sort, order, x, y)'
                                 <=> Precedes(list, sort, order, x, y)
           /\ \A x, y \in S : <<x, y>> \in RowOrder(list, sort, order)'
                                 <=> <<x, y>> \in RowOrder(list, sort, order)
<1>1. \A x, y \in S : Precedes(list, sort, order, x, y)' <=> Precedes(list, sort, order, x, y)
  BY DEF Precedes, Key
<1>2. \A x, y \in S : <<x, y>> \in RowOrder(list, sort, order)
                         <=> Precedes(list, sort, order, x, y)
  BY DEF RowOrder
<1>3. \A x, y \in S : <<x, y>> \in RowOrder(list, sort, order)'
                         <=> Precedes(list, sort, order, x, y)'
  BY DEF RowOrder
<1> QED BY <1>1, <1>2, <1>3

LEMMA InsertWalks == ASSUME WalkInv, Insert PROVE WalkInv'
<1>1. PICK m \in Nat : m = lastId BY ConstantsAssumption DEF WalkInv, TypeOK
<1>2. /\ comments' = comments /\ walk' = walk /\ lastId' = m + 1
      /\ inserting' = inserting \cup {m + 1}
  BY <1>1 DEF Insert
<1>3. m + 1 <= MaxId
  <2>1. m < MaxId BY <1>1, ConstantsAssumption DEF Insert, MoreIds
  <2> QED BY <2>1, ConstantsAssumption
<1>4. TypeOK'
  <2>1. lastId' \in 0..MaxId BY <1>2, <1>3, ConstantsAssumption
  <2>2. inserting \in SUBSET (1..m) /\ DOMAIN comments \in SUBSET ((1..m) \ inserting)
    BY <1>1 DEF WalkInv, TypeOK
  <2>3. inserting' \in SUBSET (1..m + 1) BY <1>2, <2>2
  <2>4. DOMAIN comments' \in SUBSET ((1..m + 1) \ inserting') BY <1>2, <2>2
  <2> QED BY <1>2, <2>1, <2>3, <2>4 DEF WalkInv, TypeOK
<1> QED BY <1>2, <1>4, WalkStays DEF WalkInv

LEMMA RefusalWalks == ASSUME WalkInv, NEW i \in Ids, NEW p \in Ids, CreateRefused(i, p) PROVE WalkInv'
<1>1. /\ comments' = comments /\ walk' = walk /\ lastId' = lastId
      /\ inserting' = inserting \ {i}
  BY DEF CreateRefused
<1>2. TypeOK' BY <1>1 DEF WalkInv, TypeOK
<1> QED BY <1>1, <1>2, WalkStays DEF WalkInv

LEMMA CreateWalks ==
    ASSUME WalkInv, NEW i \in Ids, NEW p \in 0..MaxId, NEW t \in 1..MaxTime, NEW k \in {0, 1},
           Create(i, p, t, k)
    PROVE  WalkInv'
<1>1. TypeOK BY DEF WalkInv
<1>2. i \in inserting /\ i \notin DOMAIN comments BY <1>1 DEF Create, TypeOK
<1>3. /\ DOMAIN comments' = DOMAIN comments \cup {i}
      /\ \A j \in DOMAIN comments : comments'[j] = comments[j]
      /\ comments'[i] = [parent |-> p, created |-> t, rank |-> k]
      /\ lastId' = lastId /\ inserting' = inserting \ {i}
      /\ walk.pc # "done"
      /\ walk' = IF walk.pc # "none" /\ InList(walk.list, comments'[i])
                 THEN [walk EXCEPT !.joined = walk.joined \cup {i}] ELSE walk
  <2>1. Adds(i, p, t, k) BY <1>2, CreateAdds
  <2> QED BY <2>1 DEF Adds
<1>4. /\ walk' \in Walk /\ walk'.pc = walk.pc /\ walk'.list = walk.list
      /\ walk'.sort = walk.sort /\ walk'.order = walk.order /\ walk'.offset = walk.offset
      /\ walk'.seen = walk.seen /\ walk'.start = walk.start /\ walk'.left = walk.left
      /\ walk.pc # "none" =>
           walk'.joined = walk.joined \cup IF InList(walk.list, comments'[i]) THEN {i} ELSE {}
  <2>1. walk \in Walk BY <1>1, WalkType
  <2>2. CASE walk.pc # "none" /\ InList(walk.list, comments'[i])
    <3>1. walk' = [walk EXCEPT !.joined = walk.joined \cup {i}] BY <1>3, <2>2
    <3> HIDE DEF InList
    <3> QED BY <2>1, <2>2, <3>1 DEF Walk
  <2>3. CASE ~(walk.pc # "none" /\ InList(walk.list, comments'[i]))
    <3>1. walk' = walk BY <1>3, <2>3
    <3> QED BY <2>1, <2>3, <3>1
  <2> QED BY <2>2, <2>3
<1>5. TypeOK'
  <2>1. comments'[i] \in Rows BY <1>3 DEF Rows
  <2>2. \A j \in DOMAIN comments' : comments'[j] \in Rows BY <1>1, <1>3, <2>1 DEF TypeOK
  <2>3. DOMAIN comments' \in SUBSET ((1..lastId') \ inserting')
    BY <1>1, <1>2, <1>3 DEF TypeOK
  <2>4. inserting' \in SUBSET (1..lastId') BY <1>1, <1>3 DEF TypeOK
  <2> QED BY <1>1, <1>3, <1>4, <2>2, <2>3, <2>4 DEF TypeOK, Walk
<1>6. PagesWhileGrowing' BY <1>3, <1>4 DEF PagesWhileGrowing
<1>7. WalkIsExplained'
  <2> PICK list, sort, order : list = walk.list /\ sort = walk.sort /\ order = walk.order
    OBVIOUS
  <2> PICK seen \in Seq(Ids) : seen = walk.seen BY <1>1, WalkType
  <2> PICK offset \in Nat : offset = walk.offset BY <1>1, WalkType
  <2> PICK start, joined : start = walk.start /\ joined = walk.joined OBVIOUS
  <2> PICK S : S = Listed(list) OBVIOUS
  <2> PICK V : V = Listed(list)' OBVIOUS
  <2> PICK R : R = RowOrder(list, sort, order) OBVIOUS
  <2> PICK Q : Q = RowOrder(list, sort, order)' OBVIOUS
  <2> SUFFICES ASSUME walk.pc = "walking", ~walk.left, NoTies(list, sort, order)'
               PROVE  Explained(Q, V, start, walk'.joined, seen, offset)
    BY <1>4 DEF WalkIsExplained
  <2>1. S \subseteq DOMAIN comments /\ S \subseteq Ids /\ i \notin S BY <1>1, <1>2, ListIsTyped
  <2>2. \A j \in S : comments'[j] = comments[j] BY <1>3, <2>1
  <2>3. V = S \cup IF InList(list, comments'[i]) THEN {i} ELSE {}
    BY <1>2, <1>3 DEF Listed
  <2>4. /\ \A x, y \in S : Precedes(list, sort, order, x, y)'
                              <=> Precedes(list, sort, order, x, y)
        /\ \A x, y \in S : <<x, y>> \in Q <=> <<x, y>> \in R
    BY <2>1, <2>2, OrderStays
  <2>5. NoTies(list, sort, order)
    <3>1. \A x, y \in V : x # y => \/ Precedes(list, sort, order, x, y)'
                                   \/ Precedes(list, sort, order, y, x)'
      BY DEF NoTies
    <3>2. \A x, y \in S : x # y => \/ Precedes(list, sort, order, x, y)
                                   \/ Precedes(list, sort, order, y, x)
      BY <2>3, <2>4, <3>1
    <3> QED BY <3>2 DEF NoTies
  <2>6. Explained(R, S, start, joined, seen, offset)
    BY <2>5 DEF WalkInv, WalkIsExplained
  <2>7. Explained(Q, S, start, joined, seen, offset) BY <2>4, <2>6, SameOrder
  <2>8. IsFiniteSet(V) /\ Orders(Q, V)
    <3>1. IsFiniteSet(S) BY <1>1, ListIsTyped
    <3>2. IsFiniteSet(V)
      <4>1. IsFiniteSet(S \cup {i}) BY <3>1, FS_AddElement
      <4>2. V = S \cup {i} \/ V = S BY <2>3
      <4> QED BY <3>1, <4>1, <4>2
    <3>3. sort \in {"rank", "created_at", "id"} /\ order \in {"asc", "desc"}
      BY <1>1, WalkType
    <3>4. Orders(Q, V) BY <1>5, <3>3, KeysOrderNext DEF KeysAreOrdered
    <3> QED BY <3>2, <3>4
  <2>9. CASE InList(list, comments'[i])
    <3>1. V = S \cup {i} /\ walk'.joined = joined \cup {i} BY <1>4, <2>3, <2>9
    <3> QED BY <2>1, <2>7, <2>8, <3>1, JoinedExplained
  <2>10. CASE ~InList(list, comments'[i])
    <3>1. V = S /\ walk'.joined = joined BY <1>4, <2>3, <2>10
    <3> QED BY <2>7, <3>1
  <2> QED BY <2>9, <2>10
<1> QED BY <1>5, <1>6, <1>7 DEF WalkInv

LEMMA DeleteWalks == ASSUME WalkInv, NEW c \in Ids, Delete(c) PROVE WalkInv'
<1>1. TypeOK BY DEF WalkInv
<1>2. /\ lastId' = lastId /\ inserting' = inserting /\ walk.pc # "done"
      /\ DOMAIN comments' = DOMAIN comments \ Below(c)
      /\ \A i \in DOMAIN comments' : comments'[i] = comments[i]
      /\ walk' = IF walk.pc # "none" /\ Below(c) \cap Listed(walk.list) # {}
                 THEN [walk EXCEPT !.left = TRUE] ELSE walk
  BY DEF Delete, NoteLeft, MayChange
<1>3. walk' \in Walk /\ walk'.pc = walk.pc
  <2>1. walk \in Walk BY <1>1, WalkType
  <2>2. walk' = walk \/ walk' = [walk EXCEPT !.left = TRUE] BY <1>2
  <2> QED BY <2>1, <2>2 DEF Walk
<1>4. TypeOK' BY <1>1, <1>2, <1>3 DEF TypeOK, Walk
<1>5. PagesWhileGrowing' BY <1>2, <1>3 DEF PagesWhileGrowing
<1>6. CASE walk.pc = "none"
  <2>1. WalkIsExplained' BY <1>3, <1>6 DEF WalkIsExplained
  <2> QED BY <1>4, <1>5, <2>1 DEF WalkInv
<1>7. CASE walk.pc # "none" /\ Below(c) \cap Listed(walk.list) # {}
  <2>1. walk' = [walk EXCEPT !.left = TRUE] BY <1>2, <1>7
  <2>2. walk \in Walk BY <1>1, WalkType
  <2>3. walk'.left = TRUE BY <2>1, <2>2 DEF Walk
  <2>4. WalkIsExplained' BY <2>3 DEF WalkIsExplained
  <2> QED BY <1>4, <1>5, <2>4 DEF WalkInv
<1>8. CASE walk.pc # "none" /\ Below(c) \cap Listed(walk.list) = {}
  <2>1. walk' = walk BY <1>2, <1>8
  <2> PICK list, sort, order : list = walk.list /\ sort = walk.sort /\ order = walk.order
    OBVIOUS
  <2> PICK S : S = Listed(list) OBVIOUS
  <2> PICK R : R = RowOrder(list, sort, order) OBVIOUS
  <2> PICK Q : Q = RowOrder(list, sort, order)' OBVIOUS
  <2>2. S \subseteq DOMAIN comments /\ S \subseteq Ids BY <1>1, ListIsTyped
  <2>3. S \subseteq DOMAIN comments' /\ \A j \in S : comments'[j] = comments[j]
    BY <1>2, <1>8, <2>2
  <2>4. Listed(list)' = S BY <1>2, <2>2, <2>3 DEF Listed
  <2>5. /\ \A x, y \in S : Precedes(list, sort, order, x, y)'
                              <=> Precedes(list, sort, order, x, y)
        /\ \A x, y \in S : <<x, y>> \in R <=> <<x, y>> \in Q
    BY <2>2, <2>3, OrderStays
  <2>6. NoTies(list, sort, order)' <=> NoTies(list, sort, order)
    BY <2>4, <2>5 DEF NoTies
  <2>7. ASSUME walk.pc = "walking", ~walk.left, NoTies(list, sort, order)
        PROVE  Explained(Q, S, walk.start, walk.joined, walk.seen, walk.offset)
    <3>1. Explained(R, S, walk.start, walk.joined, walk.seen, walk.offset)
      BY <2>7 DEF WalkInv, WalkIsExplained
    <3> QED BY <2>5, <3>1, SameOrder
  <2>8. WalkIsExplained' BY <2>1, <2>4, <2>6, <2>7 DEF WalkIsExplained
  <2> QED BY <1>4, <1>5, <2>8 DEF WalkInv
<1> QED BY <1>6, <1>7, <1>8

\* At its start a walk has sent nothing, and no row has its place before the offset.
LEMMA NothingSent ==
    ASSUME NEW R, NEW S, IsFiniteSet(S)
    PROVE  Explained(R, S, S, {}, <<>>, 0)
<1>1. ASSUME NEW x \in S
      PROVE  /\ ~(Place(R, S, x) <= 0)
             /\ Cardinality(SentAt(<<>>, x)) = 0 /\ Cardinality(JoinedOf(R, {}, x)) = 0
  <2>1. IsFiniteSet(Before(R, S, x))
    <3>1. Before(R, S, x) \in SUBSET S BY DEF Before
    <3> QED BY <3>1, FS_Subset
  <2>2. Cardinality(Before(R, S, x)) \in Nat BY <2>1, FS_CardinalityType
  <2>3. SentAt(<<>>, x) = {} /\ JoinedOf(R, {}, x) = {} BY DEF SentAt, JoinedOf
  <2>4. Cardinality(SentAt(<<>>, x)) = 0 /\ Cardinality(JoinedOf(R, {}, x)) = 0
    BY <2>3, FS_EmptySet, Zenon
  <2> QED BY <2>2, <2>4 DEF Place
<1>2. S = S \cup {} /\ \A k \in DOMAIN <<>> : <<>>[k] \in S OBVIOUS
<1>3. ASSUME NEW x \in S
      PROVE  Cardinality(SentAt(<<>>, x)) <= Cardinality(JoinedOf(R, {}, x))
                                             + IF Place(R, S, x) <= 0 THEN 1 ELSE 0
  BY <1>1
<1>4. \A x \in S : Place(R, S, x) <= 0 => SentAt(<<>>, x) # {} BY <1>1
<1> QED BY <1>2, <1>3, <1>4 DEF Explained

LEMMA StartWalks ==
    ASSUME WalkInv, NEW list \in Lists, NEW sort \in Sorts(list), NEW order \in {"asc", "desc"},
           NEW limit \in 1..MaxLimit, StartWalk(list, sort, order, limit)
    PROVE  WalkInv'
<1>1. TypeOK BY DEF WalkInv
<1>2. /\ comments' = comments /\ lastId' = lastId /\ inserting' = inserting
      /\ walk' = [pc |-> "walking", list |-> list, sort |-> sort, order |-> order,
                  limit |-> limit, offset |-> 0, seen |-> <<>>, start |-> Listed(list),
                  joined |-> {}, left |-> FALSE]
  BY DEF StartWalk, NoWalk
<1>3. sort \in {"rank", "created_at", "id"} BY DEF Sorts
<1>4. <<>> \in Seq(Ids) /\ Len(<<>>) = 0 OBVIOUS
<1>5. Listed(list) \in SUBSET Ids /\ IsFiniteSet(Listed(list)) BY <1>1, ListIsTyped
<1>6. walk' \in Walk BY <1>2, <1>3, <1>4, <1>5 DEF Walk
<1>7. TypeOK' BY <1>1, <1>2, <1>6 DEF TypeOK, Walk
<1>8. WalkIsExplained'
  <2>1. Explained(RowOrder(list, sort, order)', Listed(list), Listed(list), {}, <<>>, 0)
    BY <1>5, NothingSent
  <2>2. Listed(list)' = Listed(list) BY <1>2 DEF Listed
  <2> QED BY <1>2, <2>1, <2>2 DEF WalkIsExplained
<1>9. PagesWhileGrowing' BY <1>2 DEF PagesWhileGrowing
<1> QED BY <1>7, <1>8, <1>9 DEF WalkInv

\* What the property says of a walk, from the rows that it started with and joined.
Settled(R, start, joined, sent) ==
    /\ start \subseteq ToSet(sent) /\ ToSet(sent) \subseteq start \cup joined
    /\ \A x \in ToSet(sent) :
          Cardinality(SentAt(sent, x)) <= 1 + Cardinality(JoinedOf(R, joined, x))

\* The accounts of a walk that has passed every row are settled.
LEMMA AccountsClosed ==
    ASSUME NEW R, NEW S, IsFiniteSet(S), Orders(R, S), NEW start, NEW joined, NEW T,
           NEW sent \in Seq(T), NEW offset \in Nat, Cardinality(S) <= offset,
           Explained(R, S, start, joined, sent, offset)
    PROVE  Settled(R, start, joined, sent)
<1>1. S = start \cup joined /\ joined \in SUBSET S BY DEF Explained
<1>2. ASSUME NEW x \in S
      PROVE  /\ Place(R, S, x) <= offset /\ Cardinality(SentAt(sent, x)) \in Nat
             /\ Cardinality(JoinedOf(R, joined, x)) \in Nat
  <2>1. /\ Place(R, S, x) \in 1..Cardinality(S) /\ Cardinality(S) \in Nat
        /\ Cardinality(SentAt(sent, x)) \in Nat /\ Cardinality(JoinedOf(R, joined, x)) \in Nat
    BY <1>1, AccountTypes
  <2> QED BY <2>1
<1>3. ASSUME NEW x \in start PROVE x \in ToSet(sent)
  <2>1. SentAt(sent, x) # {} BY <1>1, <1>2 DEF Explained
  <2> QED BY <2>1 DEF SentAt, ToSet
<1>4. ToSet(sent) \subseteq S BY DEF Explained, ToSet
<1>5. ASSUME NEW x \in ToSet(sent)
      PROVE  Cardinality(SentAt(sent, x)) <= 1 + Cardinality(JoinedOf(R, joined, x))
  <2>1. x \in S BY <1>4
  <2>2. PICK c \in Nat : c = Cardinality(SentAt(sent, x)) BY <1>2, <2>1
  <2>3. PICK h \in Nat : h = Cardinality(JoinedOf(R, joined, x)) BY <1>2, <2>1
  <2>4. c <= h + 1
    <3>1. Place(R, S, x) <= offset BY <1>2, <2>1
    <3> QED BY <2>1, <2>2, <2>3, <3>1 DEF Explained
  <2> QED BY <2>2, <2>3, <2>4
<1> QED BY <1>1, <1>3, <1>4, <1>5 DEF Settled

LEMMA NextPageWalks == ASSUME WalkInv, NextPage PROVE WalkInv'
<1>1. TypeOK /\ walk \in Walk BY WalkType DEF WalkInv
<1> PICK list : list = walk.list OBVIOUS
<1> PICK sort \in {"rank", "created_at", "id"} : sort = walk.sort BY <1>1, WalkType
<1> PICK order \in {"asc", "desc"} : order = walk.order BY <1>1, WalkType
<1> PICK limit \in Nat \ {0} : limit = walk.limit BY <1>1, WalkType
<1> PICK offset \in Nat : offset = walk.offset BY <1>1, WalkType
<1> PICK seen \in Seq(Ids) : seen = walk.seen BY <1>1, WalkType
<1> PICK start \in SUBSET Ids : start = walk.start BY <1>1, WalkType
<1> PICK joined \in SUBSET Ids : joined = walk.joined BY <1>1, WalkType
<1> PICK S : S = Listed(list) OBVIOUS
<1> PICK R : R = RowOrder(list, sort, order) OBVIOUS
<1>2. S \in SUBSET Ids /\ IsFiniteSet(S) /\ Cardinality(S) \in Nat BY <1>1, ListIsTyped
<1>3. PICK rows \in Orderings(list, sort, order) :
         LET items == FetchPage(rows, limit, offset)
             page  == IF Len(items) > limit THEN SubSeq(items, 1, limit) ELSE items
         IN  walk' = [walk EXCEPT !.seen = seen \o page, !.offset = offset + limit,
                                  !.pc = IF Len(items) > limit THEN "walking" ELSE "done"]
  BY DEF NextPage
<1> PICK items : items = FetchPage(rows, limit, offset) OBVIOUS
<1> PICK page : page = PageOf(items, limit) OBVIOUS
<1>4. /\ walk.pc = "walking" /\ comments' = comments /\ lastId' = lastId
      /\ inserting' = inserting
  BY DEF NextPage
<1>5. rows \in Seq(Ids) /\ Len(rows) = Cardinality(S)
  <2>1. rows \in SetToSeqs(S) BY Zenon DEF Orderings
  <2> PICK n \in Nat : n = Cardinality(S) BY <1>2
  <2>2. rows \in [1..n -> S] BY <2>1 DEF SetToSeqs
  <2>3. rows \in [1..n -> Ids] BY <1>2, <2>2
  <2> QED BY <2>3
<1>6. PageFits(rows, limit, offset, items, page)
  <2>1. rows \in Seq(Ids) BY <1>5
  <2> QED BY <2>1, PageOfRows
<1>7. page \in Seq(Ids) /\ Len(page) \in Nat BY <1>6 DEF PageFits
<1> PICK both \in Seq(Ids) : both = seen \o page BY <1>7, ConcatProperties
<1>8. /\ walk'.list = list /\ walk'.sort = sort /\ walk'.order = order
      /\ walk'.seen = both /\ walk'.offset = offset + limit /\ walk'.start = start
      /\ walk'.joined = joined /\ walk'.left = walk.left
      /\ walk'.pc = IF offset + limit < Len(rows) THEN "walking" ELSE "done"
      /\ walk' \in Walk
  <2>1. walk' = [walk EXCEPT !.seen = both, !.offset = offset + limit,
                             !.pc = IF Len(items) > limit THEN "walking" ELSE "done"]
    BY <1>3, Zenon DEF PageOf
  <2>2. offset + limit \in Nat OBVIOUS
  <2>3. Len(items) > limit <=> offset + limit < Len(rows) BY <1>6 DEF PageFits
  <2> QED BY <1>1, <2>1, <2>2, <2>3 DEF Walk
<1>9. TypeOK' BY <1>1, <1>4, <1>8 DEF TypeOK, Walk
<1>10. /\ S = Listed(list)' /\ R = RowOrder(list, sort, order)'
       /\ NoTies(list, sort, order)' <=> NoTies(list, sort, order)
  BY <1>4 DEF Listed, RowOrder, Precedes, Key, NoTies
<1>11. CASE ~walk.left /\ NoTies(list, sort, order)
  <2>1. Orders(R, S) BY <1>1, <1>11, KeysOrder DEF KeysAreOrdered
  <2>2. Sorted(R, S, rows) BY <1>1, <1>3, <1>11, OrderingIsSorted
  <2>3. Explained(R, S, start, joined, seen, offset)
    BY <1>4, <1>11 DEF WalkInv, WalkIsExplained
  <2>4. Piece(rows, Cardinality(S), offset, page)
    <3>1. PICK n \in Nat : n = Cardinality(S) BY <1>2
    <3>2. PICK l \in Nat : l = Len(page) BY <1>7
    <3>3. \A j \in 1..l : offset + j <= n /\ page[j] = rows[offset + j]
      BY <1>5, <1>6, <3>1, <3>2 DEF PageFits
    <3>4. page # <<>> => l # 0 BY <1>7, <3>2
    <3>5. page # <<>> => offset + l <= n BY <3>3, <3>4
    <3> QED BY <3>1, <3>2, <3>3, <3>5 DEF Piece
  <2>5. Len(page) <= limit /\ (Len(page) = limit \/ Cardinality(S) <= offset + Len(page))
    BY <1>5, <1>6 DEF PageFits
  <2>6. Explained(R, S, start, joined, both, offset + limit)
    BY <1>2, <1>7, <2>1, <2>2, <2>3, <2>4, <2>5, PageExplained
  <2>7. WalkIsExplained' BY <1>8, <1>10, <2>6 DEF WalkIsExplained
  <2>8. PagesWhileGrowing'
    <3> SUFFICES ASSUME walk'.pc = "done" PROVE PagesWhileGrowing' BY DEF PagesWhileGrowing
    <3>1. PICK far \in Nat : far = offset + limit OBVIOUS
    <3>2. Cardinality(S) <= far BY <1>2, <1>5, <1>8, <3>1
    <3>3. Settled(R, start, joined, both)
      <4>1. Explained(R, S, start, joined, both, far) BY <2>6, <3>1
      <4> QED BY <1>2, <2>1, <3>2, <4>1, AccountsClosed
    <3>4. ASSUME NEW x \in ToSet(both)
          PROVE  Copies(x)' = Cardinality(SentAt(both, x))
                 /\ JoinedBefore(x)' = JoinedOf(R, joined, x)
      <4>1. x \in Ids BY <3>3 DEF Settled
      <4>2. \A j \in joined : <<j, x>> \in R <=> Precedes(list, sort, order, j, x)'
        BY <1>10, <4>1 DEF RowOrder
      <4>3. Copies(x)' = Cardinality(SentAt(both, x)) BY <1>8 DEF Copies, SentAt
      <4>4. JoinedBefore(x)' = JoinedOf(R, joined, x) BY <1>8, <4>2 DEF JoinedBefore, JoinedOf
      <4> QED BY <4>3, <4>4
    <3> QED BY <1>8, <3>3, <3>4 DEF PagesWhileGrowing, Settled
  <2> QED BY <1>9, <2>7, <2>8 DEF WalkInv
<1>12. CASE ~(~walk.left /\ NoTies(list, sort, order))
  <2>1. WalkIsExplained' BY <1>8, <1>10, <1>12 DEF WalkIsExplained
  <2>2. PagesWhileGrowing' BY <1>8, <1>10, <1>12 DEF PagesWhileGrowing
  <2> QED BY <1>9, <2>1, <2>2 DEF WalkInv
<1> QED BY <1>11, <1>12

LEMMA InitWalks == Init => WalkInv
<1> SUFFICES ASSUME Init PROVE WalkInv OBVIOUS
<1>1. lastId = 0 /\ inserting = {} /\ DOMAIN comments = {} /\ walk = NoWalk BY DEF Init
<1>2. NoWalk \in Walk
  <2>1. <<>> \in Seq(Ids) /\ 1 \in 1..MaxLimit BY ConstantsAssumption
  <2> QED BY <2>1 DEF NoWalk, Walk, Lists
<1>3. TypeOK BY <1>1, <1>2, ConstantsAssumption DEF TypeOK, Walk
<1>4. walk.pc = "none" BY <1>1 DEF NoWalk
<1> QED BY <1>3, <1>4 DEF WalkInv, WalkIsExplained, PagesWhileGrowing

LEMMA StepsWalk == ASSUME WalkInv, [Next]_vars PROVE WalkInv'
<1>1. CASE UNCHANGED vars
  <2>1. /\ lastId' = lastId /\ inserting' = inserting /\ comments' = comments /\ walk' = walk
    BY <1>1 DEF vars
  <2>2. TypeOK' BY <2>1 DEF WalkInv, TypeOK
  <2> QED BY <2>1, <2>2, WalkStays DEF WalkInv
<1> QED BY <1>1, InsertWalks, CreateWalks, RefusalWalks, DeleteWalks, StartWalks, NextPageWalks
        DEF Next

\* Through inserts that commit in any order, deletes and pages, every copy of a comment
\* that a client was sent is accounted for by its place or by a comment that joined
\* before it.
THEOREM WalkInvAlways == Spec => []WalkInv
<1>1. WalkInv /\ [Next]_vars => WalkInv' BY StepsWalk
<1> QED BY InitWalks, <1>1, PTL DEF Spec

\* The table, the sequence, the INSERTs under way and the client keep their types, and no
\* id is given twice.
THEOREM TypeCorrect == Spec => []TypeOK
<1>1. WalkInv => TypeOK BY DEF WalkInv
<1> QED BY WalkInvAlways, <1>1, PTL

\* GET /roots and GET /search, page by page, while comments come in any order of their
\* ids: none that was there is missed, and one is shown again at most once for each
\* comment that joined before it.
THEOREM PagesStayWhole == Spec => []PagesWhileGrowing
<1>1. WalkInv => PagesWhileGrowing BY DEF WalkInv
<1> QED BY WalkInvAlways, <1>1, PTL

\* What that comes to when no comment joins or leaves the list: every comment once.
PagesAtRest ==
    walk.pc = "done" /\ ~walk.left /\ walk.joined = {}
    /\ NoTies(walk.list, walk.sort, walk.order) =>
        /\ ToSet(walk.seen) = walk.start
        /\ \A j, k \in DOMAIN walk.seen : walk.seen[j] = walk.seen[k] => j = k

\* On a table at rest the pages are the list, every comment once.
THEOREM PagesAreTheList == Spec => []PagesAtRest
<1>1. WalkInv => PagesAtRest
  <2> SUFFICES ASSUME WalkInv, walk.pc = "done", ~walk.left, walk.joined = {},
                      NoTies(walk.list, walk.sort, walk.order)
               PROVE  /\ ToSet(walk.seen) = walk.start
                      /\ \A j, k \in DOMAIN walk.seen : walk.seen[j] = walk.seen[k] => j = k
    BY DEF PagesAtRest
  <2>1. /\ ToSet(walk.seen) = walk.start
        /\ \A i \in ToSet(walk.seen) : Copies(i) <= 1 + Cardinality(JoinedBefore(i))
    BY DEF WalkInv, PagesWhileGrowing
  <2>2. ASSUME NEW j \in DOMAIN walk.seen, NEW k \in DOMAIN walk.seen,
               walk.seen[j] = walk.seen[k], j # k
        PROVE  FALSE
    <3>1. PICK x : x = walk.seen[j] OBVIOUS
    <3>2. PICK C : C = {n \in DOMAIN walk.seen : walk.seen[n] = x} OBVIOUS
    <3>3. x \in ToSet(walk.seen) BY <3>1 DEF ToSet
    <3>4. JoinedBefore(x) = {} BY DEF JoinedBefore
    <3>5. Cardinality(JoinedBefore(x)) = 0 BY <3>4, FS_EmptySet
    <3>6. Cardinality(C) <= 1 BY <2>1, <3>2, <3>3, <3>5 DEF Copies
    <3>7. IsFiniteSet(C)
      <4>1. walk.seen \in Seq(Ids) BY WalkType DEF WalkInv
      <4>2. DOMAIN walk.seen = 1..Len(walk.seen) /\ Len(walk.seen) \in Nat BY <4>1
      <4>3. C \in SUBSET (1..Len(walk.seen)) BY <3>2, <4>2
      <4> QED BY <4>2, <4>3, PositionsCount, FS_Subset
    <3>8. j \in C /\ k \in C BY <2>2, <3>1, <3>2
    <3>9. IsFiniteSet({j, k}) /\ Cardinality({j, k}) = 2
      <4>1. IsFiniteSet({j}) /\ Cardinality({j}) = 1 BY FS_Singleton
      <4>2. k \notin {j} BY <2>2
      <4>3. IsFiniteSet({j} \cup {k}) /\ Cardinality({j} \cup {k}) = 2
        BY <4>1, <4>2, FS_AddElement
      <4>4. {j} \cup {k} = {j, k} OBVIOUS
      <4> QED BY <4>3, <4>4
    <3>10. Cardinality({j, k}) <= Cardinality(C)
      <4>1. {j, k} \in SUBSET C BY <3>8
      <4> QED BY <3>7, <4>1, FS_Subset
    <3>11. Cardinality(C) \in Nat BY <3>7, FS_CardinalityType
    <3> QED BY <3>6, <3>9, <3>10, <3>11
  <2> QED BY <2>1, <2>2
<1> QED BY WalkInvAlways, <1>1, PTL

-----------------------------------------------------------------------------
(* The paths from a comment to those below it.                              *)

\* A set of numbers has a smallest one: this is the induction of this module.
LEMMA Smallest ==
    ASSUME NEW T \in SUBSET Nat, T # {}
    PROVE  \E m \in T : \A n \in T : m <= n
<1>1. PICK m \in T : \A n \in T : <<n, m>> \notin OpToRel(<, Nat)
  BY NatLessThanWellFounded, WFMin, Zenon
<1>2. \A n \in T : ~(n < m) BY <1>1 DEF OpToRel
<1> QED BY <1>2

\* A table as its ids and their parents, and a comment in it that is not its own parent.
\* Parents go round nowhere, except from a comment to itself.
Forest(D, par, r) ==
    /\ D \subseteq Nat /\ r \in D /\ par \in [D -> Nat] /\ par[r] # r
    /\ \A S \in SUBSET D :
          S # {} /\ (\A i \in S : par[i] \in S) => \E i \in S : par[i] = i

\* The paths down from r with up to m comments.
Chains(D, par, r, m) ==
    {p \in Seq(D) : /\ Len(p) \in 1..m /\ p[1] = r
                    /\ \A i \in 2..Len(p) : par[p[i]] = p[i - 1]}

LEMMA ChainFacts ==
    ASSUME NEW D, NEW par, NEW r, Forest(D, par, r), NEW m \in Nat, NEW p \in Chains(D, par, r, m)
    PROVE  /\ p \in Seq(D) /\ Len(p) \in Nat /\ 1 <= Len(p) /\ Len(p) <= m /\ p[1] = r
           /\ DOMAIN p = 1..Len(p)
           /\ \A i \in 1..Len(p) : p[i] \in D /\ p[i] \in Nat /\ par[p[i]] \in Nat
           /\ \A i \in 2..Len(p) : par[p[i]] = p[i - 1]
           /\ Last(p) = p[Len(p)]
<1>1. p \in Seq(D) /\ Len(p) \in 1..m /\ p[1] = r /\ \A i \in 2..Len(p) : par[p[i]] = p[i - 1]
  BY DEF Chains
<1>2. Len(p) \in Nat /\ DOMAIN p = 1..Len(p) /\ \A i \in 1..Len(p) : p[i] \in D
  BY <1>1
<1>3. D \subseteq Nat /\ \A i \in D : par[i] \in Nat BY DEF Forest
<1>4. \A i \in 1..Len(p) : p[i] \in Nat /\ par[p[i]] \in Nat BY <1>2, <1>3
<1> QED BY <1>1, <1>2, <1>4 DEF Last

\* A path leads to no parent of its first comment, and so not back to it.
LEMMA ChainsDoNotReturn ==
    ASSUME NEW D, NEW par, NEW r, Forest(D, par, r), NEW m \in Nat, NEW p \in Chains(D, par, r, m)
    PROVE  /\ \A i \in 1..Len(p) : p[i] # par[r]
           /\ \A i \in 2..Len(p) : p[i] # r
<1>0. /\ p[1] = r /\ \A i \in 1..Len(p) : p[i] \in D
      /\ \A i \in 2..Len(p) : par[p[i]] = p[i - 1]
  BY ChainFacts
<1> PICK n \in Nat : n = Len(p) BY ChainFacts
<1>1. /\ p[1] = r /\ \A i \in 1..n : p[i] \in D
      /\ \A i \in 2..n : par[p[i]] = p[i - 1]
  BY <1>0
<1>2. ASSUME NEW i \in 1..n, p[i] = par[r] PROVE FALSE
  <2> DEFINE S == {p[j] : j \in 1..i}
             own == {j \in 1..i : par[p[j]] = p[j]}
  <2>1. S \in SUBSET D /\ S # {} BY <1>1
  <2>2. ASSUME NEW j \in 1..i PROVE par[p[j]] \in S
    <3>1. CASE j = 1 BY <1>1, <1>2, <3>1
    <3>2. CASE j # 1
      <4>1. j \in 2..n /\ j - 1 \in 1..i BY <3>2
      <4> QED BY <1>1, <4>1
    <3> QED BY <3>1, <3>2
  <2>3. \A x \in S : par[x] \in S BY <2>2
  <2>4. \E x \in S : par[x] = x
    <3> HIDE DEF S
    <3> QED BY <2>1, <2>3 DEF Forest
  <2>5. own # {} /\ own \in SUBSET Nat BY <2>4
  <2>6. PICK j \in own : \A l \in own : j <= l BY <2>5, Smallest
  <2>7. j # 1 BY <1>1, <2>6 DEF Forest
  <2>8. j \in 2..n /\ j - 1 \in 1..i BY <2>6, <2>7
  <2>9. p[j - 1] = p[j] /\ par[p[j]] = p[j] BY <1>1, <2>6, <2>8
  <2>10. j - 1 \in own BY <2>8, <2>9
  <2> HIDE DEF own
  <2> QED BY <2>6, <2>8, <2>10
<1>3. ASSUME NEW i \in 2..n PROVE p[i] # r
  <2>1. i - 1 \in 1..n BY <1>3
  <2> QED BY <1>1, <1>2, <2>1
<1> QED BY <1>2, <1>3

\* A path that is not just r goes on from the path to the parent of its last comment.
LEMMA ChainFront ==
    ASSUME NEW D, NEW par, NEW r, Forest(D, par, r), NEW m \in Nat, NEW p \in Chains(D, par, r, m),
           Last(p) # r
    PROVE  \E q \in Chains(D, par, r, m) :
              /\ Len(p) = Len(q) + 1 /\ p = Append(q, Last(p)) /\ Last(q) = par[Last(p)]
<1>0. /\ p \in Seq(D) /\ p[1] = r /\ 1 <= Len(p) /\ Len(p) <= m
      /\ \A i \in 1..Len(p) : p[i] \in D
      /\ \A i \in 2..Len(p) : par[p[i]] = p[i - 1]
      /\ Last(p) = p[Len(p)]
  BY ChainFacts
<1> PICK n \in Nat : n = Len(p) BY ChainFacts
<1>1. /\ p \in Seq(D) /\ p[1] = r /\ 1 <= n /\ n <= m
      /\ \A i \in 1..n : p[i] \in D
      /\ \A i \in 2..n : par[p[i]] = p[i - 1]
      /\ Last(p) = p[n]
  BY <1>0
<1>2. 2 <= n BY <1>1
<1> PICK k \in Nat : k = n - 1 BY <1>2
<1> PICK q : q = [i \in 1..k |-> p[i]] OBVIOUS
<1>3. q \in Seq(D) /\ Len(q) = k /\ \A i \in 1..k : q[i] = p[i]
  <2>1. \A i \in 1..k : p[i] \in D BY <1>1
  <2> QED BY <2>1
<1>4. \A i \in 2..k : par[q[i]] = q[i - 1]
  <2> SUFFICES ASSUME NEW i \in 2..k PROVE par[q[i]] = q[i - 1] OBVIOUS
  <2>1. i \in 1..k /\ i - 1 \in 1..k /\ i \in 2..n OBVIOUS
  <2> QED BY <1>1, <1>3, <2>1
<1>5. q[1] = r /\ k \in 1..m BY <1>1, <1>2, <1>3
<1>6. q \in Chains(D, par, r, m) BY <1>3, <1>4, <1>5 DEF Chains
<1>7. Last(q) = par[Last(p)] BY <1>1, <1>2, <1>3 DEF Last
<1>8. p = Append(q, Last(p))
  <2>1. Last(p) \in D BY <1>1
  <2>2. /\ Append(q, Last(p)) \in Seq(D) /\ Len(Append(q, Last(p))) = n
        /\ \A i \in 1..k : Append(q, Last(p))[i] = p[i]
        /\ Append(q, Last(p))[k + 1] = Last(p)
    BY <1>3, <2>1, AppendProperties
  <2>3. \A i \in 1..n : Append(q, Last(p))[i] = p[i]
    <3> SUFFICES ASSUME NEW i \in 1..n PROVE Append(q, Last(p))[i] = p[i] OBVIOUS
    <3>1. i \in 1..k \/ i = k + 1 OBVIOUS
    <3> QED BY <1>1, <2>2, <3>1
  <2> QED BY <1>1, <2>2, <2>3, SeqEqual
<1> QED BY <1>3, <1>6, <1>7, <1>8

LEMMA ChainAppend ==
    ASSUME NEW D, NEW par, NEW r, Forest(D, par, r), NEW m \in Nat, NEW q \in Chains(D, par, r, m),
           Len(q) < m, NEW c \in D, par[c] = Last(q)
    PROVE  /\ Append(q, c) \in Chains(D, par, r, m) /\ Last(Append(q, c)) = c
           /\ Len(Append(q, c)) = Len(q) + 1
<1> PICK k \in Nat : k = Len(q) BY ChainFacts
<1>1. /\ q \in Seq(D) /\ q[1] = r /\ 1 <= k /\ k < m /\ Last(q) = q[k]
      /\ \A i \in 2..k : par[q[i]] = q[i - 1]
  BY ChainFacts
<1> PICK p : p = Append(q, c) OBVIOUS
<1>2. /\ p \in Seq(D) /\ Len(p) = k + 1 /\ p[k + 1] = c
      /\ \A i \in 1..k : p[i] = q[i]
  BY <1>1, AppendProperties
<1>3. \A i \in 2..k + 1 : par[p[i]] = p[i - 1]
  <2> SUFFICES ASSUME NEW i \in 2..k + 1 PROVE par[p[i]] = p[i - 1] OBVIOUS
  <2>1. CASE i = k + 1
    <3>1. k \in 1..k /\ i - 1 = k BY <1>1, <2>1
    <3> QED BY <1>1, <1>2, <2>1, <3>1
  <2>2. CASE i # k + 1
    <3>1. i \in 2..k /\ i \in 1..k /\ i - 1 \in 1..k BY <2>2
    <3> QED BY <1>1, <1>2, <3>1
  <2> QED BY <2>1, <2>2
<1>4. p[1] = r /\ k + 1 \in 1..m BY <1>1, <1>2
<1>5. p \in Chains(D, par, r, m) BY <1>1, <1>2, <1>3, <1>4 DEF Chains
<1>6. Last(p) = c BY <1>2 DEF Last
<1> QED BY <1>2, <1>5, <1>6

\* There is one path to a comment.
LEMMA OneChain ==
    ASSUME NEW D, NEW par, NEW r, Forest(D, par, r), NEW m \in Nat,
           NEW p \in Chains(D, par, r, m), NEW q \in Chains(D, par, r, m), Last(p) = Last(q)
    PROVE  p = q
<1> DEFINE C == Chains(D, par, r, m)
           bad == {k \in Nat : \E a, b \in C : Last(a) = Last(b) /\ a # b /\ Len(a) = k}
<1>1. SUFFICES ASSUME p # q PROVE FALSE OBVIOUS
<1>2. Len(p) \in bad BY <1>1, ChainFacts
<1>3. PICK k \in bad : \A j \in bad : k <= j
  <2>1. bad \in SUBSET Nat /\ bad # {} BY <1>2
  <2> QED BY <2>1, Smallest
<1>4. PICK a \in C, b \in C : Last(a) = Last(b) /\ a # b /\ Len(a) = k OBVIOUS
<1>5. CASE Last(a) = r
  <2>1. ASSUME NEW c \in C, Last(c) = r PROVE c = <<r>>
    <3>1. /\ Len(c) \in Nat /\ 1 <= Len(c) /\ Last(c) = c[Len(c)] /\ c[1] = r
          /\ c \in Seq(D)
      BY ChainFacts
    <3>2. \A i \in 2..Len(c) : c[i] # r BY ChainsDoNotReturn
    <3>3. Len(c) = 1
      <4>1. PICK n \in Nat : n = Len(c) BY <3>1
      <4>2. c[n] = r /\ (n \in 2..n => c[n] # r) /\ 1 <= n BY <2>1, <3>1, <3>2, <4>1
      <4>3. n = 1 BY <4>2
      <4> QED BY <4>1, <4>3
    <3>4. <<r>> \in Seq(D) BY DEF Forest
    <3> QED BY <3>1, <3>3, <3>4
  <2> QED BY <1>4, <1>5, <2>1
<1>6. CASE Last(a) # r
  <2>1. PICK c \in C : Len(a) = Len(c) + 1 /\ a = Append(c, Last(a)) /\ Last(c) = par[Last(a)]
    BY <1>6, ChainFront
  <2>2. PICK d \in C : Len(b) = Len(d) + 1 /\ b = Append(d, Last(b)) /\ Last(d) = par[Last(b)]
    BY <1>4, <1>6, ChainFront
  <2>3. Last(c) = Last(d) /\ c # d BY <1>4, <2>1, <2>2
  <2>4. Len(c) \in Nat BY ChainFacts
  <2>5. Len(c) \in bad BY <2>3, <2>4
  <2> HIDE DEF bad, C
  <2> QED BY <1>3, <1>4, <2>1, <2>4, <2>5
<1> QED BY <1>5, <1>6

-----------------------------------------------------------------------------
(* ORDER BY path.                                                          *)

LEMMA StrictPrefix ==
    ASSUME NEW p \in Seq(Nat), NEW q \in Seq(Nat)
    PROVE  IsStrictPrefix(p, q) <=> Len(p) < Len(q) /\ \A j \in 1..Len(p) : p[j] = q[j]
<1> PICK m \in Nat : m = Len(p) OBVIOUS
<1> PICK n \in Nat : n = Len(q) OBVIOUS
<1>1. \A j \in 1..m : p[j] \in Nat OBVIOUS
<1>2. \A j \in 1..n : q[j] \in Nat OBVIOUS
<1>3. SubSeq(p, 1, m) = p
  <2>1. \A i \in 1..m : p[i] \in Nat BY <1>1
  <2>2. /\ SubSeq(p, 1, m) \in Seq(Nat)
        /\ Len(SubSeq(p, 1, m)) = IF 1 <= m THEN m - 1 + 1 ELSE 0
        /\ \A i \in 1..m - 1 + 1 : SubSeq(p, 1, m)[i] = p[1 + i - 1]
    BY <2>1, SubSeqProperties
  <2>3. Len(SubSeq(p, 1, m)) = m BY <2>2
  <2>4. \A i \in 1..m : SubSeq(p, 1, m)[i] = p[i] BY <2>2
  <2> QED BY <2>2, <2>3, <2>4, SeqEqual
<1>4. CASE m <= n
  <2>1. \A i \in 1..m : q[i] \in Nat BY <1>2, <1>4
  <2>2. /\ SubSeq(q, 1, m) \in Seq(Nat)
        /\ Len(SubSeq(q, 1, m)) = IF 1 <= m THEN m - 1 + 1 ELSE 0
        /\ \A i \in 1..m - 1 + 1 : SubSeq(q, 1, m)[i] = q[1 + i - 1]
    BY <2>1, SubSeqProperties
  <2>3. Len(SubSeq(q, 1, m)) = m BY <2>2
  <2>4. \A i \in 1..m : SubSeq(q, 1, m)[i] = q[i] BY <2>2
  <2>5. p = SubSeq(q, 1, m) <=> \A i \in 1..m : p[i] = q[i]
    BY <2>2, <2>3, <2>4, SeqEqual
  <2>6. IsStrictPrefix(p, q) <=> p = SubSeq(q, 1, m) /\ p # q
    BY <1>3, <1>4 DEF IsStrictPrefix, IsPrefix
  <2>7. m = n /\ (\A i \in 1..m : p[i] = q[i]) => p = q BY SeqEqual
  <2> QED BY <1>4, <2>5, <2>6, <2>7
<1>5. CASE ~(m <= n)
  BY <1>5 DEF IsStrictPrefix, IsPrefix
<1> QED BY <1>4, <1>5

\* q leaves p at position k, upwards.
Leaves(p, q, k) == /\ k \in 1..Len(q)
                   /\ \A j \in 1..k - 1 : j <= Len(p) /\ p[j] = q[j]
                   /\ k = Len(p) + 1 \/ (k <= Len(p) /\ p[k] < q[k])

LEMMA PathsLeave ==
    ASSUME NEW p \in Seq(Nat), NEW q \in Seq(Nat)
    PROVE  PathBefore(p, q) <=> \E k \in Nat : Leaves(p, q, k)
<1>0. /\ DOMAIN p = 1..Len(p) /\ DOMAIN q = 1..Len(q)
      /\ IsStrictPrefix(p, q) <=> Len(p) < Len(q) /\ \A j \in 1..Len(p) : p[j] = q[j]
  BY StrictPrefix
<1> PICK m \in Nat : m = Len(p) OBVIOUS
<1> PICK n \in Nat : n = Len(q) OBVIOUS
<1>1. PathBefore(p, q) <=>
        \/ m < n /\ \A j \in 1..m : p[j] = q[j]
        \/ \E i \in (1..m) \cap (1..n) : p[i] < q[i] /\ \A j \in 1..i - 1 : p[j] = q[j]
  BY <1>0 DEF PathBefore
<1>2. \A k : Leaves(p, q, k) <=> /\ k \in 1..n
                                 /\ \A j \in 1..k - 1 : j <= m /\ p[j] = q[j]
                                 /\ k = m + 1 \/ (k <= m /\ p[k] < q[k])
  BY DEF Leaves
<1>3. ASSUME m < n, \A j \in 1..m : p[j] = q[j] PROVE Leaves(p, q, m + 1)
  <2>1. m + 1 \in 1..n BY <1>3
  <2>2. \A j \in 1..(m + 1) - 1 : j \in 1..m OBVIOUS
  <2>3. \A j \in 1..(m + 1) - 1 : j <= m /\ p[j] = q[j] BY <1>3, <2>2
  <2> QED BY <1>2, <2>1, <2>3
<1>4. ASSUME NEW i \in (1..m) \cap (1..n), p[i] < q[i], \A j \in 1..i - 1 : p[j] = q[j]
      PROVE  Leaves(p, q, i)
  <2>1. i \in 1..n /\ i <= m /\ \A j \in 1..i - 1 : j <= m BY <1>4
  <2> QED BY <1>2, <1>4, <2>1
<1>5. ASSUME NEW k \in Nat, Leaves(p, q, k) PROVE PathBefore(p, q)
  <2>1. /\ k \in 1..n /\ \A j \in 1..k - 1 : j <= m /\ p[j] = q[j]
        /\ k = m + 1 \/ (k <= m /\ p[k] < q[k])
    BY <1>2, <1>5
  <2>2. CASE k = m + 1 BY <1>1, <2>1, <2>2
  <2>3. CASE k <= m /\ p[k] < q[k]
    <3>1. k \in (1..m) \cap (1..n) BY <2>1, <2>3
    <3>2. \A j \in 1..k - 1 : p[j] = q[j] BY <2>1
    <3> QED BY <1>1, <2>3, <3>1, <3>2
  <2> QED BY <2>1, <2>2, <2>3
<1>6. m + 1 \in Nat /\ \A i \in (1..m) \cap (1..n) : i \in Nat OBVIOUS
<1> QED BY <1>1, <1>3, <1>4, <1>5, <1>6

PathOrder(P) == {pq \in P \X P : PathBefore(pq[1], pq[2])}

\* ORDER BY path orders any set of paths.
LEMMA PathsOrder ==
    ASSUME NEW P \in SUBSET Seq(Nat)
    PROVE  /\ Orders(PathOrder(P), P)
           /\ \A p, q \in P : <<p, q>> \in PathOrder(P) <=> PathBefore(p, q)
<1>0. \A p, q \in P : <<p, q>> \in PathOrder(P) <=> PathBefore(p, q) BY DEF PathOrder
<1>1. ASSUME NEW p \in P PROVE ~PathBefore(p, p)
  <2>1. SUFFICES ASSUME NEW k \in Nat, Leaves(p, p, k) PROVE FALSE BY PathsLeave
  <2>2. Len(p) \in Nat /\ \A i \in 1..Len(p) : p[i] \in Nat OBVIOUS
  <2> QED BY <2>1, <2>2 DEF Leaves
<1>2. ASSUME NEW p \in P, NEW q \in P, NEW s \in P, PathBefore(p, q), PathBefore(q, s)
      PROVE  PathBefore(p, s)
  <2>1. PICK k \in Nat : Leaves(p, q, k) BY <1>2, PathsLeave
  <2>2. PICK l \in Nat : Leaves(q, s, l) BY <1>2, PathsLeave
  <2>3. /\ Len(p) \in Nat /\ Len(q) \in Nat /\ Len(s) \in Nat
        /\ \A i \in 1..Len(p) : p[i] \in Nat
        /\ \A i \in 1..Len(q) : q[i] \in Nat
        /\ \A i \in 1..Len(s) : s[i] \in Nat
    OBVIOUS
  <2>4. CASE k <= l
    <3>1. ASSUME NEW j \in 1..k - 1 PROVE j <= Len(p) /\ p[j] = s[j]
      <4>1. j <= Len(p) /\ p[j] = q[j] BY <2>1 DEF Leaves
      <4>2. j \in 1..l - 1 BY <2>4
      <4>3. q[j] = s[j] BY <2>2, <4>2 DEF Leaves
      <4> QED BY <4>1, <4>3
    <3>2. k \in 1..Len(s) BY <2>1, <2>2, <2>3, <2>4 DEF Leaves
    <3>3. k <= Len(q) /\ (k = l => q[k] < s[k]) /\ (k < l => q[k] = s[k])
      BY <2>1, <2>2, <2>3, <2>4 DEF Leaves
    <3>4. k = Len(p) + 1 \/ (k <= Len(p) /\ p[k] < s[k])
      <4>1. k = Len(p) + 1 \/ (k <= Len(p) /\ p[k] < q[k]) BY <2>1 DEF Leaves
      <4>2. k \in 1..Len(q) /\ q[k] \in Nat /\ s[k] \in Nat BY <2>3, <3>2, <3>3
      <4>3. q[k] <= s[k] BY <2>4, <3>3, <4>2
      <4>4. k <= Len(p) => p[k] \in Nat BY <2>3, <3>2
      <4> QED BY <4>1, <4>2, <4>3, <4>4
    <3>5. Leaves(p, s, k) BY <3>1, <3>2, <3>4 DEF Leaves
    <3> QED BY <3>5, PathsLeave
  <2>5. CASE l < k
    <3>1. ASSUME NEW j \in 1..l - 1 PROVE j <= Len(p) /\ p[j] = s[j]
      <4>1. q[j] = s[j] BY <2>2 DEF Leaves
      <4>2. j \in 1..k - 1 BY <2>5
      <4>3. j <= Len(p) /\ p[j] = q[j] BY <2>1, <4>2 DEF Leaves
      <4> QED BY <4>1, <4>3
    <3>2. l \in 1..Len(s) BY <2>2 DEF Leaves
    <3>3. l <= Len(p) /\ p[l] = q[l] BY <2>1, <2>3, <2>5, <3>2 DEF Leaves
    <3>4. l < k /\ k <= Len(q) BY <2>1, <2>3, <2>5 DEF Leaves
    <3>5. p[l] < s[l] BY <2>2, <2>3, <3>3, <3>4 DEF Leaves
    <3>6. Leaves(p, s, l) BY <3>1, <3>2, <3>3, <3>5 DEF Leaves
    <3> QED BY <3>6, PathsLeave
  <2> QED BY <2>4, <2>5
<1>3. ASSUME NEW p \in P, NEW q \in P, p # q PROVE PathBefore(p, q) \/ PathBefore(q, p)
  <2>1. PICK m \in Nat : m = Len(p) OBVIOUS
  <2>2. PICK n \in Nat : n = Len(q) OBVIOUS
  <2>3. (\A i \in 1..m : p[i] \in Nat) /\ (\A i \in 1..n : q[i] \in Nat) BY <2>1, <2>2
  <2> DEFINE differ == {i \in Nat : 1 <= i /\ i <= m /\ i <= n /\ p[i] # q[i]}
  <2>4. CASE differ = {}
    <3>1. \A i \in Nat : 1 <= i /\ i <= m /\ i <= n => p[i] = q[i] BY <2>4
    <3>2. CASE m = n
      <4>1. \A i \in 1..m : p[i] = q[i] BY <3>1, <3>2
      <4>2. p = q BY <2>1, <2>2, <3>2, <4>1, SeqEqual
      <4> QED BY <1>3, <4>2
    <3>3. CASE m < n
      <4>1. \A j \in 1..m : p[j] = q[j] BY <3>1, <3>3
      <4>2. IsStrictPrefix(p, q) BY <2>1, <2>2, <3>3, <4>1, StrictPrefix
      <4> QED BY <4>2 DEF PathBefore
    <3>4. CASE n < m
      <4>1. \A j \in 1..n : q[j] = p[j] BY <3>1, <3>4
      <4>2. IsStrictPrefix(q, p) BY <2>1, <2>2, <3>4, <4>1, StrictPrefix
      <4> QED BY <4>2 DEF PathBefore
    <3> QED BY <3>2, <3>3, <3>4
  <2>5. CASE differ # {}
    <3>1. PICK i \in differ : \A j \in differ : i <= j
      <4>1. differ \in SUBSET Nat OBVIOUS
      <4> QED BY <2>5, <4>1, Smallest
    <3>2. i \in Nat /\ 1 <= i /\ i <= m /\ i <= n /\ p[i] # q[i] OBVIOUS
    <3>3. \A j \in 1..i - 1 : p[j] = q[j] BY <3>1, <3>2
    <3>4. p[i] < q[i] \/ q[i] < p[i] BY <2>3, <3>2
    <3>5. Leaves(p, q, i) \/ Leaves(q, p, i) BY <2>1, <2>2, <3>2, <3>3, <3>4 DEF Leaves
    <3> QED BY <3>2, <3>5, PathsLeave
  <2> QED BY <2>4, <2>5
<1> QED BY <1>0, <1>1, <1>2, <1>3 DEF Orders

\* Among the replies to one comment the path order is that of the ids.
LEMMA RepliesInOrder ==
    ASSUME NEW q \in Seq(Nat), NEW c \in Nat, NEW d \in Nat
    PROVE  PathBefore(Append(q, c), Append(q, d)) <=> c < d
<1>1. ASSUME NEW a \in Nat, NEW b \in Nat, a < b PROVE PathBefore(Append(q, a), Append(q, b))
  <2> PICK k \in Nat : k = Len(q) OBVIOUS
  <2> PICK p : p = Append(q, a) OBVIOUS
  <2> PICK s : s = Append(q, b) OBVIOUS
  <2>1. /\ p \in Seq(Nat) /\ Len(p) = k + 1 /\ p[k + 1] = a /\ \A i \in 1..k : p[i] = q[i]
        /\ s \in Seq(Nat) /\ Len(s) = k + 1 /\ s[k + 1] = b /\ \A i \in 1..k : s[i] = q[i]
    BY AppendProperties
  <2>2. Leaves(p, s, k + 1) BY <1>1, <2>1 DEF Leaves
  <2>3. k + 1 \in Nat OBVIOUS
  <2>4. PathBefore(p, s) BY <2>1, <2>2, <2>3, PathsLeave
  <2> QED BY <2>4
<1>2. ASSUME ~(c < d) PROVE ~PathBefore(Append(q, c), Append(q, d))
  <2> PICK p : p = Append(q, c) OBVIOUS
  <2> PICK s : s = Append(q, d) OBVIOUS
  <2>0. p \in Seq(Nat) /\ s \in Seq(Nat) BY AppendProperties
  <2>1. PICK P : P = {p, s} OBVIOUS
  <2>2. Orders(PathOrder(P), P) /\ \A x, y \in P : <<x, y>> \in PathOrder(P) <=> PathBefore(x, y)
    <3>1. P \in SUBSET Seq(Nat) BY <2>0, <2>1
    <3> QED BY <3>1, PathsOrder
  <2>3. ~PathBefore(p, p) BY <2>1, <2>2 DEF Orders
  <2>4. CASE c = d BY <2>3, <2>4
  <2>5. CASE d < c
    <3>1. PathBefore(s, p) BY <1>1, <2>5
    <3>2. ASSUME PathBefore(p, s) PROVE FALSE
      <4>1. p \in P /\ s \in P /\ <<p, s>> \in PathOrder(P) /\ <<s, p>> \in PathOrder(P)
        BY <2>1, <2>2, <3>1, <3>2
      <4>2. <<p, p>> \in PathOrder(P) BY <2>2, <4>1 DEF Orders
      <4> QED BY <2>2, <4>1, <4>2 DEF Orders
    <3> QED BY <3>2
  <2> QED BY <1>2, <2>4, <2>5
<1> QED BY <1>1, <1>2

-----------------------------------------------------------------------------
(* The rows of the query, one after the other.                             *)

LEMMA PathsSorted ==
    ASSUME NEW P \in SUBSET Seq(Nat), IsFiniteSet(P)
    PROVE  Sorted(PathOrder(P), P, InOrder(P, PathBefore))
<1>0. PICK s : s = InOrder(P, PathBefore) OBVIOUS
<1>1. /\ Orders(PathOrder(P), P)
      /\ \A p, q \in P : <<p, q>> \in PathOrder(P) <=> PathBefore(p, q)
  BY PathsOrder
<1>2. \A x \in P : {y \in P : PathBefore(y, x)} = Before(PathOrder(P), P, x)
  BY <1>1 DEF Before
<1>3. s = [k \in 1..Cardinality(P) |->
             CHOOSE x \in P : Cardinality({y \in P : PathBefore(y, x)}) = k - 1]
  BY <1>0 DEF InOrder
<1>4. ASSUME NEW k \in 1..Cardinality(P)
      PROVE  s[k] \in P /\ Place(PathOrder(P), P, s[k]) = k
  <2>1. \E x \in P : Cardinality({y \in P : PathBefore(y, x)}) = k - 1
    <3>1. PICK z \in P : Place(PathOrder(P), P, z) = k BY <1>1, PlacesAreTaken
    <3>2. Cardinality(Before(PathOrder(P), P, z)) = k - 1 BY <3>1, RankIsPlace
    <3> QED BY <1>2, <3>2
  <2>2. s[k] = CHOOSE x \in P : Cardinality({y \in P : PathBefore(y, x)}) = k - 1
    BY <1>3
  <2>3. s[k] \in P /\ Cardinality({y \in P : PathBefore(y, s[k])}) = k - 1
    BY <2>1, <2>2, Zenon
  <2>4. Cardinality(Before(PathOrder(P), P, s[k])) = k - 1 BY <1>2, <2>3
  <2> QED BY <2>3, <2>4, RankIsPlace
<1>5. s \in [1..Cardinality(P) -> P]
  <2> DEFINE pick(k) == CHOOSE x \in P : Cardinality({y \in P : PathBefore(y, x)}) = k - 1
  <2>1. s = [k \in 1..Cardinality(P) |-> pick(k)] BY <1>3
  <2> HIDE DEF pick
  <2> QED BY <1>4, <2>1
<1>6. Sorted(PathOrder(P), P, s) BY <1>4, <1>5 DEF Sorted
<1> QED BY <1>0, <1>6, Zenon

ByIds(S) == InOrder(S, <)

IdOrder(K) == {ab \in K \X K : ab[1] < ab[2]}

LEMMA IdsSorted ==
    ASSUME NEW K \in SUBSET Nat, IsFiniteSet(K)
    PROVE  /\ Orders(IdOrder(K), K) /\ Sorted(IdOrder(K), K, ByIds(K))
           /\ \A a, b \in K : <<a, b>> \in IdOrder(K) <=> a < b
<1>0. PICK s : s = ByIds(K) OBVIOUS
<1>1. \A a, b \in K : <<a, b>> \in IdOrder(K) <=> a < b BY DEF IdOrder
<1>2. Orders(IdOrder(K), K) BY <1>1 DEF Orders
<1>3. \A x \in K : {y \in K : y < x} = Before(IdOrder(K), K, x) BY <1>1 DEF Before
<1>4. s = [k \in 1..Cardinality(K) |->
             CHOOSE x \in K : Cardinality({y \in K : y < x}) = k - 1]
  BY <1>0 DEF InOrder, ByIds
<1>5. ASSUME NEW k \in 1..Cardinality(K)
      PROVE  s[k] \in K /\ Place(IdOrder(K), K, s[k]) = k
  <2>1. \E x \in K : Cardinality({y \in K : y < x}) = k - 1
    <3>1. PICK z \in K : Place(IdOrder(K), K, z) = k BY <1>2, PlacesAreTaken
    <3>2. Cardinality(Before(IdOrder(K), K, z)) = k - 1 BY <3>1, RankIsPlace
    <3> QED BY <1>3, <3>2
  <2>2. s[k] = CHOOSE x \in K : Cardinality({y \in K : y < x}) = k - 1
    BY <1>4
  <2>3. s[k] \in K /\ Cardinality({y \in K : y < s[k]}) = k - 1
    BY <2>1, <2>2, Zenon
  <2>4. Cardinality(Before(IdOrder(K), K, s[k])) = k - 1 BY <1>3, <2>3
  <2> QED BY <2>3, <2>4, RankIsPlace
<1>6. s \in [1..Cardinality(K) -> K]
  <2> DEFINE pick(k) == CHOOSE x \in K : Cardinality({y \in K : y < x}) = k - 1
  <2>1. s = [k \in 1..Cardinality(K) |-> pick(k)] BY <1>4
  <2> HIDE DEF pick
  <2> QED BY <1>5, <2>1
<1>7. Sorted(IdOrder(K), K, s) BY <1>5, <1>6 DEF Sorted
<1>8. Sorted(IdOrder(K), K, ByIds(K)) BY <1>0, <1>7, Zenon
<1> QED BY <1>1, <1>2, <1>8, Zenon

LEMMA ChainsFinite ==
    ASSUME NEW D, IsFiniteSet(D), NEW par, NEW r, Forest(D, par, r), NEW m \in Nat
    PROVE  IsFiniteSet(Chains(D, par, r, m)) /\ Chains(D, par, r, m) \in SUBSET Seq(Nat)
<1> PICK P : P = Chains(D, par, r, m) OBVIOUS
<1>1. \A p \in P : Last(p) \in D
  <2> SUFFICES ASSUME NEW p \in P PROVE Last(p) \in D OBVIOUS
  <2>1. /\ Len(p) \in Nat /\ 1 <= Len(p) /\ \A i \in 1..Len(p) : p[i] \in D
        /\ Last(p) = p[Len(p)]
    BY ChainFacts
  <2> QED BY <2>1
<1>2. \A p, q \in P : Last(p) = Last(q) => p = q BY OneChain
<1>3. PICK f : f = [p \in P |-> Last(p)] OBVIOUS
<1>4. IsFiniteSet(P)
  <2>1. f \in [P -> D] /\ \A p, q \in P : f[p] = f[q] => p = q BY <1>1, <1>2, <1>3
  <2>2. f \in Injection(P, D) BY <2>1 DEF Injection, IsInjective
  <2> QED BY <2>2, FS_Injection
<1>5. P \in SUBSET Seq(D) BY DEF Chains
<1>6. ASSUME NEW p \in Seq(D) PROVE p \in Seq(Nat)
  <2>1. p = [i \in 1..Len(p) |-> p[i]] /\ \A i \in 1..Len(p) : p[i] \in D OBVIOUS
  <2>2. \A i \in 1..Len(p) : p[i] \in Nat BY <2>1 DEF Forest
  <2> QED BY <2>1, <2>2
<1> QED BY <1>4, <1>5, <1>6

\* The flat list: row k shows the last comment of path k, the paths are all there, once
\* each, in their order.
ListsPaths(P, rows, flat) ==
    /\ rows \in Bijection(1..Cardinality(P), P)
    /\ \A k, l \in 1..Cardinality(P) : k < l <=> PathBefore(rows[k], rows[l])
    /\ flat = [k \in 1..Cardinality(P) |-> Last(rows[k])]

LEMMA FlatLists ==
    ASSUME NEW P \in SUBSET Seq(Nat), IsFiniteSet(P), NEW rows, Sorted(PathOrder(P), P, rows)
    PROVE  ListsPaths(P, rows, [i \in DOMAIN rows |-> Last(rows[i])])
<1> PICK n : n = Cardinality(P) OBVIOUS
<1>1. n \in Nat BY FS_CardinalityType
<1>2. /\ Orders(PathOrder(P), P)
      /\ \A p, q \in P : <<p, q>> \in PathOrder(P) <=> PathBefore(p, q)
  BY PathsOrder
<1>4. rows \in Bijection(1..n, P) BY <1>2, SortedIsBijection
<1>5. rows \in [1..n -> P] /\ \A k \in 1..n : Place(PathOrder(P), P, rows[k]) = k
  BY DEF Sorted
<1>6. ASSUME NEW k \in 1..n, NEW l \in 1..n PROVE k < l <=> PathBefore(rows[k], rows[l])
  <2>0. rows[k] \in P /\ rows[l] \in P BY <1>5
  <2>1. PathBefore(rows[k], rows[l]) => k < l
    <3>1. ASSUME <<rows[k], rows[l]>> \in PathOrder(P)
          PROVE  Place(PathOrder(P), P, rows[k]) < Place(PathOrder(P), P, rows[l])
      BY <1>2, <2>0, <3>1, PlaceFollowsOrder
    <3> QED BY <1>2, <1>5, <2>0, <3>1
  <2>2. PathBefore(rows[l], rows[k]) => l < k
    <3>1. ASSUME <<rows[l], rows[k]>> \in PathOrder(P)
          PROVE  Place(PathOrder(P), P, rows[l]) < Place(PathOrder(P), P, rows[k])
      BY <1>2, <2>0, <3>1, PlaceFollowsOrder
    <3> QED BY <1>2, <1>5, <2>0, <3>1
  <2>3. rows[k] # rows[l] => PathBefore(rows[k], rows[l]) \/ PathBefore(rows[l], rows[k])
    BY <1>2, <2>0 DEF Orders
  <2>4. k < l => rows[k] # rows[l]
    <3>1. rows[k] = rows[l] => k = l BY <1>5
    <3> QED BY <1>1, <3>1
  <2>5. k \in Nat /\ l \in Nat BY <1>1
  <2>6. k < l => PathBefore(rows[k], rows[l]) BY <2>2, <2>3, <2>4, <2>5
  <2> QED BY <2>1, <2>6
<1>7. DOMAIN rows = 1..n BY <1>5
<1> QED BY <1>4, <1>6, <1>7 DEF ListsPaths

-----------------------------------------------------------------------------
(* childrenMap: what the flat list has below a comment.                    *)

\* The rows of the flat list whose parent is v.
RowsUnder(par, flat, v) == {k \in DOMAIN flat : par[flat[k]] = v}
ChildrenOf(D, par, v) == {c \in D : par[c] = v}

\* childrenMap of tree.go.
Children(par, flat, v) ==
    LET rows == ByIds(RowsUnder(par, flat, v))
    IN  [i \in DOMAIN rows |-> flat[rows[i]]]

\* A row under v belongs to the path to v with the row's comment at its end.
LEMMA RowsAreReplies ==
    ASSUME NEW D, NEW par, NEW r, Forest(D, par, r), NEW m \in Nat,
           NEW rows, NEW flat, ListsPaths(Chains(D, par, r, m), rows, flat),
           NEW q \in Chains(D, par, r, m), NEW k \in RowsUnder(par, flat, Last(q))
    PROVE  /\ k \in 1..Cardinality(Chains(D, par, r, m))
           /\ flat[k] \in ChildrenOf(D, par, Last(q))
           /\ Len(q) < m
           /\ rows[k] = Append(q, flat[k])
<1> PICK P : P = Chains(D, par, r, m) OBVIOUS
<1>1. /\ rows \in [1..Cardinality(P) -> P]
      /\ flat = [i \in 1..Cardinality(P) |-> Last(rows[i])]
  BY DEF ListsPaths, Bijection, Injection
<1>2. k \in 1..Cardinality(P) /\ par[flat[k]] = Last(q) BY <1>1 DEF RowsUnder
<1>3. rows[k] \in P /\ flat[k] = Last(rows[k]) BY <1>1, <1>2
<1>4. flat[k] \in D /\ flat[k] # r
  <2>1. /\ rows[k] \in Seq(D) /\ Len(rows[k]) \in Nat /\ 1 <= Len(rows[k])
        /\ \A i \in 1..Len(rows[k]) : rows[k][i] \in D
        /\ Last(rows[k]) = rows[k][Len(rows[k])]
    BY <1>3, ChainFacts
  <2>2. flat[k] \in D BY <1>3, <2>1
  <2>3. Last(q) # par[r]
    <3>1. /\ Len(q) \in Nat /\ 1 <= Len(q) /\ Last(q) = q[Len(q)] BY ChainFacts
    <3>2. \A i \in 1..Len(q) : q[i] # par[r] BY ChainsDoNotReturn
    <3> QED BY <3>1, <3>2
  <2> QED BY <1>2, <2>2, <2>3
<1>5. PICK p \in P : /\ Len(rows[k]) = Len(p) + 1 /\ rows[k] = Append(p, flat[k])
                     /\ Last(p) = par[flat[k]]
  <2>1. PICK s \in P : s = rows[k] BY <1>3
  <2>2. Last(s) = flat[k] /\ Last(s) # r BY <1>3, <1>4, <2>1
  <2>3. \E p \in P : Len(s) = Len(p) + 1 /\ s = Append(p, Last(s)) /\ Last(p) = par[Last(s)]
    BY <2>2, ChainFront
  <2> QED BY <2>1, <2>2, <2>3
<1>6. p = q BY <1>2, <1>5, OneChain
<1>7. Len(q) < m
  <2>1. Len(rows[k]) <= m /\ Len(q) \in Nat BY <1>3, ChainFacts
  <2> QED BY <1>5, <1>6, <2>1
<1> QED BY <1>2, <1>4, <1>5, <1>6, <1>7 DEF ChildrenOf

\* At the last level nothing is listed below.
LEMMA NoRowsBelow ==
    ASSUME NEW D, NEW par, NEW r, Forest(D, par, r), NEW m \in Nat,
           NEW rows, NEW flat, ListsPaths(Chains(D, par, r, m), rows, flat),
           NEW q \in Chains(D, par, r, m), Len(q) = m
    PROVE  Children(par, flat, Last(q)) = <<>>
<1>1. RowsUnder(par, flat, Last(q)) = {}
  <2>1. ~(m < m) OBVIOUS
  <2> QED BY <2>1, RowsAreReplies
<1>2. PICK K : K = RowsUnder(par, flat, Last(q)) /\ K = {} BY <1>1
<1>3. Cardinality(K) = 0 BY <1>2, FS_EmptySet
<1>4. K \in SUBSET Nat /\ IsFiniteSet(K) BY <1>2, FS_EmptySet
<1>5. Sorted(IdOrder(K), K, ByIds(K)) BY <1>4, IdsSorted
<1>6. PICK s : s = ByIds(K) OBVIOUS
<1>7. Sorted(IdOrder(K), K, s) BY <1>5, <1>6, Zenon
<1>8. DOMAIN s = 1..0 BY <1>3, <1>7 DEF Sorted
<1>9. Children(par, flat, Last(q)) = [i \in DOMAIN s |-> flat[s[i]]]
  BY <1>2, <1>6, Zenon DEF Children
<1>10. DOMAIN s = {} BY <1>8
<1> QED BY <1>9, <1>10

\* Above it the replies are all there, by their ids.
LEMMA RepliesAreListed ==
    ASSUME NEW D, IsFiniteSet(D), NEW par, NEW r, Forest(D, par, r), NEW m \in Nat,
           NEW rows, NEW flat, ListsPaths(Chains(D, par, r, m), rows, flat),
           NEW q \in Chains(D, par, r, m), Len(q) < m
    PROVE  Children(par, flat, Last(q)) = ByIds(ChildrenOf(D, par, Last(q)))
<1> PICK P : P = Chains(D, par, r, m) OBVIOUS
<1>0. PICK n : n = Cardinality(P) OBVIOUS
<1>1. PICK K : K = RowsUnder(par, flat, Last(q)) OBVIOUS
<1>2. PICK C : C = ChildrenOf(D, par, Last(q)) OBVIOUS
<1>3. /\ rows \in Bijection(1..n, P)
      /\ \A k, l \in 1..n : k < l <=> PathBefore(rows[k], rows[l])
      /\ flat = [i \in 1..n |-> Last(rows[i])]
  BY <1>0 DEF ListsPaths
<1>4. n \in Nat
  <2>1. IsFiniteSet(P) BY ChainsFinite
  <2> QED BY <1>0, <2>1, FS_CardinalityType
<1>5. C \in SUBSET Nat /\ C \in SUBSET D /\ IsFiniteSet(C)
  <2>1. C \in SUBSET D BY <1>2 DEF ChildrenOf
  <2> QED BY <2>1, FS_Subset DEF Forest
<1>6. K \in SUBSET (1..n) /\ K \in SUBSET Nat /\ IsFiniteSet(K)
  <2>1. K \in SUBSET (1..n) BY <1>1, <1>3 DEF RowsUnder
  <2>2. IsFiniteSet(1..n) BY <1>4, PositionsCount
  <2>3. IsFiniteSet(K) BY <2>1, <2>2, FS_Subset
  <2>4. K \in SUBSET Nat BY <2>1
  <2> QED BY <2>1, <2>3, <2>4
<1>7. \A k \in K : flat[k] \in C /\ rows[k] = Append(q, flat[k])
  BY <1>1, <1>2, RowsAreReplies
<1>8. \A k, l \in K : k < l <=> flat[k] < flat[l]
  <2> SUFFICES ASSUME NEW k \in K, NEW l \in K PROVE k < l <=> flat[k] < flat[l] OBVIOUS
  <2>1. k < l <=> PathBefore(Append(q, flat[k]), Append(q, flat[l])) BY <1>3, <1>6, <1>7
  <2>2. q \in Seq(Nat)
    <3>1. P \in SUBSET Seq(Nat) BY ChainsFinite
    <3> QED BY <3>1
  <2>3. flat[k] \in Nat /\ flat[l] \in Nat BY <1>5, <1>7
  <2> QED BY <2>1, <2>2, <2>3, RepliesInOrder
<1>9. \A c \in C : \E k \in K : flat[k] = c
  <2> SUFFICES ASSUME NEW c \in C PROVE \E k \in K : flat[k] = c OBVIOUS
  <2>1. c \in D /\ par[c] = Last(q) BY <1>2 DEF ChildrenOf
  <2>2. Append(q, c) \in P /\ Last(Append(q, c)) = c BY <2>1, ChainAppend
  <2>3. PICK k \in 1..n : rows[k] = Append(q, c) BY <1>3, <2>2 DEF Bijection, Surjection
  <2>4. flat[k] = c BY <1>3, <2>2, <2>3
  <2>5. k \in K BY <1>1, <1>3, <2>1, <2>4 DEF RowsUnder
  <2> QED BY <2>4, <2>5
<1>10. Cardinality(K) = Cardinality(C)
  <2>1. PICK f : f = [k \in K |-> flat[k]] OBVIOUS
  <2>2. f \in [K -> C] /\ \A k \in K : f[k] = flat[k] BY <1>7, <2>1
  <2>3. \A k, l \in K : f[k] = f[l] => k = l
    <3> SUFFICES ASSUME NEW k \in K, NEW l \in K, f[k] = f[l] PROVE k = l OBVIOUS
    <3>1. ~(flat[k] < flat[l]) /\ ~(flat[l] < flat[k])
      <4>1. flat[k] = flat[l] /\ flat[k] \in Nat BY <1>5, <1>7, <2>2
      <4> QED BY <4>1
    <3>2. ~(k < l) /\ ~(l < k) BY <1>8, <3>1
    <3>3. k \in Nat /\ l \in Nat BY <1>6
    <3> QED BY <3>2, <3>3
  <2>4. f \in Injection(K, C) BY <2>2, <2>3 DEF Injection, IsInjective
  <2>5. \A c \in C : \E k \in K : f[k] = c BY <1>9, <2>2
  <2>6. f \in Surjection(K, C) BY <2>2, <2>5 DEF Surjection
  <2> QED BY <1>6, <2>4, <2>6, FS_Surjection
<1>11. PICK a : a = ByIds(K) OBVIOUS
<1>12. PICK b : b = ByIds(C) OBVIOUS
<1>13. PICK h \in Nat : h = Cardinality(K) BY <1>6, FS_CardinalityType
<1>14. Orders(IdOrder(C), C) /\ \A x, y \in C : <<x, y>> \in IdOrder(C) <=> x < y
  BY <1>5, IdsSorted
<1>15. Sorted(IdOrder(C), C, b)
  <2>1. Sorted(IdOrder(C), C, ByIds(C)) BY <1>5, IdsSorted
  <2> QED BY <1>12, <2>1, Zenon
<1>16. /\ a \in [1..h -> K] /\ \A i, j \in 1..h : i < j => a[i] < a[j]
  <2>1. Orders(IdOrder(K), K) /\ \A x, y \in K : <<x, y>> \in IdOrder(K) <=> x < y
    BY <1>6, IdsSorted
  <2>2. Sorted(IdOrder(K), K, ByIds(K)) BY <1>6, IdsSorted
  <2>3. Sorted(IdOrder(K), K, a) BY <1>11, <2>2, Zenon
  <2>4. a \in [1..h -> K] /\ \A i \in 1..h : Place(IdOrder(K), K, a[i]) = i
    BY <1>13, <2>3 DEF Sorted
  <2>5. ASSUME NEW i \in 1..h, NEW j \in 1..h, i < j PROVE a[i] < a[j]
    <3>1. a[i] \in K /\ a[j] \in K /\ a[i] \in Nat /\ a[j] \in Nat BY <1>6, <2>4
    <3>2. a[i] # a[j] BY <2>4, <2>5
    <3>3. ASSUME a[j] < a[i] PROVE FALSE
      <4>1. Place(IdOrder(K), K, a[j]) < Place(IdOrder(K), K, a[i])
        BY <1>6, <2>1, <3>1, <3>3, PlaceFollowsOrder
      <4> QED BY <2>4, <2>5, <4>1
    <3> QED BY <3>1, <3>2, <3>3
  <2> QED BY <2>4, <2>5
<1>17. PICK t : t = [i \in 1..h |-> flat[a[i]]] OBVIOUS
<1>18. Sorted(IdOrder(C), C, t)
  <2>1. t \in [1..Cardinality(C) -> C] BY <1>7, <1>10, <1>13, <1>16, <1>17
  <2>2. ASSUME NEW i \in 1..h, NEW j \in 1..h, i < j
        PROVE  t[i] < t[j] /\ t[i] \in C /\ t[j] \in C /\ t[i] \in Nat /\ t[j] \in Nat
    <3>1. a[i] \in K /\ a[j] \in K /\ a[i] < a[j] BY <1>16, <2>2
    <3>2. t[i] = flat[a[i]] /\ t[j] = flat[a[j]] BY <1>17
    <3> QED BY <1>5, <1>7, <1>8, <3>1, <3>2
  <2>3. \A i, j \in 1..Cardinality(C) : i # j => t[i] # t[j]
    <3> SUFFICES ASSUME NEW i \in 1..h, NEW j \in 1..h, i # j PROVE t[i] # t[j]
      BY <1>10, <1>13
    <3>1. i < j \/ j < i OBVIOUS
    <3> QED BY <2>2, <3>1
  <2>4. \A i, j \in 1..Cardinality(C) : i < j => <<t[j], t[i]>> \notin IdOrder(C)
    <3> SUFFICES ASSUME NEW i \in 1..h, NEW j \in 1..h, i < j
                 PROVE  <<t[j], t[i]>> \notin IdOrder(C)
      BY <1>10, <1>13
    <3>1. t[i] < t[j] /\ t[i] \in C /\ t[j] \in C /\ t[i] \in Nat /\ t[j] \in Nat BY <2>2
    <3> QED BY <1>14, <3>1
  <2> QED BY <1>5, <1>14, <2>1, <2>3, <2>4, InOrderIsSorted
<1>19. t = b BY <1>5, <1>14, <1>15, <1>18, SortedIsUnique
<1>20. Children(par, flat, Last(q)) = [i \in DOMAIN a |-> flat[a[i]]]
  BY <1>1, <1>11, Zenon DEF Children
<1>21. DOMAIN a = 1..h BY <1>16
<1>22. Children(par, flat, Last(q)) = t BY <1>17, <1>20, <1>21, Zenon
<1>23. Children(par, flat, Last(q)) = ByIds(C) BY <1>12, <1>19, <1>22, Zenon
<1> QED BY <1>2, <1>23, Zenon

-----------------------------------------------------------------------------
(* TreeUnder: the recursion has a solution, level by level.                *)

\* The replies to a comment as the reference lists them.
Replies(id) == ByIds({c \in DOMAIN comments : comments[c].parent = id})

\* One step of TreeUnder, from the trees g that are less deep.
Level(g, k) ==
    [id \in Ids |->
        [id |-> id,
         children |-> IF k = 0 THEN <<>>
                      ELSE [i \in DOMAIN Replies(id) |-> g[k - 1][Replies(id)[i]]]]]

LEMMA LevelDepends ==
    ASSUME NEW g, NEW h, NEW k \in Nat, k # 0 => g[k - 1] = h[k - 1]
    PROVE  Level(g, k) = Level(h, k)
<1>1. CASE k = 0 BY <1>1 DEF Level
<1>2. CASE k # 0
  <2>1. g[k - 1] = h[k - 1] BY <1>2
  <2> QED BY <2>1, Zenon DEF Level
<1> QED BY <1>1, <1>2

Levels(g, n) == g = [k \in 0..n |-> Level(g, k)]

LEMMA LevelsAgree ==
    ASSUME NEW g, NEW h, NEW n \in Nat, NEW m \in Nat, Levels(g, n), Levels(h, m)
    PROVE  \A k \in Nat : k <= n /\ k <= m => g[k] = h[k]
<1> DEFINE bad == {k \in Nat : k <= n /\ k <= m /\ g[k] # h[k]}
<1>1. SUFFICES ASSUME bad # {} PROVE FALSE OBVIOUS
<1>2. PICK k \in bad : \A j \in bad : k <= j
  <2>1. bad \in SUBSET Nat OBVIOUS
  <2> QED BY <1>1, <2>1, Smallest
<1>3. k \in Nat /\ k <= n /\ k <= m /\ g[k] # h[k] OBVIOUS
<1>4. g[k] = Level(g, k) /\ h[k] = Level(h, k)
  <2>1. k \in 0..n /\ k \in 0..m BY <1>3
  <2> QED BY <2>1, Zenon DEF Levels
<1>5. k # 0 => g[k - 1] = h[k - 1]
  <2> SUFFICES ASSUME k # 0, g[k - 1] # h[k - 1] PROVE FALSE OBVIOUS
  <2>1. k - 1 \in Nat /\ k - 1 <= n /\ k - 1 <= m BY <1>3
  <2>2. k - 1 \in bad BY <2>1
  <2> HIDE DEF bad
  <2> QED BY <1>2, <1>3, <2>2
<1>6. Level(g, k) = Level(h, k) BY <1>3, <1>5, LevelDepends
<1> QED BY <1>3, <1>4, <1>6

LEMMA LevelsExist == \A n \in Nat : \E g : Levels(g, n)
<1> DEFINE bad == {n \in Nat : ~\E g : Levels(g, n)}
<1>1. SUFFICES ASSUME bad # {} PROVE FALSE OBVIOUS
<1>2. PICK n \in bad : \A j \in bad : n <= j
  <2>1. bad \in SUBSET Nat OBVIOUS
  <2> QED BY <1>1, <2>1, Smallest
<1>3. n \in Nat /\ ~\E g : Levels(g, n) OBVIOUS
<1>4. \E old : n # 0 => Levels(old, n - 1)
  <2>1. CASE n = 0 BY <2>1
  <2>2. CASE n # 0
    <3>1. n - 1 \in Nat /\ ~(n <= n - 1) BY <1>3, <2>2
    <3>2. n - 1 \notin bad BY <1>2, <3>1
    <3> QED BY <3>1, <3>2
  <2> QED BY <2>1, <2>2
<1> HIDE DEF bad
<1>5. PICK old : n # 0 => Levels(old, n - 1) BY <1>4
<1>6. PICK g : g = [k \in 0..n |-> Level(old, k)] OBVIOUS
<1>7. ASSUME NEW k \in 0..n PROVE Level(old, k) = Level(g, k)
  <2>1. k \in Nat BY <1>7
  <2>2. ASSUME k # 0 PROVE old[k - 1] = g[k - 1]
    <3>1. k - 1 \in 0..n - 1 /\ k - 1 \in 0..n /\ n # 0 BY <1>3, <1>7, <2>2
    <3>2. Levels(old, n - 1) BY <1>5, <3>1
    <3>3. old[k - 1] = Level(old, k - 1) BY <3>1, <3>2, Zenon DEF Levels
    <3>4. g[k - 1] = Level(old, k - 1) BY <1>6, <3>1, Zenon
    <3> QED BY <3>3, <3>4, Zenon
  <2> QED BY <2>1, <2>2, LevelDepends
<1>8. g = [k \in 0..n |-> Level(g, k)] BY <1>6, <1>7, Zenon
<1> QED BY <1>3, <1>8 DEF Levels

\* The reference meets its own equation.
LEMMA TreesGrow == \A k \in Nat : TreeUnder[k] = Level(TreeUnder, k)
<1> DEFINE upTo(n) == CHOOSE g : Levels(g, n)
<1>1. \A n \in Nat : Levels(upTo(n), n) BY LevelsExist, Zenon
<1> HIDE DEF upTo
<1>2. PICK t : t = [n \in Nat |-> upTo(n)[n]] OBVIOUS
<1>3. ASSUME NEW n \in Nat PROVE t[n] = Level(t, n)
  <2>1. t[n] = upTo(n)[n] BY <1>2
  <2>2. upTo(n)[n] = Level(upTo(n), n)
    <3>1. n \in 0..n OBVIOUS
    <3> QED BY <1>1, <3>1, Zenon DEF Levels
  <2>3. ASSUME n # 0 PROVE upTo(n)[n - 1] = t[n - 1]
    <3>1. n - 1 \in Nat /\ n - 1 <= n /\ n - 1 <= n - 1 BY <2>3
    <3>2. upTo(n)[n - 1] = upTo(n - 1)[n - 1] BY <1>1, <3>1, LevelsAgree
    <3>3. t[n - 1] = upTo(n - 1)[n - 1] BY <1>2, <3>1
    <3> QED BY <3>2, <3>3
  <2>4. Level(upTo(n), n) = Level(t, n) BY <2>3, LevelDepends
  <2> QED BY <2>1, <2>2, <2>4
<1>4. t = [n \in Nat |-> Level(t, n)]
  <2>1. t = [n \in Nat |-> t[n]] BY <1>2
  <2> QED BY <1>3, <2>1, Zenon
<1>5. TreeUnder = [n \in Nat |-> Level(TreeUnder, n)]
  BY <1>4, Zenon DEF TreeUnder, Level, Replies, ByIds
<1> QED BY <1>5, Zenon

-----------------------------------------------------------------------------
(* One comment of the answer.                                              *)

Parent == [i \in DOMAIN comments |-> comments[i].parent]

LEMMA TableIsForest ==
    ASSUME TypeOK, NoCircle, NEW root \in DOMAIN comments, comments[root].parent # root
    PROVE  /\ Forest(DOMAIN comments, Parent, root)
           /\ IsFiniteSet(DOMAIN comments) /\ DOMAIN comments \subseteq Ids
<1> PICK D : D = DOMAIN comments OBVIOUS
<1>1. /\ IsFiniteSet(D) /\ D \in SUBSET Ids
      /\ \A i \in D : i \in Nat /\ comments[i].parent \in Nat
  BY RowsAreTyped
<1>2. Parent \in [D -> Nat] /\ \A i \in D : Parent[i] = comments[i].parent
  BY <1>1 DEF Parent
<1>3. ASSUME NEW S \in SUBSET D, S # {}, \A i \in S : Parent[i] \in S
      PROVE  \E i \in S : Parent[i] = i
  BY <1>2, <1>3 DEF NoCircle
<1>4. D \subseteq Nat /\ root \in D /\ Parent[root] # root BY <1>1, <1>2
<1>5. Forest(D, Parent, root) BY <1>2, <1>3, <1>4 DEF Forest
<1> QED BY <1>1, <1>5

LEMMA PathsAreChains ==
    ASSUME NEW root, NEW depth \in Nat
    PROVE  Paths(root, depth) = Chains(DOMAIN comments, Parent, root, depth + 1)
<1> PICK D : D = DOMAIN comments OBVIOUS
<1>1. ASSUME NEW p PROVE p \in Paths(root, depth) => p \in Chains(D, Parent, root, depth + 1)
  <2> SUFFICES ASSUME p \in Paths(root, depth) PROVE p \in Chains(D, Parent, root, depth + 1)
    OBVIOUS
  <2>1. PICK n \in 1..depth + 1 : p \in [1..n -> D] BY DEF Paths
  <2>2. p \in Seq(D) /\ Len(p) = n BY <2>1
  <2>3. p[1] = root /\ \A i \in 2..Len(p) : comments[p[i]].parent = p[i - 1] BY DEF Paths
  <2>4. \A i \in 2..n : p[i] \in D BY <2>1
  <2>5. \A i \in 2..Len(p) : Parent[p[i]] = p[i - 1] BY <2>2, <2>3, <2>4 DEF Parent
  <2> QED BY <2>2, <2>3, <2>5 DEF Chains
<1>2. ASSUME NEW p PROVE p \in Chains(D, Parent, root, depth + 1) => p \in Paths(root, depth)
  <2> SUFFICES ASSUME p \in Chains(D, Parent, root, depth + 1) PROVE p \in Paths(root, depth)
    OBVIOUS
  <2>1. /\ p \in Seq(D) /\ Len(p) \in 1..depth + 1 /\ p[1] = root
        /\ \A i \in 2..Len(p) : Parent[p[i]] = p[i - 1]
    BY DEF Chains
  <2>2. PICK n \in 1..depth + 1 : n = Len(p) BY <2>1
  <2>3. p \in [1..n -> D] BY <2>1, <2>2
  <2>4. \A i \in 2..n : p[i] \in D BY <2>3
  <2>5. \A i \in 2..Len(p) : comments[p[i]].parent = p[i - 1]
    BY <2>1, <2>2, <2>4 DEF Parent
  <2> QED BY <2>1, <2>3, <2>5 DEF Paths
<1> QED BY <1>1, <1>2

\* One comment as build returns it, from the nodes f of its children.
Node(f, flat, v) ==
    [id |-> v,
     children |-> [i \in DOMAIN Children(Parent, flat, v) |-> f[Children(Parent, flat, v)[i]]]]

Shows(root, m, rows, flat) ==
    /\ m \in Nat /\ IsFiniteSet(DOMAIN comments) /\ DOMAIN comments \subseteq Ids
    /\ Forest(DOMAIN comments, Parent, root)
    /\ ListsPaths(Chains(DOMAIN comments, Parent, root, m), rows, flat)

\* A comment whose path leaves k levels below it gets the tree of that depth, when its
\* children have theirs.
LEMMA NodeIsTree ==
    ASSUME NEW root, NEW m, NEW rows, NEW flat, Shows(root, m, rows, flat),
           NEW q \in Chains(DOMAIN comments, Parent, root, m),
           NEW k \in Nat, m = Len(q) + k, NEW f,
           k # 0 => \A c \in ChildrenOf(DOMAIN comments, Parent, Last(q)) :
                       f[c] = TreeUnder[k - 1][c]
    PROVE  Node(f, flat, Last(q)) = TreeUnder[k][Last(q)]
<1>0. PICK D : D = DOMAIN comments OBVIOUS
<1>1. PICK v : v = Last(q) OBVIOUS
<1>2. v \in Ids /\ Len(q) \in Nat /\ m \in Nat
  <2>1. /\ Len(q) \in Nat /\ 1 <= Len(q) /\ \A i \in 1..Len(q) : q[i] \in DOMAIN comments
        /\ Last(q) = q[Len(q)]
    BY ChainFacts DEF Shows
  <2> QED BY <1>1, <2>1 DEF Shows
<1>3. TreeUnder[k][v] =
        [id |-> v, children |-> IF k = 0 THEN <<>>
                                ELSE [i \in DOMAIN Replies(v) |-> TreeUnder[k - 1][Replies(v)[i]]]]
  BY <1>2, TreesGrow, Zenon DEF Level
<1>4. CASE k = 0
  <2>1. Len(q) = m BY <1>2, <1>4
  <2>2. Children(Parent, flat, v) = <<>> BY <1>1, <2>1, NoRowsBelow DEF Shows
  <2>3. Node(f, flat, v) = [id |-> v, children |-> [i \in DOMAIN <<>> |-> f[<<>>[i]]]]
    BY <2>2, Zenon DEF Node
  <2>4. [i \in DOMAIN <<>> |-> f[<<>>[i]]] = <<>> OBVIOUS
  <2>5. TreeUnder[k][v] = [id |-> v, children |-> <<>>] BY <1>3, <1>4, Zenon
  <2>6. Node(f, flat, v) = [id |-> v, children |-> <<>>] BY <2>3, <2>4, Zenon
  <2> QED BY <1>1, <2>5, <2>6, Zenon
<1>5. CASE k # 0
  <2>1. Len(q) < m BY <1>2, <1>5
  <2>2. PICK C : C = ChildrenOf(D, Parent, v) OBVIOUS
  <2>3. C = {c \in DOMAIN comments : comments[c].parent = v}
    BY <1>0, <2>2 DEF ChildrenOf, Parent
  <2>4. PICK b : b = Replies(v) OBVIOUS
  <2>5. b = ByIds(C) BY <2>3, <2>4, Zenon DEF Replies
  <2>6. Children(Parent, flat, v) = b
    <3>1. Children(Parent, flat, Last(q)) = ByIds(ChildrenOf(D, Parent, Last(q)))
      BY <1>0, <2>1, RepliesAreListed DEF Shows
    <3> QED BY <1>1, <2>2, <2>5, <3>1, Zenon
  <2>7. \A i \in DOMAIN b : b[i] \in C
    <3>1. C \in SUBSET Nat /\ IsFiniteSet(C)
      <4>1. C \in SUBSET D BY <2>2 DEF ChildrenOf
      <4>2. D \subseteq Nat BY <1>0 DEF Shows, Forest
      <4> QED BY <1>0, <4>1, <4>2, FS_Subset DEF Shows
    <3>2. Sorted(IdOrder(C), C, ByIds(C)) BY <3>1, IdsSorted
    <3>3. Sorted(IdOrder(C), C, b) BY <2>5, <3>2, Zenon
    <3> QED BY <3>3 DEF Sorted
  <2>8. \A i \in DOMAIN b : f[b[i]] = TreeUnder[k - 1][b[i]]
    BY <1>0, <1>1, <1>5, <2>2, <2>7, Zenon
  <2>9. Node(f, flat, v) = [id |-> v, children |-> [i \in DOMAIN b |-> f[b[i]]]]
    BY <2>6, Zenon DEF Node
  <2>10. TreeUnder[k][v] =
           [id |-> v, children |-> [i \in DOMAIN b |-> TreeUnder[k - 1][b[i]]]]
    BY <1>3, <1>5, <2>4, Zenon
  <2>11. [i \in DOMAIN b |-> f[b[i]]] = [i \in DOMAIN b |-> TreeUnder[k - 1][b[i]]]
    BY <2>8, Zenon
  <2> QED BY <1>1, <2>9, <2>10, <2>11, Zenon
<1> QED BY <1>4, <1>5

-----------------------------------------------------------------------------
(* The answer: build has a solution, and it is the trees of the reference. *)

\* build of tree.go, as BuildCommentTree has it.
IsBuild(f, flat) ==
    LET childrenMap(id) == LET rows == ByIds({k \in DOMAIN flat : comments[flat[k]].parent = id})
                           IN  [i \in DOMAIN rows |-> flat[rows[i]]]
    IN  f = [id \in ToSet(flat) |->
               LET children == childrenMap(id)
               IN  [id |-> id, children |-> [i \in DOMAIN children |-> f[children[i]]]]]

LEMMA BuildIsChosen ==
    ASSUME NEW root, NEW flat
    PROVE  BuildCommentTree(root, flat) = (CHOOSE f : IsBuild(f, flat))[root]
BY Zenon DEF BuildCommentTree, IsBuild, ByIds

LEMMA BuildsNodes ==
    ASSUME NEW flat, \A k \in DOMAIN flat : flat[k] \in DOMAIN comments, NEW f
    PROVE  IsBuild(f, flat) <=> f = [v \in ToSet(flat) |-> Node(f, flat, v)]
<1>1. ASSUME NEW v
      PROVE  {k \in DOMAIN flat : comments[flat[k]].parent = v} = RowsUnder(Parent, flat, v)
  BY DEF RowsUnder, Parent
<1> DEFINE childrenMap(v) == LET rows == ByIds({k \in DOMAIN flat : comments[flat[k]].parent = v})
                             IN  [i \in DOMAIN rows |-> flat[rows[i]]]
           node(v) == LET children == childrenMap(v)
                      IN  [id |-> v, children |-> [i \in DOMAIN children |-> f[children[i]]]]
<1>2. ASSUME NEW v PROVE childrenMap(v) = Children(Parent, flat, v)
  BY <1>1, Zenon DEF Children
<1> HIDE DEF childrenMap
<1>3. ASSUME NEW v PROVE node(v) = Node(f, flat, v)
  BY <1>2, Zenon DEF Node
<1>4. IsBuild(f, flat) <=> f = [v \in ToSet(flat) |-> node(v)]
  BY Zenon DEF IsBuild, childrenMap
<1> HIDE DEF node
<1>5. [v \in ToSet(flat) |-> node(v)] = [v \in ToSet(flat) |-> Node(f, flat, v)]
  BY <1>3, Zenon
<1> QED BY <1>4, <1>5, Zenon

LEMMA BuildIsTree ==
    ASSUME NEW root, NEW depth \in Nat, NEW rows, NEW flat, Shows(root, depth + 1, rows, flat)
    PROVE  BuildCommentTree(root, flat) = TreeUnder[depth][root]
<1> PICK D : D = DOMAIN comments OBVIOUS
<1> PICK m \in Nat : m = depth + 1 OBVIOUS
<1> PICK P : P = Chains(D, Parent, root, m) OBVIOUS
<1>1. /\ Forest(D, Parent, root) /\ rows \in Bijection(1..Cardinality(P), P)
      /\ flat = [k \in 1..Cardinality(P) |-> Last(rows[k])]
  BY DEF Shows, ListsPaths
<1>2. \A v \in ToSet(flat) : \E q \in P : Last(q) = v
  BY <1>1 DEF ToSet, Bijection, Injection
<1>3. \A q \in P : Last(q) \in ToSet(flat) /\ Last(q) \in D /\ Len(q) \in Nat /\ Len(q) <= m
  <2> SUFFICES ASSUME NEW q \in P
               PROVE  Last(q) \in ToSet(flat) /\ Last(q) \in D /\ Len(q) \in Nat /\ Len(q) <= m
    OBVIOUS
  <2>1. PICK k \in 1..Cardinality(P) : rows[k] = q BY <1>1 DEF Bijection, Surjection
  <2>2. Last(q) \in ToSet(flat)
    <3>1. flat[k] = Last(q) /\ k \in DOMAIN flat BY <1>1, <2>1
    <3> QED BY <3>1 DEF ToSet
  <2>3. /\ Len(q) \in Nat /\ 1 <= Len(q) /\ Len(q) <= m /\ \A i \in 1..Len(q) : q[i] \in D
        /\ Last(q) = q[Len(q)]
    BY <1>1, ChainFacts
  <2> QED BY <2>2, <2>3
<1>4. \A k \in DOMAIN flat : flat[k] \in D
  <2>1. \A k \in DOMAIN flat : flat[k] \in ToSet(flat) BY DEF ToSet
  <2> QED BY <1>2, <1>3, <2>1
<1> DEFINE pathTo(v) == CHOOSE q \in P : Last(q) = v
           below(v)  == m - Len(pathTo(v))
<1>5. \A q \in P : pathTo(Last(q)) = q
  <2> SUFFICES ASSUME NEW q \in P PROVE pathTo(Last(q)) = q OBVIOUS
  <2>1. pathTo(Last(q)) \in P /\ Last(pathTo(Last(q))) = Last(q) OBVIOUS
  <2> HIDE DEF pathTo
  <2> QED BY <1>1, <2>1, OneChain
<1> HIDE DEF pathTo
<1>6. \A q \in P : below(Last(q)) \in Nat /\ m = Len(q) + below(Last(q))
  BY <1>3, <1>5
<1>7. ASSUME NEW q \in P, below(Last(q)) # 0, NEW c \in ChildrenOf(D, Parent, Last(q))
      PROVE  c \in ToSet(flat) /\ below(c) = below(Last(q)) - 1
  <2>1. c \in D /\ Parent[c] = Last(q) BY DEF ChildrenOf
  <2>2. Len(q) < m BY <1>3, <1>6, <1>7
  <2>3. Append(q, c) \in P /\ Last(Append(q, c)) = c /\ Len(Append(q, c)) = Len(q) + 1
    BY <1>1, <2>1, <2>2, ChainAppend
  <2>4. c \in ToSet(flat) BY <1>3, <2>3
  <2>5. m = Len(Append(q, c)) + below(c) BY <1>6, <2>3
  <2> QED BY <1>3, <1>6, <2>3, <2>4, <2>5
<1> HIDE DEF below
<1>8. PICK w : w = [v \in ToSet(flat) |-> TreeUnder[below(v)][v]] OBVIOUS
<1>9. ASSUME NEW q \in P PROVE Node(w, flat, Last(q)) = TreeUnder[below(Last(q))][Last(q)]
  <2>1. PICK k \in Nat : k = below(Last(q)) BY <1>6
  <2>2. m = Len(q) + k BY <1>6, <2>1
  <2>3. k # 0 => \A c \in ChildrenOf(D, Parent, Last(q)) : w[c] = TreeUnder[k - 1][c]
    BY <1>7, <1>8, <2>1
  <2> QED BY <2>1, <2>2, <2>3, NodeIsTree
<1>10. w = [v \in ToSet(flat) |-> Node(w, flat, v)]
  <2>1. \A v \in ToSet(flat) : Node(w, flat, v) = TreeUnder[below(v)][v] BY <1>2, <1>9
  <2> QED BY <1>8, <2>1, Zenon
<1>11. PICK f : f = CHOOSE g : IsBuild(g, flat) OBVIOUS
<1>12. f = [v \in ToSet(flat) |-> Node(f, flat, v)]
  <2>1. IsBuild(w, flat) BY <1>4, <1>10, BuildsNodes
  <2>2. IsBuild(f, flat) BY <1>11, <2>1, Zenon
  <2> QED BY <1>4, <2>2, BuildsNodes
<1>13. ASSUME NEW q \in P PROVE f[Last(q)] = TreeUnder[below(Last(q))][Last(q)]
  <2> DEFINE bad == {k \in Nat : \E p \in P : below(Last(p)) = k
                                     /\ f[Last(p)] # TreeUnder[k][Last(p)]}
  <2>1. SUFFICES ASSUME bad # {} PROVE FALSE BY <1>6
  <2>2. PICK k \in bad : \A j \in bad : k <= j
    <3>1. bad \in SUBSET Nat OBVIOUS
    <3> QED BY <2>1, <3>1, Smallest
  <2>3. PICK p \in P : below(Last(p)) = k /\ f[Last(p)] # TreeUnder[k][Last(p)] OBVIOUS
  <2>4. k \in Nat /\ m = Len(p) + k BY <1>6, <2>3
  <2>5. ASSUME k # 0, NEW c \in ChildrenOf(D, Parent, Last(p))
        PROVE  f[c] = TreeUnder[k - 1][c]
    <3>1. c \in ToSet(flat) /\ below(c) = k - 1 BY <1>7, <2>3, <2>5
    <3>2. PICK s \in P : Last(s) = c BY <1>2, <3>1
    <3>3. k - 1 \in Nat /\ ~(k <= k - 1) BY <2>4, <2>5
    <3>4. k - 1 \notin bad BY <2>2, <3>3
    <3> QED BY <3>1, <3>2, <3>3, <3>4
  <2> HIDE DEF bad
  <2>6. Node(f, flat, Last(p)) = TreeUnder[k][Last(p)] BY <2>4, <2>5, NodeIsTree
  <2>7. f[Last(p)] = Node(f, flat, Last(p)) BY <1>3, <1>12, Zenon
  <2> QED BY <2>3, <2>6, <2>7
<1>14. f[root] = TreeUnder[depth][root]
  <2>1. PICK q : q = <<root>> OBVIOUS
  <2>2. q \in Seq(D) /\ Len(q) = 1 /\ q[1] = root /\ root \in D
    BY <1>1, <2>1 DEF Forest
  <2>3. Last(q) = root BY <2>2 DEF Last
  <2>4. q \in P
    <3>1. Len(q) \in 1..m /\ \A i \in 2..Len(q) : FALSE BY <2>2
    <3>2. q \in Chains(D, Parent, root, m) BY <2>2, <3>1 DEF Chains
    <3> QED BY <3>2
  <2>5. below(root) = depth
    <3>1. PICK k \in Nat : k = below(root) BY <1>6, <2>3, <2>4
    <3>2. m = 1 + k BY <1>6, <2>2, <2>3, <2>4, <3>1
    <3>3. k = depth BY <3>2
    <3> QED BY <3>1, <3>3
  <2> QED BY <1>13, <2>3, <2>4, <2>5
<1> QED BY <1>11, <1>14, BuildIsChosen, Zenon

\* GET /comments on any table of the type without circles.
LEMMA TypedIsExact == TypeOK /\ NoCircle => SubtreeIsExact
<1> SUFFICES ASSUME TypeOK, NoCircle, NEW root \in DOMAIN comments, NEW depth \in 0..DefaultDepth,
                    comments[root].parent # root
             PROVE  GetSubtree(root, depth) = TreeUnder[depth][root]
  BY DEF SubtreeIsExact
<1>1. depth \in Nat /\ depth + 1 \in Nat BY ConstantsAssumption
<1>2. /\ Forest(DOMAIN comments, Parent, root)
      /\ IsFiniteSet(DOMAIN comments) /\ DOMAIN comments \subseteq Ids
  BY TableIsForest
<1>3. PICK P : P = Chains(DOMAIN comments, Parent, root, depth + 1) OBVIOUS
<1>4. IsFiniteSet(P) /\ P \in SUBSET Seq(Nat) BY <1>1, <1>2, <1>3, ChainsFinite
<1>5. PICK rows : rows = InOrder(P, PathBefore) OBVIOUS
<1>6. Sorted(PathOrder(P), P, rows)
  <2>1. Sorted(PathOrder(P), P, InOrder(P, PathBefore)) BY <1>4, PathsSorted
  <2> QED BY <1>5, <2>1, Zenon
<1>7. PICK flat : flat = [i \in DOMAIN rows |-> Last(rows[i])] OBVIOUS
<1>8. ListsPaths(P, rows, flat)
  <2>1. ListsPaths(P, rows, [i \in DOMAIN rows |-> Last(rows[i])]) BY <1>4, <1>6, FlatLists
  <2> QED BY <1>7, <2>1, Zenon
<1>9. Paths(root, depth) = P BY <1>1, <1>3, PathsAreChains
<1>10. Flat(root, depth) = flat BY <1>5, <1>7, <1>9, Zenon DEF Flat
<1>11. Shows(root, depth + 1, rows, flat) BY <1>1, <1>2, <1>3, <1>8, Zenon DEF Shows
<1>12. BuildCommentTree(root, flat) = TreeUnder[depth][root] BY <1>1, <1>11, BuildIsTree
<1> QED BY <1>10, <1>12, Zenon DEF GetSubtree

\* GET /comments answers with the subtree: no comment lost or shown twice when the rows
\* are put together again, none below the depth, replies in the order of their ids.
THEOREM SubtreesAreExact == Spec => []SubtreeIsExact
<1> QED BY TypeCorrect, CirclesAreSelfReferences, TypedIsExact, PTL
=============================================================================
