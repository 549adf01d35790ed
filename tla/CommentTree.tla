---------------------------- MODULE CommentTree ----------------------------
(***************************************************************************)
(* L3.3, comment tree: a table of comments with a reference to the parent  *)
(* that cascades on delete, the subtree query with the nesting of its flat *)
(* rows, and a client that walks the pages of /roots or /search.           *)
(*                                                                         *)
(* Each request is one statement.  A DELETE or a query is one step.  An    *)
(* INSERT is two: it takes its id from the sequence, and it commits, so    *)
(* rows appear in any order of their ids.  The check of its parent and the *)
(* commit are one step, because the row lock of the check keeps a DELETE   *)
(* of the parent waiting in between.  An error that leaves the row in or   *)
(* out leads to states that these steps reach.  created_at is now() of     *)
(* each transaction, so it may repeat and need not follow the ids.         *)
(***************************************************************************)
EXTENDS Naturals, Sequences, FiniteSets, SequencesExt

CONSTANTS
    MaxId,        \* bound: ids of the sequence that are used
    MaxWalkId,    \* bound: ids that are used while a client walks
    MaxTime,      \* bound: distinct values of created_at
    MaxLimit,     \* bound: page size, 100 in the code
    DefaultDepth  \* depth when none is given, 1000 in the code

ASSUME ConstantsAssumption == /\ MaxId \in Nat /\ MaxWalkId \in 0..MaxId
                              /\ DefaultDepth \in Nat
                              /\ MaxTime \in Nat \ {0} /\ MaxLimit \in Nat \ {0}

VARIABLES
    comments,  \* the table: id -> parent, created_at, rank under the client's search
    lastId,    \* the sequence
    inserting, \* ids that it gave to INSERTs whose rows are not to be seen yet
    walk       \* the client's walk over the pages

vars == <<comments, lastId, inserting, walk>>

NoParent == 0   \* NULL
Ids == 1..MaxId
Rows == [parent : 0..MaxId, created : 1..MaxTime, rank : {0, 1}]

\* The ids under and including c: what ON DELETE CASCADE reaches from c.
Below(c) == {x \in DOMAIN comments :
               \A S \in SUBSET DOMAIN comments :
                  /\ c \in S
                  /\ \A y \in DOMAIN comments : comments[y].parent \in S => y \in S
                  => x \in S}

Lists  == {"roots", "search"}
Sorts(list) == IF list = "roots" THEN {"created_at", "id"} ELSE {"rank", "created_at", "id"}

\* WHERE parent_id IS NULL; WHERE the text matches.
InList(list, row) == IF list = "roots" THEN row.parent = NoParent ELSE row.rank > 0
Listed(list) == {i \in DOMAIN comments : InList(list, comments[i])}

NoWalk == [pc |-> "none", list |-> "roots", sort |-> "id", order |-> "asc", limit |-> 1,
           offset |-> 0, seen |-> <<>>, start |-> {}, joined |-> {}, left |-> FALSE]

Init == comments = <<>> /\ lastId = 0 /\ inserting = {} /\ walk = NoWalk

\* Bounds: fewer ids while a client walks, and no more changes when it is through.
MoreIds   == lastId < IF walk.pc = "none" THEN MaxId ELSE MaxWalkId
MayChange == walk.pc # "done"

-----------------------------------------------------------------------------
(* POST /comments, DELETE /comments/{id}.                                  *)

\* Mutant: the id is the count of the comments plus one, not of a sequence.
InsertCounts ==
    /\ MoreIds /\ MayChange
    /\ lastId' = lastId + 1
    /\ inserting' = inserting \cup {Cardinality(DOMAIN comments) + 1}
    /\ UNCHANGED <<comments, walk>>

\* The INSERT begins: its row is made, with an id that no other row gets.
Insert ==
    /\ MoreIds /\ MayChange
    /\ lastId' = lastId + 1
    /\ inserting' = inserting \cup {lastId + 1}
    /\ UNCHANGED <<comments, walk>>

\* History: the comments that join the list once the walk over it has begun.
NoteJoined(i, row) ==
    walk' = IF walk.pc # "none" /\ InList(walk.list, row)
            THEN [walk EXCEPT !.joined = @ \cup {i}] ELSE walk

\* The INSERT ends.  Its reference is checked when the row is in, against what is committed
\* by then, so a parent may have the later id, and the row's own id passes.
Create(i, p, t, k) ==
    LET row == [parent |-> p, created |-> t, rank |-> k]
    IN  /\ i \in inserting /\ MayChange
        /\ p \in DOMAIN comments \cup {NoParent, i}
        /\ comments' = [j \in DOMAIN comments \cup {i} |-> IF j = i THEN row ELSE comments[j]]
        /\ inserting' = inserting \ {i}
        /\ NoteJoined(i, row)
        /\ UNCHANGED lastId

\* A parent that is not there: 500, and the id is lost.
CreateRefused(i, p) ==
    /\ i \in inserting /\ MayChange
    /\ p \notin DOMAIN comments \cup {NoParent, i}
    /\ inserting' = inserting \ {i}
    /\ UNCHANGED <<comments, lastId, walk>>

\* History: whether a comment left the list once the walk over it has begun.
NoteLeft(gone) ==
    walk' = IF walk.pc # "none" /\ gone \cap Listed(walk.list) # {}
            THEN [walk EXCEPT !.left = TRUE] ELSE walk

\* Mutant: parent_id REFERENCES comments(id) without ON DELETE CASCADE or a check.
DeleteOne(c) ==
    /\ c \in DOMAIN comments /\ MayChange
    /\ comments' = [i \in DOMAIN comments \ {c} |-> comments[i]]
    /\ NoteLeft({c})
    /\ UNCHANGED <<lastId, inserting>>

\* An id that is not there is answered the same and changes nothing.
Delete(c) ==
    /\ c \in DOMAIN comments /\ MayChange
    /\ comments' = [i \in DOMAIN comments \ Below(c) |-> comments[i]]
    /\ NoteLeft(Below(c))
    /\ UNCHANGED <<lastId, inserting>>

-----------------------------------------------------------------------------
(* GET /comments: the recursive query, and the tree made from its rows.    *)

\* The members of S in an order: the k-th is the one that k - 1 others come before.
InOrder(S, IsBefore(_, _)) ==
    [k \in 1..Cardinality(S) |->
        CHOOSE x \in S : Cardinality({y \in S : IsBefore(y, x)}) = k - 1]

\* Lexicographic order of arrays (ORDER BY path).
PathBefore(p, q) ==
    \/ IsStrictPrefix(p, q)
    \/ \E i \in DOMAIN p \cap DOMAIN q :
          p[i] < q[i] /\ \A j \in 1..i - 1 : p[j] = q[j]

\* Mutant: WHERE t.depth <= $2.
PathsTooDeep(root, depth) ==
    {p \in UNION {[1..n -> DOMAIN comments] : n \in 1..depth + 2} :
        p[1] = root /\ \A i \in 2..Len(p) : comments[p[i]].parent = p[i - 1]}

\* The rows of "tree": one per path of parents and children down from the root.
Paths(root, depth) ==
    {p \in UNION {[1..n -> DOMAIN comments] : n \in 1..depth + 1} :
        p[1] = root /\ \A i \in 2..Len(p) : comments[p[i]].parent = p[i - 1]}

Flat(root, depth) ==
    LET rows == InOrder(Paths(root, depth), PathBefore)
    IN  [i \in DOMAIN rows |-> Last(rows[i])]

\* nodes and childrenMap from the flat list, then build(rootID) down the map.  The
\* children of a row keep the order in which the rows came.
BuildCommentTree(root, flat) ==
    LET childrenMap(id) ==
            LET rows == InOrder({k \in DOMAIN flat : comments[flat[k]].parent = id}, <)
            IN  [i \in DOMAIN rows |-> flat[rows[i]]]
        build[id \in ToSet(flat)] ==
            LET children == childrenMap(id)
            IN  [id |-> id, children |-> [i \in DOMAIN children |-> build[children[i]]]]
    IN  build[root]

\* depth = -1, or none: DefaultDepth.
GetSubtree(root, depth) == BuildCommentTree(root, Flat(root, depth))

-----------------------------------------------------------------------------
(* GET /roots and GET /search, page by page.                               *)

Key(sort, i) ==
    CASE sort = "id" -> i
      [] sort = "created_at" -> comments[i].created
      [] sort = "rank" -> comments[i].rank

\* ORDER BY key; a search goes on with created_at DESC.
Precedes(list, sort, order, i, j) ==
    \/ IF order = "asc" THEN Key(sort, i) < Key(sort, j) ELSE Key(sort, i) > Key(sort, j)
    \/ list = "search" /\ Key(sort, i) = Key(sort, j) /\ comments[i].created > comments[j].created

\* The orders in which a query may return its rows: ties as the plan likes.
Orderings(list, sort, order) ==
    {o \in SetToSeqs(Listed(list)) :
        \A a, b \in DOMAIN o : a < b => ~Precedes(list, sort, order, o[b], o[a])}

StartWalk(list, sort, order, limit) ==
    /\ walk.pc = "none" /\ lastId <= MaxWalkId
    /\ walk' = [NoWalk EXCEPT !.pc = "walking", !.list = list, !.sort = sort,
                              !.order = order, !.limit = limit, !.start = Listed(list)]
    /\ UNCHANGED <<comments, lastId, inserting>>

\* Mutant: LIMIT $1 is the limit itself, not one row more.
FetchExact(rows, limit, offset) ==
    SubSeq(rows, offset + 1, IF offset + limit < Len(rows) THEN offset + limit ELSE Len(rows))

\* LIMIT limit + 1 OFFSET offset.
FetchPage(rows, limit, offset) ==
    SubSeq(rows, offset + 1,
           IF offset + limit + 1 < Len(rows) THEN offset + limit + 1 ELSE Len(rows))

\* has_more is whether the row beyond the page was there; the client goes on while it is.
NextPage ==
    /\ walk.pc = "walking"
    /\ \E rows \in Orderings(walk.list, walk.sort, walk.order) :
          LET items   == FetchPage(rows, walk.limit, walk.offset)
              hasMore == Len(items) > walk.limit
              page    == IF hasMore THEN SubSeq(items, 1, walk.limit) ELSE items
          IN  walk' = [walk EXCEPT !.seen = @ \o page, !.offset = @ + walk.limit,
                                   !.pc = IF hasMore THEN "walking" ELSE "done"]
    /\ UNCHANGED <<comments, lastId, inserting>>

-----------------------------------------------------------------------------

Next == \/ Insert
        \/ \E i \in Ids, p \in 0..MaxId, t \in 1..MaxTime, k \in {0, 1} : Create(i, p, t, k)
        \/ \E i, p \in Ids : CreateRefused(i, p)
        \/ \E c \in Ids : Delete(c)
        \/ \E list \in Lists : \E sort \in Sorts(list), order \in {"asc", "desc"},
              limit \in 1..MaxLimit : StartWalk(list, sort, order, limit)
        \/ NextPage

Spec == Init /\ [][Next]_vars

-----------------------------------------------------------------------------
(* Properties.                                                             *)

\* Every variable has its type; the ids of the table, and those that are not to be seen
\* yet, come from the sequence, and no id is both.
TypeOK == /\ lastId \in 0..MaxId
          /\ inserting \in SUBSET (1..lastId)
          /\ DOMAIN comments \in SUBSET ((1..lastId) \ inserting)
          /\ \A i \in DOMAIN comments : comments[i] \in Rows
          /\ walk \in [pc : {"none", "walking", "done"}, list : Lists,
                       sort : {"rank", "created_at", "id"}, order : {"asc", "desc"},
                       limit : 1..MaxLimit, offset : Nat, seen : Seq(Ids),
                       start : SUBSET Ids, joined : SUBSET Ids, left : BOOLEAN]

\* No reply outlives its parent, whatever was deleted above it.
RepliesHaveParents ==
    \A i \in DOMAIN comments : comments[i].parent \in DOMAIN comments \cup {NoParent}

\* Reference: the comments under id, k levels down, the replies of each by their ids.
TreeUnder[k \in Nat] ==
    [id \in Ids |->
        [id |-> id,
         children |->
            IF k = 0 THEN <<>>
            ELSE LET replies == InOrder({c \in DOMAIN comments : comments[c].parent = id}, <)
                 IN  [i \in DOMAIN replies |-> TreeUnder[k - 1][replies[i]]]]]

\* The nested answer of GET /comments is the subtree: nothing lost when the rows
\* are put together again, nothing below the depth, replies in the order of ids.
SubtreeIsExact ==
    \A id \in DOMAIN comments : \A depth \in 0..DefaultDepth :
        comments[id].parent # id => GetSubtree(id, depth) = TreeUnder[depth][id]

\* The ORDER BY tells the comments of the list apart.
NoTies(list, sort, order) ==
    \A i, j \in Listed(list) :
        i # j => Precedes(list, sort, order, i, j) \/ Precedes(list, sort, order, j, i)

Copies(i) == Cardinality({k \in DOMAIN walk.seen : walk.seen[k] = i})

JoinedBefore(i) == {j \in walk.joined : Precedes(walk.list, walk.sort, walk.order, j, i)}

\* When the order tells the comments apart and none leaves the list, the pages show every
\* comment that was listed when the walk began and none that was not listed at all, and
\* they show one again at most once for each comment that joined before it.  On a table
\* at rest they are the list, every comment once.
PagesWhileGrowing ==
    walk.pc = "done" /\ ~walk.left /\ NoTies(walk.list, walk.sort, walk.order) =>
        /\ walk.start \subseteq ToSet(walk.seen)
        /\ ToSet(walk.seen) \subseteq walk.start \cup walk.joined
        /\ \A i \in ToSet(walk.seen) : Copies(i) <= 1 + Cardinality(JoinedBefore(i))

\* tree.go:8: the flat list unfolds into a tree.  That needs every chain of parents
\* to end at a root.
CommentsAreTrees == \A i \in DOMAIN comments : comments[i].parent # i
=============================================================================
