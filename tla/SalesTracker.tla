---------------------------- MODULE SalesTracker ----------------------------
(***************************************************************************)
(* L3.6, sales tracker: records that are created, changed and deleted by   *)
(* one statement each, and readers that need several: the CSV export, one  *)
(* handler that runs a query per page, and a client that follows has_more  *)
(* over GET /items.  Pages are cut by OFFSET, and the table changes        *)
(* between two of them.                                                    *)
(*                                                                         *)
(* Readers change nothing, so one of them at a time is all there is to     *)
(* see.  note and created_at are copied and decide nothing; category is a  *)
(* condition of the same form as type.                                     *)
(***************************************************************************)
EXTENDS Integers, Sequences, FiniteSets, SequencesExt

CONSTANTS
    Rows,         \* the contents that requests give a record
    Queries,      \* what the readers ask for
    None,         \* a filter that is not given
    csvPageSize,  \* 1000 in the code
    defaultLimit, \* 50 in the code
    MaxId,        \* bound: ids of the sequence that are used
    MaxDrift      \* bound: rows that leave or join the result while it is read

Types == {"income", "expense"}
Sorts == {"occurred_at", "amount", "id"}
Row    == [type : Types, amount : Nat, at : Nat]
Filter == [from : Nat \cup {None}, to : Nat \cup {None}, type : Types \cup {None}]
Query  == [by : {"csv", "client"}, filter : Filter, sort : Sorts, order : {"asc", "desc"},
           limit : Nat \ {0}]

whitelistSort(s)  == IF s \in {"amount", "id"} THEN s ELSE "occurred_at"
whitelistOrder(o) == IF o = "asc" THEN "asc" ELSE "desc"

\* The parameters of GET /items that parseItemFilter lets through; None is an empty one.
ListItems(f, sort, order, limit) ==
    [by |-> "client", filter |-> f, sort |-> whitelistSort(sort), order |-> whitelistOrder(order),
     limit |-> IF limit = None THEN defaultLimit ELSE limit]

\* ExportCSV overwrites the sort, the order and the limit of the query string.
Export(f) == [by |-> "csv", filter |-> f, sort |-> "occurred_at", order |-> "asc",
              limit |-> csvPageSize]

ASSUME ConstantsAssumption ==
    /\ Rows \subseteq Row /\ None \notin Nat \cup Types
    /\ csvPageSize \in Nat \ {0} /\ defaultLimit \in Nat \ {0} /\ MaxId \in Nat /\ MaxDrift \in Nat
    /\ Queries # {} /\ Queries \subseteq Query
    /\ \A q \in Queries : q.by = "csv" => q = Export(q.filter)

VARIABLES
    items,   \* the table: id -> contents
    lastId,  \* its sequence
    read     \* the reader: query, next offset, what it was sent, history

vars == <<items, lastId, read>>

Ids == 1..MaxId
Record == [id : Ids, row : Row]

\* buildWhere: both ends of the period belong to it.
Matches(r, f) == /\ f.from # None => r.at >= f.from
                 /\ f.to # None => r.at <= f.to
                 /\ f.type # None => r.type = f.type

Where(f) == {[id |-> i, row |-> items[i]] : i \in {j \in DOMAIN items : Matches(items[j], f)}}

NoRead == [pc |-> "none", query |-> CHOOSE q \in Queries : TRUE, offset |-> 0, sent |-> <<>>,
           cut |-> FALSE, start |-> {}, drift |-> <<>>]

Init == items = <<>> /\ lastId = 0 /\ read = NoRead

-----------------------------------------------------------------------------
(* POST, PUT and DELETE of /items.  An id that is not there is a 404 and    *)
(* changes nothing.                                                        *)

MayChange == \/ read.pc = "none"
             \/ read.pc = "reading" /\ Len(read.drift) < MaxDrift

\* History: rows that leave and rows that join the result of the query being read.
Drift(what, i, r) ==
    IF Matches(r, read.query.filter)
    THEN <<[what |-> what, record |-> [id |-> i, row |-> r]]>> ELSE <<>>

Note(events) == read' = IF read.pc = "none" THEN read ELSE [read EXCEPT !.drift = @ \o events]

Create(r) ==
    /\ MayChange /\ lastId < MaxId
    /\ lastId' = lastId + 1
    /\ items' = [i \in DOMAIN items \cup {lastId + 1} |->
                   IF i \in DOMAIN items THEN items[i] ELSE r]
    /\ Note(Drift("joined", lastId + 1, r))

\* Mutant: a PUT to an id that is not there makes the record.
UpdateOrInsert(i, r) ==
    /\ MayChange
    /\ items' = [j \in DOMAIN items \cup {i} |-> IF j = i THEN r ELSE items[j]]
    /\ read' = read
    /\ UNCHANGED lastId

Update(i, r) ==
    /\ MayChange /\ i \in DOMAIN items
    /\ items' = [items EXCEPT ![i] = r]
    /\ Note(Drift("left", i, items[i]) \o Drift("joined", i, r))
    /\ UNCHANGED lastId

Delete(i) ==
    /\ MayChange /\ i \in DOMAIN items
    /\ items' = [j \in DOMAIN items \ {i} |-> items[j]]
    /\ Note(Drift("left", i, items[i]))
    /\ UNCHANGED lastId

-----------------------------------------------------------------------------
(* Repo.List and its two callers.                                          *)

Key(sort, x) == CASE sort = "id" -> x.id
                  [] sort = "amount" -> x.row.amount
                  [] sort = "occurred_at" -> x.row.at

\* ORDER BY sort order, id order: no two records are tied.
Precedes(q, x, y) ==
    LET Less(k, l, m, n) == k < l \/ (k = l /\ m < n)
    IN  IF q.order = "asc" THEN Less(Key(q.sort, x), Key(q.sort, y), x.id, y.id)
                           ELSE Less(Key(q.sort, y), Key(q.sort, x), y.id, x.id)

\* The k-th row of the answer is the one that k - 1 rows precede.
Result(q) ==
    LET rows == Where(q.filter)
    IN  [k \in 1..Cardinality(rows) |->
           CHOOSE x \in rows : Cardinality({y \in rows : Precedes(q, y, x)}) = k - 1]

\* Mutant: LIMIT limit, without the row that tells of a next page.
ListNoSpare(q, offset) ==
    LET all  == Result(q)
        rows == SubSeq(all, offset + 1, Min({offset + q.limit, Len(all)}))
    IN  [items |-> rows, hasMore |-> Len(rows) > q.limit]

\* LIMIT limit + 1 OFFSET offset; the row beyond the page says that there is more.
List(q, offset) ==
    LET all  == Result(q)
        rows == SubSeq(all, offset + 1, Min({offset + q.limit + 1, Len(all)}))
        hasMore == Len(rows) > q.limit
    IN  [items |-> IF hasMore THEN SubSeq(rows, 1, q.limit) ELSE rows, hasMore |-> hasMore]

Begin(q) == /\ read.pc = "none"
            /\ read' = [NoRead EXCEPT !.pc = "reading", !.query = q, !.start = Where(q.filter)]
            /\ UNCHANGED <<items, lastId>>

Take(page, offset) ==
    /\ read' = [read EXCEPT !.sent = @ \o page.items, !.offset = offset,
                            !.pc = IF page.hasMore THEN "reading" ELSE "ended"]
    /\ UNCHANGED <<items, lastId>>

\* Mutant: the offset moves by all the rows fetched, the spare one too.
NextPageSkips == /\ read.pc = "reading"
                 /\ Take(List(read.query, read.offset), read.offset + read.query.limit + 1)

\* One turn of the loop in ExportCSV, or the client's next GET /items.
NextPage == /\ read.pc = "reading"
            /\ Take(List(read.query, read.offset), read.offset + read.query.limit)

\* List fails, or a write in the middle of a page: the answer was 200 long ago, and the
\* file ends here.  A client of GET /items gets its 500 and can ask again.
ExportBreaks ==
    /\ read.pc = "reading" /\ read.query.by = "csv"
    /\ LET page == List(read.query, read.offset).items
       IN  \E k \in 0..Len(page) :
              read' = [read EXCEPT !.pc = "ended", !.cut = TRUE, !.sent = @ \o SubSeq(page, 1, k)]
    /\ UNCHANGED <<items, lastId>>

-----------------------------------------------------------------------------
(* GET /analytics, one statement.                                          *)

\* percentile_cont(tenths / 10) WITHIN GROUP (ORDER BY amount), times ten; how ties are
\* ordered does not show.
Percentile(tenths, f) ==
    LET v    == Result(ListItems(f, "amount", "asc", None))
        k    == tenths * (Len(v) - 1)
        low  == v[k \div 10 + 1].row.amount
        high == v[Min({k \div 10 + 2, Len(v)})].row.amount
    IN  IF v = <<>> THEN 0 ELSE 10 * low + (k % 10) * (high - low)

\* Mutant: the query without its WHERE.
AnalyticsOfAll(f) ==
    LET all == [from |-> None, to |-> None, type |-> None]
        S   == Where(all)
    IN  [count |-> Cardinality(S), sum |-> MapThenSumSet(LAMBDA x : x.row.amount, S),
         median |-> Percentile(5, all), p90 |-> Percentile(9, all)]

\* avg is the sum by the count.
Analytics(f) ==
    LET S == Where(f)
    IN  [count |-> Cardinality(S), sum |-> MapThenSumSet(LAMBDA x : x.row.amount, S),
         median |-> Percentile(5, f), p90 |-> Percentile(9, f)]

-----------------------------------------------------------------------------

Next == \/ \E r \in Rows : Create(r)
        \/ \E i \in Ids, r \in Rows : Update(i, r)
        \/ \E i \in Ids : Delete(i)
        \/ \E q \in Queries : Begin(q)
        \/ NextPage
        \/ ExportBreaks

Spec == Init /\ [][Next]_vars

-----------------------------------------------------------------------------
(* Properties.                                                             *)

\* Every variable has its type, and ids come from the sequence.
TypeOK == /\ lastId \in 0..MaxId
          /\ DOMAIN items \subseteq 1..lastId /\ \A i \in DOMAIN items : items[i] \in Rows
          /\ read \in [pc : {"none", "reading", "ended"}, query : Queries, offset : Nat,
                       sent : Seq(Record), cut : BOOLEAN, start : SUBSET Record,
                       drift : Seq([what : {"left", "joined"}, record : Record])]

\* On a result at rest the pages put together are the result: every record once and
\* in order, and a file that broke off is the beginning of it.
PagesMakeTheResult ==
    read.pc # "none" /\ read.drift = <<>> =>
        /\ IsPrefix(read.sent, Result(read.query))
        /\ read.pc = "ended" => read.cut \/ read.sent = Result(read.query)

Events(what, x) == {k \in DOMAIN read.drift :
                      /\ read.drift[k].what = what
                      /\ Precedes(read.query, read.drift[k].record, x)}

Stayed == {x \in read.start : \A k \in DOMAIN read.drift : read.drift[k].record # x}

Copies(x) == Cardinality({k \in DOMAIN read.sent : read.sent[k] = x})

\* Over a result that changes between two pages: a record that stayed as it was is
\* missing only if one before it left or the file broke off, and comes again at most
\* once for each one that joined before it; no more records are missing than left.
DriftExplainsPages ==
    read.pc = "ended" =>
        /\ \A x \in Stayed : Copies(x) <= 1 + Cardinality(Events("joined", x))
        /\ ~read.cut =>
              LET missing == {x \in Stayed : Copies(x) = 0}
              IN  /\ \A x \in missing : Events("left", x) # {}
                  /\ Cardinality(missing) <=
                        Cardinality({k \in DOMAIN read.drift : read.drift[k].what = "left"})

\* The two ways to look at a period agree: the rows of the export are the count and
\* the sum of the analytics, no more than half of them are below the median or above
\* it, and no more than a tenth, rounded up, above p90.
ExportAddsUp ==
    read.pc = "ended" /\ read.query.by = "csv" /\ ~read.cut /\ read.drift = <<>>
            /\ read.query.filter.type = None =>
        LET a == Analytics(read.query.filter)
            Above(v) == Cardinality({k \in DOMAIN read.sent : 10 * read.sent[k].row.amount > v})
            Below(v) == Cardinality({k \in DOMAIN read.sent : 10 * read.sent[k].row.amount < v})
        IN  /\ a.count = Len(read.sent)
            /\ a.sum = FoldSeq(LAMBDA x, y : x.row.amount + y, 0, read.sent)
            /\ 2 * Above(a.median) <= a.count /\ 2 * Below(a.median) <= a.count
            /\ 10 * Above(a.p90) <= a.count + 9
=============================================================================
