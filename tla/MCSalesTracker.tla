--------------------------- MODULE MCSalesTracker ---------------------------
(* An instance of SalesTracker for TLC: three contents with a tie in the date *)
(* and one in the amount, exports of all, of a period and of a type, and      *)
(* clients that page by other columns.                                        *)
EXTENDS SalesTracker

MCRows == {[type |-> "income", amount |-> 4, at |-> 1],
           [type |-> "expense", amount |-> 1, at |-> 1],
           [type |-> "income", amount |-> 1, at |-> 2]}

All == [from |-> None, to |-> None, type |-> None]

MCQueries ==
    {Export(f) : f \in {All, [All EXCEPT !.to = 1], [All EXCEPT !.type = "income"]}}
    \cup {ListItems(All, "amount", "desc", 1), ListItems([All EXCEPT !.from = 2], None, "asc", None),
          ListItems(All, "id", "desc", 2)}
=============================================================================
