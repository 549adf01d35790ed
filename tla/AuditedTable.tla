---------------------------- MODULE AuditedTable ----------------------------
(***************************************************************************)
(* What L3.7 promises: a request changes the table and its history in one  *)
(* instant between its arrival and its end, or changes nothing.  The entry *)
(* names the caller, a caller that may do this, and starts from the value  *)
(* that the table holds at that instant.                                   *)
(***************************************************************************)
EXTENDS Naturals, FiniteSets

CONSTANTS Requests, Tokens, Skus, None, Ids, EntryIds, Times

VARIABLES
    items,    \* item -> SKU, or None
    history,  \* entry -> item, action, actor, old and new SKU, time
    call      \* the request under way: what it asks for and who asks, or None

vars == <<items, history, call>>

Methods == {"INSERT", "UPDATE", "DELETE"}
Allowed(op, role) == IF op = "DELETE" THEN role = "admin" ELSE role \in {"admin", "manager"}

Init == /\ items = [i \in Ids |-> None]
        /\ history = <<>>
        /\ call = [q \in Requests |-> None]

Arrive(q) ==
    /\ call[q] = None
    /\ \E op \in Methods, token \in Tokens, item \in Ids \cup {0}, sku \in Skus \cup {None} :
          call' = [call EXCEPT ![q] = [op |-> op, token |-> token, item |-> item, sku |-> sku]]
    /\ UNCHANGED <<items, history>>

\* 404, 409, 500, or an answer that nobody hears.
EndUnchanged(q) ==
    /\ call[q] # None
    /\ call' = [call EXCEPT ![q] = None]
    /\ UNCHANGED <<items, history>>

\* The item: a new one for POST, the one asked for otherwise.
Concerns(c, i) == IF c.op = "INSERT" THEN \A e \in DOMAIN history : history[e].item # i
                                     ELSE i = c.item /\ items[i] # None

Apply(q, i, e, t) ==
    LET c == call[q]
    IN  /\ c # None
        /\ Allowed(c.op, c.token.role)
        /\ Concerns(c, i)
        /\ c.op # "DELETE" => \A j \in Ids \ {i} : items[j] # c.sku
        /\ \A d \in DOMAIN history : d # e /\ (history[d].item = i => d < e)
        /\ items' = [items EXCEPT ![i] = c.sku]
        /\ history' = [d \in DOMAIN history \cup {e} |->
              IF d = e THEN [item |-> i, action |-> c.op, actor |-> c.token,
                             old |-> items[i], new |-> c.sku, changedAt |-> t]
                       ELSE history[d]]
        /\ call' = [call EXCEPT ![q] = None]

Next == \E q \in Requests :
           \/ Arrive(q)
           \/ EndUnchanged(q)
           \/ \E i \in Ids, e \in EntryIds, t \in Times : Apply(q, i, e, t)

Spec == Init /\ [][Next]_vars
=============================================================================
