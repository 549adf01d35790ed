------------------------------ MODULE Warehouse ------------------------------
(***************************************************************************)
(* L3.7, warehouse control: items changed in transactions that carry the   *)
(* name and role of the caller, and a history written by a trigger.        *)
(*                                                                         *)
(* A request holds one transaction: BEGIN with set_config, the statement   *)
(* (the row lock, then the unique index and the trigger), COMMIT.  Each is *)
(* a step, under READ COMMITTED with PostgreSQL's waits.  An item is its   *)
(* SKU; the other columns are copied along and decide nothing.             *)
(***************************************************************************)
EXTENDS Naturals, FiniteSets, FiniteSetsExt

CONSTANTS
    Requests,    \* requests under way at a time
    Tokens,      \* callers: what the middleware reads from a valid token
    Skus,
    None,        \* NULL, no row, no lock
    MaxItems,    \* bound: ids of the items sequence
    MaxChanges,  \* bound: ids of the history sequence
    MaxTime      \* bound: distinct values of now()

Roles == {"admin", "manager", "viewer"}

Methods == {"INSERT", "UPDATE", "DELETE"}   \* POST, PUT, DELETE, by what they do

ASSUME ConstantsAssumption ==
    /\ \A t \in Tokens : t.role \in Roles
    /\ Skus # {} /\ IsFiniteSet(Requests) /\ None \notin Skus \cup Requests \cup Tokens
    /\ None \notin [op : Methods, token : Tokens, sku : Skus \cup {None}, item : 0..MaxItems]
    /\ MaxItems \in Nat /\ MaxChanges \in Nat /\ MaxTime \in Nat

VARIABLES
    items,      \* committed rows: id -> SKU, or None
    history,    \* committed rows of item_history, by id
    tx,         \* each request's transaction, or its answer
    lock,       \* row locks: item -> request
    lastId,     \* sequence of items
    lastEntry,  \* sequence of item_history
    now,        \* the clock, read when a transaction begins
    before      \* history: entry -> entries of its item committed before its request began

vars == <<items, history, tx, lock, lastId, lastEntry, now, before>>

Ids == 1..MaxItems
Steps == {"idle", "begun", "holding", "acted"}
Entry == [item : Ids, action : Methods, actor : Tokens \cup {None},
          old : Skus \cup {None}, new : Skus \cup {None}, changedAt : 0..MaxTime]

\* seen is history, the rest what the request and its transaction know.
Transactions ==
    [step : Steps, op : Methods, token : Tokens \cup {None}, setting : Tokens \cup {None},
     item : 0..MaxItems, sku : Skus \cup {None}, began : 0..MaxTime,
     entry : 0..MaxChanges, change : Entry \cup {None}, seen : SUBSET (1..MaxChanges)]

\* No request, or one that was answered.
Idle ==
    [step |-> "idle", op |-> "INSERT", token |-> None, setting |-> None, item |-> 0,
     sku |-> None, began |-> 0, entry |-> 0, change |-> None, seen |-> {}]

Active(q) == tx[q].step # "idle"

Entries(i) == {e \in DOMAIN history : history[e].item = i}

Init == /\ items = [i \in Ids |-> None]
        /\ history = <<>> /\ before = <<>>
        /\ tx = [q \in Requests |-> Idle]
        /\ lock = [i \in Ids |-> None]
        /\ lastId = 0 /\ lastEntry = 0 /\ now = 0

\* The bounds: a request comes while the sequences have room for all that are active.
Room(op) == /\ lastEntry + Cardinality({p \in Requests : Active(p)}) < MaxChanges
            /\ op = "INSERT" =>
                 lastId + Cardinality({p \in Requests : tx[p].op = "INSERT" /\ tx[p].step = "begun"})
                   < MaxItems

-----------------------------------------------------------------------------
(* The middleware and the start of withActor.                              *)

\* RequireWrite, RequireDelete.
MayDo(op, role) == IF op = "DELETE" THEN role = "admin" ELSE role \in {"admin", "manager"}

\* Mutant: the settings are made on another connection of the pool.
SettingElsewhere(token) == None

\* What current_setting gives inside the transaction: set_config(..., true) of this one.
Setting(token) == token

Begin(q, op, token, item, sku) ==
    /\ ~Active(q) /\ Room(op)
    /\ MayDo(op, token.role)
    /\ now' \in {now, now + 1} /\ now' <= MaxTime
    /\ tx' = [tx EXCEPT ![q] =
          [step |-> "begun", op |-> op, token |-> token, setting |-> Setting(token),
           item |-> item, sku |-> sku, began |-> now', entry |-> 0, change |-> None,
           seen |-> Entries(item)]]
    /\ UNCHANGED <<items, history, lock, lastId, lastEntry, before>>

-----------------------------------------------------------------------------
(* The end of a transaction.                                               *)

\* Mutant: no deferred Rollback, the transaction of a failed request stays open.
RollbackForgotten(q) ==
    /\ tx' = [tx EXCEPT ![q] = Idle]
    /\ UNCHANGED lock

\* Commit and the deferred Rollback both give the locks back.
End(q) ==
    /\ tx' = [tx EXCEPT ![q] = Idle]
    /\ lock' = [i \in Ids |-> IF lock[i] = q THEN None ELSE lock[i]]

Rollback(q) ==
    /\ End(q)
    /\ UNCHANGED <<items, history, lastId, lastEntry, now, before>>

\* Any call of the request fails before the commit: the connection, the client's
\* context, a column's limits.
Fail(q) == Active(q) /\ Rollback(q)

-----------------------------------------------------------------------------
(* The statement.                                                          *)

\* What the statement meets first.
HasNewRow(q)    == tx[q].step = "begun" /\ tx[q].op = "INSERT"
FindsNoRow(q)   == tx[q].step = "begun" /\ tx[q].op # "INSERT" /\ items[tx[q].item] = None
FindsRowFree(q) == /\ tx[q].step = "begun" /\ tx[q].op # "INSERT"
                   /\ items[tx[q].item] # None /\ lock[tx[q].item] = None

\* INSERT takes its id at once, and keeps it whatever happens.
TakeId(q) ==
    /\ HasNewRow(q)
    /\ lastId' = lastId + 1
    /\ tx' = [tx EXCEPT ![q].step = "holding", ![q].item = lastId + 1]
    /\ UNCHANGED <<items, history, lock, lastEntry, now, before>>

\* UPDATE and DELETE lock the row, after whoever holds it.
LockRow(q) ==
    /\ FindsRowFree(q)
    /\ lock' = [lock EXCEPT ![tx[q].item] = q]
    /\ tx' = [tx EXCEPT ![q].step = "holding"]
    /\ UNCHANGED <<items, history, lastId, lastEntry, now, before>>

\* sql.ErrNoRows, or no affected rows.
NotFound(q) ==
    /\ FindsNoRow(q)
    /\ Rollback(q)

\* The unique keys q has marked, by its old row and by the one it has put in.
Marked(q) == (IF tx[q].step \in {"holding", "acted"} /\ tx[q].op = "UPDATE"
                THEN {items[tx[q].item]} ELSE {})
             \cup (IF tx[q].step = "acted"
                THEN {tx[q].change.old, tx[q].change.new} \ {None} ELSE {})

\* Mutant: sku without UNIQUE.
TakenNever(q) == FALSE

\* The unique index: the key is in a committed row that is not q's own.
Taken(q) == \E i \in Ids \ {tx[q].item} : items[i] = tx[q].sku

\* The check waits for the transaction that has marked the key.
WaitsForKey(q, p) == /\ tx[q].step = "holding" /\ tx[q].op # "DELETE"
                     /\ p # q /\ tx[q].sku \in Marked(p)

Waits(q, p) == \/ WaitsForKey(q, p)
               \/ /\ tx[q].step = "begun" /\ tx[q].op # "INSERT"
                  /\ lock[tx[q].item] = p

ChecksKey(q) == /\ tx[q].step = "holding"
                /\ \A p \in Requests : ~WaitsForKey(q, p)

Conflict(q) ==
    /\ ChecksKey(q)
    /\ tx[q].op # "DELETE" /\ Taken(q)
    /\ Rollback(q)

Change(q) ==
    [item |-> tx[q].item, action |-> tx[q].op, actor |-> tx[q].setting,
     old |-> items[tx[q].item], new |-> IF tx[q].op = "DELETE" THEN None ELSE tx[q].sku,
     changedAt |-> tx[q].began]

Act(q) ==
    /\ ChecksKey(q)
    /\ tx[q].op # "DELETE" => ~Taken(q)
    /\ lastEntry' = lastEntry + 1
    /\ tx' = [tx EXCEPT ![q].step = "acted", ![q].entry = lastEntry + 1,
                        ![q].change = Change(q)]
    /\ UNCHANGED <<items, history, lock, lastId, now, before>>

Circle(C) == \A p \in C : (\E r \in C : Waits(p, r)) /\ (\E r \in C : Waits(r, p))

InCircle(q) == \E C \in SUBSET Requests : q \in C /\ Circle(C)

\* PostgreSQL ends one transaction of a circle of waits.
Deadlock(q) ==
    /\ InCircle(q)
    /\ Rollback(q)

-----------------------------------------------------------------------------
(* COMMIT.  Its answer may be lost: the caller gets 500 for a change that is *)
(* there and in the history.                                                *)

\* Mutant: the trigger is AFTER INSERT OR UPDATE.
CommitUnaudited(q) ==
    /\ tx[q].step = "acted"
    /\ items' = [items EXCEPT ![tx[q].item] = tx[q].change.new]
    /\ history' = [e \in DOMAIN history \cup (IF tx[q].op = "DELETE" THEN {} ELSE {tx[q].entry}) |->
                     IF e = tx[q].entry THEN tx[q].change ELSE history[e]]
    /\ before' = [e \in DOMAIN before \cup {tx[q].entry} |->
                     IF e = tx[q].entry THEN tx[q].seen ELSE before[e]]
    /\ End(q)
    /\ UNCHANGED <<lastId, lastEntry, now>>

Commit(q) ==
    /\ tx[q].step = "acted"
    /\ items' = [items EXCEPT ![tx[q].item] = tx[q].change.new]
    /\ history' = [e \in DOMAIN history \cup {tx[q].entry} |->
                     IF e = tx[q].entry THEN tx[q].change ELSE history[e]]
    /\ before' = [e \in DOMAIN before \cup {tx[q].entry} |->
                     IF e = tx[q].entry THEN tx[q].seen ELSE before[e]]
    /\ End(q)
    /\ UNCHANGED <<lastId, lastEntry, now>>

-----------------------------------------------------------------------------
(* GET /items/{id}/history.                                                *)

\* Mutant: ORDER BY changed_at DESC, id.
ShownAboveById(e, d) ==
    \/ history[e].changedAt > history[d].changedAt
    \/ history[e].changedAt = history[d].changedAt /\ e < d

\* ORDER BY changed_at DESC, id DESC.
ShownAbove(e, d) ==
    \/ history[e].changedAt > history[d].changedAt
    \/ history[e].changedAt = history[d].changedAt /\ e > d

-----------------------------------------------------------------------------

Come(q) == \E op \in Methods, token \in Tokens :
              \E item \in IF op = "INSERT" THEN {0} ELSE Ids,
                 sku \in IF op = "DELETE" THEN {None} ELSE Skus : Begin(q, op, token, item, sku)

Next == \E q \in Requests : \/ Come(q)
                            \/ TakeId(q) \/ LockRow(q) \/ NotFound(q)
                            \/ Act(q) \/ Conflict(q) \/ Deadlock(q)
                            \/ Commit(q) \/ Fail(q)

Spec == Init /\ [][Next]_vars

-----------------------------------------------------------------------------
(* Properties.                                                             *)

\* Every variable has its type; a row lock belongs to a request at work on the row,
\* and an uncommitted entry is not in the history.
TypeOK ==
    /\ items \in [Ids -> Skus \cup {None}]
    /\ lastId \in 0..MaxItems /\ lastEntry \in 0..MaxChanges /\ now \in 0..MaxTime
    /\ DOMAIN history \subseteq 1..lastEntry /\ \A e \in DOMAIN history : history[e] \in Entry
    /\ DOMAIN before = DOMAIN history /\ \A e \in DOMAIN before : before[e] \subseteq 1..lastEntry
    /\ lock \in [Ids -> Requests \cup {None}]
    /\ tx \in [Requests -> Transactions]
    /\ \A i \in Ids : lock[i] # None =>
          tx[lock[i]].step \in {"holding", "acted"} /\ tx[lock[i]].item = i
    /\ \A q \in Requests : tx[q].step = "acted" => tx[q].entry \in 1..lastEntry \ DOMAIN history

\* Two concurrent requests never leave one SKU in two items.
SkusAreUnique == \A i, j \in Ids : i # j /\ items[i] # None => items[i] # items[j]

\* The history of an item, in the order of its ids, is a chain: it begins with an
\* INSERT, each entry starts from what the one before it left, and the last one leaves
\* what the table holds.  Changes that wait for one another do not break it.
HistoryExplainsTable ==
    \A i \in Ids :
       /\ items[i] = IF Entries(i) = {} THEN None ELSE history[Max(Entries(i))].new
       /\ \A e \in Entries(i) :
             LET earlier == {d \in Entries(i) : d < e}
             IN  /\ history[e].old = IF earlier = {} THEN None ELSE history[Max(earlier)].new
                 /\ history[e].action = IF earlier = {} THEN "INSERT"
                                        ELSE IF history[e].new = None THEN "DELETE" ELSE "UPDATE"

\* What a request under way asked for; TakeId has put its new id into tx.
Asked(q) == [op |-> tx[q].op, token |-> tx[q].token, sku |-> tx[q].sku,
             item |-> IF tx[q].op = "INSERT" THEN 0 ELSE tx[q].item]

Calls == [q \in Requests |-> IF Active(q) THEN Asked(q) ELSE None]

Audited == INSTANCE AuditedTable WITH
    EntryIds <- 1..MaxChanges, Times <- 0..MaxTime, call <- Calls

\* The transactions implement the audited table: whatever overlaps, waits or fails, a
\* request takes effect in one instant with its entry in the history, its caller and
\* the value it really replaced, or not at all.
AuditedSpec == Audited!Spec

\* The history shows a change above every change that was committed before its
\* request began.  It promises no more: changed_at is when the transaction began, and
\* of two that overlap the one shown on top need not be the last.
ShownInOrder == \A e \in DOMAIN history : \A d \in before[e] : ShownAbove(e, d)

\* The next step of q can be taken: one of TakeId, LockRow, NotFound, Act, Conflict,
\* Deadlock and Commit.
GoesOn(q) == \/ HasNewRow(q) \/ FindsNoRow(q) \/ FindsRowFree(q)
             \/ ChecksKey(q) \/ InCircle(q)
             \/ tx[q].step = "acted"

\* However requests wait for rows and keys, in every group of them one can go on by
\* itself, without a failure from outside, or waits for one that is under way outside
\* the group.  Nobody waits for a request that is gone, and where a group waits only
\* for itself there is a circle that PostgreSQL ends.
NobodyIsStuck ==
    \A G \in SUBSET {q \in Requests : Active(q)} : G # {} =>
        \E q \in G : \/ GoesOn(q)
                     \/ \E p \in Requests \ G : Active(p) /\ Waits(q, p)
=============================================================================
