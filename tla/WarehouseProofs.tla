--------------------------- MODULE WarehouseProofs ---------------------------
(***************************************************************************)
(* Proofs about Warehouse, for any requests, callers, items and SKUs.  The *)
(* inductive invariant IInv says what a transaction that holds a row or a  *)
(* key can rely on until it ends; from it the history follows, and that    *)
(* the transactions implement AuditedTable.                                *)
(***************************************************************************)
EXTENDS Warehouse, FiniteSetTheorems, WellFoundedInduction, TLAPS

Held(q) == tx[q].step \in {"holding", "acted"}
Acted(q) == tx[q].step = "acted"

\* A request under way is one the middleware let through, and its settings are its own.
RequestsAreFilled ==
    \A q \in Requests : Active(q) =>
       /\ tx[q].token \in Tokens /\ tx[q].setting = tx[q].token
       /\ MayDo(tx[q].op, tx[q].token.role)
       /\ tx[q].op = "INSERT" /\ tx[q].step = "begun" => tx[q].item = 0
       /\ tx[q].op # "INSERT" \/ Held(q) => tx[q].item \in Ids
       /\ IF tx[q].op = "DELETE" THEN tx[q].sku = None ELSE tx[q].sku \in Skus

\* The row a transaction works on is its own: locked, or new and seen by nobody.
RowIsHeld ==
    \A q \in Requests : Held(q) =>
       IF tx[q].op = "INSERT"
       THEN /\ items[tx[q].item] = None /\ Entries(tx[q].item) = {} /\ tx[q].item <= lastId
            /\ \A p \in Requests \ {q} :
                  Held(p) /\ tx[p].op = "INSERT" => tx[p].item # tx[q].item
       ELSE items[tx[q].item] # None /\ lock[tx[q].item] = q

IdsAreGiven == \A i \in Ids : i > lastId => items[i] = None /\ Entries(i) = {}

\* What the trigger has written still describes the change when it is committed, and
\* the key that was free still is.
ActedIsDue ==
    \A q \in Requests : Acted(q) =>
       /\ tx[q].change = Change(q)
       /\ \A e \in Entries(tx[q].item) : e < tx[q].entry
       /\ tx[q].op # "DELETE" => ~Taken(q)
       /\ \A p \in Requests \ {q} : Acted(p) =>
             /\ tx[p].entry # tx[q].entry
             /\ tx[p].op # "DELETE" /\ tx[q].op # "DELETE" => tx[p].sku # tx[q].sku

\* The entries a request has seen began no later than it did, and have smaller ids.
SeenIsOlder ==
    /\ \A e \in DOMAIN history : history[e].changedAt <= now /\ before[e] \subseteq DOMAIN history
    /\ \A q \in Requests : Active(q) =>
          /\ tx[q].began <= now
          /\ \A d \in tx[q].seen :
                /\ d \in DOMAIN history /\ history[d].changedAt <= tx[q].began
                /\ Acted(q) => d < tx[q].entry

\* The bounds keep room for every request under way.
Coming   == {p \in Requests : Active(p) /\ ~Acted(p)}
NewRows  == {p \in Requests : tx[p].op = "INSERT" /\ tx[p].step = "begun"}
RoomIsLeft == /\ lastEntry + Cardinality(Coming) <= MaxChanges
              /\ lastId + Cardinality(NewRows) <= MaxItems

\* The entries below any id have a last one, so that Max is one of them.
Below(i, n) == {d \in Entries(i) : d < n}
LastOnes == \A i \in Ids : \A n \in Nat :
               Below(i, n) # {} => \E m \in Below(i, n) : \A d \in Below(i, n) : d <= m

IInv == /\ TypeOK /\ RequestsAreFilled /\ RowIsHeld /\ IdsAreGiven /\ ActedIsDue
        /\ SeenIsOlder /\ RoomIsLeft /\ LastOnes
        /\ SkusAreUnique /\ HistoryExplainsTable /\ ShownInOrder

-----------------------------------------------------------------------------

LEMMA MaxIs ==
    ASSUME NEW S \in SUBSET Nat, NEW m \in S, \A d \in S : d <= m
    PROVE  Max(S) = m
<1>1. m \in S /\ \A d \in S : m >= d
  OBVIOUS
<1>2. Max(S) \in S /\ \A d \in S : Max(S) >= d
  BY <1>1, Zenon DEF Max
<1>3. Max(S) >= m /\ m >= Max(S) /\ Max(S) \in Nat /\ m \in Nat
  BY <1>1, <1>2
<1>4. QED
  BY <1>3

LEMMA InitHolds == Init => IInv
<1> SUFFICES ASSUME Init PROVE IInv
  OBVIOUS
<1> USE ConstantsAssumption DEF Init, Idle, Ids
<1>1. DOMAIN history = {} /\ DOMAIN before = {}
  OBVIOUS
<1>2. \A i : Entries(i) = {}
  BY <1>1 DEF Entries
<1>3. TypeOK
  BY <1>1 DEF TypeOK, Transactions, Steps, Methods, Entry
<1>4. Coming = {} /\ NewRows = {}
  BY DEF Coming, NewRows, Active
<1>5. RoomIsLeft
  BY <1>4, FS_EmptySet DEF RoomIsLeft
<1>6. RequestsAreFilled /\ RowIsHeld /\ ActedIsDue
  BY DEF RequestsAreFilled, RowIsHeld, ActedIsDue, Active, Held, Acted
<1>7. IdsAreGiven /\ SkusAreUnique /\ HistoryExplainsTable /\ LastOnes
  BY <1>2 DEF IdsAreGiven, SkusAreUnique, HistoryExplainsTable, LastOnes, Below
<1>8. SeenIsOlder /\ ShownInOrder
  BY <1>1 DEF SeenIsOlder, ShownInOrder, Active
<1>9. QED
  BY <1>3, <1>5, <1>6, <1>7, <1>8 DEF IInv

-----------------------------------------------------------------------------
(* Beginning and taking hold of a row.                                     *)

\* Steps that leave the table and the history alone keep what is said of them.
LEMMA TableUntouched ==
    ASSUME SkusAreUnique /\ HistoryExplainsTable /\ ShownInOrder /\ LastOnes,
           UNCHANGED <<items, history, before>>
    PROVE  (SkusAreUnique /\ HistoryExplainsTable /\ ShownInOrder /\ LastOnes)'
<1>1. \A i : Entries(i)' = Entries(i)
  BY DEF Entries
<1>2. SkusAreUnique' /\ ShownInOrder'
  BY DEF SkusAreUnique, ShownInOrder, ShownAbove
<1>3. HistoryExplainsTable'
  BY <1>1 DEF HistoryExplainsTable
<1>4. LastOnes'
  BY <1>1 DEF LastOnes, Below
<1>5. QED
  BY <1>2, <1>3, <1>4

LEMMA FewerComing ==
    ASSUME TypeOK, RoomIsLeft, UNCHANGED <<lastId, lastEntry>>,
           Coming' \subseteq Coming, NewRows' \subseteq NewRows
    PROVE  RoomIsLeft'
<1>1. IsFiniteSet(Coming) /\ IsFiniteSet(NewRows)
  BY ConstantsAssumption, FS_Subset DEF Coming, NewRows
<1>2. Cardinality(Coming') <= Cardinality(Coming) /\ Cardinality(NewRows') <= Cardinality(NewRows)
  BY <1>1, FS_Subset
<1>3. /\ Cardinality(Coming) \in Nat /\ Cardinality(NewRows) \in Nat
      /\ Cardinality(Coming') \in Nat /\ Cardinality(NewRows') \in Nat
  BY <1>1, FS_Subset, FS_CardinalityType
<1>4. QED
  BY <1>2, <1>3, ConstantsAssumption DEF RoomIsLeft, TypeOK, Transactions

LEMMA BeginKeepsRoom ==
    ASSUME IInv, NEW q \in Requests, NEW op \in Methods, NEW token \in Tokens,
           NEW item, NEW sku, Begin(q, op, token, item, sku)
    PROVE  RoomIsLeft'
<1> USE ConstantsAssumption DEF IInv, TypeOK, Transactions, Begin
<1> DEFINE Under == {p \in Requests : Active(p)}
<1>1. Coming' = Coming \cup {q} /\ q \notin Coming /\ Coming \subseteq Under
  BY DEF Coming, Active, Acted
<1>2. IsFiniteSet(Under) /\ IsFiniteSet(Coming) /\ IsFiniteSet(NewRows)
  BY FS_Subset DEF Coming, NewRows
<1>3. /\ Cardinality(Coming') = Cardinality(Coming) + 1
      /\ Cardinality(Coming) <= Cardinality(Under)
      /\ Cardinality(Coming) \in Nat /\ Cardinality(Under) \in Nat /\ Cardinality(NewRows) \in Nat
  BY <1>1, <1>2, FS_AddElement, FS_Subset, FS_CardinalityType
<1>4. lastEntry + Cardinality(Under) < MaxChanges
  BY DEF Room
<1>5. lastEntry' + Cardinality(Coming') <= MaxChanges
  BY <1>3, <1>4
<1>6. CASE op = "INSERT"
  <2>1. NewRows' = NewRows \cup {q}
    BY <1>6 DEF NewRows
  <2>2. Cardinality(NewRows') <= Cardinality(NewRows) + 1 /\ Cardinality(NewRows') \in Nat
    <3> HIDE DEF NewRows
    <3>1. Cardinality(NewRows \cup {q}) \in {Cardinality(NewRows), Cardinality(NewRows) + 1}
      BY <1>2, FS_AddElement
    <3>2. QED
      BY <1>3, <2>1, <3>1
  <2>3. lastId + Cardinality(NewRows) < MaxItems
    BY <1>6 DEF Room, NewRows
  <2>4. QED
    BY <1>3, <1>5, <2>2, <2>3 DEF RoomIsLeft
<1>7. CASE op # "INSERT"
  <2>1. NewRows' = NewRows
    BY <1>7 DEF NewRows, Active
  <2>2. QED
    BY <1>5, <2>1 DEF RoomIsLeft
<1>8. QED
  BY <1>6, <1>7

LEMMA BeginKeeps ==
    ASSUME IInv, NEW q \in Requests, NEW op \in Methods, NEW token \in Tokens,
           NEW item \in IF op = "INSERT" THEN {0} ELSE Ids,
           NEW sku \in IF op = "DELETE" THEN {None} ELSE Skus,
           Begin(q, op, token, item, sku)
    PROVE  IInv'
<1> USE ConstantsAssumption DEF IInv, Begin, Setting
<1>0. \A i : Entries(i)' = Entries(i)
  BY DEF Entries
<1>1. Entries(item) \subseteq DOMAIN history /\ DOMAIN history \subseteq 1..MaxChanges
  BY DEF Entries, TypeOK, Transactions
<1>2. \A p \in Requests \ {q} : tx'[p] = tx[p]
  BY DEF TypeOK, Transactions
<1>3. tx'[q] = [step |-> "begun", op |-> op, token |-> token, setting |-> token,
                item |-> item, sku |-> sku, began |-> now', entry |-> 0, change |-> None,
                seen |-> Entries(item)]
  BY DEF TypeOK, Transactions
<1>4. now' \in 0..MaxTime /\ now' >= now
  BY DEF TypeOK, Transactions
<1>5. TypeOK'
  <2>1. tx'[q] \in Transactions
    BY <1>1, <1>3, <1>4 DEF Steps, Ids, Transactions
  <2>2. \A i \in Ids : lock[i] # q
    BY DEF TypeOK, Transactions, Active
  <2>3. QED
    BY <1>2, <1>3, <1>4, <2>1, <2>2 DEF TypeOK, Transactions
<1>6. RequestsAreFilled'
  BY <1>2, <1>3 DEF RequestsAreFilled, Active, Held
<1>7. RowIsHeld'
  BY <1>0, <1>2, <1>3 DEF RowIsHeld, Held
<1>8. IdsAreGiven'
  BY <1>0 DEF IdsAreGiven
<1>9. ActedIsDue'
  BY <1>0, <1>2, <1>3 DEF ActedIsDue, Acted, Change, Taken
<1>10. SeenIsOlder'
  <2>1. \A e \in DOMAIN history : history[e].changedAt \in 0..MaxTime /\ history[e].changedAt <= now'
    BY <1>4 DEF SeenIsOlder, TypeOK, Transactions, Entry
  <2>2. \A p \in Requests : Active(p) => tx[p].began <= now' /\ tx[p].began \in 0..MaxTime
    BY <1>4 DEF SeenIsOlder, TypeOK, Transactions
  <2>3. \A p \in Requests \ {q} : Active(p)' = Active(p) /\ Acted(p)' = Acted(p)
    BY <1>2 DEF Active, Acted
  <2>4. ~Acted(q)' /\ tx'[q].seen = Entries(item) /\ tx'[q].began = now'
    BY <1>3 DEF Acted
  <2>5. ASSUME NEW p \in Requests, Active(p)'
        PROVE  /\ tx'[p].began <= now'
               /\ \A d \in tx'[p].seen :
                     /\ d \in DOMAIN history /\ history[d].changedAt <= tx'[p].began
                     /\ Acted(p)' => d < tx'[p].entry
    <3>1. CASE p = q
      BY <1>1, <1>4, <2>1, <2>4, <3>1
    <3>2. CASE p # q
      BY <1>2, <2>2, <2>3, <2>5, <3>2 DEF SeenIsOlder
    <3>3. QED
      BY <3>1, <3>2
  <2>6. QED
    BY <2>1, <2>5 DEF SeenIsOlder
<1>11. RoomIsLeft'
  BY BeginKeepsRoom
<1>12. QED
  BY <1>5, <1>6, <1>7, <1>8, <1>9, <1>10, <1>11, TableUntouched

LEMMA LockRowKeeps ==
    ASSUME IInv, NEW q \in Requests, LockRow(q) PROVE IInv'
<1> USE ConstantsAssumption DEF IInv, LockRow, FindsRowFree
<1>0. \A i : Entries(i)' = Entries(i)
  BY DEF Entries
<1>1. tx[q].item \in Ids /\ tx[q].step = "begun" /\ tx[q].op # "INSERT"
  BY DEF RequestsAreFilled, Active, Held, TypeOK, Transactions
<1>2. /\ \A p \in Requests \ {q} : tx'[p] = tx[p]
      /\ tx'[q] = [tx[q] EXCEPT !.step = "holding"]
  BY DEF TypeOK, Transactions
<1>3. \A p \in Requests \ {q} : Held(p) /\ tx[p].op # "INSERT" => tx[p].item # tx[q].item
  BY DEF RowIsHeld
<1>4. TypeOK'
  BY <1>1, <1>2, SMTT(30) DEF TypeOK, Transactions, Steps
<1>5. RequestsAreFilled'
  BY <1>1, <1>2 DEF RequestsAreFilled, Active, Held, TypeOK, Transactions
<1>6. RowIsHeld'
  <2>1. \A p \in Requests : tx'[p].item = tx[p].item /\ tx'[p].op = tx[p].op
    BY <1>2 DEF TypeOK, Transactions
  <2>2. \A p \in Requests \ {q} : Held(p)' = Held(p)
    BY <1>2 DEF Held
  <2>3. Held(q)' /\ lock'[tx[q].item] = q /\ items[tx[q].item] # None
    BY <1>1, <1>2 DEF Held, TypeOK, Transactions
  <2>4. \A p \in Requests \ {q} : Held(p) /\ tx[p].op # "INSERT" =>
           lock'[tx[p].item] = lock[tx[p].item]
    BY <1>3 DEF TypeOK, Transactions
  <2>5. QED
    BY <1>0, <1>1, <2>1, <2>2, <2>3, <2>4 DEF RowIsHeld
<1>7. IdsAreGiven'
  BY <1>0 DEF IdsAreGiven
<1>8. ActedIsDue'
  BY <1>0, <1>1, <1>2 DEF ActedIsDue, Acted, Change, Taken, TypeOK, Transactions
<1>9. SeenIsOlder'
  BY <1>1, <1>2 DEF SeenIsOlder, Active, Acted, TypeOK, Transactions
<1>10. Coming' = Coming /\ NewRows' = NewRows
  BY <1>1, <1>2 DEF Coming, NewRows, Active, Acted, TypeOK, Transactions
<1>11. QED
  BY <1>4, <1>5, <1>6, <1>7, <1>8, <1>9, <1>10, FewerComing, TableUntouched

LEMMA TakeIdKeeps ==
    ASSUME IInv, NEW q \in Requests, TakeId(q) PROVE IInv'
<1> USE ConstantsAssumption DEF IInv, TakeId, HasNewRow
<1> PICK new \in Nat : new = lastId + 1
  BY DEF TypeOK, Transactions
<1>0. \A i : Entries(i)' = Entries(i)
  BY DEF Entries
<1>1. /\ \A p \in Requests \ {q} : tx'[p] = tx[p]
      /\ tx'[q] = [tx[q] EXCEPT !.step = "holding", !.item = new]
      /\ tx[q].step = "begun" /\ tx[q].op = "INSERT"
  BY DEF TypeOK, Transactions
<1>2. RoomIsLeft' /\ new \in Ids
  <2>1. Coming' = Coming /\ NewRows' = NewRows \ {q} /\ q \in NewRows
    BY <1>1 DEF Coming, NewRows, Active, Acted, TypeOK, Transactions
  <2>2. IsFiniteSet(NewRows)
    BY FS_Subset DEF NewRows
  <2>3. Cardinality(NewRows') = Cardinality(NewRows) - 1 /\ Cardinality(NewRows') \in Nat
    BY <2>1, <2>2, FS_RemoveElement, FS_CardinalityType
  <2>4. Cardinality(NewRows) \in Nat
    BY <2>2, FS_CardinalityType
  <2>5. QED
    BY <2>1, <2>3, <2>4 DEF RoomIsLeft, TypeOK, Transactions, Ids
<1>3. items[new] = None /\ Entries(new) = {} /\ new > lastId
  BY <1>2 DEF IdsAreGiven, TypeOK, Transactions
<1>4. TypeOK'
  <2>1. tx' \in [Requests -> Transactions]
    <3>1. tx'[q] \in Transactions
      <4>1. tx[q] \in Transactions /\ new \in 0..MaxItems
        BY <1>2 DEF TypeOK, Transactions, Ids
      <4>2. tx'[q] = [tx[q] EXCEPT !.step = "holding", !.item = new]
        BY <1>1
      <4>3. QED
        BY ONLY <4>1, <4>2 DEF Transactions, Steps
    <3>2. tx' = [tx EXCEPT ![q] = tx'[q]]
      BY DEF TypeOK, Transactions
    <3>3. QED
      BY <3>1, <3>2 DEF TypeOK, Transactions
  <2>2. \A i \in Ids : lock[i] # q
    BY <1>1 DEF TypeOK, Transactions
  <2>3. QED
    BY <1>1, <1>2, <2>1, <2>2, SMTT(30) DEF TypeOK, Transactions, Ids
<1>5. RequestsAreFilled'
  BY <1>1, <1>2 DEF RequestsAreFilled, Active, Held, TypeOK, Transactions
<1>6. RowIsHeld'
  <2>1. \A p \in Requests \ {q} : Held(p)' = Held(p) /\ tx'[p] = tx[p]
    BY <1>1 DEF Held
  <2>2. Held(q)' /\ tx'[q].item = new /\ tx'[q].op = "INSERT"
    BY <1>1 DEF Held, TypeOK, Transactions
  <2>3. \A p \in Requests \ {q} : Held(p) /\ tx[p].op = "INSERT" =>
           tx[p].item <= lastId /\ tx[p].item \in Nat
    BY DEF RowIsHeld, TypeOK, Transactions
  <2>4. lastId \in Nat /\ lastId' = new /\ items' = items
    BY DEF TypeOK, Transactions
  <2> HIDE DEF IInv, TakeId
  <2>5. ASSUME NEW p \in Requests \ {q}, Held(p), tx[p].op = "INSERT"
        PROVE  /\ items'[tx'[p].item] = None /\ Entries(tx[p].item)' = {}
               /\ tx'[p].item <= lastId' /\ tx'[p].item # new
    <3>1. /\ items[tx[p].item] = None /\ Entries(tx[p].item) = {}
          /\ tx[p].item <= lastId /\ tx[p].item \in Nat
      BY <2>3, <2>5 DEF RowIsHeld, IInv
    <3>2. QED
      BY <1>0, <2>1, <2>4, <3>1
  <2>6. ASSUME NEW p \in Requests \ {q}, Held(p), tx[p].op # "INSERT"
        PROVE  items'[tx'[p].item] # None /\ lock'[tx'[p].item] = p
    BY <2>1, <2>6, <2>4 DEF RowIsHeld, IInv, TakeId
  <2>7. \A p, r \in Requests : p # r /\ Held(p)' /\ Held(r)' /\ tx'[p].op = "INSERT"
                                /\ tx'[r].op = "INSERT" => tx'[r].item # tx'[p].item
    <3>1. \A p \in Requests \ {q} : Held(p) /\ tx[p].op = "INSERT" => tx[p].item # new
      BY <2>3, <2>4
    <3>2. QED
      BY <2>1, <2>2, <3>1 DEF RowIsHeld, IInv
  <2>8. new <= lastId' /\ items'[new] = None /\ Entries(new)' = {}
    BY <1>0, <1>3, <2>4
  <2>9. ASSUME NEW p \in Requests, Held(p)'
        PROVE  IF tx'[p].op = "INSERT"
               THEN /\ items'[tx'[p].item] = None /\ Entries(tx[p].item)' = {}
                    /\ tx'[p].item <= lastId'
               ELSE items'[tx'[p].item] # None /\ lock'[tx'[p].item] = p
    BY <2>1, <2>2, <2>5, <2>6, <2>8, <2>9
  <2>10. QED
    BY <2>7, <2>9 DEF RowIsHeld
<1>7. IdsAreGiven'
  BY <1>0, <1>2 DEF IdsAreGiven, TypeOK, Transactions, Ids
<1>8. ActedIsDue'
  BY <1>0, <1>1 DEF ActedIsDue, Acted, Change, Taken, TypeOK, Transactions
<1>9. SeenIsOlder'
  BY <1>1 DEF SeenIsOlder, Active, Acted, TypeOK, Transactions
<1>10. QED
  BY <1>2, <1>4, <1>5, <1>6, <1>7, <1>8, <1>9, TableUntouched

-----------------------------------------------------------------------------
(* The end of a transaction.                                               *)

LEMMA IdleIsTyped == Idle \in Transactions
BY ConstantsAssumption DEF Idle, Transactions, Steps, Methods

\* The request is gone, its locks are free, and those of the others stay.
LEMMA EndFacts ==
    ASSUME TypeOK, NEW q \in Requests, End(q)
    PROVE  /\ \A p \in Requests \ {q} : tx'[p] = tx[p]
           /\ tx' \in [Requests -> Transactions] /\ ~Active(q)' /\ ~Held(q)' /\ ~Acted(q)'
           /\ lock' \in [Ids -> Requests \cup {None}]
           /\ \A i \in Ids : lock[i] # q => lock'[i] = lock[i]
           /\ \A i \in Ids : lock'[i] # None => lock'[i] = lock[i] /\ lock[i] # q
           /\ Coming' \subseteq Coming /\ NewRows' \subseteq NewRows
<1> USE ConstantsAssumption DEF TypeOK, End
<1>1. \A p \in Requests \ {q} : tx'[p] = tx[p]
  OBVIOUS
<1>2. tx' \in [Requests -> Transactions] /\ tx'[q] = Idle
  BY IdleIsTyped
<1>3. ~Active(q)' /\ ~Held(q)' /\ ~Acted(q)' /\ tx'[q].step = "idle"
  BY <1>2 DEF Idle, Active, Held, Acted
<1>4. Coming' \subseteq Coming /\ NewRows' \subseteq NewRows
  BY <1>1, <1>3 DEF Coming, NewRows, Active, Acted
<1>5. QED
  BY <1>1, <1>2, <1>3, <1>4

LEMMA RollbackKeeps ==
    ASSUME IInv, NEW q \in Requests, Rollback(q) PROVE IInv'
<1> USE ConstantsAssumption DEF IInv
<1>0. /\ End(q) /\ UNCHANGED <<items, history, lastId, lastEntry, now, before>>
      /\ \A i : Entries(i)' = Entries(i)
  BY DEF Rollback, Entries
<1>1. /\ \A p \in Requests \ {q} : tx'[p] = tx[p]
      /\ tx' \in [Requests -> Transactions] /\ ~Active(q)' /\ ~Held(q)' /\ ~Acted(q)'
      /\ lock' \in [Ids -> Requests \cup {None}]
      /\ \A i \in Ids : lock[i] # q => lock'[i] = lock[i]
      /\ \A i \in Ids : lock'[i] # None => lock'[i] = lock[i] /\ lock[i] # q
      /\ Coming' \subseteq Coming /\ NewRows' \subseteq NewRows
  BY <1>0, EndFacts
<1>2. \A p \in Requests \ {q} : /\ Active(p)' = Active(p) /\ Held(p)' = Held(p)
                               /\ Acted(p)' = Acted(p)
  BY <1>1 DEF Active, Held, Acted
<1>3. TypeOK'
  <2>1. \A i \in Ids : lock'[i] # None =>
           tx'[lock'[i]].step \in {"holding", "acted"} /\ tx'[lock'[i]].item = i
    BY <1>1 DEF TypeOK
  <2>2. \A p \in Requests : tx'[p].step = "acted" => tx'[p].entry \in 1..lastEntry \ DOMAIN history
    BY <1>1 DEF TypeOK, Acted
  <2>3. QED
    BY <1>0, <1>1, <2>1, <2>2 DEF TypeOK
<1>4. RequestsAreFilled'
  BY <1>1, <1>2 DEF RequestsAreFilled
<1>5. RowIsHeld'
  <2>1. \A p \in Requests \ {q} : Held(p) /\ tx[p].op # "INSERT" =>
           tx[p].item \in Ids /\ lock[tx[p].item] = p
    BY DEF RowIsHeld, RequestsAreFilled, Held, Active
  <2>2. QED
    BY <1>0, <1>1, <1>2, <2>1, SMTT(60) DEF RowIsHeld
<1>6. IdsAreGiven'
  BY <1>0 DEF IdsAreGiven
<1>7. ActedIsDue'
  BY <1>0, <1>1, <1>2 DEF ActedIsDue, Change, Taken
<1>8. SeenIsOlder'
  BY <1>0, <1>1, <1>2 DEF SeenIsOlder
<1>9. RoomIsLeft'
  BY <1>0, <1>1, FewerComing
<1>10. QED
  BY <1>0, <1>3, <1>4, <1>5, <1>6, <1>7, <1>8, <1>9, TableUntouched

-----------------------------------------------------------------------------
(* The statement takes effect, and COMMIT.                                 *)

LEMMA ActKeeps ==
    ASSUME IInv, NEW q \in Requests, Act(q) PROVE IInv'
<1> USE ConstantsAssumption DEF IInv
<1> PICK e \in Nat : e = lastEntry + 1
  BY DEF TypeOK
<1> PICK c : c = Change(q)
  OBVIOUS
<1>0. /\ UNCHANGED <<items, history, lock, lastId, now, before>> /\ lastEntry' = e
      /\ \A i : Entries(i)' = Entries(i)
  BY DEF Act, Entries
<1>1. /\ tx[q].step = "holding" /\ tx[q].item \in Ids
      /\ tx[q].op # "DELETE" => ~Taken(q)
      /\ \A p \in Requests \ {q} : Acted(p) /\ tx[q].op # "DELETE" => tx[q].sku \notin Marked(p)
  BY DEF Act, ChecksKey, WaitsForKey, RequestsAreFilled, Held, Active
<1>2. /\ \A p \in Requests \ {q} : tx'[p] = tx[p]
      /\ tx'[q] = [tx[q] EXCEPT !.step = "acted", !.entry = e, !.change = c]
      /\ tx' = [tx EXCEPT ![q] = tx'[q]]
  BY DEF Act, TypeOK
<1>3. /\ tx[q] \in Transactions /\ tx'[q].step = "acted" /\ tx'[q].entry = e /\ tx'[q].change = c
      /\ tx'[q].op = tx[q].op /\ tx'[q].item = tx[q].item /\ tx'[q].sku = tx[q].sku
      /\ tx'[q].token = tx[q].token /\ tx'[q].setting = tx[q].setting
      /\ tx'[q].began = tx[q].began /\ tx'[q].seen = tx[q].seen
  BY <1>2 DEF TypeOK, Transactions
<1>4. /\ Held(q) /\ Held(q)' /\ Acted(q)' /\ Active(q) /\ Active(q)' /\ ~Acted(q)
      /\ \A p \in Requests \ {q} : /\ Active(p)' = Active(p) /\ Held(p)' = Held(p)
                                  /\ Acted(p)' = Acted(p)
  BY <1>1, <1>2, <1>3 DEF Active, Held, Acted
<1>5. RoomIsLeft' /\ e <= MaxChanges
  <2>1. Coming' = Coming \ {q} /\ q \in Coming /\ NewRows' = NewRows
    BY <1>1, <1>2, <1>3, <1>4, ZenonT(60) DEF Coming, NewRows
  <2>2. IsFiniteSet(Coming)
    BY FS_Subset DEF Coming
  <2>3. Cardinality(Coming') = Cardinality(Coming) - 1 /\ Cardinality(Coming') \in Nat
    BY <2>1, <2>2, FS_RemoveElement, FS_CardinalityType
  <2>4. Cardinality(Coming) \in Nat
    BY <2>2, FS_CardinalityType
  <2>5. QED
    BY <1>0, <2>1, <2>3, <2>4 DEF RoomIsLeft, TypeOK
<1>6. c \in Entry
  BY <1>1, <1>3 DEF Change, Entry, Transactions, TypeOK, RequestsAreFilled, Active
<1>7. DOMAIN history \subseteq 1..lastEntry
  BY DEF TypeOK
<1>8. TypeOK'
  <2>1. tx' \in [Requests -> Transactions]
    <3>1. tx'[q] \in Transactions
      <4>1. e \in 0..MaxChanges
        BY <1>5
      <4>2. QED
        BY ONLY <1>2, <1>3, <1>6, <4>1 DEF Transactions, Steps
    <3>2. QED
      BY <1>2, <3>1 DEF TypeOK
  <2>2. e \in 1..lastEntry' \ DOMAIN history /\ lastEntry' \in 0..MaxChanges
    BY <1>0, <1>5, <1>7 DEF TypeOK
  <2>3. \A p \in Requests : tx'[p].step = "acted" => tx'[p].entry \in 1..lastEntry' \ DOMAIN history
    <3>1. \A p \in Requests : tx[p].step = "acted" => tx[p].entry \in 1..lastEntry \ DOMAIN history
      BY DEF TypeOK
    <3>2. lastEntry \in Nat /\ lastEntry' = lastEntry + 1
      BY <1>0 DEF TypeOK
    <3>3. \A n \in 1..lastEntry : n \in 1..lastEntry'
      BY <3>2
    <3>4. QED
      BY <1>0, <1>2, <1>3, <2>2, <3>1, <3>3
  <2>4. \A i \in Ids : lock[i] # None =>
           tx'[lock[i]].step \in {"holding", "acted"} /\ tx'[lock[i]].item = i
    BY <1>2, <1>3, ZenonT(60) DEF TypeOK
  <2>5. DOMAIN history \subseteq 1..lastEntry' /\ \A d \in DOMAIN before : before[d] \subseteq 1..lastEntry'
    BY <1>0 DEF TypeOK
  <2>6. QED
    BY <1>0, <2>1, <2>2, <2>3, <2>4, <2>5 DEF TypeOK
<1>9. \A p \in Requests : /\ tx'[p].op = tx[p].op /\ tx'[p].item = tx[p].item
                          /\ tx'[p].sku = tx[p].sku /\ tx'[p].token = tx[p].token
                          /\ tx'[p].setting = tx[p].setting
                          /\ tx'[p].step = "begun" => tx[p].step = "begun"
                          /\ Active(p)' = Active(p) /\ Held(p)' = Held(p)
  <2> HIDE DEF IInv
  <2> TAKE p \in Requests
  <2>1. CASE p = q
    BY <1>1, <1>3, <1>4, <2>1
  <2>2. CASE p # q
    BY <1>2, <1>4, <2>2
  <2>3. QED
    BY <2>1, <2>2
<1> HIDE DEF IInv
<1>15. RequestsAreFilled'
  BY <1>9 DEF RequestsAreFilled, IInv
<1>10. RowIsHeld'
  BY <1>0, <1>9 DEF RowIsHeld, IInv
<1> USE DEF IInv
<1>11. IdsAreGiven'
  BY <1>0 DEF IdsAreGiven
<1>12. ActedIsDue'
  <2>1. \A d \in DOMAIN history : d < e
    BY <1>7 DEF TypeOK
  <2>2. Change(q)' = c /\ Taken(q)' = Taken(q)
    BY <1>0, <1>3 DEF Change, Taken
  <2>3. \A p \in Requests \ {q} : Change(p)' = Change(p) /\ Taken(p)' = Taken(p)
    BY <1>0, <1>2 DEF Change, Taken
  <2>4. ASSUME NEW p \in Requests \ {q}, Acted(p)
        PROVE  /\ tx[p].entry # e
               /\ tx[p].op # "DELETE" /\ tx[q].op # "DELETE" => tx[p].sku # tx[q].sku
    <3>1. tx[p].entry \in 1..lastEntry
      BY <2>4 DEF TypeOK, Acted
    <3>2. ASSUME tx[p].op # "DELETE", tx[q].op # "DELETE"
          PROVE  tx[p].sku # tx[q].sku
      <4>1. tx[p].change = Change(p) /\ tx[p].sku \in Skus
        BY <2>4, <3>2 DEF ActedIsDue, RequestsAreFilled, Active, Acted
      <4>2. tx[p].sku \in Marked(p)
        BY <2>4, <3>2, <4>1 DEF Change, Marked, Acted
      <4>3. QED
        BY <1>1, <2>4, <3>2, <4>2
    <3>3. QED
      BY <3>1, <3>2 DEF TypeOK
  <2>5. \A d \in Entries(tx[q].item) : d < e
    BY <2>1 DEF Entries
  <2> HIDE DEF IInv
  <2>6. ASSUME NEW p \in Requests, Acted(p)'
        PROVE  /\ tx'[p].change = Change(p)'
               /\ tx'[p].op # "DELETE" => ~Taken(p)'
               /\ \A d \in Entries(tx[p].item) : d < tx'[p].entry
    <3>1. CASE p = q
      BY <1>1, <1>3, <2>2, <2>5, <3>1
    <3>2. CASE p # q
      <4>1. Acted(p) /\ tx'[p] = tx[p]
        BY <1>2, <1>4, <2>6, <3>2
      <4>2. QED
        BY <2>3, <3>2, <4>1 DEF ActedIsDue, IInv
    <3>3. QED
      BY <3>1, <3>2
  <2>7. ASSUME NEW p \in Requests, NEW r \in Requests \ {p}, Acted(p)', Acted(r)'
        PROVE  /\ tx'[r].entry # tx'[p].entry
               /\ tx'[r].op # "DELETE" /\ tx'[p].op # "DELETE" => tx'[r].sku # tx'[p].sku
    <3>1. CASE p = q
      BY <1>2, <1>3, <1>4, <2>4, <2>7, <3>1
    <3>2. CASE r = q
      BY <1>2, <1>3, <1>4, <2>4, <2>7, <3>2, ZenonT(60)
    <3>3. CASE p # q /\ r # q
      BY <1>2, <1>4, <2>7, <3>3 DEF ActedIsDue, IInv
    <3>4. QED
      BY <3>1, <3>2, <3>3
  <2>8. \A p \in Requests : Entries(tx[p].item)' = Entries(tx[p].item)
    BY <1>0, <1>9
  <2>9. QED
    BY <2>6, <2>7, <2>8 DEF ActedIsDue
<1>13. SeenIsOlder'
  <2>1. \A d \in DOMAIN history : d < e
    BY <1>7 DEF TypeOK
  <2>2. QED
    BY <1>0, <1>2, <1>3, <1>4, <2>1, ZenonT(60) DEF SeenIsOlder
<1>14. QED
  BY <1>0, <1>5, <1>8, <1>15, <1>10, <1>11, <1>12, <1>13, TableUntouched

\* Two transactions that hold a row hold different ones.
LEMMA HeldApart ==
    ASSUME IInv, NEW q \in Requests, NEW p \in Requests \ {q}, Held(q), Held(p)
    PROVE  tx[p].item # tx[q].item
<1>1. CASE tx[p].op = "INSERT" /\ tx[q].op = "INSERT"
  BY <1>1 DEF IInv, RowIsHeld
<1>2. CASE tx[p].op = "INSERT" /\ tx[q].op # "INSERT"
  BY <1>2 DEF IInv, RowIsHeld
<1>3. CASE tx[p].op # "INSERT" /\ tx[q].op = "INSERT"
  BY <1>3 DEF IInv, RowIsHeld
<1>4. CASE tx[p].op # "INSERT" /\ tx[q].op # "INSERT"
  BY <1>4, p # q DEF IInv, RowIsHeld
<1>5. QED
  BY <1>1, <1>2, <1>3, <1>4

\* What is committed: entry e, the last of item i, with the value it replaces.
Committed(q, i, e, c) ==
    /\ i = tx[q].item /\ e = tx[q].entry /\ c = tx[q].change
    /\ Acted(q) /\ Held(q) /\ Active(q) /\ i \in Ids /\ e \in 1..lastEntry \ DOMAIN history
    /\ c = Change(q) /\ c \in Entry /\ End(q) /\ UNCHANGED <<lastId, lastEntry, now>>
    /\ items' = [items EXCEPT ![i] = c.new]
    /\ DOMAIN history' = DOMAIN history \cup {e} /\ history'[e] = c
    /\ \A d \in DOMAIN history : history'[d] = history[d]
    /\ DOMAIN before' = DOMAIN before \cup {e} /\ before'[e] = tx[q].seen
    /\ \A d \in DOMAIN before : before'[d] = before[d]
    /\ c.item = i /\ c.action = tx[q].op /\ c.actor = tx[q].token /\ c.old = items[i]
    /\ c.new = IF tx[q].op = "DELETE" THEN None ELSE tx[q].sku
    /\ c.changedAt = tx[q].began
    /\ tx[q].op # "DELETE" => tx[q].sku \in Skus
    /\ history' = [d \in DOMAIN history \cup {e} |-> IF d = e THEN c ELSE history[d]]
    /\ Entries(i)' = Entries(i) \cup {e}
    /\ \A j : j # i => Entries(j)' = Entries(j)
    /\ \A d \in Entries(i) : d < e

LEMMA CommitFacts ==
    ASSUME IInv, NEW q \in Requests, Commit(q)
    PROVE  \E i, e, c : Committed(q, i, e, c)
<1> PICK i : i = tx[q].item
  OBVIOUS
<1> PICK e : e = tx[q].entry
  OBVIOUS
<1> PICK c : c = tx[q].change
  OBVIOUS
<1> USE ConstantsAssumption DEF IInv
<1>1. Acted(q) /\ Held(q) /\ Active(q) /\ End(q) /\ UNCHANGED <<lastId, lastEntry, now>>
  BY DEF Commit, Acted, Held, Active
<1>2. i \in Ids /\ e \in 1..lastEntry \ DOMAIN history
  BY <1>1 DEF RequestsAreFilled, TypeOK, Acted
<1>3. c = Change(q) /\ \A d \in Entries(i) : d < e
  BY <1>1 DEF ActedIsDue
<1>4. /\ c.item = i /\ c.action = tx[q].op /\ c.actor = tx[q].token /\ c.old = items[i]
      /\ c.new = IF tx[q].op = "DELETE" THEN None ELSE tx[q].sku
      /\ c.changedAt = tx[q].began
      /\ tx[q].op # "DELETE" => tx[q].sku \in Skus
  BY <1>1, <1>3 DEF Change, RequestsAreFilled
<1>5. c \in Entry
  BY <1>1, <1>2, <1>3 DEF Change, Entry, TypeOK, Transactions, RequestsAreFilled
<1>6. items' = [items EXCEPT ![i] = c.new]
  BY DEF Commit
<1>7. /\ DOMAIN history' = DOMAIN history \cup {e} /\ history'[e] = c
      /\ \A d \in DOMAIN history : history'[d] = history[d]
      /\ history' = [d \in DOMAIN history \cup {e} |-> IF d = e THEN c ELSE history[d]]
  BY <1>2 DEF Commit
<1>8. /\ DOMAIN before' = DOMAIN before \cup {e} /\ before'[e] = tx[q].seen
      /\ \A d \in DOMAIN before : before'[d] = before[d]
  BY <1>2 DEF Commit, TypeOK
<1>9. Entries(i)' = Entries(i) \cup {e} /\ \A j : j # i => Entries(j)' = Entries(j)
  BY <1>2, <1>4, <1>7 DEF Entries
<1>10. Committed(q, i, e, c)
  BY <1>1, <1>2, <1>3, <1>4, <1>5, <1>6, <1>7, <1>8, <1>9 DEF Committed
<1>11. QED
  BY <1>10

\* The chain of an item grows by the entry of its last change.
LEMMA CommitKeepsHistory ==
    ASSUME IInv, NEW q \in Requests, Commit(q)
    PROVE  (SkusAreUnique /\ HistoryExplainsTable /\ ShownInOrder /\ LastOnes)'
<1> PICK i, e, c : Committed(q, i, e, c)
  BY CommitFacts
<1> USE ConstantsAssumption
<1>1. /\ i = tx[q].item /\ e = tx[q].entry /\ c = tx[q].change
      /\ Acted(q) /\ Held(q) /\ Active(q) /\ i \in Ids /\ e \in 1..lastEntry \ DOMAIN history
      /\ c = Change(q) /\ c \in Entry
      /\ items' = [items EXCEPT ![i] = c.new]
      /\ DOMAIN history' = DOMAIN history \cup {e} /\ history'[e] = c
      /\ \A d \in DOMAIN history : history'[d] = history[d]
      /\ DOMAIN before' = DOMAIN before \cup {e} /\ before'[e] = tx[q].seen
      /\ \A d \in DOMAIN before : before'[d] = before[d]
      /\ c.item = i /\ c.action = tx[q].op /\ c.old = items[i]
      /\ c.new = IF tx[q].op = "DELETE" THEN None ELSE tx[q].sku
      /\ c.changedAt = tx[q].began
      /\ tx[q].op # "DELETE" => tx[q].sku \in Skus
      /\ Entries(i)' = Entries(i) \cup {e}
      /\ \A j : j # i => Entries(j)' = Entries(j)
      /\ \A d \in Entries(i) : d < e
  BY DEF Committed
<1>2. /\ items' \in [Ids -> Skus \cup {None}] /\ items \in [Ids -> Skus \cup {None}]
      /\ items'[i] = c.new /\ \A j \in Ids : j # i => items'[j] = items[j]
  BY <1>1 DEF IInv, TypeOK, Entry
<1>3. DOMAIN history \subseteq Nat /\ \A j : Entries(j) \subseteq DOMAIN history
  BY DEF IInv, TypeOK, Entries
<1>4. SkusAreUnique'
  <2>1. \A j \in Ids : j # i /\ c.new # None => items[j] # c.new
    BY <1>1 DEF IInv, ActedIsDue, Taken
  <2>2. QED
    BY <1>2, <2>1 DEF SkusAreUnique, IInv
<1>5. \A j \in Ids, n \in Nat : n <= e \/ j # i => Below(j, n)' = Below(j, n)
  BY <1>1, <1>3 DEF Below
<1>6. \A n \in Nat : n > e => Below(i, n)' = Entries(i) \cup {e}
  BY <1>1, <1>3 DEF Below
<1>7. LastOnes'
  <2>1. ASSUME NEW j \in Ids, NEW n \in Nat, Below(j, n)' # {}
        PROVE  \E m \in Below(j, n)' : \A d \in Below(j, n)' : d <= m
    <3>1. CASE n <= e \/ j # i
      BY <1>5, <2>1, <3>1 DEF IInv, LastOnes
    <3>2. CASE n > e /\ j = i
      <4>1. Below(j, n)' = Entries(i) \cup {e} /\ \A d \in Entries(i) \cup {e} : d <= e
        BY <1>1, <1>3, <1>6, <3>2
      <4>2. QED
        BY <4>1
    <3>3. QED
      BY <1>1, <3>1, <3>2
  <2>2. QED
    BY <2>1 DEF LastOnes
<1>8. ShownInOrder'
  <2>1. \A d \in tx[q].seen : d \in DOMAIN history /\ history[d].changedAt <= c.changedAt /\ d < e
    BY <1>1 DEF IInv, SeenIsOlder
  <2>2. \A d \in tx[q].seen : ShownAbove(e, d)'
    <3>1. \A d \in DOMAIN history : history[d].changedAt \in Nat
      BY DEF IInv, TypeOK, Entry
    <3>2. c.changedAt \in Nat /\ e \in Nat
      BY <1>1 DEF Entry, IInv, TypeOK
    <3>3. QED
      BY <1>1, <1>3, <2>1, <3>1, <3>2 DEF ShownAbove
  <2>3. \A b \in DOMAIN history : \A d \in before[b] : d \in DOMAIN history /\ ShownAbove(b, d)
    BY DEF IInv, SeenIsOlder, ShownInOrder
  <2>4. \A b \in DOMAIN history : \A d \in before'[b] : ShownAbove(b, d)'
    BY <1>1, <2>3 DEF ShownAbove, IInv, TypeOK
  <2>5. QED
    BY <1>1, <2>2, <2>4 DEF ShownInOrder
<1>9. \A j \in Ids, n \in Nat : Below(j, n) # {} =>
         Max(Below(j, n)) \in Below(j, n) /\ history'[Max(Below(j, n))] = history[Max(Below(j, n))]
  <2>1. ASSUME NEW j \in Ids, NEW n \in Nat, Below(j, n) # {}
        PROVE  Max(Below(j, n)) \in Below(j, n)
    <3>1. PICK m \in Below(j, n) : \A d \in Below(j, n) : d <= m
      BY <2>1 DEF IInv, LastOnes
    <3>2. Below(j, n) \in SUBSET Nat
      BY <1>3 DEF Below
    <3>3. Max(Below(j, n)) = m
      BY <3>1, <3>2, MaxIs
    <3>4. QED
      BY <3>3
  <2>2. \A j \in Ids, n \in Nat : Below(j, n) \subseteq DOMAIN history
    BY <1>3 DEF Below
  <2>3. QED
    BY <1>1, <2>1, <2>2
<1>10. HistoryExplainsTable'
  <2>1. Below(i, e) = Entries(i) /\ e \in Nat
    BY <1>1, <1>3 DEF Below, IInv, TypeOK
  <2>2. Max(Entries(i)') = e
    <3>1. Entries(i)' \in SUBSET Nat /\ e \in Entries(i)' /\ \A d \in Entries(i)' : d <= e
      BY <1>1, <1>3, <2>1
    <3>2. QED
      BY <3>1, MaxIs
  <2>3. PICK top \in Nat : \A j : Entries(j) = Below(j, top)
    <3>1. lastEntry + 1 \in Nat /\ \A d \in DOMAIN history : d < lastEntry + 1
      BY DEF IInv, TypeOK
    <3>2. \A j : Entries(j) = Below(j, lastEntry + 1)
      BY <1>3, <3>1 DEF Below
    <3>3. QED
      BY <3>1, <3>2
  <2>4. ASSUME NEW j \in Ids
        PROVE  items'[j] = IF Entries(j)' = {} THEN None ELSE history'[Max(Entries(j)')].new
    <3>1. CASE j = i
      BY <1>1, <1>2, <2>2, <3>1
    <3>2. CASE j # i
      <4>1. items[j] = IF Entries(j) = {} THEN None ELSE history[Max(Entries(j))].new
        BY DEF IInv, HistoryExplainsTable
      <4>2. Entries(j) # {} => history'[Max(Entries(j))] = history[Max(Entries(j))]
        BY <1>9, <2>3
      <4>3. Entries(j)' = Entries(j) /\ items'[j] = items[j]
        BY <1>1, <1>2, <3>2
      <4>4. QED
        BY <4>1, <4>2, <4>3
    <3>3. QED
      BY <3>1, <3>2
  <2>5. ASSUME NEW j \in Ids, NEW b \in Entries(j)'
        PROVE  /\ history'[b].old = IF Below(j, b)' = {} THEN None
                                                       ELSE history'[Max(Below(j, b)')].new
               /\ history'[b].action = IF Below(j, b)' = {} THEN "INSERT"
                                       ELSE IF history'[b].new = None THEN "DELETE" ELSE "UPDATE"
    <3>1. CASE b = e
      <4>1. j = i
        BY <1>1, <1>3, <3>1
      <4>2. Below(j, b)' = Entries(i) /\ Entries(i) = Below(i, e)
        BY <1>5, <2>1, <3>1, <4>1
      <4>3. items[i] = IF Entries(i) = {} THEN None ELSE history[Max(Entries(i))].new
        BY <1>1 DEF IInv, HistoryExplainsTable
      <4>4. Entries(i) # {} => history'[Max(Entries(i))] = history[Max(Entries(i))]
        BY <1>1, <1>9, <2>1
      <4>5. tx[q].op = "INSERT" <=> Entries(i) = {}
        BY <1>1, <4>3 DEF IInv, RowIsHeld
      <4>6. tx[q].op \in Methods /\ (c.new = None <=> tx[q].op = "DELETE")
        BY <1>1 DEF IInv, TypeOK, Transactions
      <4>7. history'[b] = c
        BY <1>1, <3>1
      <4>8. QED
        BY <1>1, <4>2, <4>3, <4>4, <4>5, <4>6, <4>7 DEF Methods
    <3>2. CASE b # e
      <4>1. b \in Entries(j) /\ b \in DOMAIN history /\ b \in Nat
        BY <1>1, <1>3, <3>2
      <4>2. b <= e \/ j # i
        BY <1>1, <2>1, <4>1
      <4>3. Below(j, b)' = Below(j, b) /\ history'[b] = history[b]
        BY <1>1, <1>5, <4>1, <4>2
      <4>4. Below(j, b) # {} => history'[Max(Below(j, b))] = history[Max(Below(j, b))]
        BY <1>9, <4>1
      <4>5. /\ history[b].old = IF Below(j, b) = {} THEN None ELSE history[Max(Below(j, b))].new
            /\ history[b].action = IF Below(j, b) = {} THEN "INSERT"
                                   ELSE IF history[b].new = None THEN "DELETE" ELSE "UPDATE"
        BY <4>1 DEF IInv, HistoryExplainsTable, Below
      <4>6. QED
        BY <4>3, <4>4, <4>5
    <3>3. QED
      BY <3>1, <3>2
  <2>6. QED
    BY <2>4, <2>5 DEF HistoryExplainsTable, Below
<1>11. QED
  BY <1>4, <1>7, <1>8, <1>10

LEMMA CommitKeeps ==
    ASSUME IInv, NEW q \in Requests, Commit(q) PROVE IInv'
<1> PICK i, e, c : Committed(q, i, e, c)
  BY CommitFacts
<1> USE ConstantsAssumption
<1>1. /\ i = tx[q].item /\ e = tx[q].entry /\ c = tx[q].change
      /\ Acted(q) /\ Held(q) /\ Active(q) /\ i \in Ids /\ e \in 1..lastEntry \ DOMAIN history
      /\ c = Change(q) /\ c \in Entry /\ End(q) /\ UNCHANGED <<lastId, lastEntry, now>>
      /\ items' = [items EXCEPT ![i] = c.new]
      /\ DOMAIN history' = DOMAIN history \cup {e} /\ history'[e] = c
      /\ \A d \in DOMAIN history : history'[d] = history[d]
      /\ DOMAIN before' = DOMAIN before \cup {e} /\ before'[e] = tx[q].seen
      /\ \A d \in DOMAIN before : before'[d] = before[d]
      /\ c.new = IF tx[q].op = "DELETE" THEN None ELSE tx[q].sku
      /\ c.changedAt = tx[q].began
      /\ Entries(i)' = Entries(i) \cup {e}
      /\ \A j : j # i => Entries(j)' = Entries(j)
  BY DEF Committed
<1>2. /\ \A p \in Requests \ {q} : tx'[p] = tx[p]
      /\ tx' \in [Requests -> Transactions] /\ ~Active(q)' /\ ~Held(q)' /\ ~Acted(q)'
      /\ lock' \in [Ids -> Requests \cup {None}]
      /\ \A j \in Ids : lock[j] # q => lock'[j] = lock[j]
      /\ \A j \in Ids : lock'[j] # None => lock'[j] = lock[j] /\ lock[j] # q
      /\ Coming' \subseteq Coming /\ NewRows' \subseteq NewRows
  BY <1>1, EndFacts DEF IInv
<1>3. \A p \in Requests \ {q} : /\ Active(p)' = Active(p) /\ Held(p)' = Held(p)
                               /\ Acted(p)' = Acted(p)
  BY <1>2 DEF Active, Held, Acted
<1>4. /\ items' \in [Ids -> Skus \cup {None}] /\ items'[i] = c.new
      /\ \A j \in Ids : j # i => items'[j] = items[j]
  BY <1>1 DEF IInv, TypeOK, Entry
<1>5. \A p \in Requests \ {q} : Held(p) =>
         /\ tx[p].item \in Ids /\ tx[p].item # i /\ Active(p)
         /\ items'[tx[p].item] = items[tx[p].item]
         /\ Entries(tx[p].item)' = Entries(tx[p].item)
  <2>1. \A p \in Requests \ {q} : Held(p) =>
           tx[p].item \in Ids /\ tx[p].item # i /\ Active(p)
    BY <1>1, HeldApart DEF IInv, RequestsAreFilled, Held, Active
  <2>2. QED
    BY <1>1, <1>2, <1>4, <2>1
<1>6. TypeOK'
  <2>1. \A j \in Ids : lock'[j] # None =>
           tx'[lock'[j]].step \in {"holding", "acted"} /\ tx'[lock'[j]].item = j
    BY <1>2 DEF IInv, TypeOK
  <2>2. \A p \in Requests : tx'[p].step = "acted" => tx'[p].entry \in 1..lastEntry \ DOMAIN history'
    <3>1. \A p \in Requests \ {q} : Acted(p) => tx[p].entry # e
      BY <1>1 DEF IInv, ActedIsDue
    <3>2. QED
      BY <1>1, <1>2, <3>1 DEF IInv, TypeOK, Acted
  <2>3. \A d \in DOMAIN history' : history'[d] \in Entry
    BY <1>1 DEF IInv, TypeOK
  <2>4. DOMAIN before' = DOMAIN history' /\ DOMAIN history' \subseteq 1..lastEntry
    BY <1>1 DEF IInv, TypeOK
  <2>5. \A d \in DOMAIN before' : before'[d] \subseteq 1..lastEntry
    <3>1. tx[q].seen \subseteq DOMAIN history
      BY <1>1 DEF IInv, SeenIsOlder
    <3>2. QED
      BY <1>1, <3>1 DEF IInv, TypeOK
  <2>6. lastId' \in 0..MaxItems /\ lastEntry' \in 0..MaxChanges /\ now' \in 0..MaxTime
    BY <1>1 DEF IInv, TypeOK
  <2>7. QED
    BY <1>1, <1>2, <1>4, <2>1, <2>2, <2>3, <2>4, <2>5, <2>6 DEF TypeOK
<1>7. RequestsAreFilled'
  BY <1>2, <1>3 DEF IInv, RequestsAreFilled
<1>8. RowIsHeld'
  <2>1. \A p \in Requests \ {q} : Held(p) /\ tx[p].op # "INSERT" =>
           lock[tx[p].item] = p /\ lock'[tx[p].item] = p
    BY <1>2, <1>5 DEF IInv, RowIsHeld
  <2>2. QED
    BY <1>1, <1>2, <1>3, <1>5, <2>1 DEF IInv, RowIsHeld
<1>9. IdsAreGiven'
  <2>1. i <= lastId
    BY <1>1 DEF IInv, IdsAreGiven, RowIsHeld, TypeOK, Ids
  <2>2. \A j \in Ids : j > lastId => j # i
    BY <2>1 DEF IInv, TypeOK, Ids
  <2>3. QED
    BY <1>1, <1>4, <2>2 DEF IInv, IdsAreGiven
<1>10. ActedIsDue'
  <2>1. ASSUME NEW p \in Requests, Acted(p)'
        PROVE  /\ p # q /\ Acted(p) /\ tx'[p] = tx[p] /\ tx[p].change = Change(p)
               /\ tx'[p].change = Change(p)'
               /\ \A d \in Entries(tx[p].item) : d < tx'[p].entry
               /\ Entries(tx[p].item)' = Entries(tx[p].item)
               /\ tx'[p].op # "DELETE" => ~Taken(p)'
    <3>1. p # q /\ Acted(p) /\ Held(p) /\ tx'[p] = tx[p]
      BY <1>2, <1>3, <2>1 DEF Acted, Held
    <3>2. /\ tx[p].change = Change(p) /\ \A d \in Entries(tx[p].item) : d < tx[p].entry
      BY <3>1 DEF IInv, ActedIsDue
    <3>3. Change(p)' = Change(p)
      BY <1>5, <3>1 DEF Change
    <3>4. ASSUME tx[p].op # "DELETE" PROVE ~Taken(p)'
      <4>1. tx[p].sku \in Skus /\ ~Taken(p)
        BY <3>1, <3>4 DEF IInv, RequestsAreFilled, ActedIsDue, Active, Acted
      <4>2. c.new # tx[p].sku
        BY <1>1, <3>1, <3>4, <4>1 DEF IInv, ActedIsDue
      <4>3. QED
        BY <1>4, <3>1, <4>1, <4>2 DEF Taken
    <3>5. QED
      BY <1>5, <3>1, <3>2, <3>3, <3>4
  <2>2. QED
    BY <2>1 DEF IInv, ActedIsDue
<1>11. SeenIsOlder'
  <2>1. c.changedAt <= now /\ tx[q].seen \subseteq DOMAIN history
    BY <1>1 DEF IInv, SeenIsOlder
  <2>2. \A d \in DOMAIN history' : history'[d].changedAt <= now' /\ before'[d] \subseteq DOMAIN history'
    BY <1>1, <2>1 DEF IInv, SeenIsOlder, TypeOK
  <2>3. QED
    BY <1>1, <1>2, <1>3, <2>2 DEF IInv, SeenIsOlder
<1>12. RoomIsLeft'
  BY <1>1, <1>2, FewerComing DEF IInv
<1>13. QED
  BY <1>6, <1>7, <1>8, <1>9, <1>10, <1>11, <1>12, CommitKeepsHistory DEF IInv

-----------------------------------------------------------------------------
(* The invariants, for every instance.                                     *)

LEMMA NextKeeps == IInv /\ [Next]_vars => IInv'
<1> SUFFICES ASSUME IInv, [Next]_vars PROVE IInv'
  OBVIOUS
<1>1. CASE UNCHANGED vars
  <2>1. UNCHANGED <<items, history, tx, lock, lastId, lastEntry, now, before>>
    BY <1>1 DEF vars
  <2>2. /\ \A i : Entries(i)' = Entries(i)
        /\ \A q : /\ Active(q)' = Active(q) /\ Held(q)' = Held(q) /\ Acted(q)' = Acted(q)
                  /\ Change(q)' = Change(q) /\ Taken(q)' = Taken(q)
        /\ Coming' = Coming /\ NewRows' = NewRows
    BY <2>1 DEF Entries, Active, Held, Acted, Change, Taken, Coming, NewRows
  <2>3. (TypeOK /\ RequestsAreFilled /\ RowIsHeld /\ IdsAreGiven)'
    BY <2>1, <2>2 DEF IInv, TypeOK, RequestsAreFilled, RowIsHeld, IdsAreGiven
  <2>4. (ActedIsDue /\ SeenIsOlder /\ RoomIsLeft)'
    BY <2>1, <2>2 DEF IInv, ActedIsDue, SeenIsOlder, RoomIsLeft
  <2>5. QED
    BY <2>1, <2>3, <2>4, TableUntouched DEF IInv
<1>2. ASSUME NEW q \in Requests, Come(q) PROVE IInv'
  <2>1. PICK op \in Methods, token \in Tokens :
           \E item \in IF op = "INSERT" THEN {0} ELSE Ids,
              sku \in IF op = "DELETE" THEN {None} ELSE Skus : Begin(q, op, token, item, sku)
    BY <1>2 DEF Come
  <2>2. QED
    BY <2>1, BeginKeeps
<1>3. ASSUME NEW q \in Requests, TakeId(q) \/ LockRow(q) \/ Act(q) \/ Commit(q) PROVE IInv'
  BY <1>3, TakeIdKeeps, LockRowKeeps, ActKeeps, CommitKeeps
<1>4. ASSUME NEW q \in Requests, NotFound(q) \/ Conflict(q) \/ Deadlock(q) \/ Fail(q)
      PROVE  IInv'
  BY <1>4, RollbackKeeps DEF NotFound, Conflict, Deadlock, Fail
<1>5. QED
  BY <1>1, <1>2, <1>3, <1>4 DEF Next

LEMMA IInvAlways == Spec => []IInv
BY InitHolds, NextKeeps, PTL DEF Spec

\* Every reachable state is well typed: a row lock always has an owner at work on that
\* row, and what a trigger wrote is not in the history before its COMMIT.
THEOREM TypeCorrect == Spec => []TypeOK
BY IInvAlways, PTL DEF IInv

\* However many requests overlap, no two items ever have one SKU.
THEOREM SkusStayUnique == Spec => []SkusAreUnique
BY IInvAlways, PTL DEF IInv

\* The entries of an item form a chain, from its INSERT to what the table holds now.
THEOREM HistoryIsAChain == Spec => []HistoryExplainsTable
BY IInvAlways, PTL DEF IInv

\* GET history shows a change above those that were committed before it was asked for.
THEOREM HistoryIsShownInOrder == Spec => []ShownInOrder
BY IInvAlways, PTL DEF IInv

-----------------------------------------------------------------------------
(* Waits.                                                                  *)

\* Among finitely many requests that each wait for one of them there is a circle: the
\* smallest such group, where one that nobody waits for could be left out.
LEMMA WaitsClose ==
    ASSUME NEW G \in SUBSET Requests, G # {},
           \A q \in G : \E p \in G : Waits(q, p)
    PROVE  \E C \in SUBSET G : C # {} /\ Circle(C)
<1> DEFINE Closed(C) == C # {} /\ \A q \in C : \E p \in C : Waits(q, p)
           closed == {C \in SUBSET G : Closed(C)}
<1>1. IsFiniteSet(G) BY ConstantsAssumption, FS_Subset
<1>2. closed \subseteq FiniteSubsetsOf(G) BY <1>1, FS_Subset DEF FiniteSubsetsOf
<1>3. G \in closed OBVIOUS
<1>4. PICK C \in closed : \A D \in closed : ~(<<D, C>> \in StrictSubsetOrdering(G))
  BY <1>1, <1>2, <1>3, FS_StrictSubsetOrderingWellFounded, WFMin, Zenon
<1>5. ASSUME NEW p \in C, \A r \in C : ~Waits(r, p) PROVE FALSE
  <2>1. C \ {p} \notin closed BY <1>4 DEF StrictSubsetOrdering
  <2>2. C \ {p} # {} BY <1>4, <1>5
  <2>3. \A q \in C \ {p} : \E r \in C \ {p} : Waits(q, r) BY <1>4, <1>5
  <2> QED BY <1>4, <2>1, <2>2, <2>3
<1> QED BY <1>4, <1>5 DEF Circle

\* A request that cannot take its next step waits for another one that is under way: the
\* holder of its row, or the one that has marked its key.
LEMMA HeldUpByActive ==
    ASSUME IInv, NEW q \in Requests, Active(q), ~GoesOn(q)
    PROVE  \E p \in Requests : Active(p) /\ Waits(q, p)
<1> USE ConstantsAssumption DEF IInv, Active
<1>1. tx[q].step \in {"begun", "holding"} BY DEF TypeOK, Transactions, Steps, GoesOn
<1>2. CASE tx[q].step = "begun"
  <2>1. tx[q].op # "INSERT" /\ tx[q].item \in Ids
    BY <1>2 DEF GoesOn, HasNewRow, RequestsAreFilled
  <2>2. lock[tx[q].item] # None BY <1>2, <2>1 DEF GoesOn, FindsNoRow, FindsRowFree
  <2>3. lock[tx[q].item] \in Requests /\ Active(lock[tx[q].item]) BY <2>1, <2>2 DEF TypeOK
  <2> QED BY <1>2, <2>1, <2>3 DEF Waits
<1>3. CASE tx[q].step = "holding"
  <2>1. PICK p \in Requests : WaitsForKey(q, p) BY <1>3 DEF GoesOn, ChecksKey
  <2>2. tx[p].step \in {"holding", "acted"} BY <2>1 DEF WaitsForKey, Marked
  <2> QED BY <2>1, <2>2 DEF Waits
<1> QED BY <1>1, <1>2, <1>3

LEMMA NobodyIsStuckNow == IInv => NobodyIsStuck
<1> SUFFICES ASSUME IInv, NEW G \in SUBSET {q \in Requests : Active(q)}, G # {},
                    \A q \in G : /\ ~GoesOn(q)
                                 /\ \A p \in Requests \ G : ~(Active(p) /\ Waits(q, p))
             PROVE  FALSE
  BY DEF NobodyIsStuck
<1>1. \A q \in G : \E p \in G : Waits(q, p) BY HeldUpByActive
<1>2. PICK C \in SUBSET G : C # {} /\ Circle(C) BY <1>1, WaitsClose
<1>3. PICK q \in C : TRUE BY <1>2
<1>4. InCircle(q) BY <1>2, <1>3 DEF InCircle
<1> QED BY <1>3, <1>4 DEF GoesOn

\* In every group of requests one can go on, or waits for one outside of it: no request is
\* left behind with a lock, and every deadlock is a circle that PostgreSQL sees.
THEOREM WaitsAreEnded == Spec => []NobodyIsStuck
BY IInvAlways, NobodyIsStuckNow, PTL

-----------------------------------------------------------------------------
(* The transactions implement AuditedTable.                                *)

\* What is asked for is never mistaken for no request.
LEMMA AskedIsSomething ==
    ASSUME IInv, NEW q \in Requests, Active(q) PROVE Asked(q) # None
<1>1. Asked(q) \in [op : Methods, token : Tokens, sku : Skus \cup {None}, item : 0..MaxItems]
  BY ConstantsAssumption DEF IInv, TypeOK, Transactions, RequestsAreFilled, Asked
<1>2. QED
  BY <1>1, ConstantsAssumption

LEMMA InitRefines == Init => Audited!Init
<1> SUFFICES ASSUME Init PROVE Audited!Init
  OBVIOUS
<1>1. Calls = [q \in Requests |-> None]
  BY DEF Init, Calls, Active, Idle
<1>2. QED
  BY <1>1 DEF Init, Audited!Init

LEMMA BeginRefines ==
    ASSUME IInv, NEW q \in Requests, Come(q) PROVE Audited!Arrive(q)
<1> USE ConstantsAssumption DEF IInv, TypeOK
<1>1. PICK op \in Methods, token \in Tokens :
         \E item \in IF op = "INSERT" THEN {0} ELSE Ids,
            sku \in IF op = "DELETE" THEN {None} ELSE Skus : Begin(q, op, token, item, sku)
  BY DEF Come
<1>2. PICK item \in IF op = "INSERT" THEN {0} ELSE Ids,
           sku \in IF op = "DELETE" THEN {None} ELSE Skus : Begin(q, op, token, item, sku)
  BY <1>1
<1>3. item \in Ids \cup {0} /\ sku \in Skus \cup {None} /\ (op = "INSERT" => item = 0)
  BY <1>2
<1>4. /\ \A p \in Requests \ {q} : tx'[p] = tx[p]
      /\ tx'[q].step = "begun" /\ tx'[q].op = op /\ tx'[q].token = token
      /\ tx'[q].item = item /\ tx'[q].sku = sku
      /\ ~Active(q) /\ UNCHANGED <<items, history>>
  BY <1>2 DEF Begin
<1>5. \A p \in Requests \ {q} : Active(p)' = Active(p) /\ Asked(p)' = Asked(p)
  BY <1>4 DEF Active, Asked
<1>6. Active(q)' /\ Asked(q)' = [op |-> op, token |-> token, item |-> item, sku |-> sku]
  BY <1>3, <1>4 DEF Active, Asked
<1>7. Calls' = [Calls EXCEPT ![q] = [op |-> op, token |-> token, item |-> item, sku |-> sku]]
  BY <1>5, <1>6 DEF Calls
<1>8. Calls[q] = None
  BY <1>4 DEF Calls
<1>9. QED
  BY <1>3, <1>4, <1>7, <1>8 DEF Audited!Arrive, Audited!Methods, Methods

LEMMA HoldRefines ==
    ASSUME IInv, NEW q \in Requests, TakeId(q) \/ LockRow(q) \/ Act(q)
    PROVE  UNCHANGED <<items, history, Calls>>
<1>1. /\ tx' \in [Requests -> Transactions] /\ tx \in [Requests -> Transactions]
      /\ UNCHANGED <<items, history>>
      /\ \A p \in Requests \ {q} : tx'[p] = tx[p]
  BY TakeIdKeeps, LockRowKeeps, ActKeeps, ZenonT(60) DEF IInv, TypeOK, TakeId, LockRow, Act
<1>2. /\ Active(q) /\ Active(q)' /\ tx'[q].op = tx[q].op /\ tx'[q].token = tx[q].token
      /\ tx'[q].sku = tx[q].sku /\ (tx[q].op # "INSERT" => tx'[q].item = tx[q].item)
  BY <1>1 DEF Transactions, Active, TakeId, LockRow, Act, ChecksKey, HasNewRow, FindsRowFree
<1>3. \A p \in Requests : Active(p)' = Active(p) /\ (Asked(p)' = Asked(p))
  BY <1>1, <1>2 DEF Active, Asked
<1>4. QED
  BY <1>1, <1>3 DEF Calls

LEMMA EndRefines ==
    ASSUME IInv, NEW q \in Requests, End(q), Active(q)
    PROVE  Calls[q] # None /\ Calls' = [Calls EXCEPT ![q] = None]
<1>1. /\ \A p \in Requests \ {q} : tx'[p] = tx[p]
      /\ ~Active(q)'
  BY EndFacts DEF IInv
<1>2. \A p \in Requests \ {q} : Active(p)' = Active(p) /\ Asked(p)' = Asked(p)
  BY <1>1 DEF Active, Asked
<1>3. Calls[q] # None
  BY AskedIsSomething DEF Calls
<1>4. QED
  BY <1>1, <1>2, <1>3 DEF Calls

LEMMA CommitRefines ==
    ASSUME IInv, NEW q \in Requests, Commit(q)
    PROVE  \E j \in Ids, d \in 1..MaxChanges, u \in 0..MaxTime : Audited!Apply(q, j, d, u)
<1> PICK i, e, c : Committed(q, i, e, c)
  BY CommitFacts
<1>1. /\ i = tx[q].item /\ e = tx[q].entry /\ c = tx[q].change
      /\ Active(q) /\ Held(q) /\ Acted(q) /\ End(q)
      /\ i \in Ids /\ e \in 1..lastEntry \ DOMAIN history /\ c = Change(q) /\ c \in Entry
      /\ items' = [items EXCEPT ![i] = c.new]
      /\ c.item = i /\ c.action = tx[q].op /\ c.actor = tx[q].token /\ c.old = items[i]
      /\ c.new = IF tx[q].op = "DELETE" THEN None ELSE tx[q].sku
      /\ c.changedAt = tx[q].began
      /\ \A d \in Entries(i) : d < e
  BY DEF Committed
<1> PICK t : t = tx[q].began
  OBVIOUS
<1> USE ConstantsAssumption
<1>2. t \in 0..MaxTime /\ e \in 1..MaxChanges
  BY <1>1 DEF IInv, TypeOK, Transactions
<1>3. Calls[q] # None /\ Calls' = [Calls EXCEPT ![q] = None] /\ Calls[q] = Asked(q)
  BY <1>1, EndRefines DEF Calls
<1>4. /\ Calls[q].op = tx[q].op /\ Calls[q].token = tx[q].token /\ Calls[q].sku = tx[q].sku
      /\ tx[q].op # "INSERT" => Calls[q].item = i
  BY <1>1, <1>3 DEF Asked
<1>5. Audited!Allowed(Calls[q].op, Calls[q].token.role)
  BY <1>1, <1>4 DEF IInv, RequestsAreFilled, MayDo, Audited!Allowed
<1>6. Audited!Concerns(Calls[q], i)
  <2>1. CASE tx[q].op = "INSERT"
    BY <1>1, <1>4, <2>1 DEF IInv, RowIsHeld, Entries, Audited!Concerns
  <2>2. CASE tx[q].op # "INSERT"
    BY <1>1, <1>4, <2>2 DEF IInv, RowIsHeld, Audited!Concerns
  <2>3. QED
    BY <2>1, <2>2
<1>7. Calls[q].op # "DELETE" => \A j \in Ids \ {i} : items[j] # Calls[q].sku
  BY <1>1, <1>4 DEF IInv, ActedIsDue, Taken
<1>8. \A d \in DOMAIN history : d # e /\ (history[d].item = i => d < e)
  BY <1>1 DEF Entries
<1>9. c.new = Calls[q].sku
  BY <1>1, <1>4 DEF IInv, RequestsAreFilled
<1>10. c = [item |-> i, action |-> Calls[q].op, actor |-> Calls[q].token,
            old |-> items[i], new |-> Calls[q].sku, changedAt |-> t]
  BY <1>1, <1>4, <1>9 DEF Change, IInv, RequestsAreFilled
<1>11. history' = [d \in DOMAIN history \cup {e} |-> IF d = e THEN c ELSE history[d]]
  BY DEF Committed
<1>12. Audited!Apply(q, i, e, t)
  BY <1>1, <1>3, <1>5, <1>6, <1>7, <1>8, <1>9, <1>10, <1>11 DEF Audited!Apply
<1>13. QED
  BY <1>1, <1>2, <1>12

LEMMA StepRefines == IInv /\ [Next]_vars => [Audited!Next]_(Audited!vars)
<1> SUFFICES ASSUME IInv, [Next]_vars PROVE [Audited!Next]_(Audited!vars)
  OBVIOUS
<1>1. CASE UNCHANGED vars
  BY <1>1 DEF vars, Audited!vars, Calls, Active, Asked
<1>2. ASSUME NEW q \in Requests, Come(q) PROVE Audited!Next
  BY <1>2, BeginRefines DEF Audited!Next
<1>3. ASSUME NEW q \in Requests, TakeId(q) \/ LockRow(q) \/ Act(q)
      PROVE  UNCHANGED Audited!vars
  BY <1>3, HoldRefines DEF Audited!vars
<1>4. ASSUME NEW q \in Requests, NotFound(q) \/ Conflict(q) \/ Deadlock(q) \/ Fail(q)
      PROVE  Audited!Next \/ UNCHANGED Audited!vars
  <2>1. Rollback(q) /\ End(q) /\ UNCHANGED <<items, history>>
    BY <1>4 DEF NotFound, Conflict, Deadlock, Fail, Rollback
  <2>2. CASE Active(q)
    BY <2>1, <2>2, EndRefines DEF Audited!Next, Audited!EndUnchanged
  <2>3. CASE ~Active(q)
    <3>1. /\ \A p \in Requests \ {q} : tx'[p] = tx[p]
          /\ ~Active(q)'
      BY <2>1, EndFacts DEF IInv
    <3>2. Calls' = Calls
      BY <2>3, <3>1 DEF Calls, Active, Asked
    <3>3. QED
      BY <2>1, <3>2 DEF Audited!vars
  <2>4. QED
    BY <2>2, <2>3
<1>5. ASSUME NEW q \in Requests, Commit(q) PROVE Audited!Next
  BY <1>5, CommitRefines DEF Audited!Next
<1>6. QED
  BY <1>1, <1>2, <1>3, <1>4, <1>5 DEF Next

\* Each request of L3.7 takes effect with its history entry in one instant or not at
\* all, whatever locks, waits, conflicts and failures lie between its calls.
THEOREM ImplementsAuditedTable == Spec => AuditedSpec
BY InitRefines, StepRefines, IInvAlways, PTL DEF Spec, AuditedSpec, Audited!Spec
=============================================================================
