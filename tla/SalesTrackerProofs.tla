------------------------- MODULE SalesTrackerProofs -------------------------
(***************************************************************************)
(* What the pages of an export or of a walk over GET /items amount to, for *)
(* any rows, queries, page sizes and bounds.                               *)
(*                                                                         *)
(* The two properties of the walk speak of its end, or of a result that    *)
(* did not change.  What is inductive relates the rows sent to the places  *)
(* that the records have now: a record that stayed has been sent once for  *)
(* each time its place passed under the offset, and only a row that joins  *)
(* before it can bring it back above the offset, only one that leaves can  *)
(* take it below without being sent.                                       *)
(*                                                                         *)
(* That an export agrees with the analytics of its period rests on sums    *)
(* that do not depend on the order of what they add up: a fold over a set  *)
(* of numbers is the count of its units.                                   *)
(***************************************************************************)
EXTENDS SalesTracker, SortedSequences, WellFoundedInduction

-----------------------------------------------------------------------------
(* The accounts of a walk, for an order R and rows W.                      *)

Untouched(start, drift) == {x \in start : \A k \in DOMAIN drift : drift[k].record # x}

EventsOf(R, drift, what, x) ==
    {k \in DOMAIN drift : drift[k].what = what /\ <<drift[k].record, x>> \in R}

LeftOf(drift) == {k \in DOMAIN drift : drift[k].what = "left"}

\* Records that the offset has passed without their being sent.
Skipped(R, W, start, drift, sent, offset) ==
    {x \in Untouched(start, drift) : SentAt(sent, x) = {} /\ Place(R, W, x) <= offset}

Explained(R, W, start, drift, sent, offset) ==
    /\ Untouched(start, drift) \subseteq W
    /\ \A x \in Untouched(start, drift) :
          Cardinality(SentAt(sent, x)) <=
             Cardinality(EventsOf(R, drift, "joined", x))
             + IF Place(R, W, x) <= offset THEN 1 ELSE 0
    /\ \A x \in Skipped(R, W, start, drift, sent, offset) : EventsOf(R, drift, "left", x) # {}
    /\ Cardinality(Skipped(R, W, start, drift, sent, offset)) <= Cardinality(LeftOf(drift))

-----------------------------------------------------------------------------
(* The inductive invariant.                                                *)

Order(q) == {p \in Record \X Record : Precedes(q, p[1], p[2])}

\* While the walk goes on its accounts are settled, whatever the table went through.
WalkIsExplained ==
    read.pc = "reading" =>
        Explained(Order(read.query), Where(read.query.filter),
                  read.start, read.drift, read.sent, read.offset)

\* What they come to when it has ended.
EndIsExplained ==
    read.pc = "ended" =>
        /\ \A x \in Untouched(read.start, read.drift) :
              Cardinality(SentAt(read.sent, x)) <=
                 1 + Cardinality(EventsOf(Order(read.query), read.drift, "joined", x))
        /\ ~read.cut =>
              LET missing == {x \in Untouched(read.start, read.drift) : SentAt(read.sent, x) = {}}
              IN  /\ \A x \in missing :
                        EventsOf(Order(read.query), read.drift, "left", x) # {}
                  /\ Cardinality(missing) <= Cardinality(LeftOf(read.drift))

\* sent is the first k rows of all.
FirstRows(k, all, sent) == Len(sent) = k /\ k <= Len(all) /\ sent = SubSeq(all, 1, k)

\* While nothing changed, what was sent is the result as far as the offset.
SentIsPrefix ==
    read.pc # "none" /\ read.drift = <<>> =>
        /\ FirstRows(Len(read.sent), Result(read.query), read.sent)
        /\ read.pc = "reading" => Len(read.sent) = read.offset
        /\ read.pc = "ended" => read.cut \/ Len(read.sent) = Cardinality(Where(read.query.filter))

IInv == /\ TypeOK
        /\ WalkIsExplained
        /\ EndIsExplained
        /\ SentIsPrefix

-----------------------------------------------------------------------------
(* Events and copies, one more at a time.                                  *)

LEMMA EventsAreFinite ==
    ASSUME NEW E, NEW drift \in Seq(E), NEW R, NEW what, NEW x
    PROVE  /\ DOMAIN drift = 1..Len(drift) /\ Len(drift) \in Nat
           /\ IsFiniteSet(EventsOf(R, drift, what, x)) /\ IsFiniteSet(LeftOf(drift))
           /\ Cardinality(EventsOf(R, drift, what, x)) \in Nat
           /\ Cardinality(LeftOf(drift)) \in Nat
<1>1. DOMAIN drift = 1..Len(drift) /\ Len(drift) \in Nat OBVIOUS
<1>2. IsFiniteSet(1..Len(drift)) BY <1>1, FS_Interval
<1>3. /\ EventsOf(R, drift, what, x) \in SUBSET (1..Len(drift))
      /\ LeftOf(drift) \in SUBSET (1..Len(drift))
  BY <1>1 DEF EventsOf, LeftOf
<1>4. IsFiniteSet(EventsOf(R, drift, what, x)) /\ IsFiniteSet(LeftOf(drift))
  BY <1>2, <1>3, FS_Subset
<1> QED BY <1>1, <1>4, FS_CardinalityType

\* One more event counts for the records behind it.
LEMMA EventsGrow ==
    ASSUME NEW E, NEW drift \in Seq(E), NEW e \in E, NEW R, NEW what, NEW x
    PROVE  /\ EventsOf(R, drift, what, x) \subseteq EventsOf(R, Append(drift, e), what, x)
           /\ e.what = what /\ <<e.record, x>> \in R =>
                /\ EventsOf(R, Append(drift, e), what, x) # {}
                /\ Cardinality(EventsOf(R, Append(drift, e), what, x)) =
                      Cardinality(EventsOf(R, drift, what, x)) + 1
           /\ e.what # what \/ <<e.record, x>> \notin R =>
                EventsOf(R, Append(drift, e), what, x) = EventsOf(R, drift, what, x)
<1> DEFINE n == Len(drift) + 1
<1>1. DOMAIN drift = 1..Len(drift) /\ Len(drift) \in Nat OBVIOUS
<1>2. DOMAIN Append(drift, e) = DOMAIN drift \cup {n} /\ n \notin DOMAIN drift BY <1>1
<1>3. \A k \in DOMAIN drift : Append(drift, e)[k] = drift[k] BY <1>1
<1>4. Append(drift, e)[n] = e OBVIOUS
<1>5. CASE e.what = what /\ <<e.record, x>> \in R
  <2>1. EventsOf(R, Append(drift, e), what, x) = EventsOf(R, drift, what, x) \cup {n}
    BY <1>2, <1>3, <1>4, <1>5 DEF EventsOf
  <2>2. n \notin EventsOf(R, drift, what, x) BY <1>2 DEF EventsOf
  <2>3. IsFiniteSet(EventsOf(R, drift, what, x)) BY EventsAreFinite
  <2>4. Cardinality(EventsOf(R, drift, what, x) \cup {n}) =
           Cardinality(EventsOf(R, drift, what, x)) + 1
    BY <2>2, <2>3, FS_AddElement
  <2> QED BY <1>5, <2>1, <2>4
<1>6. CASE e.what # what \/ <<e.record, x>> \notin R
  <2>1. EventsOf(R, Append(drift, e), what, x) = EventsOf(R, drift, what, x)
    BY <1>2, <1>3, <1>4, <1>6 DEF EventsOf
  <2> QED BY <1>6, <2>1
<1> QED BY <1>5, <1>6

\* An event of one kind does not count as one of the other.
LEMMA EventsStay ==
    ASSUME NEW E, NEW drift \in Seq(E), NEW e \in E, NEW R, NEW x, e.what = "left"
    PROVE  EventsOf(R, Append(drift, e), "joined", x) = EventsOf(R, drift, "joined", x)
<1> DEFINE n == Len(drift) + 1
<1>1. DOMAIN drift = 1..Len(drift) /\ Len(drift) \in Nat OBVIOUS
<1>2. DOMAIN Append(drift, e) = DOMAIN drift \cup {n} BY <1>1
<1>3. \A k \in DOMAIN drift : Append(drift, e)[k] = drift[k] BY <1>1
<1>4. Append(drift, e)[n] = e /\ e.what # "joined" OBVIOUS
<1> QED BY <1>2, <1>3, <1>4 DEF EventsOf

LEMMA LeftGrow ==
    ASSUME NEW E, NEW drift \in Seq(E), NEW e \in E
    PROVE  Cardinality(LeftOf(Append(drift, e))) =
              IF e.what = "left" THEN Cardinality(LeftOf(drift)) + 1
                                 ELSE Cardinality(LeftOf(drift))
<1> DEFINE n == Len(drift) + 1
<1>1. DOMAIN drift = 1..Len(drift) /\ Len(drift) \in Nat OBVIOUS
<1>2. DOMAIN Append(drift, e) = DOMAIN drift \cup {n} /\ n \notin DOMAIN drift BY <1>1
<1>3. \A k \in DOMAIN drift : Append(drift, e)[k] = drift[k] BY <1>1
<1>4. Append(drift, e)[n] = e OBVIOUS
<1>5. CASE e.what = "left"
  <2>1. LeftOf(Append(drift, e)) = LeftOf(drift) \cup {n}
    BY <1>2, <1>3, <1>4, <1>5 DEF LeftOf
  <2>2. n \notin LeftOf(drift) BY <1>2 DEF LeftOf
  <2>3. IsFiniteSet(LeftOf(drift)) BY EventsAreFinite
  <2> QED BY <1>5, <2>1, <2>2, <2>3, FS_AddElement
<1>6. CASE e.what # "left"
  <2>1. LeftOf(Append(drift, e)) = LeftOf(drift)
    BY <1>2, <1>3, <1>4, <1>6 DEF LeftOf
  <2> QED BY <1>6, <2>1
<1> QED BY <1>5, <1>6

\* A record that stays untouched after one more event was untouched and is not its record.
LEMMA UntouchedShrinks ==
    ASSUME NEW E, NEW drift \in Seq(E), NEW e \in E, NEW start
    PROVE  Untouched(start, Append(drift, e)) = Untouched(start, drift) \ {e.record}
<1> DEFINE n == Len(drift) + 1
<1>1. DOMAIN drift = 1..Len(drift) /\ Len(drift) \in Nat OBVIOUS
<1>2. DOMAIN Append(drift, e) = DOMAIN drift \cup {n} BY <1>1
<1>3. \A k \in DOMAIN drift : Append(drift, e)[k] = drift[k] BY <1>1
<1>4. Append(drift, e)[n] = e OBVIOUS
<1> QED BY <1>2, <1>3, <1>4 DEF Untouched

-----------------------------------------------------------------------------
(* What keeps the accounts: a record leaves, one joins, a page is sent.    *)

\* The accounts are about the rows there are.
LEMMA ExplainedTypes ==
    ASSUME NEW R, NEW W, IsFiniteSet(W), Orders(R, W), NEW E, NEW start, NEW drift \in Seq(E),
           NEW T, NEW sent \in Seq(T), NEW offset, Untouched(start, drift) \subseteq W
    PROVE  /\ \A x \in Untouched(start, drift) :
                 /\ x \in W /\ Place(R, W, x) \in Nat
                 /\ IsFiniteSet(SentAt(sent, x)) /\ Cardinality(SentAt(sent, x)) \in Nat
                 /\ Cardinality(EventsOf(R, drift, "joined", x)) \in Nat
           /\ IsFiniteSet(Skipped(R, W, start, drift, sent, offset))
           /\ Cardinality(Skipped(R, W, start, drift, sent, offset)) \in Nat
           /\ Cardinality(LeftOf(drift)) \in Nat
<1>1. ASSUME NEW x \in Untouched(start, drift)
      PROVE  /\ x \in W /\ Place(R, W, x) \in Nat
             /\ IsFiniteSet(SentAt(sent, x)) /\ Cardinality(SentAt(sent, x)) \in Nat
             /\ Cardinality(EventsOf(R, drift, "joined", x)) \in Nat
  <2>1. x \in W /\ <<x, x>> \notin R BY DEF Orders
  <2>2. Place(R, W, x) \in 1..Cardinality(W) /\ Cardinality(W) \in Nat
    BY <2>1, PlaceIsPosition
  <2>3. DOMAIN sent = 1..Len(sent) /\ Len(sent) \in Nat OBVIOUS
  <2>4. SentAt(sent, x) \in SUBSET (1..Len(sent)) BY <2>3 DEF SentAt
  <2>5. IsFiniteSet(1..Len(sent)) BY <2>3, FS_Interval
  <2>6. IsFiniteSet(SentAt(sent, x)) BY <2>4, <2>5, FS_Subset
  <2> QED BY <2>1, <2>2, <2>6, FS_CardinalityType, EventsAreFinite
<1>2. Skipped(R, W, start, drift, sent, offset) \in SUBSET W BY DEF Skipped
<1>3. IsFiniteSet(Skipped(R, W, start, drift, sent, offset)) BY <1>2, FS_Subset
<1> QED BY <1>1, <1>3, FS_CardinalityType, EventsAreFinite

\* A record that leaves moves those behind it up, one of them past the offset.
LEMMA LeftExplained ==
    ASSUME NEW R, NEW W, IsFiniteSet(W), Orders(R, W), NEW E, NEW start, NEW drift \in Seq(E),
           NEW T, NEW sent \in Seq(T), NEW offset \in Nat,
           Explained(R, W, start, drift, sent, offset),
           NEW e \in E, e.what = "left", e.record \in W
    PROVE  Explained(R, W \ {e.record}, start, Append(drift, e), sent, offset)
<1> DEFINE o == e.record
           V == W \ {o}
           U == Untouched(start, drift)
           U2 == Untouched(start, Append(drift, e))
           S == Skipped(R, W, start, drift, sent, offset)
           S2 == Skipped(R, V, start, Append(drift, e), sent, offset)
<1>1. U2 = U \ {o} /\ U \subseteq W BY UntouchedShrinks DEF Explained
<1>2. /\ \A x \in U : /\ x \in W /\ Place(R, W, x) \in Nat
                      /\ Cardinality(SentAt(sent, x)) \in Nat
                      /\ Cardinality(EventsOf(R, drift, "joined", x)) \in Nat
      /\ IsFiniteSet(S) /\ Cardinality(S) \in Nat /\ Cardinality(LeftOf(drift)) \in Nat
  BY <1>1, ExplainedTypes
<1>3. \A x \in U2 : Place(R, V, x) = IF <<o, x>> \in R THEN Place(R, W, x) - 1
                                                      ELSE Place(R, W, x)
  BY <1>1, PlaceWithout
<1>4. U2 \subseteq V BY <1>1
<1>5. \A x \in U2 : Cardinality(SentAt(sent, x)) <=
                       Cardinality(EventsOf(R, Append(drift, e), "joined", x))
                       + IF Place(R, V, x) <= offset THEN 1 ELSE 0
  <2> SUFFICES ASSUME NEW x \in U2
               PROVE  Cardinality(SentAt(sent, x)) <=
                         Cardinality(EventsOf(R, Append(drift, e), "joined", x))
                         + IF Place(R, V, x) <= offset THEN 1 ELSE 0
    OBVIOUS
  <2>1. EventsOf(R, Append(drift, e), "joined", x) = EventsOf(R, drift, "joined", x) BY EventsStay
  <2>2. x \in U BY <1>1
  <2>3. Cardinality(SentAt(sent, x)) <= Cardinality(EventsOf(R, drift, "joined", x))
           + IF Place(R, W, x) <= offset THEN 1 ELSE 0
    BY <2>2 DEF Explained
  <2>4. Place(R, V, x) \in Int /\ Place(R, V, x) <= Place(R, W, x)
    <3>1. PICK p \in Nat : p = Place(R, W, x) BY <1>2, <2>2
    <3>2. Place(R, V, x) = p - 1 \/ Place(R, V, x) = p BY <1>3, <3>1
    <3> QED BY <3>1, <3>2
  <2> HIDE DEF V
  <2> QED BY <1>2, <2>1, <2>2, <2>3, <2>4
<1>6. \A x \in S2 : x \in U /\ SentAt(sent, x) = {} /\ (x \in S \/ Place(R, W, x) = offset + 1)
  <2> SUFFICES ASSUME NEW x \in S2
               PROVE  x \in U /\ SentAt(sent, x) = {} /\ (x \in S \/ Place(R, W, x) = offset + 1)
    OBVIOUS
  <2>1. x \in U2 /\ x \in U /\ SentAt(sent, x) = {} /\ Place(R, V, x) <= offset
    BY <1>1 DEF Skipped
  <2>2. Place(R, W, x) <= offset \/ Place(R, W, x) = offset + 1
    <3>1. PICK p \in Nat : p = Place(R, W, x) BY <1>2, <2>1
    <3>2. Place(R, V, x) = p - 1 \/ Place(R, V, x) = p BY <1>3, <2>1, <3>1
    <3> QED BY <2>1, <3>1, <3>2
  <2> QED BY <2>1, <2>2 DEF Skipped
<1>7. \A x \in S2 : EventsOf(R, Append(drift, e), "left", x) # {}
  <2> SUFFICES ASSUME NEW x \in S2 PROVE EventsOf(R, Append(drift, e), "left", x) # {}
    OBVIOUS
  <2>1. CASE <<o, x>> \in R BY <2>1, EventsGrow
  <2>2. CASE <<o, x>> \notin R
    <3>1. x \in S BY <1>1, <1>3, <2>2 DEF Skipped
    <3>2. EventsOf(R, drift, "left", x) # {} BY <3>1 DEF Explained
    <3> QED BY <3>2, EventsGrow
  <2> QED BY <2>1, <2>2
<1>8. Cardinality(S2) <= Cardinality(LeftOf(Append(drift, e)))
  <2>1. Cardinality(LeftOf(Append(drift, e))) = Cardinality(LeftOf(drift)) + 1 BY LeftGrow
  <2>2. Cardinality(S) <= Cardinality(LeftOf(drift)) BY DEF Explained
  <2>3. CASE \E z \in U : Place(R, W, z) = offset + 1
    <3>1. PICK z \in U : Place(R, W, z) = offset + 1 BY <2>3
    <3>2. S2 \in SUBSET (S \cup {z})
      <4> SUFFICES ASSUME NEW x \in S2, x \notin S PROVE x = z OBVIOUS
      <4>1. x \in W /\ z \in W /\ Place(R, W, x) = Place(R, W, z) BY <1>2, <1>6, <3>1
      <4> HIDE DEF S, S2
      <4> QED BY <4>1, PlaceIsUnique
    <3>3. /\ IsFiniteSet(S \cup {z}) /\ Cardinality(S \cup {z}) <= Cardinality(S) + 1
      <4> HIDE DEF S
      <4>1. /\ IsFiniteSet(S \cup {z})
            /\ Cardinality(S \cup {z}) = IF z \in S THEN Cardinality(S) ELSE Cardinality(S) + 1
        BY <1>2, FS_AddElement
      <4> QED BY <1>2, <4>1
    <3>4. /\ Cardinality(S2) <= Cardinality(S \cup {z})
          /\ Cardinality(S2) \in Nat /\ Cardinality(S \cup {z}) \in Nat
      BY <3>2, <3>3, FS_Subset, FS_CardinalityType
    <3> HIDE DEF S, S2
    <3> QED BY <1>2, <2>1, <2>2, <3>3, <3>4
  <2>4. CASE ~ \E z \in U : Place(R, W, z) = offset + 1
    <3>1. S2 \in SUBSET S BY <1>6, <2>4
    <3>2. Cardinality(S2) <= Cardinality(S) /\ Cardinality(S2) \in Nat
      BY <1>2, <3>1, FS_Subset, FS_CardinalityType
    <3> HIDE DEF S, S2
    <3> QED BY <1>2, <2>1, <2>2, <3>2
  <2> QED BY <2>3, <2>4
<1> QED BY <1>4, <1>5, <1>7, <1>8 DEF Explained

\* A record that joins moves those behind it down, and they may come once more.
LEMMA JoinedExplained ==
    ASSUME NEW R, NEW W, IsFiniteSet(W), Orders(R, W), NEW E, NEW start, NEW drift \in Seq(E),
           NEW T, NEW sent \in Seq(T), NEW offset \in Nat,
           Explained(R, W, start, drift, sent, offset),
           NEW e \in E, e.what = "joined", e.record \notin W
    PROVE  Explained(R, W \cup {e.record}, start, Append(drift, e), sent, offset)
<1> DEFINE n == e.record
           V == W \cup {n}
           U == Untouched(start, drift)
           U2 == Untouched(start, Append(drift, e))
           S == Skipped(R, W, start, drift, sent, offset)
           S2 == Skipped(R, V, start, Append(drift, e), sent, offset)
<1>1. U2 = U \ {n} /\ U \subseteq W BY UntouchedShrinks DEF Explained
<1>2. /\ \A x \in U : /\ x \in W /\ Place(R, W, x) \in Nat
                      /\ Cardinality(SentAt(sent, x)) \in Nat
                      /\ Cardinality(EventsOf(R, drift, "joined", x)) \in Nat
      /\ IsFiniteSet(S) /\ Cardinality(S) \in Nat /\ Cardinality(LeftOf(drift)) \in Nat
  BY <1>1, ExplainedTypes
<1>3. \A x \in U2 : Place(R, V, x) = IF <<n, x>> \in R THEN Place(R, W, x) + 1
                                                      ELSE Place(R, W, x)
  BY <1>1, PlaceWith
<1>4. U2 \subseteq V BY <1>1
<1>5. \A x \in U2 : Cardinality(SentAt(sent, x)) <=
                       Cardinality(EventsOf(R, Append(drift, e), "joined", x))
                       + IF Place(R, V, x) <= offset THEN 1 ELSE 0
  <2> SUFFICES ASSUME NEW x \in U2
               PROVE  Cardinality(SentAt(sent, x)) <=
                         Cardinality(EventsOf(R, Append(drift, e), "joined", x))
                         + IF Place(R, V, x) <= offset THEN 1 ELSE 0
    OBVIOUS
  <2>1. x \in U BY <1>1
  <2>2. Cardinality(SentAt(sent, x)) <= Cardinality(EventsOf(R, drift, "joined", x))
           + IF Place(R, W, x) <= offset THEN 1 ELSE 0
    BY <2>1 DEF Explained
  <2>3. CASE <<n, x>> \in R
    <3>1. Cardinality(EventsOf(R, Append(drift, e), "joined", x)) =
             Cardinality(EventsOf(R, drift, "joined", x)) + 1
      BY <2>3, EventsGrow
    <3>2. Place(R, V, x) = Place(R, W, x) + 1 BY <1>3, <2>3
    <3> HIDE DEF V
    <3> QED BY <1>2, <2>1, <2>2, <3>1, <3>2
  <2>4. CASE <<n, x>> \notin R
    <3>1. EventsOf(R, Append(drift, e), "joined", x) = EventsOf(R, drift, "joined", x)
      BY <2>4, EventsGrow
    <3>2. Place(R, V, x) = Place(R, W, x) BY <1>3, <2>4
    <3> QED BY <2>2, <3>1, <3>2
  <2> QED BY <2>3, <2>4
<1>6. S2 \in SUBSET S
  <2> SUFFICES ASSUME NEW x \in S2 PROVE x \in S OBVIOUS
  <2>1. x \in U2 /\ x \in U /\ SentAt(sent, x) = {} /\ Place(R, V, x) <= offset
    BY <1>1 DEF Skipped
  <2>2. Place(R, W, x) <= offset
    <3>1. PICK p \in Nat : p = Place(R, W, x) BY <1>2, <2>1
    <3>2. Place(R, V, x) = p + 1 \/ Place(R, V, x) = p BY <1>3, <2>1, <3>1
    <3> QED BY <2>1, <3>1, <3>2
  <2> QED BY <2>1, <2>2 DEF Skipped
<1>7. \A x \in S2 : EventsOf(R, Append(drift, e), "left", x) # {}
  <2> SUFFICES ASSUME NEW x \in S2 PROVE EventsOf(R, Append(drift, e), "left", x) # {}
    OBVIOUS
  <2>1. EventsOf(R, drift, "left", x) # {} BY <1>6 DEF Explained
  <2> QED BY <2>1, EventsGrow
<1>8. Cardinality(S2) <= Cardinality(LeftOf(Append(drift, e)))
  <2>1. Cardinality(LeftOf(Append(drift, e))) = Cardinality(LeftOf(drift)) BY LeftGrow
  <2>2. Cardinality(S) <= Cardinality(LeftOf(drift)) BY DEF Explained
  <2>3. Cardinality(S2) <= Cardinality(S) /\ Cardinality(S2) \in Nat
    BY <1>2, <1>6, FS_Subset, FS_CardinalityType
  <2> HIDE DEF S, S2
  <2> QED BY <1>2, <2>1, <2>2, <2>3
<1> QED BY <1>4, <1>5, <1>7, <1>8 DEF Explained

\* A page settles the accounts of the records it passes over.
LEMMA PageExplained ==
    ASSUME NEW R, NEW W, IsFiniteSet(W), Orders(R, W), NEW s, Sorted(R, W, s),
           NEW E, NEW start, NEW drift \in Seq(E),
           NEW T, NEW sent \in Seq(T), NEW piece \in Seq(T), NEW offset \in Nat, NEW limit \in Nat,
           Explained(R, W, start, drift, sent, offset),
           Piece(s, Cardinality(W), offset, piece), Len(piece) <= limit,
           Len(piece) = limit \/ Cardinality(W) <= offset + Len(piece)
    PROVE  Explained(R, W, start, drift, sent \o piece, offset + limit)
<1> DEFINE U == Untouched(start, drift)
           S == Skipped(R, W, start, drift, sent, offset)
           S2 == Skipped(R, W, start, drift, sent \o piece, offset + limit)
<1>1. U \subseteq W BY DEF Explained
<1>2. /\ \A x \in U : /\ x \in W /\ Place(R, W, x) \in Nat
                      /\ IsFiniteSet(SentAt(sent, x)) /\ Cardinality(SentAt(sent, x)) \in Nat
                      /\ Cardinality(EventsOf(R, drift, "joined", x)) \in Nat
      /\ IsFiniteSet(S) /\ Cardinality(S) \in Nat /\ Cardinality(LeftOf(drift)) \in Nat
  BY <1>1, ExplainedTypes
<1>3. ASSUME NEW x \in U
      PROVE  \/ /\ offset < Place(R, W, x) /\ Place(R, W, x) <= offset + limit
                /\ SentAt(sent \o piece, x) # {}
                /\ Cardinality(SentAt(sent \o piece, x)) = Cardinality(SentAt(sent, x)) + 1
             \/ /\ Place(R, W, x) <= offset \/ offset + limit < Place(R, W, x)
                /\ SentAt(sent \o piece, x) = SentAt(sent, x)
  <2>1. <<x, x>> \notin R /\ x \in W BY <1>1 DEF Orders
  <2>2. Place(R, W, x) \in 1..Cardinality(W) /\ Cardinality(W) \in Nat
    BY <2>1, PlaceIsPosition
  <2>3. PICK p \in Nat : p = Place(R, W, x) /\ p <= Cardinality(W) BY <2>2
  <2>4. Len(piece) \in Nat OBVIOUS
  <2>5. CASE offset < p /\ p <= offset + Len(piece)
    <3>1. p <= offset + limit BY <2>3, <2>4, <2>5
    <3>2. /\ SentAt(sent \o piece, x) # {}
          /\ Cardinality(SentAt(sent \o piece, x)) = Cardinality(SentAt(sent, x)) + 1
      BY <2>1, <2>3, <2>5, SentGrows
    <3> QED BY <2>3, <2>5, <3>1, <3>2
  <2>6. CASE ~(offset < p /\ p <= offset + Len(piece))
    <3>1. p <= offset \/ offset + limit < p BY <2>2, <2>3, <2>4, <2>6
    <3>2. SentAt(sent \o piece, x) = SentAt(sent, x) BY <2>1, <2>3, <2>6, SentGrows
    <3> QED BY <2>3, <3>1, <3>2
  <2> QED BY <2>5, <2>6
<1>4. ASSUME NEW x \in U
      PROVE  Cardinality(SentAt(sent \o piece, x)) <=
                Cardinality(EventsOf(R, drift, "joined", x))
                + IF Place(R, W, x) <= offset + limit THEN 1 ELSE 0
  <2>1. PICK p \in Nat : p = Place(R, W, x) BY <1>2
  <2>2. PICK c \in Nat : c = Cardinality(SentAt(sent, x)) BY <1>2
  <2>3. PICK j \in Nat : j = Cardinality(EventsOf(R, drift, "joined", x)) BY <1>2
  <2>4. c <= j + IF p <= offset THEN 1 ELSE 0 BY <2>1, <2>2, <2>3 DEF Explained
  <2>5. PICK c2 : c2 = Cardinality(SentAt(sent \o piece, x)) OBVIOUS
  <2>6. \/ offset < p /\ p <= offset + limit /\ c2 = c + 1
        \/ (p <= offset \/ offset + limit < p) /\ c2 = c
    BY <1>3, <2>1, <2>2, <2>5
  <2>7. c2 <= j + IF p <= offset + limit THEN 1 ELSE 0
    BY <2>1, <2>2, <2>3, <2>4, <2>6
  <2> QED BY <2>1, <2>3, <2>5, <2>7
<1>5. S2 \in SUBSET S
  <2> SUFFICES ASSUME NEW x \in S2 PROVE x \in S OBVIOUS
  <2>1. x \in U /\ SentAt(sent \o piece, x) = {} /\ Place(R, W, x) <= offset + limit
    BY DEF Skipped
  <2>2. PICK p \in Nat : p = Place(R, W, x) BY <1>2, <2>1
  <2>3. (p <= offset \/ offset + limit < p) /\ SentAt(sent, x) = {} BY <1>3, <2>1, <2>2
  <2>4. p <= offset BY <2>1, <2>2, <2>3
  <2> QED BY <2>1, <2>2, <2>3, <2>4 DEF Skipped
<1>6. \A x \in S2 : EventsOf(R, drift, "left", x) # {} BY <1>5 DEF Explained
<1>7. Cardinality(S2) <= Cardinality(LeftOf(drift))
  <2>1. Cardinality(S) <= Cardinality(LeftOf(drift)) BY DEF Explained
  <2>2. Cardinality(S2) <= Cardinality(S) /\ Cardinality(S2) \in Nat
    BY <1>2, <1>5, FS_Subset, FS_CardinalityType
  <2> HIDE DEF S, S2
  <2> QED BY <1>2, <2>1, <2>2
<1> QED BY <1>1, <1>4, <1>6, <1>7 DEF Explained

\* Part of a page adds one copy at most, of records that the offset had not passed.
LEMMA PartExplained ==
    ASSUME NEW R, NEW W, IsFiniteSet(W), Orders(R, W), NEW s, Sorted(R, W, s),
           NEW E, NEW start, NEW drift \in Seq(E),
           NEW T, NEW sent \in Seq(T), NEW piece \in Seq(T), NEW offset \in Nat,
           Explained(R, W, start, drift, sent, offset),
           Piece(s, Cardinality(W), offset, piece),
           NEW x \in Untouched(start, drift)
    PROVE  Cardinality(SentAt(sent \o piece, x)) <=
              1 + Cardinality(EventsOf(R, drift, "joined", x))
<1>1. Untouched(start, drift) \subseteq W BY DEF Explained
<1>2. PICK p \in Nat : p = Place(R, W, x) BY <1>1, ExplainedTypes
<1>3. PICK c \in Nat : c = Cardinality(SentAt(sent, x)) BY <1>1, ExplainedTypes
<1>4. PICK j \in Nat : j = Cardinality(EventsOf(R, drift, "joined", x)) BY <1>1, ExplainedTypes
<1>5. c <= j + IF p <= offset THEN 1 ELSE 0 BY <1>2, <1>3, <1>4 DEF Explained
<1>6. PICK c2 : c2 = Cardinality(SentAt(sent \o piece, x)) OBVIOUS
<1>7. c2 = c \/ (offset < p /\ c2 = c + 1)
  <2>1. x \in W BY <1>1
  <2>2. CASE offset < p /\ p <= offset + Len(piece) BY <1>2, <1>3, <1>6, <2>1, <2>2, SentGrows
  <2>3. CASE ~(offset < p /\ p <= offset + Len(piece))
    <3>1. SentAt(sent \o piece, x) = SentAt(sent, x) BY <1>2, <2>1, <2>3, SentGrows
    <3> QED BY <1>3, <1>6, <3>1
  <2> QED BY <2>2, <2>3
<1>8. c2 <= 1 + j BY <1>2, <1>3, <1>4, <1>5, <1>7
<1> QED BY <1>4, <1>6, <1>8

-----------------------------------------------------------------------------
(* The result of a query, and its pages.                                   *)

Unique(S) == \A x, y \in S : x.id = y.id => x = y

LEMMA KeysAreNumbers ==
    ASSUME NEW q \in Query, NEW x \in Record
    PROVE  Key(q.sort, x) \in Int /\ x.id \in Int
<1>1. q.sort \in {"occurred_at", "amount", "id"} BY DEF Query, Sorts
<1>2. x.id \in Nat /\ x.row.amount \in Nat /\ x.row.at \in Nat
  BY ConstantsAssumption DEF Record, Ids, Row
<1> QED BY <1>1, <1>2 DEF Key

\* ORDER BY sort, id leaves no two rows tied.
LEMMA QueriesOrder ==
    ASSUME NEW q \in Query, NEW S \in SUBSET Record, Unique(S)
    PROVE  Orders(Order(q), S)
<1>1. \A x \in S : x \in Record /\ Key(q.sort, x) \in Int /\ x.id \in Int
  BY KeysAreNumbers
<1>2. \A x, y \in S : <<x, y>> \in Order(q) <=> Precedes(q, x, y) BY DEF Order
<1>3. \A x \in S : ~Precedes(q, x, x) BY <1>1 DEF Precedes
<1>4. ASSUME NEW x \in S, NEW y \in S, NEW z \in S, Precedes(q, x, y), Precedes(q, y, z)
      PROVE  Precedes(q, x, z)
  <2>1. PICK a \in Int : a = Key(q.sort, x) BY <1>1
  <2>2. PICK b \in Int : b = Key(q.sort, y) BY <1>1
  <2>3. PICK c \in Int : c = Key(q.sort, z) BY <1>1
  <2>4. x.id \in Int /\ y.id \in Int /\ z.id \in Int BY <1>1
  <2> QED BY <1>4, <2>1, <2>2, <2>3, <2>4 DEF Precedes
<1>5. ASSUME NEW x \in S, NEW y \in S, x # y PROVE Precedes(q, x, y) \/ Precedes(q, y, x)
  <2>1. PICK a \in Int : a = Key(q.sort, x) BY <1>1
  <2>2. PICK b \in Int : b = Key(q.sort, y) BY <1>1
  <2>3. x.id \in Int /\ y.id \in Int /\ x.id # y.id BY <1>1, <1>5 DEF Unique
  <2> QED BY <2>1, <2>2, <2>3 DEF Precedes
<1> QED BY <1>2, <1>3, <1>4, <1>5 DEF Orders

LEMMA WhereIsFinite ==
    ASSUME TypeOK, NEW f
    PROVE  /\ Where(f) \in SUBSET Record /\ Unique(Where(f))
           /\ IsFiniteSet(Where(f)) /\ Cardinality(Where(f)) \in Nat
           /\ \A x \in Where(f) : x.id \in DOMAIN items /\ x.row = items[x.id]
<1> DEFINE D == {j \in DOMAIN items : Matches(items[j], f)}
           g == [i \in D |-> [id |-> i, row |-> items[i]]]
<1>1. \A i \in DOMAIN items : i \in Ids /\ items[i] \in Row
  BY ConstantsAssumption DEF TypeOK, Ids
<1>2. Where(f) \in SUBSET Record BY <1>1 DEF Where, Record
<1>3. \A x \in Where(f) : x.id \in DOMAIN items /\ x.row = items[x.id] BY DEF Where
<1>4. Unique(Where(f)) BY DEF Where, Unique
<1>5. IsFiniteSet(D)
  <2>1. D \in SUBSET (1..lastId) /\ lastId \in Int BY ConstantsAssumption DEF TypeOK
  <2>2. IsFiniteSet(1..lastId) BY <2>1, FS_Interval
  <2> QED BY <2>1, <2>2, FS_Subset
<1>6. g \in Surjection(D, Where(f)) BY DEF Surjection, Where
<1>7. IsFiniteSet(Where(f)) BY <1>5, <1>6, FS_Surjection
<1> QED BY <1>2, <1>3, <1>4, <1>7, FS_CardinalityType

LEMMA ResultIsSorted ==
    ASSUME TypeOK, NEW q \in Query
    PROVE  /\ Orders(Order(q), Where(q.filter))
           /\ Sorted(Order(q), Where(q.filter), Result(q))
           /\ Result(q) \in Seq(Record) /\ Len(Result(q)) = Cardinality(Where(q.filter))
<1> PICK W : W = Where(q.filter) OBVIOUS
<1>1. /\ W \in SUBSET Record /\ IsFiniteSet(W) /\ Cardinality(W) \in Nat /\ Unique(W)
  BY WhereIsFinite
<1>2. Orders(Order(q), W) BY <1>1, QueriesOrder
<1>3. \A x \in W : Before(Order(q), W, x) = {y \in W : Precedes(q, y, x)}
  BY <1>1 DEF Before, Order
<1>4. Result(q) = [k \in 1..Cardinality(W) |->
                     CHOOSE x \in W : Cardinality({y \in W : Precedes(q, y, x)}) = k - 1]
  BY DEF Result
<1>5. ASSUME NEW k \in 1..Cardinality(W)
      PROVE  Result(q)[k] \in W /\ Place(Order(q), W, Result(q)[k]) = k
  <2>1. PICK z \in W : Place(Order(q), W, z) = k BY <1>1, <1>2, PlacesAreTaken
  <2>2. IsFiniteSet(Before(Order(q), W, z)) BY <1>1, FS_Subset DEF Before
  <2>3. Cardinality({y \in W : Precedes(q, y, z)}) = k - 1
    <3>1. Cardinality(Before(Order(q), W, z)) \in Nat BY <2>2, FS_CardinalityType
    <3>2. Cardinality(Before(Order(q), W, z)) = k - 1 BY <2>1, <3>1 DEF Place
    <3> QED BY <1>3, <3>2
  <2>4. \E x \in W : Cardinality({y \in W : Precedes(q, y, x)}) = k - 1 BY <2>3
  <2>5. Result(q)[k] = CHOOSE x \in W : Cardinality({y \in W : Precedes(q, y, x)}) = k - 1
    BY <1>4
  <2>6. /\ Result(q)[k] \in W
        /\ Cardinality({y \in W : Precedes(q, y, Result(q)[k])}) = k - 1
    BY <2>4, <2>5, Zenon
  <2>7. Cardinality(Before(Order(q), W, Result(q)[k])) = k - 1 BY <1>3, <2>6
  <2> QED BY <2>6, <2>7 DEF Place
<1>6. DOMAIN Result(q) = 1..Cardinality(W)
      /\ Result(q) = [k \in 1..Cardinality(W) |-> Result(q)[k]]
  BY <1>4
<1>7. Result(q) \in [1..Cardinality(W) -> W] BY <1>5, <1>6
<1>8. Sorted(Order(q), W, Result(q)) BY <1>5, <1>7 DEF Sorted
<1>9. Result(q) \in Seq(Record) /\ Len(Result(q)) = Cardinality(W) BY <1>1, <1>7
<1> QED BY <1>2, <1>8, <1>9

\* LIMIT limit + 1 and the row taken off again: the page, and whether there is more.
LEMMA ListIsPage ==
    ASSUME TypeOK, NEW q \in Query, NEW offset \in Nat
    PROVE  LET page == List(q, offset)
               n    == Cardinality(Where(q.filter))
           IN  /\ page.items \in Seq(Record)
               /\ Piece(Result(q), n, offset, page.items)
               /\ Len(page.items) <= q.limit
               /\ Len(page.items) = q.limit \/ n <= offset + Len(page.items)
               /\ page.hasMore <=> offset + q.limit < n
               /\ page.hasMore \in BOOLEAN
<1> PICK all : all = Result(q) OBVIOUS
<1> PICK n : n = Len(all) OBVIOUS
<1> PICK limit : limit = q.limit OBVIOUS
<1>1. /\ all \in Seq(Record) /\ n = Cardinality(Where(q.filter)) /\ n \in Nat
      /\ n = Len(all) /\ limit \in Nat \ {0}
  BY ResultIsSorted DEF Query
<1> DEFINE to == Min({offset + limit + 1, n})
           rows == SubSeq(all, offset + 1, to)
<1>2. to = IF offset + limit + 1 <= n THEN offset + limit + 1 ELSE n BY <1>1 DEF Min
<1>3. to \in Nat /\ \A i \in offset + 1..to : all[i] \in Record
  <2>1. to \in Nat /\ to <= n BY <1>1, <1>2
  <2>2. \A i \in 1..n : all[i] \in Record BY <1>1
  <2> HIDE DEF to
  <2>3. \A i \in offset + 1..to : i \in 1..n BY <1>1, <2>1
  <2> QED BY <2>1, <2>2, <2>3
<1>4. /\ rows \in Seq(Record)
      /\ Len(rows) = IF offset + 1 <= to THEN to - offset ELSE 0
      /\ \A i \in 1..to - offset : rows[i] = all[offset + i]
  <2>1. PICK t \in Nat : t = to BY <1>3
  <2>2. PICK from \in Nat : from = offset + 1 OBVIOUS
  <2> HIDE DEF to
  <2>3. PICK part : part = SubSeq(all, from, t) OBVIOUS
  <2>4. \A i \in from..t : all[i] \in Record BY <1>3, <2>1, <2>2
  <2>5. /\ part \in Seq(Record)
        /\ Len(part) = IF from <= t THEN t - from + 1 ELSE 0
        /\ \A i \in 1..t - from + 1 : part[i] = all[from + i - 1]
    BY <2>3, <2>4, SubSeqProperties
  <2>6. t - from + 1 = t - offset BY <2>2
  <2>7. Len(part) = IF offset + 1 <= t THEN t - offset ELSE 0 BY <2>2, <2>5, <2>6
  <2>8. \A i \in 1..t - offset : part[i] = all[offset + i]
    <3> SUFFICES ASSUME NEW i \in 1..t - offset PROVE part[i] = all[offset + i] OBVIOUS
    <3>1. from + i - 1 = offset + i BY <2>2
    <3>2. part[i] = all[from + i - 1] BY <2>5, <2>6
    <3> QED BY <3>1, <3>2
  <2>9. part = rows BY <2>1, <2>2, <2>3
  <2> HIDE DEF rows
  <2> QED BY <2>1, <2>5, <2>7, <2>8, <2>9
<1>5. Len(rows) > limit <=> offset + limit < n
  <2> HIDE DEF rows
  <2> QED BY <1>1, <1>2, <1>4
<1>6. /\ List(q, offset).hasMore \in BOOLEAN
      /\ List(q, offset).hasMore <=> Len(rows) > limit
      /\ List(q, offset).items = IF Len(rows) > limit THEN SubSeq(rows, 1, limit) ELSE rows
  <2>1. /\ List(q, offset).hasMore = (Len(rows) > limit)
        /\ List(q, offset).items = IF Len(rows) > limit THEN SubSeq(rows, 1, limit) ELSE rows
    BY DEF List
  <2>2. (Len(rows) > limit) \in BOOLEAN OBVIOUS
  <2> HIDE DEF rows
  <2> QED BY <2>1, <2>2, Zenon
<1>7. CASE Len(rows) > limit
  <2> PICK page : page = SubSeq(rows, 1, limit) OBVIOUS
  <2> HIDE DEF rows
  <2>1. \A i \in 1..limit : rows[i] \in Record BY <1>1, <1>4, <1>7
  <2>2. /\ page \in Seq(Record) /\ Len(page) = limit
        /\ \A i \in 1..limit : page[i] = rows[i]
    BY <1>1, <2>1, SubSeqProperties
  <2>3. offset + limit < n BY <1>5, <1>7
  <2>4. \A i \in 1..limit : page[i] = all[offset + i]
    <3>1. to = offset + limit + 1 BY <1>1, <1>2, <2>3
    <3> HIDE DEF to
    <3>2. \A i \in 1..limit : i \in 1..to - offset BY <1>1, <3>1
    <3> QED BY <1>4, <2>2, <3>2
  <2>5. Piece(all, n, offset, page) BY <1>1, <2>2, <2>3, <2>4 DEF Piece
  <2>6. List(q, offset).items = page /\ List(q, offset).hasMore BY <1>6, <1>7
  <2> HIDE DEF to
  <2> QED BY <1>1, <2>2, <2>3, <2>5, <2>6
<1>8. CASE ~(Len(rows) > limit)
  <2>1. ~(offset + limit < n) /\ to = n BY <1>1, <1>2, <1>5, <1>8
  <2>2. PICK page : page = rows OBVIOUS
  <2> HIDE DEF rows, to
  <2>3. /\ page \in Seq(Record) /\ Len(page) = IF offset + 1 <= n THEN n - offset ELSE 0
        /\ \A i \in 1..n - offset : page[i] = all[offset + i]
    BY <1>4, <2>1, <2>2
  <2>4. Len(page) <= limit /\ n <= offset + Len(page) BY <1>1, <2>1, <2>3
  <2>5. Piece(all, n, offset, page)
    <3>1. CASE offset + 1 <= n BY <1>1, <2>3, <3>1 DEF Piece
    <3>2. CASE ~(offset + 1 <= n) BY <1>1, <2>3, <3>2 DEF Piece
    <3> QED BY <3>1, <3>2
  <2>6. List(q, offset).items = page /\ ~List(q, offset).hasMore
        /\ List(q, offset).hasMore \in BOOLEAN
    BY <1>6, <1>8, <2>2
  <2> QED BY <1>1, <2>1, <2>3, <2>4, <2>5, <2>6
<1> QED BY <1>7, <1>8

-----------------------------------------------------------------------------
(* The invariant says what the properties say.                             *)

Event == [what : {"left", "joined"}, record : Record]

LEMMA ReadType ==
    ASSUME TypeOK
    PROVE  /\ read.pc \in {"none", "reading", "ended"}
           /\ read.query \in Query /\ read.query \in Queries /\ read.offset \in Nat
           /\ read.sent \in Seq(Record) /\ read.cut \in BOOLEAN /\ read.start \in SUBSET Record
           /\ read.drift \in Seq(Event)
BY ConstantsAssumption DEF TypeOK, Event

LEMMA SentShowsResult == ASSUME IInv PROVE PagesMakeTheResult
<1> SUFFICES ASSUME read.pc # "none", read.drift = <<>>
             PROVE  /\ IsPrefix(read.sent, Result(read.query))
                    /\ read.pc = "ended" => read.cut \/ read.sent = Result(read.query)
  BY DEF PagesMakeTheResult
<1> PICK q \in Query : q = read.query BY ReadType DEF IInv
<1> PICK all : all = Result(q) OBVIOUS
<1> PICK sent : sent = read.sent OBVIOUS
<1>1. all \in Seq(Record) /\ Len(all) = Cardinality(Where(q.filter))
  BY ResultIsSorted DEF IInv
<1>2. /\ Len(sent) <= Len(all) /\ sent = SubSeq(all, 1, Len(sent))
      /\ read.pc = "ended" => read.cut \/ Len(sent) = Len(all)
  BY <1>1 DEF IInv, SentIsPrefix, FirstRows
<1>3. sent \in Seq(Record) BY ReadType DEF IInv
<1>4. SubSeq(sent, 1, Len(sent)) = sent /\ SubSeq(all, 1, Len(all)) = all
  BY <1>1, <1>3
<1>5. IsPrefix(sent, all) BY <1>2, <1>4 DEF IsPrefix
<1>6. Len(sent) = Len(all) => sent = all BY <1>2, <1>4
<1> QED BY <1>2, <1>5, <1>6

LEMMA EndShowsPages == ASSUME IInv PROVE DriftExplainsPages
<1> SUFFICES ASSUME read.pc = "ended" PROVE DriftExplainsPages BY DEF DriftExplainsPages
<1> PICK q \in Query : q = read.query BY ReadType DEF IInv
<1> DEFINE missing == {x \in Untouched(read.start, read.drift) : SentAt(read.sent, x) = {}}
<1>1. TypeOK BY DEF IInv
<1>2. Stayed = Untouched(read.start, read.drift) BY DEF Stayed, Untouched
<1>3. ASSUME NEW x \in Record
      PROVE  /\ Copies(x) = Cardinality(SentAt(read.sent, x))
             /\ Copies(x) = 0 <=> SentAt(read.sent, x) = {}
  <2>1. Copies(x) = Cardinality(SentAt(read.sent, x)) BY DEF Copies, SentAt
  <2>2. PICK n \in Nat : DOMAIN read.sent = 1..n BY <1>1, ReadType
  <2>3. SentAt(read.sent, x) \in SUBSET (1..n) BY <2>2 DEF SentAt
  <2>4. IsFiniteSet(1..n) BY FS_Interval
  <2>5. IsFiniteSet(SentAt(read.sent, x)) BY <2>3, <2>4, FS_Subset
  <2> QED BY <2>1, <2>5, FS_EmptySet
<1>4. ASSUME NEW x \in Record, NEW what
      PROVE  Events(what, x) = EventsOf(Order(q), read.drift, what, x)
  <2>1. \A k \in DOMAIN read.drift : read.drift[k].record \in Record
    <3>1. PICK drift \in Seq(Event) : drift = read.drift BY <1>1, ReadType
    <3>2. \A k \in DOMAIN drift : drift[k] \in Event OBVIOUS
    <3> QED BY <3>1, <3>2 DEF Event
  <2>2. \A y \in Record : <<y, x>> \in Order(q) <=> Precedes(q, y, x) BY DEF Order
  <2> QED BY <2>1, <2>2 DEF Events, EventsOf
<1>5. \A x \in Stayed : x \in Record BY <1>1, ReadType DEF Stayed
<1>6. {x \in Stayed : Copies(x) = 0} = missing BY <1>2, <1>3, <1>5
<1>7. LeftOf(read.drift) = {k \in DOMAIN read.drift : read.drift[k].what = "left"} BY DEF LeftOf
<1>8. /\ \A x \in Stayed : Cardinality(SentAt(read.sent, x)) <=
                              1 + Cardinality(EventsOf(Order(q), read.drift, "joined", x))
      /\ ~read.cut => /\ \A x \in missing : EventsOf(Order(q), read.drift, "left", x) # {}
                      /\ Cardinality(missing) <= Cardinality(LeftOf(read.drift))
  BY <1>2 DEF IInv, EndIsExplained
<1>9. \A x \in Stayed : Copies(x) <= 1 + Cardinality(Events("joined", x))
  BY <1>3, <1>4, <1>5, <1>8
<1>10. ASSUME ~read.cut
       PROVE  /\ \A x \in missing : Events("left", x) # {}
              /\ Cardinality(missing) <=
                    Cardinality({k \in DOMAIN read.drift : read.drift[k].what = "left"})
  <2>1. \A x \in missing : x \in Record BY <1>2, <1>5
  <2> HIDE DEF missing
  <2> QED BY <1>4, <1>7, <1>8, <1>10, <2>1
<1> HIDE DEF missing
<1> QED BY <1>6, <1>9, <1>10 DEF DriftExplainsPages

-----------------------------------------------------------------------------
(* The table changes.                                                      *)

\* Noting events moves nothing else of the reader.
LEMMA NoteKeepsType ==
    ASSUME TypeOK, NEW d \in Seq(Event), Note(d), lastId' \in 0..MaxId,
           DOMAIN items' \subseteq 1..lastId', \A i \in DOMAIN items' : items'[i] \in Rows
    PROVE  /\ TypeOK'
           /\ read.pc = "none" => read' = read
           /\ read.pc # "none" => /\ read'.pc = read.pc /\ read'.query = read.query
                                  /\ read'.offset = read.offset /\ read'.sent = read.sent
                                  /\ read'.cut = read.cut /\ read'.start = read.start
                                  /\ read'.drift = read.drift \o d
<1>1. CASE read.pc = "none"
  <2>1. read' = read BY <1>1 DEF Note
  <2>2. read \in [pc : {"none", "reading", "ended"}, query : Queries, offset : Nat,
                  sent : Seq(Record), cut : BOOLEAN, start : SUBSET Record,
                  drift : Seq([what : {"left", "joined"}, record : Record])]
    BY DEF TypeOK
  <2>3. TypeOK' BY <2>1, <2>2 DEF TypeOK
  <2> QED BY <1>1, <2>1, <2>3
<1>2. CASE read.pc # "none"
  <2>1. PICK drift \in Seq(Event) : drift = read.drift BY ReadType
  <2>2. drift \o d \in Seq(Event) BY <2>1, ConcatProperties
  <2>3. read' = [read EXCEPT !.drift = drift \o d] BY <1>2, <2>1 DEF Note
  <2>4. read \in [pc : {"none", "reading", "ended"}, query : Queries, offset : Nat,
                  sent : Seq(Record), cut : BOOLEAN, start : SUBSET Record,
                  drift : Seq(Event)]
    BY DEF TypeOK, Event
  <2>5. read' \in [pc : {"none", "reading", "ended"}, query : Queries, offset : Nat,
                   sent : Seq(Record), cut : BOOLEAN, start : SUBSET Record,
                   drift : Seq(Event)]
    BY <2>2, <2>3, <2>4
  <2>6. TypeOK' BY <2>5 DEF TypeOK, Event
  <2>7. /\ read'.pc = read.pc /\ read'.query = read.query
        /\ read'.offset = read.offset /\ read'.sent = read.sent
        /\ read'.cut = read.cut /\ read'.start = read.start
        /\ read'.drift = read.drift \o d
    BY <2>1, <2>3, <2>4
  <2> QED BY <1>2, <2>6, <2>7
<1> QED BY <1>1, <1>2

LEMMA DriftType ==
    ASSUME NEW what \in {"left", "joined"}, NEW i \in Ids, NEW r \in Row,
           NEW q, q = read.query
    PROVE  LET e == [what |-> what, record |-> [id |-> i, row |-> r]]
           IN  /\ e \in Event
               /\ Drift(what, i, r) = IF Matches(r, q.filter) THEN <<e>> ELSE <<>>
               /\ Drift(what, i, r) \in Seq(Event)
<1>1. [what |-> what, record |-> [id |-> i, row |-> r]] \in Event BY DEF Event, Record
<1>2. <<[what |-> what, record |-> [id |-> i, row |-> r]]>> \in Seq(Event) /\ <<>> \in Seq(Event)
  BY <1>1
<1> QED BY <1>1, <1>2 DEF Drift

\* What a change of the table has to show, whichever it is.
LEMMA TableKeeps ==
    ASSUME IInv, MayChange, TypeOK', NEW d \in Seq(Event),
           read.pc = "none" => read' = read,
           read.pc # "none" => /\ read'.pc = read.pc /\ read'.query = read.query
                               /\ read'.offset = read.offset /\ read'.sent = read.sent
                               /\ read'.cut = read.cut /\ read'.start = read.start
                               /\ read'.drift = read.drift \o d,
           d = <<>> => Where(read.query.filter)' = Where(read.query.filter),
           read.pc = "reading" =>
              Explained(Order(read.query), Where(read.query.filter)', read.start,
                        read.drift \o d, read.sent, read.offset)
    PROVE  IInv'
<1>1. CASE read.pc = "none"
  <2>1. read' = read BY <1>1
  <2> QED BY <1>1, <2>1 DEF IInv, WalkIsExplained, EndIsExplained, SentIsPrefix
<1>2. CASE read.pc # "none"
  <2>1. read.pc = "reading" BY <1>2 DEF MayChange
  <2>2. PICK q : q = read.query OBVIOUS
  <2>3. /\ read'.pc = "reading" /\ read'.query = q
        /\ read'.offset = read.offset /\ read'.sent = read.sent /\ read'.start = read.start
        /\ read'.drift = read.drift \o d
    BY <1>2, <2>1, <2>2
  <2>4. WalkIsExplained' BY <2>1, <2>2, <2>3 DEF WalkIsExplained
  <2>5. EndIsExplained' BY <2>3 DEF EndIsExplained
  <2>6. SentIsPrefix'
    <3> SUFFICES ASSUME read'.drift = <<>> PROVE SentIsPrefix' BY DEF SentIsPrefix
    <3>1. PICK drift \in Seq(Event) : drift = read.drift BY ReadType DEF IInv
    <3>2. drift = <<>> /\ d = <<>> BY <2>3, <3>1
    <3>3. Where(q.filter)' = Where(q.filter) BY <2>2, <3>2
    <3>4. Result(q)' = Result(q) BY <3>3 DEF Result
    <3> QED BY <2>1, <2>2, <2>3, <3>1, <3>2, <3>3, <3>4 DEF IInv, SentIsPrefix
  <2> QED BY <2>4, <2>5, <2>6 DEF IInv
<1> QED BY <1>1, <1>2

\* The rows of a filter f after each of the three statements.
LEMMA RowsAfterCreate ==
    ASSUME TypeOK, NEW r \in Rows, Create(r), NEW f
    PROVE  LET n == [id |-> lastId + 1, row |-> r]
           IN  /\ n \notin Where(f)
               /\ Where(f)' = IF Matches(r, f) THEN Where(f) \cup {n} ELSE Where(f)
<1> PICK m \in Int : m = lastId BY ConstantsAssumption DEF TypeOK
<1>1. DOMAIN items \subseteq 1..m BY DEF TypeOK
<1>2. m + 1 \notin DOMAIN items BY <1>1
<1>3. /\ DOMAIN items' = DOMAIN items \cup {m + 1}
      /\ \A j \in DOMAIN items : items'[j] = items[j]
      /\ items'[m + 1] = r
  BY <1>2 DEF Create
<1>4. [id |-> m + 1, row |-> r] \notin Where(f) BY <1>2 DEF Where
<1>5. Where(f)' = {[id |-> i, row |-> items'[i]] : i \in {j \in DOMAIN items' : Matches(items'[j], f)}}
  BY DEF Where
<1>6. CASE Matches(r, f)
  <2>1. {j \in DOMAIN items' : Matches(items'[j], f)} =
           {j \in DOMAIN items : Matches(items[j], f)} \cup {m + 1}
    BY <1>2, <1>3, <1>6
  <2>2. Where(f)' = Where(f) \cup {[id |-> m + 1, row |-> r]}
    BY <1>2, <1>3, <1>5, <2>1 DEF Where
  <2> QED BY <1>4, <1>6, <2>2
<1>7. CASE ~Matches(r, f)
  <2>1. {j \in DOMAIN items' : Matches(items'[j], f)} =
           {j \in DOMAIN items : Matches(items[j], f)}
    BY <1>2, <1>3, <1>7
  <2>2. Where(f)' = Where(f) BY <1>3, <1>5, <2>1 DEF Where
  <2> QED BY <1>4, <1>7, <2>2
<1> QED BY <1>6, <1>7

LEMMA RowsAfterDelete ==
    ASSUME TypeOK, NEW i \in Ids, Delete(i), NEW f
    PROVE  LET o == [id |-> i, row |-> items[i]]
           IN  /\ o \in Where(f) <=> Matches(items[i], f)
               /\ Where(f)' = Where(f) \ {o}
<1>1. /\ DOMAIN items' = DOMAIN items \ {i} /\ i \in DOMAIN items
      /\ \A j \in DOMAIN items \ {i} : items'[j] = items[j]
  BY DEF Delete
<1> DEFINE o == [id |-> i, row |-> items[i]]
<1>2. \A x : x \in Where(f)' <=>
         \E j \in DOMAIN items' : x = [id |-> j, row |-> items'[j]] /\ Matches(items'[j], f)
  BY DEF Where
<1>3. \A x : x \in Where(f) <=>
         \E j \in DOMAIN items : x = [id |-> j, row |-> items[j]] /\ Matches(items[j], f)
  BY DEF Where
<1>4. o \in Where(f) <=> Matches(items[i], f) BY <1>1, <1>3
<1>5. ASSUME NEW x PROVE x \in Where(f)' <=> x \in Where(f) \ {o}
  <2>1. ASSUME x \in Where(f)' PROVE x \in Where(f) \ {o}
    <3>1. PICK j \in DOMAIN items' : x = [id |-> j, row |-> items'[j]] /\ Matches(items'[j], f)
      BY <1>2, <2>1
    <3>2. j \in DOMAIN items /\ j # i /\ items'[j] = items[j] BY <1>1, <3>1
    <3>3. x \in Where(f) BY <1>3, <3>1, <3>2
    <3>4. x.id = j /\ o.id = i BY <3>1
    <3> QED BY <3>2, <3>3, <3>4
  <2>2. ASSUME x \in Where(f) \ {o} PROVE x \in Where(f)'
    <3>1. PICK j \in DOMAIN items : x = [id |-> j, row |-> items[j]] /\ Matches(items[j], f)
      BY <1>3, <2>2
    <3>2. j # i BY <2>2, <3>1
    <3>3. j \in DOMAIN items' /\ items'[j] = items[j] BY <1>1, <3>1, <3>2
    <3> QED BY <1>2, <3>1, <3>3
  <2> QED BY <2>1, <2>2
<1> QED BY <1>4, <1>5

LEMMA RowsAfterUpdate ==
    ASSUME TypeOK, NEW i \in Ids, NEW r \in Rows, Update(i, r), NEW f
    PROVE  LET o == [id |-> i, row |-> items[i]]
               n == [id |-> i, row |-> r]
           IN  /\ o \in Where(f) <=> Matches(items[i], f)
               /\ n \notin Where(f) \ {o}
               /\ Where(f)' = IF Matches(r, f) THEN (Where(f) \ {o}) \cup {n} ELSE Where(f) \ {o}
<1>1. /\ DOMAIN items' = DOMAIN items /\ i \in DOMAIN items
      /\ \A j \in DOMAIN items \ {i} : items'[j] = items[j]
      /\ items'[i] = r
  BY DEF Update
<1> DEFINE o == [id |-> i, row |-> items[i]]
           n == [id |-> i, row |-> r]
<1>2. \A x : x \in Where(f)' <=>
         \E j \in DOMAIN items' : x = [id |-> j, row |-> items'[j]] /\ Matches(items'[j], f)
  BY DEF Where
<1>3. \A x : x \in Where(f) <=>
         \E j \in DOMAIN items : x = [id |-> j, row |-> items[j]] /\ Matches(items[j], f)
  BY DEF Where
<1>4. o \in Where(f) <=> Matches(items[i], f) BY <1>1, <1>3
<1>5. \A x \in Where(f) : x.id = i => x = o BY <1>3
<1>6. n \notin Where(f) \ {o} BY <1>5
<1>7. n \in Where(f)' <=> Matches(r, f) BY <1>1, <1>2
<1>8. ASSUME NEW x, x # n PROVE x \in Where(f)' <=> x \in Where(f) \ {o}
  <2>1. ASSUME x \in Where(f)' PROVE x \in Where(f) \ {o}
    <3>1. PICK j \in DOMAIN items' : x = [id |-> j, row |-> items'[j]] /\ Matches(items'[j], f)
      BY <1>2, <2>1
    <3>2. j # i BY <1>1, <1>8, <3>1
    <3>3. j \in DOMAIN items /\ items'[j] = items[j] BY <1>1, <3>1, <3>2
    <3>4. x \in Where(f) BY <1>3, <3>1, <3>3
    <3>5. x.id = j /\ o.id = i BY <3>1
    <3> QED BY <3>2, <3>4, <3>5
  <2>2. ASSUME x \in Where(f) \ {o} PROVE x \in Where(f)'
    <3>1. PICK j \in DOMAIN items : x = [id |-> j, row |-> items[j]] /\ Matches(items[j], f)
      BY <1>3, <2>2
    <3>2. j # i BY <2>2, <3>1
    <3>3. j \in DOMAIN items' /\ items'[j] = items[j] BY <1>1, <3>1, <3>2
    <3> QED BY <1>2, <3>1, <3>3
  <2> QED BY <2>1, <2>2
<1> HIDE DEF o, n
<1>9. Where(f)' = IF Matches(r, f) THEN (Where(f) \ {o}) \cup {n} ELSE Where(f) \ {o}
  BY <1>6, <1>7, <1>8
<1> QED BY <1>4, <1>6, <1>9 DEF o, n

\* A row of the result that leaves it, or any other row: the accounts hold.
LEMMA AfterLeft ==
    ASSUME NEW R, NEW W, IsFiniteSet(W), Orders(R, W), NEW start, NEW drift \in Seq(Event),
           NEW sent \in Seq(Record), NEW offset \in Nat,
           Explained(R, W, start, drift, sent, offset),
           NEW e \in Event, e.what = "left",
           NEW d, d = IF e.record \in W THEN <<e>> ELSE <<>>
    PROVE  /\ Explained(R, W \ {e.record}, start, drift \o d, sent, offset)
           /\ drift \o d \in Seq(Event)
<1>1. CASE e.record \in W
  <2>1. drift \o d = Append(drift, e) BY <1>1
  <2>2. Explained(R, W \ {e.record}, start, Append(drift, e), sent, offset)
    BY <1>1, LeftExplained
  <2>3. Append(drift, e) \in Seq(Event) BY AppendProperties
  <2> QED BY <2>1, <2>2, <2>3
<1>2. CASE e.record \notin W
  <2>1. drift \o d = drift BY <1>2
  <2>2. W \ {e.record} = W BY <1>2
  <2> QED BY <2>1, <2>2
<1> QED BY <1>1, <1>2

\* Notes of two events after earlier notes, in either bracketing.
LEMMA NotesJoin ==
    ASSUME NEW a \in Seq(Event), NEW b \in Seq(Event), NEW c \in Seq(Event)
    PROVE  (a \o b) \o c = a \o (b \o c)
BY ConcatAssociative

\* A new row of the result, or one that is not of it: the accounts hold.
LEMMA AfterJoined ==
    ASSUME NEW R, NEW W, IsFiniteSet(W), Orders(R, W), NEW start, NEW drift \in Seq(Event),
           NEW sent \in Seq(Record), NEW offset \in Nat,
           Explained(R, W, start, drift, sent, offset),
           NEW e \in Event, e.what = "joined", e.record \notin W,
           NEW d, NEW V,
           \/ d = <<e>> /\ V = W \cup {e.record}
           \/ d = <<>> /\ V = W
    PROVE  Explained(R, V, start, drift \o d, sent, offset)
<1>1. CASE d = <<e>> /\ V = W \cup {e.record}
  <2>1. drift \o d = Append(drift, e) BY <1>1
  <2>2. Explained(R, W \cup {e.record}, start, Append(drift, e), sent, offset)
    BY JoinedExplained
  <2> QED BY <1>1, <2>1, <2>2
<1>2. CASE d = <<>> /\ V = W
  <2>1. drift \o d = drift BY <1>2
  <2> QED BY <1>2, <2>1
<1> QED BY <1>1, <1>2

LEMMA CreateKeeps == ASSUME IInv, NEW r \in Rows, Create(r) PROVE IInv'
<1> PICK q \in Query : q = read.query BY ReadType DEF IInv
<1> PICK f : f = q.filter OBVIOUS
<1> PICK m \in Nat : m = lastId BY ConstantsAssumption DEF IInv, TypeOK
<1> DEFINE n == [id |-> m + 1, row |-> r]
           e == [what |-> "joined", record |-> n]
           d == Drift("joined", m + 1, r)
           W == Where(f)
<1>1. TypeOK BY DEF IInv
<1>2. m < MaxId /\ m + 1 \in Ids /\ r \in Row /\ lastId' = m + 1
  BY ConstantsAssumption DEF Create, Ids
<1>3. e \in Event /\ d \in Seq(Event) /\ d = IF Matches(r, f) THEN <<e>> ELSE <<>>
  BY <1>2, DriftType
<1>4. n \notin W /\ Where(f)' = IF Matches(r, f) THEN W \cup {n} ELSE W
  BY <1>1, RowsAfterCreate
<1>5. Note(d) /\ MayChange BY DEF Create
<1>6. /\ lastId' \in 0..MaxId /\ DOMAIN items' \subseteq 1..lastId'
      /\ \A i \in DOMAIN items' : items'[i] \in Rows
  <2>1. DOMAIN items' = DOMAIN items \cup {m + 1} BY DEF Create
  <2>2. DOMAIN items \subseteq 1..m /\ \A i \in DOMAIN items : items[i] \in Rows
    BY <1>1 DEF TypeOK
  <2>3. \A i \in DOMAIN items' : items'[i] \in Rows BY <2>1, <2>2 DEF Create
  <2>4. m + 1 \in 0..MaxId BY <1>2, ConstantsAssumption
  <2>5. DOMAIN items' \subseteq 1..m + 1 BY <2>1, <2>2
  <2> QED BY <1>2, <2>3, <2>4, <2>5
<1> HIDE DEF d, e, n
<1>7. /\ TypeOK'
      /\ read.pc = "none" => read' = read
      /\ read.pc # "none" => /\ read'.pc = read.pc /\ read'.query = read.query
                             /\ read'.offset = read.offset /\ read'.sent = read.sent
                             /\ read'.cut = read.cut /\ read'.start = read.start
                             /\ read'.drift = read.drift \o d
  BY <1>1, <1>3, <1>5, <1>6, NoteKeepsType
<1>8. d = <<>> => Where(f)' = W BY <1>3, <1>4
<1>9. read.pc = "reading" =>
         Explained(Order(q), Where(f)', read.start, read.drift \o d, read.sent, read.offset)
  <2> SUFFICES ASSUME read.pc = "reading"
               PROVE  Explained(Order(q), Where(f)', read.start, read.drift \o d, read.sent,
                                read.offset)
    OBVIOUS
  <2>1. IsFiniteSet(W) /\ Orders(Order(q), W) BY <1>1, WhereIsFinite, ResultIsSorted
  <2>2. Explained(Order(q), W, read.start, read.drift, read.sent, read.offset)
    BY DEF IInv, WalkIsExplained
  <2>3. e.what = "joined" /\ e.record = n BY DEF e
  <2>4. \/ d = <<e>> /\ Where(f)' = W \cup {e.record}
        \/ d = <<>> /\ Where(f)' = W
    BY <1>3, <1>4, <2>3
  <2>5. /\ read.drift \in Seq(Event) /\ read.sent \in Seq(Record) /\ read.offset \in Nat
    BY <1>1, ReadType
  <2> PICK V : V = Where(f)' OBVIOUS
  <2> HIDE DEF W
  <2>6. Explained(Order(q), V, read.start, read.drift \o d, read.sent, read.offset)
    BY <1>3, <1>4, <2>1, <2>2, <2>3, <2>4, <2>5, AfterJoined
  <2> QED BY <2>6
<1>10. read.pc # "none" => Where(read.query.filter)' = Where(f)' BY <1>7
<1>11. d = <<>> => Where(read.query.filter)' = Where(read.query.filter)
  <2>1. CASE read.pc = "none"
    <3>1. Where(read.query.filter)' = Where(f)' BY <1>7, <2>1
    <3> QED BY <1>8, <3>1
  <2>2. CASE read.pc # "none" BY <1>8, <1>10, <2>2
  <2> QED BY <2>1, <2>2
<1>12. read.pc = "reading" =>
         Explained(Order(read.query), Where(read.query.filter)', read.start,
                   read.drift \o d, read.sent, read.offset)
  BY <1>9, <1>10
<1> QED BY <1>3, <1>5, <1>7, <1>11, <1>12, TableKeeps

LEMMA DeleteKeeps == ASSUME IInv, NEW i \in Ids, Delete(i) PROVE IInv'
<1> PICK q \in Query : q = read.query BY ReadType DEF IInv
<1> PICK f : f = q.filter OBVIOUS
<1> DEFINE o == [id |-> i, row |-> items[i]]
           e == [what |-> "left", record |-> o]
           d == Drift("left", i, items[i])
           W == Where(f)
<1>1. TypeOK BY DEF IInv
<1>2. i \in DOMAIN items /\ items[i] \in Row BY <1>1, ConstantsAssumption DEF Delete, TypeOK
<1>3. e \in Event /\ d \in Seq(Event) /\ d = IF Matches(items[i], f) THEN <<e>> ELSE <<>>
  BY <1>2, DriftType
<1>4. (o \in W <=> Matches(items[i], f)) /\ Where(f)' = W \ {o}
  BY <1>1, RowsAfterDelete
<1>5. Note(d) /\ MayChange BY DEF Delete
<1>6. /\ lastId' \in 0..MaxId /\ DOMAIN items' \subseteq 1..lastId'
      /\ \A j \in DOMAIN items' : items'[j] \in Rows
  BY <1>1 DEF Delete, TypeOK
<1> HIDE DEF d, e, o
<1>7. /\ TypeOK'
      /\ read.pc = "none" => read' = read
      /\ read.pc # "none" => /\ read'.pc = read.pc /\ read'.query = read.query
                             /\ read'.offset = read.offset /\ read'.sent = read.sent
                             /\ read'.cut = read.cut /\ read'.start = read.start
                             /\ read'.drift = read.drift \o d
  BY <1>1, <1>3, <1>5, <1>6, NoteKeepsType
<1>8. d = <<>> => Where(f)' = W BY <1>3, <1>4
<1>9. read.pc = "reading" =>
         Explained(Order(q), Where(f)', read.start, read.drift \o d, read.sent, read.offset)
  <2> SUFFICES ASSUME read.pc = "reading"
               PROVE  Explained(Order(q), Where(f)', read.start, read.drift \o d, read.sent,
                                read.offset)
    OBVIOUS
  <2>1. IsFiniteSet(W) /\ Orders(Order(q), W) BY <1>1, WhereIsFinite, ResultIsSorted
  <2>2. Explained(Order(q), W, read.start, read.drift, read.sent, read.offset)
    BY DEF IInv, WalkIsExplained
  <2>3. e.what = "left" /\ e.record = o BY DEF e
  <2>4. d = IF e.record \in W THEN <<e>> ELSE <<>> BY <1>3, <1>4, <2>3
  <2>5. /\ read.drift \in Seq(Event) /\ read.sent \in Seq(Record) /\ read.offset \in Nat
    BY <1>1, ReadType
  <2> HIDE DEF W
  <2>6. Explained(Order(q), W \ {e.record}, read.start, read.drift \o d, read.sent, read.offset)
    BY <1>3, <2>1, <2>2, <2>3, <2>4, <2>5, AfterLeft
  <2> QED BY <1>4, <2>3, <2>6
<1>10. read.pc # "none" => Where(read.query.filter)' = Where(f)' BY <1>7
<1>11. d = <<>> => Where(read.query.filter)' = Where(read.query.filter)
  <2>1. CASE read.pc = "none"
    <3>1. Where(read.query.filter)' = Where(f)' BY <1>7, <2>1
    <3> QED BY <1>8, <3>1
  <2>2. CASE read.pc # "none" BY <1>8, <1>10, <2>2
  <2> QED BY <2>1, <2>2
<1>12. read.pc = "reading" =>
         Explained(Order(read.query), Where(read.query.filter)', read.start,
                   read.drift \o d, read.sent, read.offset)
  BY <1>9, <1>10
<1> QED BY <1>3, <1>5, <1>7, <1>11, <1>12, TableKeeps

\* A change is the old row that leaves and the new one that joins.
LEMMA UpdateKeeps == ASSUME IInv, NEW i \in Ids, NEW r \in Rows, Update(i, r) PROVE IInv'
<1> PICK q \in Query : q = read.query BY ReadType DEF IInv
<1> PICK f : f = q.filter OBVIOUS
<1> DEFINE o == [id |-> i, row |-> items[i]]
           n == [id |-> i, row |-> r]
           e1 == [what |-> "left", record |-> o]
           e2 == [what |-> "joined", record |-> n]
           d1 == Drift("left", i, items[i])
           d2 == Drift("joined", i, r)
           d == d1 \o d2
           W == Where(f)
           V == W \ {o}
<1>1. TypeOK BY DEF IInv
<1>2. i \in DOMAIN items /\ items[i] \in Row /\ r \in Row
  BY <1>1, ConstantsAssumption DEF Update, TypeOK
<1>3. /\ e1 \in Event /\ d1 \in Seq(Event) /\ d1 = IF Matches(items[i], f) THEN <<e1>> ELSE <<>>
      /\ e2 \in Event /\ d2 \in Seq(Event) /\ d2 = IF Matches(r, f) THEN <<e2>> ELSE <<>>
  BY <1>2, DriftType
<1>4. /\ o \in W <=> Matches(items[i], f)
      /\ n \notin V
      /\ Where(f)' = IF Matches(r, f) THEN V \cup {n} ELSE V
  BY <1>1, RowsAfterUpdate
<1>5. Note(d) /\ MayChange /\ d \in Seq(Event) BY <1>3 DEF Update
<1>6. /\ lastId' \in 0..MaxId /\ DOMAIN items' \subseteq 1..lastId'
      /\ \A j \in DOMAIN items' : items'[j] \in Rows
  BY <1>1 DEF Update, TypeOK
<1>7. /\ TypeOK'
      /\ read.pc = "none" => read' = read
      /\ read.pc # "none" => /\ read'.pc = read.pc /\ read'.query = read.query
                             /\ read'.offset = read.offset /\ read'.sent = read.sent
                             /\ read'.cut = read.cut /\ read'.start = read.start
                             /\ read'.drift = read.drift \o d
  <2> HIDE DEF d
  <2> QED BY <1>1, <1>5, <1>6, NoteKeepsType
<1> HIDE DEF d1, d2, e1, e2, o, n
<1>8. d = <<>> => Where(f)' = W
  <2> SUFFICES ASSUME d = <<>> PROVE Where(f)' = W OBVIOUS
  <2>1. d1 = <<>> /\ d2 = <<>> BY <1>3
  <2>2. ~Matches(items[i], f) /\ ~Matches(r, f) BY <1>3, <2>1
  <2> QED BY <1>4, <2>2
<1>9. read.pc = "reading" =>
         Explained(Order(q), Where(f)', read.start, read.drift \o d, read.sent, read.offset)
  <2> SUFFICES ASSUME read.pc = "reading"
               PROVE  Explained(Order(q), Where(f)', read.start, read.drift \o d, read.sent,
                                read.offset)
    OBVIOUS
  <2>1. IsFiniteSet(W) /\ Orders(Order(q), W) BY <1>1, WhereIsFinite, ResultIsSorted
  <2>2. Explained(Order(q), W, read.start, read.drift, read.sent, read.offset)
    BY DEF IInv, WalkIsExplained
  <2>3. /\ e1.what = "left" /\ e1.record = o
        /\ e2.what = "joined" /\ e2.record = n
    BY DEF e1, e2
  <2>4. d1 = IF e1.record \in W THEN <<e1>> ELSE <<>> BY <1>3, <1>4, <2>3
  <2>5. /\ read.drift \in Seq(Event) /\ read.sent \in Seq(Record) /\ read.offset \in Nat
    BY <1>1, ReadType
  <2>6. IsFiniteSet(V) /\ Orders(Order(q), V)
    BY <2>1, OrdersSubset, FS_Subset
  <2> PICK X : X = Where(f)' OBVIOUS
  <2>7. \/ d2 = <<e2>> /\ X = V \cup {e2.record}
        \/ d2 = <<>> /\ X = V
    BY <1>3, <1>4, <2>3
  <2>8. PICK drift \in Seq(Event) : drift = read.drift \o d1
    BY <1>3, <2>5, ConcatProperties
  <2> HIDE DEF W
  <2>9. Explained(Order(q), V, read.start, drift, read.sent, read.offset)
    BY <1>3, <2>1, <2>2, <2>3, <2>4, <2>5, <2>8, AfterLeft
  <2> HIDE DEF V
  <2>10. Explained(Order(q), X, read.start, drift \o d2, read.sent, read.offset)
    BY <1>3, <1>4, <2>3, <2>5, <2>6, <2>7, <2>9, AfterJoined
  <2>11. drift \o d2 = read.drift \o d
    <3>1. PICK a \in Seq(Event) : a = read.drift BY <2>5
    <3>2. d1 \in Seq(Event) /\ d2 \in Seq(Event) BY <1>3
    <3>3. (a \o d1) \o d2 = a \o (d1 \o d2) BY <3>2, NotesJoin, Zenon
    <3> QED BY <2>8, <3>1, <3>3, Zenon
  <2> QED BY <2>10, <2>11
<1>10. read.pc # "none" => Where(read.query.filter)' = Where(f)' BY <1>7
<1>11. d = <<>> => Where(read.query.filter)' = Where(read.query.filter)
  <2>1. CASE read.pc = "none"
    <3>1. Where(read.query.filter)' = Where(f)' BY <1>7, <2>1
    <3> QED BY <1>8, <3>1
  <2>2. CASE read.pc # "none" BY <1>8, <1>10, <2>2
  <2> QED BY <2>1, <2>2
<1>12. read.pc = "reading" =>
         Explained(Order(read.query), Where(read.query.filter)', read.start,
                   read.drift \o d, read.sent, read.offset)
  BY <1>9, <1>10
<1> HIDE DEF d
<1> QED BY <1>5, <1>7, <1>11, <1>12, TableKeeps

-----------------------------------------------------------------------------
(* The reader goes on.                                                     *)

LEMMA BeginKeeps == ASSUME IInv, NEW q \in Queries, Begin(q) PROVE IInv'
<1> PICK W : W = Where(q.filter) OBVIOUS
<1>1. TypeOK /\ q \in Query BY ConstantsAssumption DEF IInv
<1>2. /\ read' = [NoRead EXCEPT !.pc = "reading", !.query = q, !.start = W]
      /\ items' = items /\ lastId' = lastId
  BY DEF Begin
<1>3. /\ W \in SUBSET Record /\ IsFiniteSet(W) /\ Cardinality(W) \in Nat
      /\ Orders(Order(q), W)
  BY <1>1, WhereIsFinite, ResultIsSorted
<1>4. read' = [pc |-> "reading", query |-> q, offset |-> 0, sent |-> <<>>, cut |-> FALSE,
               start |-> W, drift |-> <<>>]
  BY <1>2 DEF NoRead
<1>5. TypeOK'
  <2>1. <<>> \in Seq(Record) /\ <<>> \in Seq([what : {"left", "joined"}, record : Record])
    OBVIOUS
  <2>2. read' \in [pc : {"none", "reading", "ended"}, query : Queries, offset : Nat,
                   sent : Seq(Record), cut : BOOLEAN, start : SUBSET Record,
                   drift : Seq([what : {"left", "joined"}, record : Record])]
    BY <1>3, <1>4, <2>1
  <2> QED BY <1>1, <1>2, <2>2 DEF TypeOK
<1>6. Where(q.filter)' = W /\ Result(q)' = Result(q) BY <1>2 DEF Where, Result
<1>7. Explained(Order(q), W, W, <<>>, <<>>, 0)
  <2>1. Untouched(W, <<>>) = W BY DEF Untouched
  <2>2. \A x : SentAt(<<>>, x) = {} BY DEF SentAt
  <2>3. ASSUME NEW x \in W PROVE ~(Place(Order(q), W, x) <= 0)
    <3>1. <<x, x>> \notin Order(q) BY <1>3 DEF Orders
    <3>2. Place(Order(q), W, x) \in 1..Cardinality(W) BY <1>3, <3>1, PlaceIsPosition
    <3> QED BY <1>3, <3>2
  <2>4. Skipped(Order(q), W, W, <<>>, <<>>, 0) = {} BY <2>1, <2>3 DEF Skipped
  <2>5. LeftOf(<<>>) = {} /\ \A x : EventsOf(Order(q), <<>>, "joined", x) = {}
    BY DEF LeftOf, EventsOf
  <2>6. Cardinality({}) = 0 BY FS_EmptySet
  <2>7. ASSUME NEW x \in W
        PROVE  Cardinality(SentAt(<<>>, x)) <=
                  Cardinality(EventsOf(Order(q), <<>>, "joined", x))
                  + IF Place(Order(q), W, x) <= 0 THEN 1 ELSE 0
    <3>1. Cardinality(SentAt(<<>>, x)) = 0 BY <2>2, <2>6
    <3>2. Cardinality(EventsOf(Order(q), <<>>, "joined", x)) = 0 BY <2>5, <2>6
    <3>3. (IF Place(Order(q), W, x) <= 0 THEN 1 ELSE 0) = 0 BY <2>3
    <3> QED BY <3>1, <3>2, <3>3
  <2>8. Cardinality(LeftOf(<<>>)) = 0 BY <2>5, <2>6
  <2>9. PICK S : S = Skipped(Order(q), W, W, <<>>, <<>>, 0) OBVIOUS
  <2>10. Cardinality(S) = 0 /\ \A x \in S : FALSE BY <2>4, <2>6, <2>9
  <2>11. PICK U : U = Untouched(W, <<>>) /\ U = W BY <2>1
  <2> QED BY <2>7, <2>8, <2>9, <2>10, <2>11 DEF Explained
<1>8. WalkIsExplained' BY <1>4, <1>6, <1>7 DEF WalkIsExplained
<1>9. EndIsExplained' BY <1>4 DEF EndIsExplained
<1>10. SentIsPrefix'
  <2>1. Len(<<>>) = 0 /\ SubSeq(Result(q), 1, 0) = <<>> BY SubSeqEmpty
  <2>2. FirstRows(0, Result(q), <<>>)
    <3>1. Len(Result(q)) = Cardinality(W) BY <1>1, ResultIsSorted
    <3> QED BY <1>3, <2>1, <3>1 DEF FirstRows
  <2> QED BY <1>4, <1>6, <2>1, <2>2 DEF SentIsPrefix
<1> QED BY <1>5, <1>8, <1>9, <1>10 DEF IInv

\* What a piece adds to a prefix is a longer prefix.
LEMMA PrefixGrows ==
    ASSUME NEW all \in Seq(Record), NEW offset \in Nat, NEW sent \in Seq(Record),
           FirstRows(offset, all, sent),
           NEW piece \in Seq(Record), Piece(all, Len(all), offset, piece)
    PROVE  FirstRows(offset + Len(piece), all, sent \o piece)
<1>0. Len(sent) = offset /\ offset <= Len(all) /\ sent = SubSeq(all, 1, offset) BY DEF FirstRows
<1> PICK n \in Nat : n = offset + Len(piece) OBVIOUS
<1>1. n <= Len(all) BY <1>0 DEF Piece
<1>2. PICK longer : longer = SubSeq(all, 1, n) OBVIOUS
<1>3. \A i \in 1..n : all[i] \in Record BY <1>1
<1>4. /\ longer \in Seq(Record) /\ Len(longer) = n /\ \A i \in 1..n : longer[i] = all[i]
  <2>1. /\ SubSeq(all, 1, n) \in Seq(Record) /\ Len(SubSeq(all, 1, n)) = IF 1 <= n THEN n - 1 + 1 ELSE 0
        /\ \A i \in 1..n - 1 + 1 : SubSeq(all, 1, n)[i] = all[1 + i - 1]
    BY <1>3, SubSeqProperties
  <2> QED BY <1>2, <2>1
<1>5. \A i \in 1..offset : sent[i] = all[i]
  <2>1. \A i \in 1..offset : all[i] \in Record BY <1>0
  <2>2. \A i \in 1..offset - 1 + 1 : SubSeq(all, 1, offset)[i] = all[1 + i - 1]
    BY <2>1, SubSeqProperties
  <2> QED BY <1>0, <2>2
<1>6. PICK both \in Seq(Record) : both = sent \o piece BY ConcatProperties
<1>7. Len(both) = n /\ \A i \in 1..n : both[i] = IF i <= offset THEN sent[i] ELSE piece[i - offset]
  BY <1>0, <1>6, ConcatProperties
<1>8. \A i \in 1..n : both[i] = all[i]
  <2> SUFFICES ASSUME NEW i \in 1..n PROVE both[i] = all[i] OBVIOUS
  <2>1. CASE i <= offset BY <1>5, <1>7, <2>1
  <2>2. CASE ~(i <= offset)
    <3>1. PICK j \in 1..Len(piece) : i = offset + j BY <2>2
    <3>2. piece[j] = all[i] BY <3>1 DEF Piece
    <3> QED BY <1>7, <2>2, <3>1, <3>2
  <2> QED BY <2>1, <2>2
<1>9. both = longer
  <2>1. both = [i \in 1..n |-> both[i]] /\ longer = [i \in 1..n |-> longer[i]] BY <1>4, <1>7
  <2>2. \A i \in 1..n : both[i] = longer[i] BY <1>4, <1>8
  <2> QED BY <2>1, <2>2, Zenon
<1> QED BY <1>1, <1>2, <1>6, <1>7, <1>9 DEF FirstRows

LEMMA NextPageKeeps == ASSUME IInv, NextPage PROVE IInv'
<1> PICK q \in Query : q = read.query BY ReadType DEF IInv
<1> PICK W : W = Where(q.filter) OBVIOUS
<1> PICK R : R = Order(q) OBVIOUS
<1> PICK n : n = Cardinality(W) OBVIOUS
<1> PICK all : all = Result(q) OBVIOUS
<1> PICK limit : limit = q.limit OBVIOUS
<1> PICK offset \in Nat : offset = read.offset BY ReadType DEF IInv
<1> PICK sent \in Seq(Record) : sent = read.sent BY ReadType DEF IInv
<1> PICK start \in SUBSET Record : start = read.start BY ReadType DEF IInv
<1> PICK drift \in Seq(Event) : drift = read.drift BY ReadType DEF IInv
<1> PICK page : page = List(q, offset) OBVIOUS
<1> PICK piece : piece = page.items OBVIOUS
<1>1. TypeOK BY DEF IInv
<1>2. /\ W \in SUBSET Record /\ IsFiniteSet(W) /\ n \in Nat
      /\ Orders(R, W) /\ Sorted(R, W, all) /\ all \in Seq(Record) /\ Len(all) = n
      /\ limit \in Nat /\ limit > 0
  BY <1>1, WhereIsFinite, ResultIsSorted DEF Query
<1>3. /\ piece \in Seq(Record) /\ Piece(all, n, offset, piece) /\ Len(piece) <= limit
      /\ Len(piece) = limit \/ n <= offset + Len(piece)
      /\ page.hasMore <=> offset + limit < n
  BY <1>1, ListIsPage
<1>4. /\ read.pc = "reading" /\ items' = items /\ lastId' = lastId
      /\ read' = [read EXCEPT !.sent = sent \o piece, !.offset = offset + limit,
                              !.pc = IF page.hasMore THEN "reading" ELSE "ended"]
  BY DEF NextPage, Take
<1>5. /\ read'.query = q /\ read'.sent = sent \o piece /\ read'.offset = offset + limit
      /\ read'.start = start /\ read'.drift = drift /\ read'.cut = read.cut
      /\ read'.pc = IF offset + limit < n THEN "reading" ELSE "ended"
  BY <1>1, <1>3, <1>4 DEF TypeOK
<1>6. Where(q.filter)' = W /\ Result(q)' = all BY <1>4 DEF Where, Result
<1>7. TypeOK'
  <2>1. sent \o piece \in Seq(Record) BY <1>3, ConcatProperties
  <2>2. offset + limit \in Nat BY <1>2
  <2> QED BY <1>1, <1>4, <2>1, <2>2 DEF TypeOK
<1>8. Explained(R, W, start, drift, sent, offset) BY <1>4 DEF IInv, WalkIsExplained
<1>9. Explained(R, W, start, drift, sent \o piece, offset + limit)
  <2>1. /\ Piece(all, Cardinality(W), offset, piece) /\ Len(piece) <= limit
        /\ Len(piece) = limit \/ Cardinality(W) <= offset + Len(piece)
    BY <1>3
  <2> QED BY <1>2, <1>3, <1>8, <2>1, PageExplained, Zenon
<1>10. WalkIsExplained' BY <1>5, <1>6, <1>9 DEF WalkIsExplained
<1>11. EndIsExplained'
  <2> SUFFICES ASSUME read'.pc = "ended" PROVE EndIsExplained' BY DEF EndIsExplained
  <2> DEFINE U == Untouched(start, drift)
             missing == {x \in U : SentAt(sent \o piece, x) = {}}
  <2>1. n <= offset + limit BY <1>2, <1>5
  <2>2. U \subseteq W BY <1>9 DEF Explained
  <2>3. ASSUME NEW x \in U PROVE Place(R, W, x) <= offset + limit
    <3>1. x \in W /\ <<x, x>> \notin R BY <1>2, <2>2 DEF Orders
    <3>2. Place(R, W, x) \in 1..n BY <1>2, <3>1, PlaceIsPosition
    <3> QED BY <1>2, <2>1, <3>2
  <2>4. ASSUME NEW x \in U
        PROVE  Cardinality(SentAt(sent \o piece, x)) <=
                  1 + Cardinality(EventsOf(R, drift, "joined", x))
    <3>1. PICK j \in Nat : j = Cardinality(EventsOf(R, drift, "joined", x)) BY EventsAreFinite
    <3>2. Cardinality(SentAt(sent \o piece, x)) <= j + 1 BY <1>9, <2>3, <3>1 DEF Explained
    <3>3. j + 1 = 1 + j OBVIOUS
    <3> QED BY <3>1, <3>2, <3>3
  <2>5. Skipped(R, W, start, drift, sent \o piece, offset + limit) = missing
    BY <2>3 DEF Skipped
  <2>6. /\ \A x \in missing : EventsOf(R, drift, "left", x) # {}
        /\ Cardinality(missing) <= Cardinality(LeftOf(drift))
    BY <1>9, <2>5 DEF Explained
  <2> QED BY <1>5, <2>4, <2>6 DEF EndIsExplained
<1>12. SentIsPrefix'
  <2> SUFFICES ASSUME drift = <<>> PROVE SentIsPrefix' BY <1>5 DEF SentIsPrefix
  <2>1. FirstRows(offset, all, sent) BY <1>4 DEF IInv, SentIsPrefix
  <2>2. /\ FirstRows(offset + Len(piece), all, sent \o piece)
        /\ Len(sent \o piece) = offset + Len(piece)
        /\ offset + Len(piece) <= n
    <3>1. all \in Seq(Record) /\ piece \in Seq(Record) /\ Piece(all, Len(all), offset, piece)
      BY <1>2, <1>3
    <3>2. FirstRows(offset + Len(piece), all, sent \o piece)
      BY <2>1, <3>1, PrefixGrows, Zenon
    <3> QED BY <1>2, <3>2 DEF FirstRows
  <2>3. Len(piece) \in Nat BY <1>3
  <2>4. offset + limit < n => Len(piece) = limit
    <3>1. PICK l \in Nat : l = Len(piece) BY <2>3
    <3>2. l <= limit /\ (l = limit \/ n <= offset + l) BY <1>3, <3>1
    <3>3. offset + limit < n => l = limit BY <1>2, <3>2
    <3> QED BY <3>1, <3>3
  <2>5. ~(offset + limit < n) => offset + Len(piece) = n
    <3>1. PICK l \in Nat : l = Len(piece) BY <2>3
    <3>2. offset + l <= n BY <2>2, <3>1
    <3>3. l = limit \/ n <= offset + l BY <1>3, <3>1
    <3>4. n \in Nat /\ limit \in Nat BY <1>2
    <3>5. ~(offset + limit < n) => n <= offset + limit BY <3>4
    <3>6. l = limit => (n <= offset + limit => offset + l = n) BY <3>2, <3>4
    <3>7. n <= offset + l => offset + l = n BY <3>2, <3>4
    <3> QED BY <3>1, <3>3, <3>5, <3>6, <3>7
  <2> QED BY <1>5, <1>6, <2>2, <2>4, <2>5 DEF SentIsPrefix
<1> QED BY <1>7, <1>10, <1>11, <1>12 DEF IInv

LEMMA ExportBreaksKeeps == ASSUME IInv, ExportBreaks PROVE IInv'
<1> PICK q \in Query : q = read.query BY ReadType DEF IInv
<1> PICK W : W = Where(q.filter) OBVIOUS
<1> PICK R : R = Order(q) OBVIOUS
<1> PICK n : n = Cardinality(W) OBVIOUS
<1> PICK all : all = Result(q) OBVIOUS
<1> PICK offset \in Nat : offset = read.offset BY ReadType DEF IInv
<1> PICK sent \in Seq(Record) : sent = read.sent BY ReadType DEF IInv
<1> PICK start \in SUBSET Record : start = read.start BY ReadType DEF IInv
<1> PICK drift \in Seq(Event) : drift = read.drift BY ReadType DEF IInv
<1> PICK page : page = List(q, offset).items OBVIOUS
<1>1. TypeOK BY DEF IInv
<1>2. /\ W \in SUBSET Record /\ IsFiniteSet(W) /\ n \in Nat
      /\ Orders(R, W) /\ Sorted(R, W, all) /\ all \in Seq(Record) /\ Len(all) = n
  BY <1>1, WhereIsFinite, ResultIsSorted
<1>3. page \in Seq(Record) /\ Piece(all, n, offset, page) BY <1>1, ListIsPage
<1>4. PICK k \in 0..Len(page) :
         read' = [read EXCEPT !.pc = "ended", !.cut = TRUE, !.sent = sent \o SubSeq(page, 1, k)]
  BY DEF ExportBreaks
<1> PICK piece : piece = SubSeq(page, 1, k) OBVIOUS
<1>5. /\ piece \in Seq(Record) /\ Len(piece) = k /\ Piece(all, n, offset, piece)
  <2>1. \A i \in 1..k : page[i] \in Record BY <1>3
  <2>2. /\ SubSeq(page, 1, k) \in Seq(Record)
        /\ Len(SubSeq(page, 1, k)) = IF 1 <= k THEN k - 1 + 1 ELSE 0
        /\ \A i \in 1..k - 1 + 1 : SubSeq(page, 1, k)[i] = page[1 + i - 1]
    BY <1>3, <1>4, <2>1, SubSeqProperties
  <2>3. piece \in Seq(Record) /\ Len(piece) = k /\ \A i \in 1..k : piece[i] = page[i]
    BY <1>4, <2>2
  <2>4. /\ page # <<>> => offset + Len(page) <= n
        /\ \A j \in 1..Len(page) : page[j] = all[offset + j]
    BY <1>3 DEF Piece
  <2>5. piece # <<>> => offset + Len(piece) <= n
    <3> SUFFICES ASSUME piece # <<>> PROVE offset + Len(piece) <= n OBVIOUS
    <3>1. k > 0 /\ Len(page) > 0 BY <1>3, <1>4, <2>3
    <3> QED BY <1>2, <1>3, <1>4, <2>3, <2>4, <3>1
  <2>6. \A j \in 1..Len(piece) : piece[j] = all[offset + j] BY <1>3, <1>4, <2>3, <2>4
  <2> QED BY <2>3, <2>5, <2>6 DEF Piece
<1>6. /\ read.pc = "reading" /\ items' = items /\ lastId' = lastId
  BY DEF ExportBreaks
<1>7. /\ read'.pc = "ended" /\ read'.cut = TRUE /\ read'.sent = sent \o piece
      /\ read'.query = q /\ read'.offset = offset /\ read'.start = start /\ read'.drift = drift
  BY <1>1, <1>4 DEF TypeOK
<1>8. Where(q.filter)' = W /\ Result(q)' = all BY <1>6 DEF Where, Result
<1>9. TypeOK'
  <2>1. sent \o piece \in Seq(Record) BY <1>5, ConcatProperties
  <2> QED BY <1>1, <1>4, <1>6, <2>1 DEF TypeOK
<1>10. WalkIsExplained' BY <1>7 DEF WalkIsExplained
<1>11. EndIsExplained'
  <2>1. Explained(R, W, start, drift, sent, offset) BY <1>6 DEF IInv, WalkIsExplained
  <2>2. Piece(all, Cardinality(W), offset, piece) BY <1>5
  <2>3. \A x \in Untouched(start, drift) :
           Cardinality(SentAt(sent \o piece, x)) <=
              1 + Cardinality(EventsOf(R, drift, "joined", x))
    BY <1>2, <1>5, <2>1, <2>2, PartExplained
  <2> QED BY <1>7, <2>3 DEF EndIsExplained
<1>12. SentIsPrefix'
  <2> SUFFICES ASSUME drift = <<>> PROVE SentIsPrefix' BY <1>7 DEF SentIsPrefix
  <2>1. FirstRows(offset, all, sent) BY <1>6 DEF IInv, SentIsPrefix
  <2>2. Piece(all, Len(all), offset, piece) BY <1>2, <1>5
  <2>3. FirstRows(offset + Len(piece), all, sent \o piece) BY <1>2, <1>5, <2>1, <2>2, PrefixGrows
  <2>4. Len(sent \o piece) = offset + Len(piece) BY <2>3 DEF FirstRows
  <2> QED BY <1>7, <1>8, <2>3, <2>4 DEF SentIsPrefix
<1> QED BY <1>9, <1>10, <1>11, <1>12 DEF IInv

-----------------------------------------------------------------------------

-----------------------------------------------------------------------------
(* Sums: a fold over a finite set of numbers counts the units they are made  *)
(* of.  The fold is unfolded from the definition of the community modules,   *)
(* and the induction goes over subsets, by a minimal one that fails.         *)

\* One unit for each that w counts.
Units(w, s) == {p \in s \X Nat : p[2] \in 1..w[p[1]]}

LEMMA UnitsStep ==
    ASSUME NEW S, NEW w \in [S -> Nat], NEW s \in SUBSET S, NEW x \in s,
           IsFiniteSet(Units(w, s \ {x}))
    PROVE  /\ IsFiniteSet(Units(w, s))
           /\ Cardinality(Units(w, s)) = w[x] + Cardinality(Units(w, s \ {x}))
<1> PICK n \in Nat : n = w[x] OBVIOUS
<1> DEFINE column == {x} \X (1..n)
           rest == Units(w, s \ {x})
<1>1. IsFiniteSet(1..n) /\ Cardinality(1..n) = n BY PositionsCount
<1>2. IsFiniteSet({x}) /\ Cardinality({x}) = 1 BY FS_Singleton
<1>3. IsFiniteSet(column) /\ Cardinality(column) = 1 * n BY <1>1, <1>2, FS_Product
<1>4. column \cup rest = Units(w, s)
  <2>1. ASSUME NEW p \in Units(w, s) PROVE p \in column \cup rest
    <3>1. p = <<p[1], p[2]>> /\ p[1] \in s /\ p[2] \in Nat /\ p[2] \in 1..w[p[1]]
      BY DEF Units
    <3>2. CASE p[1] = x BY <3>1, <3>2
    <3>3. CASE p[1] # x BY <3>1, <3>3 DEF Units
    <3> QED BY <3>2, <3>3
  <2>2. column \subseteq Units(w, s) BY DEF Units
  <2>3. rest \subseteq Units(w, s) BY DEF Units
  <2> QED BY <2>1, <2>2, <2>3
<1>5. column \cap rest = {} BY DEF Units
<1> HIDE DEF column, rest
<1>6. /\ IsFiniteSet(column \cup rest)
      /\ Cardinality(column \cup rest) = Cardinality(column) + Cardinality(rest) - Cardinality({})
  BY <1>3, <1>5, FS_Union DEF rest
<1>7. Cardinality({}) = 0 BY FS_EmptySet
<1>8. Cardinality(rest) \in Nat BY FS_CardinalityType DEF rest
<1>9. Cardinality(column \cup rest) = n + Cardinality(rest) BY <1>3, <1>6, <1>7, <1>8
<1> QED BY <1>4, <1>6, <1>9, Zenon DEF rest

LEMMA UnitsFinite ==
    ASSUME NEW S, IsFiniteSet(S), NEW w \in [S -> Nat]
    PROVE  \A s \in SUBSET S : IsFiniteSet(Units(w, s)) /\ Cardinality(Units(w, s)) \in Nat
<1> DEFINE bad == {s \in SUBSET S : ~IsFiniteSet(Units(w, s))}
<1>1. SUFFICES ASSUME bad # {} PROVE FALSE BY FS_CardinalityType
<1>2. bad \subseteq FiniteSubsetsOf(S) BY FS_Subset DEF FiniteSubsetsOf
<1>3. PICK s \in bad : \A t \in bad : ~(<<t, s>> \in StrictSubsetOrdering(S))
  BY <1>1, <1>2, FS_StrictSubsetOrderingWellFounded, WFMin, Zenon
<1>4. CASE s = {}
  <2>1. Units(w, s) = {} BY <1>4 DEF Units
  <2> QED BY <2>1, FS_EmptySet
<1>5. CASE s # {}
  <2>1. PICK x \in s : TRUE BY <1>5
  <2>2. s \ {x} \notin bad BY <1>3, <2>1 DEF StrictSubsetOrdering
  <2>3. IsFiniteSet(Units(w, s \ {x})) BY <2>2
  <2> QED BY <2>1, <2>3, UnitsStep
<1> QED BY <1>4, <1>5

\* g adds w over the subsets of S, one chosen element after the other.
AddsUp(w, S, g) == g = [s \in SUBSET S |-> IF s = {} THEN 0
                           ELSE LET x == CHOOSE e \in s : TRUE IN w[x] + g[s \ {x}]]

LEMMA UnitsAddUp ==
    ASSUME NEW S, IsFiniteSet(S), NEW w \in [S -> Nat]
    PROVE  AddsUp(w, S, [s \in SUBSET S |-> Cardinality(Units(w, s))])
<1> DEFINE g == [s \in SUBSET S |-> Cardinality(Units(w, s))]
<1>1. ASSUME NEW s \in SUBSET S
      PROVE  g[s] = IF s = {} THEN 0
                    ELSE LET x == CHOOSE e \in s : TRUE IN w[x] + g[s \ {x}]
  <2>1. CASE s = {}
    <3>1. Units(w, s) = {} BY <2>1 DEF Units
    <3> QED BY <2>1, <3>1, FS_EmptySet
  <2>2. CASE s # {}
    <3>1. ASSUME NEW x \in s PROVE g[s] = w[x] + g[s \ {x}]
      <4>1. s \ {x} \in SUBSET S OBVIOUS
      <4>2. IsFiniteSet(Units(w, s \ {x})) BY <4>1, UnitsFinite
      <4>3. Cardinality(Units(w, s)) = w[x] + Cardinality(Units(w, s \ {x})) BY <4>2, UnitsStep
      <4> QED BY <4>1, <4>3
    <3>2. (CHOOSE e \in s : TRUE) \in s BY <2>2
    <3> QED BY <2>2, <3>1, <3>2
  <2> QED BY <2>1, <2>2
<1> QED BY <1>1 DEF AddsUp

LEMMA SumIsUnits ==
    ASSUME NEW S, IsFiniteSet(S), NEW w \in [S -> Nat], NEW g, AddsUp(w, S, g)
    PROVE  g[S] = Cardinality(Units(w, S))
<1> PICK h : h = [s \in SUBSET S |-> Cardinality(Units(w, s))] OBVIOUS
<1>0. AddsUp(w, S, h) BY UnitsAddUp
<1> DEFINE bad == {s \in SUBSET S : g[s] # h[s]}
<1>1. SUFFICES ASSUME bad # {} PROVE FALSE OBVIOUS
<1>2. bad \subseteq FiniteSubsetsOf(S) BY FS_Subset DEF FiniteSubsetsOf
<1>3. PICK s \in bad : \A t \in bad : ~(<<t, s>> \in StrictSubsetOrdering(S))
  BY <1>1, <1>2, FS_StrictSubsetOrderingWellFounded, WFMin, Zenon
<1> PICK x : x = CHOOSE e \in s : TRUE OBVIOUS
<1>4. g[s] = IF s = {} THEN 0 ELSE w[x] + g[s \ {x}] BY <1>3 DEF AddsUp
<1>5. h[s] = IF s = {} THEN 0 ELSE w[x] + h[s \ {x}] BY <1>0, <1>3 DEF AddsUp
<1>6. s # {} BY <1>3, <1>4, <1>5
<1>7. s \ {x} \notin bad BY <1>3, <1>6 DEF StrictSubsetOrdering
<1>8. g[s \ {x}] = h[s \ {x}] BY <1>3, <1>7
<1> QED BY <1>3, <1>4, <1>5, <1>8

SumOf(w, S) == CHOOSE g : AddsUp(w, S, g)

LEMMA SumCountsUnits ==
    ASSUME NEW S, IsFiniteSet(S), NEW w \in [S -> Nat]
    PROVE  SumOf(w, S)[S] = Cardinality(Units(w, S))
<1>1. AddsUp(w, S, SumOf(w, S)) BY UnitsAddUp, Zenon DEF SumOf
<1> QED BY <1>1, SumIsUnits

\* The folds of the model.
LEMMA SumOfRows ==
    ASSUME NEW S
    PROVE  MapThenSumSet(LAMBDA x : x.row.amount, S) = SumOf([x \in S |-> x.row.amount], S)[S]
BY DEF MapThenSumSet, MapThenFoldSet, SumOf, AddsUp

LEMMA SumOfFile ==
    ASSUME NEW sent
    PROVE  FoldSeq(LAMBDA x, y : x.row.amount + y, 0, sent) =
             SumOf([k \in DOMAIN sent |-> sent[k].row.amount], DOMAIN sent)[DOMAIN sent]
BY DEF FoldSeq, FoldFunction, FoldFunctionOnSet, MapThenFoldSet, SumOf, AddsUp

\* Rows and file, one to one, come to the same sum.
LEMMA SameSum ==
    ASSUME NEW S, NEW T, IsFiniteSet(S), NEW v \in [S -> Nat], NEW w \in [T -> Nat],
           NEW f \in Bijection(S, T), \A x \in S : v[x] = w[f[x]]
    PROVE  SumOf(v, S)[S] = SumOf(w, T)[T]
<1>1. /\ f \in [S -> T]
      /\ \A x, y \in S : f[x] = f[y] => x = y
      /\ \A y \in T : \E x \in S : f[x] = y
  BY DEF Bijection, Injection, Surjection, IsInjective
<1>2. IsFiniteSet(T) BY FS_Bijection DEF ExistsBijection
<1> DEFINE U == Units(v, S)
           V == Units(w, T)
           h == [p \in U |-> <<f[p[1]], p[2]>>]
<1>3. \A p \in U : p = <<p[1], p[2]>> /\ p[1] \in S /\ p[2] \in Nat /\ p[2] \in 1..v[p[1]]
  BY DEF Units
<1>4. \A p \in U : h[p] \in V BY <1>1, <1>3 DEF Units
<1>5. \A p, q \in U : h[p] = h[q] => p = q
  <2> SUFFICES ASSUME NEW p \in U, NEW q \in U, h[p] = h[q] PROVE p = q OBVIOUS
  <2>1. f[p[1]] = f[q[1]] /\ p[2] = q[2] OBVIOUS
  <2>2. p[1] = q[1] BY <1>1, <1>3, <2>1
  <2> QED BY <1>3, <2>1, <2>2
<1>6. \A q \in V : \E p \in U : h[p] = q
  <2> SUFFICES ASSUME NEW q \in V PROVE \E p \in U : h[p] = q OBVIOUS
  <2>1. q = <<q[1], q[2]>> /\ q[1] \in T /\ q[2] \in Nat /\ q[2] \in 1..w[q[1]] BY DEF Units
  <2>2. PICK x \in S : f[x] = q[1] BY <1>1, <2>1
  <2>3. <<x, q[2]>> \in U BY <2>1, <2>2 DEF Units
  <2>4. h[<<x, q[2]>>] = <<f[x], q[2]>> BY <2>3
  <2> QED BY <2>1, <2>2, <2>3, <2>4
<1>7. h \in Bijection(U, V)
  <2>1. h \in [U -> V] BY <1>4
  <2> HIDE DEF h, U, V
  <2> QED BY <1>5, <1>6, <2>1 DEF Bijection, Injection, Surjection, IsInjective
<1>8. IsFiniteSet(U) BY UnitsFinite
<1>9. Cardinality(U) = Cardinality(V)
  <2> HIDE DEF h, U, V
  <2> QED BY <1>7, <1>8, FS_Bijection DEF ExistsBijection
<1>10. SumOf(v, S)[S] = Cardinality(U) BY SumCountsUnits
<1>11. SumOf(w, T)[T] = Cardinality(V) BY <1>2, SumCountsUnits
<1> QED BY <1>9, <1>10, <1>11

-----------------------------------------------------------------------------
(* The analytics of a period and its export.                               *)

LEMMA Tenths ==
    ASSUME NEW k \in Nat
    PROVE  k \div 10 \in Nat /\ k % 10 \in 0..9 /\ k = 10 * (k \div 10) + (k % 10)
OBVIOUS

LEMMA Between ==
    ASSUME NEW low \in Nat, NEW high \in Nat, low <= high, NEW t \in 0..9,
           NEW value, value = 10 * low + t * (high - low)
    PROVE  /\ value \in Nat /\ 10 * low <= value /\ value <= 10 * high
           /\ t = 0 => value = 10 * low
<1> PICK d \in Nat : high = low + d
  <2>1. high - low \in Nat /\ high = low + (high - low) OBVIOUS
  <2> QED BY <2>1
<1>1. value = 10 * low + t * d OBVIOUS
<1>2. t \in {0, 1, 2, 3, 4, 5, 6, 7, 8, 9} OBVIOUS
<1>3. t * d \in Nat /\ t * d <= 10 * d /\ (t = 0 => t * d = 0) BY <1>2
<1> PICK p \in Nat : p = t * d BY <1>3
<1> QED BY <1>1, <1>3

\* GET /analytics sorts by amount.
ByAmount(f) == Result(ListItems(f, "amount", "asc", None))

Ascending(v, n, W) ==
    /\ v \in Bijection(1..n, W)
    /\ \A k \in 1..n : v[k] \in W /\ v[k].row.amount \in Nat
    /\ \A j, k \in 1..n : j <= k => v[j].row.amount <= v[k].row.amount

LEMMA ByAmountIsSorted ==
    ASSUME TypeOK, NEW f \in Filter, NEW v, v = ByAmount(f),
           NEW W, W = Where(f), NEW n \in Nat, n = Cardinality(W)
    PROVE  Ascending(v, n, W) /\ Len(v) = n
<1> PICK p : p = ListItems(f, "amount", "asc", None) OBVIOUS
<1>1. /\ p \in Query /\ p.filter = f /\ p.sort = "amount" /\ p.order = "asc"
  BY ConstantsAssumption DEF ListItems, whitelistSort, whitelistOrder, Query, Sorts
<1> PICK R : R = Order(p) OBVIOUS
<1>2. /\ Orders(R, W) /\ Sorted(R, W, v) /\ v \in Seq(Record) /\ Len(v) = n
  BY <1>1, ResultIsSorted DEF ByAmount
<1>3. W \in SUBSET Record /\ IsFiniteSet(W) BY WhereIsFinite
<1>4. v \in Bijection(1..n, W) BY <1>2, <1>3, SortedIsBijection
<1>5. \A x \in Record : x.row.amount \in Nat BY DEF Record, Row
<1>6. \A k \in 1..n : v[k] \in W /\ Place(R, W, v[k]) = k BY <1>2 DEF Sorted
<1>7. ASSUME NEW j \in 1..n, NEW k \in 1..n, j < k
      PROVE  v[j].row.amount <= v[k].row.amount
  <2> PICK x \in W : x = v[j] BY <1>6
  <2> PICK y \in W : y = v[k] BY <1>6
  <2>1. Place(R, W, x) = j /\ Place(R, W, y) = k BY <1>6
  <2>2. x # y BY <2>1, <1>7
  <2>3. <<y, x>> \notin R
    <3>1. <<y, x>> \in R => Place(R, W, y) < Place(R, W, x) BY <1>2, <1>3, PlaceFollowsOrder
    <3> QED BY <3>1, <2>1, <1>7
  <2>4. <<x, y>> \in R BY <1>2, <2>2, <2>3 DEF Orders
  <2>5. Precedes(p, x, y) BY <2>4 DEF Order
  <2>6. x.row.amount \in Nat /\ y.row.amount \in Nat BY <1>3, <1>5
  <2> QED BY <1>1, <2>5, <2>6 DEF Precedes, Key
<1>8. \A k \in 1..n : v[k].row.amount \in Nat BY <1>3, <1>5, <1>6
<1>9. \A j, k \in 1..n : j <= k => v[j].row.amount <= v[k].row.amount
  <2> SUFFICES ASSUME NEW j \in 1..n, NEW k \in 1..n, j <= k
               PROVE  v[j].row.amount <= v[k].row.amount
    OBVIOUS
  <2>1. CASE j = k BY <1>8, <2>1
  <2>2. CASE j < k BY <1>7, <2>2
  <2> QED BY <2>1, <2>2
<1> QED BY <1>2, <1>4, <1>6, <1>8, <1>9 DEF Ascending

\* Rows sorted by amount: no more of them are above the value than stand behind one that
\* is not, and no more below it than stand before those that are not.
RowsAbove(W, value) == {x \in W : 10 * x.row.amount > value}
RowsBelow(W, value) == {x \in W : 10 * x.row.amount < value}

Splits(v, n, value, m, last) ==
    /\ 10 * v[m].row.amount <= value
    /\ \A j \in 1..n : j > last => value <= 10 * v[j].row.amount

LEMMA AboveAndBelow ==
    ASSUME NEW n \in Nat, NEW W, NEW v, Ascending(v, n, W),
           NEW value \in Nat, NEW m \in 1..n, NEW last \in 0..n, Splits(v, n, value, m, last)
    PROVE  /\ Cardinality(RowsAbove(W, value)) <= n - m
           /\ Cardinality(RowsBelow(W, value)) <= last
<1> DEFINE above == {x \in W : 10 * x.row.amount > value}
           below == {x \in W : 10 * x.row.amount < value}
<1>0. v \in Bijection(1..n, W) BY DEF Ascending
<1> USE DEF Ascending, Splits
<1>1. Cardinality(above) <= n - m
  <2> DEFINE K == {j \in 1..n : v[j] \in above}
  <2>1. Cardinality(K) = Cardinality(above)
    <3>1. above \in SUBSET W OBVIOUS
    <3> HIDE DEF above
    <3> QED BY <1>0, <3>1, PositionsOf
  <2>2. ASSUME NEW j \in K PROVE j \in (m + 1)..n
    <3>1. j \in 1..n /\ 10 * v[j].row.amount > value BY <2>2
    <3>2. PICK a \in Nat : a = v[j].row.amount BY <3>1
    <3>3. PICK b \in Nat : b = v[m].row.amount OBVIOUS
    <3>4. j <= m => a <= b BY <3>1, <3>2, <3>3
    <3>5. 10 * a > value /\ 10 * b <= value BY <3>1, <3>2, <3>3
    <3>6. a > b BY <3>5
    <3> QED BY <3>1, <3>4, <3>6
  <2>3. IsFiniteSet((m + 1)..n) /\ Cardinality((m + 1)..n) = n - m
    <3>1. /\ IsFiniteSet((m + 1)..n)
          /\ Cardinality((m + 1)..n) = IF m + 1 > n THEN 0 ELSE n - (m + 1) + 1
      BY FS_Interval
    <3> QED BY <3>1
  <2>4. K \in SUBSET ((m + 1)..n) BY <2>2
  <2> HIDE DEF K, above
  <2>5. Cardinality(K) <= Cardinality((m + 1)..n) BY <2>3, <2>4, FS_Subset
  <2> QED BY <2>1, <2>3, <2>5
<1>2. Cardinality(below) <= last
  <2> DEFINE K == {j \in 1..n : v[j] \in below}
  <2>1. Cardinality(K) = Cardinality(below)
    <3>1. below \in SUBSET W OBVIOUS
    <3> HIDE DEF below
    <3> QED BY <1>0, <3>1, PositionsOf
  <2>2. ASSUME NEW j \in K PROVE j \in 1..last
    <3>1. j \in 1..n /\ 10 * v[j].row.amount < value BY <2>2
    <3>2. v[j].row.amount \in Nat BY <3>1
    <3>3. ~(j > last) BY <3>1, <3>2
    <3> QED BY <3>1, <3>3
  <2>3. IsFiniteSet(1..last) /\ Cardinality(1..last) = last BY PositionsCount
  <2>4. K \in SUBSET (1..last) BY <2>2
  <2> HIDE DEF K, below
  <2>5. Cardinality(K) <= Cardinality(1..last) BY <2>3, <2>4, FS_Subset
  <2> QED BY <2>1, <2>3, <2>5
<1> QED BY <1>1, <1>2 DEF RowsAbove, RowsBelow

\* Where percentile_cont looks.
Looks(n, tenths, k, m) == k = tenths * (n - 1) /\ m = k \div 10 + 1

LEMMA LooksWithin ==
    ASSUME NEW n \in Nat \ {0}, NEW tenths \in 0..10, NEW k, NEW m, Looks(n, tenths, k, m)
    PROVE  /\ k \in Nat /\ m \in 1..n /\ k % 10 \in 0..9
           /\ k = 10 * (m - 1) + (k % 10)
<1> PICK p \in Nat : p = n - 1
  <2>1. n - 1 \in Nat OBVIOUS
  <2> QED BY <2>1
<1>0. k = tenths * p /\ m = k \div 10 + 1 BY DEF Looks
<1>1. tenths \in {0, 1, 2, 3, 4, 5, 6, 7, 8, 9, 10} OBVIOUS
<1>2. k \in Nat /\ k <= 10 * p BY <1>0, <1>1
<1>3. k \div 10 \in Nat /\ k % 10 \in 0..9 /\ k = 10 * (k \div 10) + (k % 10) BY <1>2, Tenths
<1> PICK d \in Nat : d = k \div 10 BY <1>3
<1> PICK t \in 0..9 : t = k % 10 BY <1>3
<1>4. k = 10 * d + t /\ d <= p /\ m = d + 1 BY <1>0, <1>2, <1>3
<1> QED BY <1>2, <1>4

LEMMA PercentileSplits ==
    ASSUME TypeOK, NEW f \in Filter, NEW W, W = Where(f), NEW n \in Nat \ {0}, n = Cardinality(W),
           NEW tenths \in 0..10, NEW k, NEW m, Looks(n, tenths, k, m)
    PROVE  LET value == Percentile(tenths, f)
           IN  /\ Cardinality(RowsAbove(W, value)) <= n - m
               /\ Cardinality(RowsBelow(W, value)) <= IF k % 10 = 0 THEN m - 1 ELSE m
<1>1. PICK v : v = ByAmount(f) OBVIOUS
<1>0. Ascending(v, n, W) /\ Len(v) = n BY <1>1, ByAmountIsSorted
<1>2. /\ Len(v) = n
      /\ \A j \in 1..n : v[j] \in W /\ v[j].row.amount \in Nat
      /\ \A i, j \in 1..n : i <= j => v[i].row.amount <= v[j].row.amount
  BY <1>0 DEF Ascending
<1>3. k \in Nat /\ m \in 1..n /\ k % 10 \in 0..9 BY LooksWithin
<1>4. k \div 10 + 1 = m BY DEF Looks
<1>5. PICK t \in 0..9 : t = k % 10 BY <1>3
<1>6. PICK u \in Nat : u = IF m + 1 <= n THEN m + 1 ELSE n BY <1>3
<1>7. u \in 1..n /\ m <= u /\ (m < n => u = m + 1) BY <1>3, <1>6
<1>8. PICK low \in Nat : low = v[m].row.amount BY <1>2, <1>3
<1>9. PICK high \in Nat : high = v[u].row.amount BY <1>2, <1>7
<1>10. low <= high BY <1>2, <1>3, <1>7, <1>8, <1>9
<1>11. PICK value : value = Percentile(tenths, f) OBVIOUS
<1>12. value = 10 * low + t * (high - low)
  <2>1. Min({k \div 10 + 2, n}) = u
    <3>1. k \div 10 \in Nat BY <1>3, Tenths
    <3>2. k \div 10 + 2 = m + 1 BY <1>4, <3>1
    <3>3. u \in {m + 1, n} /\ \A y \in {m + 1, n} : u <= y BY <1>3, <1>6
    <3>4. \A y \in {m + 1, n} : y \in Int BY <1>3
    <3>5. ASSUME NEW y \in {m + 1, n}, \A z \in {m + 1, n} : y <= z PROVE y = u
      BY <3>3, <3>4, <3>5
    <3>6. Min({m + 1, n}) = u BY <3>3, <3>5 DEF Min
    <3> QED BY <3>2, <3>6
  <2>2. v # <<>> BY <1>2
  <2>3. value = 10 * v[k \div 10 + 1].row.amount
                + (k % 10) * (v[Min({k \div 10 + 2, n})].row.amount
                              - v[k \div 10 + 1].row.amount)
    <3>1. Len(v) = n BY <1>2
    <3>2. k = tenths * (n - 1) BY DEF Looks
    <3> QED BY <1>1, <1>11, <2>2, <3>1, <3>2, Zenon DEF Percentile, ByAmount
  <2> QED BY <1>4, <1>5, <1>8, <1>9, <2>1, <2>3, Zenon
<1>13. /\ value \in Nat /\ 10 * low <= value /\ value <= 10 * high
       /\ t = 0 => value = 10 * low
  BY <1>10, <1>12, Between
<1>14. PICK last \in 0..n : last = IF t = 0 THEN m - 1 ELSE m BY <1>3
<1>15. ASSUME NEW j \in 1..n, j > last PROVE value <= 10 * v[j].row.amount
  <2>1. PICK a \in Nat : a = v[j].row.amount BY <1>2
  <2>2. m <= j => low <= a BY <1>2, <1>3, <1>8, <2>1
  <2>3. u <= j => high <= a BY <1>2, <1>7, <1>9, <2>1
  <2>4. CASE t = 0
    <3>1. m <= j BY <1>3, <1>14, <1>15, <2>4
    <3>2. value <= 10 * a BY <1>13, <2>2, <2>4, <3>1
    <3> QED BY <2>1, <3>2
  <2>5. CASE t # 0
    <3>1. u <= j BY <1>3, <1>7, <1>14, <1>15, <2>5
    <3>2. value <= 10 * a BY <1>13, <2>3, <3>1
    <3> QED BY <2>1, <3>2
  <2> QED BY <2>4, <2>5
<1>16. Cardinality(RowsAbove(W, value)) <= n - m /\ Cardinality(RowsBelow(W, value)) <= last
  <2>1. 10 * v[m].row.amount <= value BY <1>8, <1>13
  <2>2. Splits(v, n, value, m, last) BY <1>15, <2>1 DEF Splits
  <2>3. value \in Nat /\ m \in 1..n BY <1>3, <1>13
  <2> QED BY <1>0, <2>2, <2>3, AboveAndBelow
<1> QED BY <1>5, <1>11, <1>14, <1>16

\* Records of the file, by their positions, and of the table.
LEMMA ExportAgrees == ASSUME IInv PROVE ExportAddsUp
<1> SUFFICES ASSUME read.pc = "ended", read.query.by = "csv", ~read.cut, read.drift = <<>>,
                    read.query.filter.type = None
             PROVE  LET a == Analytics(read.query.filter)
                        Above(x) == Cardinality({k \in DOMAIN read.sent : 10 * read.sent[k].row.amount > x})
                        Below(x) == Cardinality({k \in DOMAIN read.sent : 10 * read.sent[k].row.amount < x})
                    IN  /\ a.count = Len(read.sent)
                        /\ a.sum = FoldSeq(LAMBDA x, y : x.row.amount + y, 0, read.sent)
                        /\ 2 * Above(a.median) <= a.count /\ 2 * Below(a.median) <= a.count
                        /\ 10 * Above(a.p90) <= a.count + 9
  BY DEF ExportAddsUp
<1>1. TypeOK BY DEF IInv
<1>2. PICK q \in Query : q = read.query BY ReadType DEF IInv
<1>3. PICK f \in Filter : f = q.filter BY DEF Query
<1>4. PICK W : W = Where(f) OBVIOUS
<1>5. W \in SUBSET Record /\ IsFiniteSet(W) /\ Cardinality(W) \in Nat BY <1>1, <1>4, WhereIsFinite
<1>6. PICK n \in Nat : n = Cardinality(W) BY <1>5
<1>7. PICK sent : sent = read.sent OBVIOUS
<1>8. sent = Result(q) BY <1>2, <1>7, SentShowsResult DEF PagesMakeTheResult
<1>9. Orders(Order(q), W) /\ Sorted(Order(q), W, sent) /\ Len(sent) = n /\ sent \in Seq(Record)
  BY <1>1, <1>3, <1>4, <1>6, <1>8, ResultIsSorted
<1>10. sent \in Bijection(1..n, W) BY <1>5, <1>6, <1>9, SortedIsBijection
<1>11. DOMAIN sent = 1..n BY <1>9
<1>12. \A x \in Record : x.row.amount \in Nat BY DEF Record, Row
<1>13. PICK median : median = Percentile(5, f) OBVIOUS
<1>14. PICK p90 : p90 = Percentile(9, f) OBVIOUS
<1>15. MapThenSumSet(LAMBDA x : x.row.amount, W) = FoldSeq(LAMBDA x, y : x.row.amount + y, 0, sent)
  <2> DEFINE v == [k \in DOMAIN sent |-> sent[k].row.amount]
             w == [x \in W |-> x.row.amount]
  <2>1. sent \in [1..n -> W] BY <1>10 DEF Bijection, Injection
  <2>2. v \in [1..n -> Nat] /\ w \in [W -> Nat] /\ \A k \in 1..n : v[k] = w[sent[k]]
    BY <1>5, <1>11, <1>12, <2>1
  <2>3. IsFiniteSet(1..n) BY PositionsCount
  <2>4. MapThenSumSet(LAMBDA x : x.row.amount, W) = SumOf(w, W)[W] BY SumOfRows
  <2>5. FoldSeq(LAMBDA x, y : x.row.amount + y, 0, sent) = SumOf(v, DOMAIN sent)[DOMAIN sent]
    BY SumOfFile
  <2> HIDE DEF v, w
  <2>6. SumOf(v, 1..n)[1..n] = SumOf(w, W)[W] BY <1>10, <2>2, <2>3, SameSum
  <2> QED BY <1>11, <2>4, <2>5, <2>6, Zenon
<1>16. ASSUME NEW value
       PROVE  /\ Cardinality({k \in DOMAIN sent : 10 * sent[k].row.amount > value}) =
                    Cardinality(RowsAbove(W, value))
              /\ Cardinality({k \in DOMAIN sent : 10 * sent[k].row.amount < value}) =
                    Cardinality(RowsBelow(W, value))
  <2>1. sent \in [1..n -> W] BY <1>10 DEF Bijection, Injection
  <2>2. {k \in DOMAIN sent : 10 * sent[k].row.amount > value} =
          {k \in 1..n : sent[k] \in RowsAbove(W, value)}
    BY <1>11, <2>1 DEF RowsAbove
  <2>3. {k \in DOMAIN sent : 10 * sent[k].row.amount < value} =
          {k \in 1..n : sent[k] \in RowsBelow(W, value)}
    BY <1>11, <2>1 DEF RowsBelow
  <2>4. RowsAbove(W, value) \in SUBSET W /\ RowsBelow(W, value) \in SUBSET W
    BY DEF RowsAbove, RowsBelow
  <2>5. Cardinality({k \in 1..n : sent[k] \in RowsAbove(W, value)}) = Cardinality(RowsAbove(W, value))
    BY <1>10, <2>4, PositionsOf
  <2>6. Cardinality({k \in 1..n : sent[k] \in RowsBelow(W, value)}) = Cardinality(RowsBelow(W, value))
    BY <1>10, <2>4, PositionsOf
  <2> QED BY <2>2, <2>3, <2>5, <2>6, Zenon
<1>17. /\ 2 * Cardinality(RowsAbove(W, median)) <= n /\ 2 * Cardinality(RowsBelow(W, median)) <= n
       /\ 10 * Cardinality(RowsAbove(W, p90)) <= n + 9
  <2>0. /\ Cardinality(RowsAbove(W, median)) \in Nat /\ Cardinality(RowsBelow(W, median)) \in Nat
        /\ Cardinality(RowsAbove(W, p90)) \in Nat
    <3>1. /\ RowsAbove(W, median) \in SUBSET W /\ RowsBelow(W, median) \in SUBSET W
          /\ RowsAbove(W, p90) \in SUBSET W
      BY DEF RowsAbove, RowsBelow
    <3> QED BY <1>5, <3>1, FS_Subset, FS_CardinalityType
  <2>1. CASE n = 0
    <3>1. W = {} BY <1>5, <1>6, <2>1, FS_EmptySet
    <3>2. RowsAbove(W, median) = {} /\ RowsBelow(W, median) = {} /\ RowsAbove(W, p90) = {}
      BY <3>1 DEF RowsAbove, RowsBelow
    <3> QED BY <2>1, <3>2, FS_EmptySet
  <2>2. CASE n # 0
    <3>1. PICK k : k = 5 * (n - 1) OBVIOUS
    <3>2. PICK m : m = k \div 10 + 1 OBVIOUS
    <3>3. Looks(n, 5, k, m) BY <3>1, <3>2 DEF Looks
    <3>4. PICK j : j = 9 * (n - 1) OBVIOUS
    <3>5. PICK l : l = j \div 10 + 1 OBVIOUS
    <3>6. Looks(n, 9, j, l) BY <3>4, <3>5 DEF Looks
    <3>7. k \in Nat /\ m \in 1..n /\ k % 10 \in 0..9 /\ k = 10 * (m - 1) + (k % 10)
      BY <2>2, <3>3, LooksWithin
    <3>8. j \in Nat /\ l \in 1..n /\ j % 10 \in 0..9 /\ j = 10 * (l - 1) + (j % 10)
      BY <2>2, <3>6, LooksWithin
    <3>9. /\ Cardinality(RowsAbove(W, median)) <= n - m
          /\ Cardinality(RowsBelow(W, median)) <= IF k % 10 = 0 THEN m - 1 ELSE m
      BY <1>1, <1>4, <1>6, <1>13, <2>2, <3>3, PercentileSplits
    <3>10. Cardinality(RowsAbove(W, p90)) <= n - l
      BY <1>1, <1>4, <1>6, <1>14, <2>2, <3>6, PercentileSplits
    <3>11. PICK t \in 0..9 : t = k % 10 BY <3>7
    <3>12. PICK r \in 0..9 : r = j % 10 BY <3>8
    <3>13. 5 * (n - 1) = 10 * (m - 1) + t /\ 9 * (n - 1) = 10 * (l - 1) + r
      BY <3>1, <3>4, <3>7, <3>8, <3>11, <3>12
    <3>14. 2 * (n - m) <= n /\ 10 * (n - l) <= n + 9 /\ (t # 0 => 2 * m <= n) /\ 2 * (m - 1) <= n
      BY <3>7, <3>8, <3>13
    <3> QED BY <2>0, <3>7, <3>8, <3>9, <3>10, <3>11, <3>14
  <2> QED BY <2>1, <2>2
<1>18. PICK total : total = MapThenSumSet(LAMBDA x : x.row.amount, W) OBVIOUS
<1>19. Analytics(f) = [count |-> n, sum |-> total, median |-> median, p90 |-> p90]
  BY <1>4, <1>6, <1>13, <1>14, <1>18, Zenon DEF Analytics
<1>20. PICK a : a = Analytics(f) OBVIOUS
<1>21. a.count = n /\ a.sum = total /\ a.median = median /\ a.p90 = p90 BY <1>19, <1>20
<1>22. a.sum = FoldSeq(LAMBDA x, y : x.row.amount + y, 0, sent) BY <1>15, <1>18, <1>21, Zenon
<1>23. /\ 2 * Cardinality({k \in DOMAIN sent : 10 * sent[k].row.amount > a.median}) <= a.count
       /\ 2 * Cardinality({k \in DOMAIN sent : 10 * sent[k].row.amount < a.median}) <= a.count
       /\ 10 * Cardinality({k \in DOMAIN sent : 10 * sent[k].row.amount > a.p90}) <= a.count + 9
  BY <1>16, <1>17, <1>21, Zenon
<1>24. a.count = Len(sent) BY <1>9, <1>21
<1> QED BY <1>2, <1>3, <1>7, <1>20, <1>22, <1>23, <1>24, Zenon

-----------------------------------------------------------------------------

LEMMA InitHolds == Init => IInv
<1> SUFFICES ASSUME Init PROVE IInv OBVIOUS
<1> PICK q : q = CHOOSE x \in Queries : TRUE OBVIOUS
<1>1. q \in Queries BY ConstantsAssumption
<1>2. read = [pc |-> "none", query |-> q, offset |-> 0, sent |-> <<>>, cut |-> FALSE,
              start |-> {}, drift |-> <<>>]
  BY DEF Init, NoRead
<1>3. <<>> \in Seq(Record) /\ <<>> \in Seq([what : {"left", "joined"}, record : Record])
  OBVIOUS
<1>4. read \in [pc : {"none", "reading", "ended"}, query : Queries, offset : Nat,
                sent : Seq(Record), cut : BOOLEAN, start : SUBSET Record,
                drift : Seq([what : {"left", "joined"}, record : Record])]
  BY <1>1, <1>2, <1>3
<1>5. lastId = 0 /\ DOMAIN items = {} BY DEF Init
<1>6. TypeOK BY <1>4, <1>5, ConstantsAssumption DEF TypeOK
<1> QED BY <1>2, <1>6 DEF IInv, WalkIsExplained, EndIsExplained, SentIsPrefix

LEMMA NextKeeps == ASSUME IInv, [Next]_vars PROVE IInv'
<1>1. CASE \E r \in Rows : Create(r) BY <1>1, CreateKeeps
<1>2. CASE \E i \in Ids, r \in Rows : Update(i, r) BY <1>2, UpdateKeeps
<1>3. CASE \E i \in Ids : Delete(i) BY <1>3, DeleteKeeps
<1>4. CASE \E q \in Queries : Begin(q) BY <1>4, BeginKeeps
<1>5. CASE NextPage BY <1>5, NextPageKeeps
<1>6. CASE ExportBreaks BY <1>6, ExportBreaksKeeps
<1>7. CASE UNCHANGED vars
  <2>1. items' = items /\ lastId' = lastId /\ read' = read BY <1>7 DEF vars
  <2> QED BY <2>1 DEF IInv, TypeOK, WalkIsExplained, EndIsExplained, SentIsPrefix, Where, Result
<1> QED BY <1>1, <1>2, <1>3, <1>4, <1>5, <1>6, <1>7 DEF Next

\* The invariant holds throughout.
THEOREM IInvAlways == Spec => []IInv
<1>1. IInv /\ [Next]_vars => IInv' BY NextKeeps
<1> QED BY InitHolds, <1>1, PTL DEF Spec

\* The table, the sequence and the reader keep their types, ids come from the sequence.
THEOREM TypeCorrect == Spec => []TypeOK
<1>1. IInv => TypeOK BY DEF IInv
<1> QED BY IInvAlways, <1>1, PTL

\* ExportCSV and a client of GET /items: if no row leaves or joins the result, the pages
\* put together are the result, whatever the filter, the order and the page size.
THEOREM PagesAddUp == Spec => []PagesMakeTheResult
<1>1. IInv => PagesMakeTheResult BY SentShowsResult
<1> QED BY IInvAlways, <1>1, PTL

\* The same two over a table that changes between two pages: every row that is missing
\* or comes twice is owed to a row before it that left or joined.
THEOREM DriftIsTheReason == Spec => []DriftExplainsPages
<1>1. IInv => DriftExplainsPages BY EndShowsPages
<1> QED BY IInvAlways, <1>1, PTL

\* /analytics and the CSV export of one period, on a table at rest, tell the same: the
\* file has the count and the sum, and its amounts lie around the median and under p90.
THEOREM ExportIsThePeriod == Spec => []ExportAddsUp
<1>1. IInv => ExportAddsUp BY ExportAgrees
<1> QED BY IInvAlways, <1>1, PTL
=============================================================================
