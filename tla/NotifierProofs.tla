--------------------------- MODULE NotifierProofs ---------------------------
(***************************************************************************)
(* Proofs about Notifier, for any ids, delays, backoff, failures and       *)
(* restarts.  The invariant IInv has three parts: what the TTL of a        *)
(* waiting message owes to the time left until SendAt, what a DELETE that  *)
(* was answered leaves behind, and where a notification is as long as      *)
(* nothing was lost.  What losses and restarts can do is counted at the    *)
(* end: SendsBounded bounds the sends by the losses.                       *)
(***************************************************************************)
EXTENDS Notifier, FunctionTheorems, FiniteSetTheorems, SequenceTheorems, TLAPS

\* SendAt is less than a millisecond away.
Due(i) == wait[i] < Millisecond

\* No TTL ends a millisecond before SendAt; what left the delay queue is due.
OnTime ==
    /\ \A k \in DOMAIN delayQueue : /\ delayQueue[k].ttl + Millisecond > wait[delayQueue[k].id]
                                    /\ request[delayQueue[k].id] # "new"
    /\ \A k \in DOMAIN workQueue : Due(workQueue[k]) /\ request[workQueue[k]] # "new"
    /\ handler.pc # "idle" => Due(handler.id) /\ request[handler.id] # "new"
    /\ \A i \in Ids : request[i] = "saved" => delay[i] >= wait[i]

\* A quietly cancelled notification stays cancelled, if the store still knows it, and
\* the handler has at most its acknowledgement to send.
QuietStays ==
    \A i \in quietly :
        /\ request[i] = "accepted"
        /\ i \in stored => i \in canceled
        /\ handler.id = i => handler.pc \in {"idle", "ack"}

Waiting == [k \in DOMAIN delayQueue |-> delayQueue[k].id]

Holds(q, i) == \E k \in 1..Len(q) : q[k] = i
Once(q)     == \A k, l \in 1..Len(q) : q[k] = q[l] => k = l

\* The five places exclude each other; only an accepted or refused notification has one,
\* and an accepted one has it until it is cancelled.
Here(i) ==
    /\ request[i] # "new" => i \in stored
    /\ Holds(Waiting, i) =>
          ~Holds(workQueue, i) /\ ~InHand(i) /\ sent[i] = 0 /\ i \notin errorQueue
    /\ Holds(workQueue, i) => ~InHand(i) /\ sent[i] = 0 /\ i \notin errorQueue
    /\ InHand(i) => sent[i] = 0 /\ i \notin errorQueue
    /\ sent[i] = 0 \/ (sent[i] = 1 /\ i \notin errorQueue)
    /\ request[i] \in {"new", "saved"} =>
          /\ ~Holds(Waiting, i) /\ ~Holds(workQueue, i) /\ ~InHand(i)
          /\ sent[i] = 0 /\ i \notin errorQueue
    /\ request[i] = "accepted" /\ i \notin canceledOk =>
          \/ Holds(Waiting, i) \/ Holds(workQueue, i) \/ InHand(i)
          \/ sent[i] = 1 \/ i \in errorQueue

Clean == crashes = 0 /\ losses = 0

\* As long as nothing was lost, no queue holds an id twice, and every notification is
\* where it was put last and nowhere else.
OnePlace ==
    Clean => /\ Once(Waiting) /\ Once(workQueue)
             /\ canceled \subseteq canceledOk
             /\ \A i \in Ids : Here(i)

IInv == TypeOK /\ OnTime /\ QuietStays /\ OnePlace

-----------------------------------------------------------------------------
(* Queues.                                                                 *)

LEMMA AppendHolds ==
    ASSUME NEW S, NEW q \in Seq(S), NEW e \in S
    PROVE  /\ Append(q, e) \in Seq(S)
           /\ \A i : Holds(Append(q, e), i) <=> Holds(q, i) \/ i = e
           /\ Once(q) /\ ~Holds(q, e) => Once(Append(q, e))
<1> DEFINE r == Append(q, e)
<1>1. /\ r \in Seq(S) /\ Len(q) \in Nat /\ Len(r) = Len(q) + 1
      /\ \A k \in 1..Len(q) : r[k] = q[k]
      /\ r[Len(q) + 1] = e
  BY AppendProperties, LenProperties
<1> HIDE DEF r
<1>2. \A i : Holds(r, i) <=> Holds(q, i) \/ i = e
  BY <1>1 DEF Holds
<1>3. Once(q) /\ ~Holds(q, e) => Once(r)
  BY <1>1 DEF Once, Holds
<1>4. QED
  BY <1>1, <1>2, <1>3 DEF r

LEMMA TailHolds ==
    ASSUME NEW S, NEW q \in Seq(S), q # <<>>
    PROVE  /\ Tail(q) \in Seq(S) /\ Head(q) \in S /\ Head(q) = q[1]
           /\ Len(q) \in Nat /\ Len(q) >= 1 /\ Len(Tail(q)) = Len(q) - 1
           /\ \A k \in 1..Len(q) - 1 : Tail(q)[k] = q[k + 1]
           /\ \A i : Holds(q, i) <=> Holds(Tail(q), i) \/ i = Head(q)
           /\ Once(q) => Once(Tail(q)) /\ ~Holds(Tail(q), Head(q))
<1> DEFINE r == Tail(q)
           h == Head(q)
<1>1. /\ r \in Seq(S) /\ Len(q) \in Nat /\ Len(q) >= 1 /\ Len(r) = Len(q) - 1
      /\ \A k \in 1..Len(q) - 1 : r[k] = q[k + 1]
      /\ h = q[1] /\ h \in S
  BY HeadTailProperties, LenProperties, EmptySeq, ElementOfSeq
<1> HIDE DEF r, h
<1>2. \A i : Holds(q, i) <=> Holds(r, i) \/ i = h
  <2>1. ASSUME NEW i, Holds(q, i) PROVE Holds(r, i) \/ i = h
    <3>1. PICK k \in 1..Len(q) : q[k] = i
      BY <2>1 DEF Holds
    <3>2. CASE k = 1
      BY <1>1, <3>1, <3>2
    <3>3. CASE k # 1
      <4>1. k - 1 \in 1..Len(r) /\ r[k - 1] = i
        BY <1>1, <3>1, <3>3
      <4>2. QED
        BY <4>1 DEF Holds
    <3>4. QED
      BY <3>2, <3>3
  <2>2. ASSUME NEW i, Holds(r, i) \/ i = h PROVE Holds(q, i)
    <3>1. CASE i = h
      BY <1>1, <3>1 DEF Holds
    <3>2. CASE Holds(r, i)
      <4>1. PICK k \in 1..Len(r) : r[k] = i
        BY <3>2 DEF Holds
      <4>2. k + 1 \in 1..Len(q) /\ q[k + 1] = i
        BY <1>1, <4>1
      <4>3. QED
        BY <4>2 DEF Holds
    <3>3. QED
      BY <2>2, <3>1, <3>2
  <2>3. QED
    BY <2>1, <2>2
<1>3. ASSUME Once(q) PROVE Once(r) /\ ~Holds(r, h)
  <2>1. \A k \in 1..Len(r) : k + 1 \in 1..Len(q) /\ 1 \in 1..Len(q) /\ r[k] = q[k + 1] /\ k + 1 # 1
    BY <1>1
  <2>2. Once(r)
    BY <1>1, <1>3, <2>1 DEF Once
  <2>3. ~Holds(r, h)
    BY <1>1, <1>3, <2>1 DEF Once, Holds
  <2>4. QED
    BY <2>2, <2>3
<1>4. QED
  BY <1>1, <1>2, <1>3 DEF r, h

LEMMA QueueFacts ==
    ASSUME TypeOK
    PROVE  /\ Len(delayQueue) \in Nat /\ DOMAIN delayQueue = 1..Len(delayQueue)
           /\ Len(workQueue) \in Nat /\ DOMAIN workQueue = 1..Len(workQueue)
           /\ \A k \in DOMAIN delayQueue :
                 delayQueue[k].id \in Ids /\ delayQueue[k].ttl \in Nat
           /\ \A k \in DOMAIN workQueue : workQueue[k] \in Ids
           /\ Waiting \in Seq(Ids) /\ Len(Waiting) = Len(delayQueue)
           /\ \A k \in DOMAIN delayQueue : Waiting[k] = delayQueue[k].id
<1>1. delayQueue \in Seq([id : Ids, ttl : Nat]) /\ workQueue \in Seq(Ids)
  BY DEF TypeOK
<1>2. /\ Len(delayQueue) \in Nat /\ DOMAIN delayQueue = 1..Len(delayQueue)
      /\ Len(workQueue) \in Nat /\ DOMAIN workQueue = 1..Len(workQueue)
      /\ \A k \in DOMAIN delayQueue : delayQueue[k] \in [id : Ids, ttl : Nat]
      /\ \A k \in DOMAIN workQueue : workQueue[k] \in Ids
  BY <1>1, LenProperties, ElementOfSeq
<1>3. Waiting \in [1..Len(delayQueue) -> Ids]
  BY <1>2 DEF Waiting
<1>4. Waiting \in Seq(Ids) /\ Len(Waiting) = Len(delayQueue)
  BY <1>2, <1>3, SeqDef
<1>5. QED
  BY <1>2, <1>4 DEF Waiting

\* What the conversion to whole milliseconds cuts off is less than a millisecond.
LEMMA TruncatedTTL ==
    ASSUME NEW i, NEW t \in Nat
    PROVE  /\ Delayed(i, t).id = i /\ Delayed(i, t).ttl \in Nat
           /\ t < Delayed(i, t).ttl + Millisecond
           /\ Delayed(i, t) = [id |-> i, ttl |-> Delayed(i, t).ttl]
<1>1. Millisecond \in Nat /\ Millisecond > 0
  BY ConstantsAssumption
<1>2. t % Millisecond \in 0..Millisecond - 1
  BY <1>1
<1>3. t = Millisecond * (t \div Millisecond) + (t % Millisecond) /\ t \div Millisecond \in Nat
  BY <1>1
<1>4. Millisecond * (t \div Millisecond) \in Nat
  BY <1>1, <1>3
<1>5. t - (t % Millisecond) \in Nat /\ t < t - (t % Millisecond) + Millisecond
  BY <1>1, <1>2, <1>3, <1>4
<1>6. QED
  BY <1>5 DEF Delayed

\* What a publish does to the delay queue.
LEMMA Published ==
    ASSUME TypeOK, NEW i \in Ids, NEW t \in Nat,
           delayQueue' = Append(delayQueue, Delayed(i, t))
    PROVE  /\ delayQueue' \in Seq([id : Ids, ttl : Nat])
           /\ DOMAIN delayQueue' = 1..Len(delayQueue) + 1
           /\ \A k \in DOMAIN delayQueue : delayQueue'[k] = delayQueue[k]
           /\ delayQueue'[Len(delayQueue) + 1] = Delayed(i, t)
           /\ Waiting' = Append(Waiting, i)
<1> DEFINE q == delayQueue
           m == Delayed(i, t)
<1>1. q \in Seq([id : Ids, ttl : Nat]) /\ m \in [id : Ids, ttl : Nat] /\ m.id = i
  BY TruncatedTTL DEF TypeOK
<1> HIDE DEF m
<1>2. /\ q' = Append(q, m) /\ q' \in Seq([id : Ids, ttl : Nat])
      /\ Len(q) \in Nat /\ Len(q') = Len(q) + 1
      /\ \A k \in 1..Len(q) : q'[k] = q[k]
      /\ q'[Len(q) + 1] = m
  BY <1>1, AppendProperties, LenProperties DEF m
<1>3. DOMAIN q' = 1..Len(q) + 1 /\ DOMAIN q = 1..Len(q)
  BY <1>1, <1>2, LenProperties
<1>4. Waiting' = Append(Waiting, i)
  <2>1. Waiting \in Seq(Ids) /\ Len(Waiting) = Len(q) /\ \A k \in 1..Len(q) : Waiting[k] = q[k].id
    BY <1>3, QueueFacts
  <2> DEFINE r == Append(Waiting, i)
  <2>2. /\ r \in Seq(Ids) /\ Len(r) = Len(q) + 1 /\ r[Len(q) + 1] = i
        /\ \A k \in 1..Len(q) : r[k] = q[k].id
    BY <2>1, AppendProperties
  <2> HIDE DEF r
  <2>3. r = [k \in 1..Len(q) + 1 |-> r[k]]
    BY <2>2, LenProperties
  <2>4. \A k \in 1..Len(q) + 1 : r[k] = q'[k].id
    BY <1>1, <1>2, <2>2
  <2>5. Waiting' = [k \in 1..Len(q) + 1 |-> q'[k].id]
    BY <1>3 DEF Waiting
  <2>6. QED
    BY <2>3, <2>4, <2>5 DEF r
<1>5. QED
  BY <1>2, <1>3, <1>4 DEF m

LEMMA DeadLettered ==
    ASSUME TypeOK, delayQueue # <<>>, delayQueue' = Tail(delayQueue)
    PROVE  /\ delayQueue' \in Seq([id : Ids, ttl : Nat])
           /\ Waiting # <<>> /\ Waiting' = Tail(Waiting) /\ Head(Waiting) = Head(delayQueue).id
           /\ Head(delayQueue) = delayQueue[1] /\ 1 \in DOMAIN delayQueue
           /\ \A k \in DOMAIN delayQueue' :
                 k + 1 \in DOMAIN delayQueue /\ delayQueue'[k] = delayQueue[k + 1]
<1> DEFINE q == delayQueue
<1>1. q \in Seq([id : Ids, ttl : Nat])
  BY DEF TypeOK
<1>2. /\ q' \in Seq([id : Ids, ttl : Nat])
      /\ Len(q) \in Nat /\ Len(q) >= 1 /\ Len(q') = Len(q) - 1
      /\ \A k \in 1..Len(q) - 1 : q'[k] = q[k + 1]
      /\ Head(q) = q[1]
  BY <1>1, TailHolds
<1>3. DOMAIN q' = 1..Len(q) - 1 /\ DOMAIN q = 1..Len(q)
  BY <1>1, <1>2, LenProperties
<1>4. Waiting \in Seq(Ids) /\ Len(Waiting) = Len(q) /\ \A k \in 1..Len(q) : Waiting[k] = q[k].id
  BY <1>3, QueueFacts
<1>5. Waiting # <<>>
  BY <1>2, <1>4, EmptySeq
<1> DEFINE r == Tail(Waiting)
<1>6. /\ r \in Seq(Ids) /\ Len(r) = Len(q) - 1 /\ Head(Waiting) = Waiting[1]
      /\ \A k \in 1..Len(q) - 1 : r[k] = Waiting[k + 1]
  BY <1>4, <1>5, TailHolds
<1> HIDE DEF r
<1>7. r = [k \in 1..Len(q) - 1 |-> r[k]]
  BY <1>6, LenProperties
<1>8. \A k \in 1..Len(q) - 1 : r[k] = q'[k].id
  BY <1>2, <1>4, <1>6
<1>9. Waiting' = [k \in 1..Len(q) - 1 |-> q'[k].id]
  BY <1>3 DEF Waiting
<1>10. Waiting' = Tail(Waiting)
  BY <1>7, <1>8, <1>9 DEF r
<1>11. Head(Waiting) = Head(q).id /\ 1 \in 1..Len(q)
  BY <1>2, <1>4, <1>6
<1>12. \A k \in 1..Len(q) - 1 : k + 1 \in 1..Len(q)
  BY <1>2
<1>13. QED
  BY <1>2, <1>3, <1>5, <1>10, <1>11, <1>12

-----------------------------------------------------------------------------
(* Types.                                                                  *)

LEMMA InitTypes == Init => TypeOK
<1>1. Idle \in [pc : HandlerStates, id : Ids, copy : Nat]
  BY ConstantsAssumption DEF Idle, HandlerStates
<1>2. QED
  BY <1>1, ConstantsAssumption, EmptySeq DEF Init, TypeOK, RequestStates

LEMMA BudgetTypes ==
    ASSUME TypeOK, Try \/ Loss \/ UNCHANGED budget
    PROVE  tries' \in 0..MaxTries /\ losses' \in 0..MaxLosses /\ crashes' \in 0..MaxCrashes
<1>0. tries \in 0..MaxTries /\ losses \in 0..MaxLosses /\ crashes \in 0..MaxCrashes
  BY DEF TypeOK
<1>1. CASE Try
  BY <1>0, <1>1, ConstantsAssumption DEF Try
<1>2. CASE Loss
  BY <1>0, <1>2, ConstantsAssumption DEF Loss
<1>3. CASE UNCHANGED budget
  BY <1>0, <1>3 DEF budget
<1>4. QED
  BY <1>1, <1>2, <1>3

LEMMA HttpTypes ==
    ASSUME TypeOK, NEW i \in Ids, Save(i) \/ Publish(i) \/ PublishFails(i) \/ Cancel(i)
    PROVE  TypeOK'
<1> USE DEF TypeOK, RequestStates, store, queues, history, clock, budget
<1>1. CASE Save(i)
  <2>1. PICK d \in 0..MaxDelay : /\ delay' = [delay EXCEPT ![i] = d]
                                 /\ wait' = [wait EXCEPT ![i] = d]
    BY <1>1 DEF Save
  <2>2. delay' \in [Ids -> 0..MaxDelay] /\ wait' \in [Ids -> 0..MaxDelay]
    BY <2>1
  <2>3. request' \in [Ids -> RequestStates] /\ stored' \subseteq Ids /\ canceled' \subseteq stored'
    BY <1>1 DEF Save
  <2>4. QED
    BY <1>1, <2>2, <2>3 DEF Save
<1>2. delay[i] \in Nat
  BY ConstantsAssumption
<1>3. ASSUME NEW how \in {"accepted", "refused"}, Answer(i, how)
      PROVE  /\ request' \in [Ids -> RequestStates]
             /\ delay' \in [Ids -> 0..MaxDelay] /\ wait' \in [Ids -> 0..MaxDelay]
  BY <1>3, ConstantsAssumption DEF Answer
<1>4. CASE Publish(i)
  <2>1. delayQueue' \in Seq([id : Ids, ttl : Nat])
    BY <1>2, <1>4, Published DEF Publish
  <2>2. QED
    BY <1>4, <1>3, <2>1 DEF Publish
<1>5. CASE PublishFails(i)
  <2>1. delayQueue' \in Seq([id : Ids, ttl : Nat])
    BY <1>2, <1>5, Published DEF PublishFails
  <2>2. tries' \in 0..MaxTries /\ losses' \in 0..MaxLosses /\ crashes' \in 0..MaxCrashes
    BY <1>5, BudgetTypes DEF PublishFails
  <2>3. QED
    BY <1>5, <1>3, <2>1, <2>2 DEF PublishFails
<1>6. CASE Cancel(i)
  BY <1>6 DEF Cancel
<1>7. QED
  BY <1>1, <1>4, <1>5, <1>6

LEMMA CountedIsSeq == ASSUME NEW T, NEW m \in Nat, NEW s \in [1..m -> T] PROVE s \in Seq(T)
OBVIOUS

LEMMA Ticked ==
    ASSUME TypeOK, Tick
    PROVE  /\ delayQueue' \in Seq([id : Ids, ttl : Nat]) /\ Waiting' = Waiting
           /\ DOMAIN delayQueue' = DOMAIN delayQueue
           /\ \A k \in DOMAIN delayQueue :
                 /\ delayQueue'[k].id = delayQueue[k].id
                 /\ delayQueue'[k].ttl = Less(delayQueue[k].ttl)
<1> DEFINE n == Len(delayQueue)
<1>1. /\ n \in Nat /\ DOMAIN delayQueue = 1..n
      /\ \A k \in 1..n : delayQueue[k].id \in Ids /\ delayQueue[k].ttl \in Nat
  BY QueueFacts
<1>2. delayQueue' = [k \in 1..n |-> [delayQueue[k] EXCEPT !.ttl = Less(@)]]
  BY <1>1 DEF Tick
<1>3. \A k \in 1..n :
        /\ delayQueue[k] \in [id : Ids, ttl : Nat]
        /\ [delayQueue[k] EXCEPT !.ttl = Less(@)] = [id |-> delayQueue[k].id, ttl |-> Less(delayQueue[k].ttl)]
        /\ Less(delayQueue[k].ttl) \in Nat
  <2>1. \A k \in 1..n : delayQueue[k] \in [id : Ids, ttl : Nat]
    BY <1>1, ElementOfSeq DEF TypeOK
  <2>2. QED
    BY <1>1, <2>1 DEF Less
<1>4. delayQueue' \in [1..n -> [id : Ids, ttl : Nat]]
  BY <1>1, <1>2, <1>3
<1>5. delayQueue' \in Seq([id : Ids, ttl : Nat])
  BY <1>1, <1>4, CountedIsSeq, Zenon
<1>6. /\ DOMAIN delayQueue' = 1..n
      /\ \A k \in 1..n : /\ delayQueue'[k].id = delayQueue[k].id
                         /\ delayQueue'[k].ttl = Less(delayQueue[k].ttl)
  BY <1>2, <1>3
<1>7. Waiting' = Waiting
  BY <1>1, <1>6 DEF Waiting
<1>8. QED
  BY <1>1, <1>5, <1>6, <1>7

LEMMA BrokerTypes == ASSUME TypeOK, Tick \/ DeadLetter PROVE TypeOK'
<1> USE DEF TypeOK, store, queues, history, clock, budget
<1>1. CASE Tick
  <2>1. \A i \in Ids : Less(wait[i]) \in 0..MaxDelay
    BY ConstantsAssumption DEF Less
  <2>2. wait' \in [Ids -> 0..MaxDelay]
    BY <1>1, <2>1 DEF Tick
  <2>3. delayQueue' \in Seq([id : Ids, ttl : Nat])
    BY <1>1, Ticked
  <2>4. QED
    BY <1>1, <2>2, <2>3 DEF Tick
<1>2. CASE DeadLetter
  <2>1. /\ delayQueue' \in Seq([id : Ids, ttl : Nat])
        /\ Head(delayQueue).id \in Ids
    BY <1>2, DeadLettered, QueueFacts DEF DeadLetter
  <2>2. workQueue' \in Seq(Ids)
    BY <1>2, <2>1, AppendHolds DEF DeadLetter
  <2>3. QED
    BY <1>2, <2>1, <2>2 DEF DeadLetter
<1>3. QED
  BY <1>1, <1>2

LEMMA RecordTurn ==
    ASSUME NEW A, NEW B, NEW C, NEW r \in [pc : A, id : B, copy : C], NEW a \in A, NEW c \in C
    PROVE  [r EXCEPT !.pc = a, !.copy = c] \in [pc : A, id : B, copy : C]
OBVIOUS

\* What the broker delivers again is first in the work queue.
LEMMA Requeued ==
    ASSUME TypeOK, workQueue' = <<handler.id>> \o workQueue
    PROVE  /\ workQueue' \in Seq(Ids) /\ Len(workQueue) \in Nat
           /\ Len(workQueue') = Len(workQueue) + 1 /\ workQueue'[1] = handler.id
           /\ \A k \in 1..Len(workQueue) : workQueue'[k + 1] = workQueue[k]
<1> DEFINE one == <<handler.id>>
<1>1. workQueue \in Seq(Ids) /\ Len(workQueue) \in Nat /\ handler.id \in Ids
  BY QueueFacts DEF TypeOK
<1>2. one \in Seq(Ids) /\ Len(one) = 1 /\ one[1] = handler.id
  BY <1>1
<1> HIDE DEF one
<1>3. /\ workQueue' \in Seq(Ids) /\ Len(workQueue') = 1 + Len(workQueue)
      /\ \A k \in 1..1 + Len(workQueue) :
            workQueue'[k] = IF k <= 1 THEN one[k] ELSE workQueue[k - 1]
  <2>1. workQueue' = one \o workQueue
    BY DEF one
  <2>2. QED
    BY <1>1, <1>2, <2>1, ConcatProperties
<1>4. QED
  BY <1>1, <1>2, <1>3

LEMMA Redelivered ==
    ASSUME TypeOK, Crash \/ AckLost
    PROVE  /\ workQueue' \in Seq(Ids)
           /\ \A k \in 1..Len(workQueue') :
                 \/ k \in 1..Len(workQueue) /\ workQueue'[k] = workQueue[k]
                 \/ k - 1 \in 1..Len(workQueue) /\ workQueue'[k] = workQueue[k - 1]
                 \/ handler.pc # "idle" /\ workQueue'[k] = handler.id
<1>1. CASE workQueue' = workQueue
  BY <1>1 DEF TypeOK
<1>2. CASE workQueue' = <<handler.id>> \o workQueue /\ handler.pc # "idle"
  <2>1. /\ workQueue' \in Seq(Ids) /\ Len(workQueue) \in Nat
        /\ Len(workQueue') = Len(workQueue) + 1 /\ workQueue'[1] = handler.id
        /\ \A k \in 1..Len(workQueue) : workQueue'[k + 1] = workQueue[k]
    BY <1>2, Requeued
  <2>2. QED
    BY <1>2, <2>1
<1>3. QED
  BY <1>1, <1>2 DEF Crash, AckLost

LEMMA HandlerTypes == ASSUME TypeOK, HandlerStep PROVE TypeOK'
<1> USE DEF TypeOK, HandlerStates, store, queues, history, clock, budget
<1>1. CASE Deliver
  <2>1. workQueue # <<>> /\ workQueue' = Tail(workQueue)
    BY <1>1 DEF Deliver
  <2>2. workQueue' \in Seq(Ids) /\ Head(workQueue) \in Ids
    BY <2>1, TailHolds
  <2>3. handler' \in [pc : HandlerStates, id : Ids, copy : Nat]
    BY <1>1, <2>2 DEF Deliver
  <2>4. UNCHANGED <<request, clock, store, delayQueue, errorQueue, sent, history, budget>>
    BY <1>1 DEF Deliver
  <2>5. QED
    BY <2>2, <2>3, <2>4
<1>2. CASE SendOk \/ SendTemporary \/ SendAnswerLost \/ SendFatal
  <2>1. tries' \in 0..MaxTries /\ losses' \in 0..MaxLosses /\ crashes' \in 0..MaxCrashes
    <3>1. Try \/ Loss \/ UNCHANGED budget
      <4>1. CASE SendOk \/ SendFatal
        BY <4>1 DEF SendOk, SendFatal
      <4>2. CASE SendTemporary \/ SendAnswerLost
        BY <4>2 DEF SendTemporary, SendAnswerLost
      <4>3. QED
        BY <1>2, <4>1, <4>2
    <3>2. QED
      BY <3>1, BudgetTypes
  <2>2. sent' \in [Ids -> Nat]
    BY <1>2 DEF SendOk, SendTemporary, SendAnswerLost, SendFatal, Telegram
  <2>3. handler' \in [pc : HandlerStates, id : Ids, copy : Nat]
    BY <1>2 DEF SendOk, SendTemporary, SendAnswerLost, SendFatal, Goto
  <2>4. UNCHANGED <<request, clock, store, queues, history>>
    BY <1>2 DEF SendOk, SendTemporary, SendAnswerLost, SendFatal, Goto
  <2>5. QED
    BY <2>1, <2>2, <2>3, <2>4
<1>3. CASE KeepTry \/ KeepError \/ KeepOk
  <2>1. handler' \in [pc : HandlerStates, id : Ids, copy : Nat]
    <3>1. CASE KeepTry
      <4>1. handler' = [handler EXCEPT !.pc = "retry", !.copy = handler.copy + 1]
        BY <3>1 DEF KeepTry
      <4>2. handler.copy + 1 \in Nat
        OBVIOUS
      <4>3. QED
        BY <4>1, <4>2, RecordTurn
    <3>2. CASE KeepError \/ KeepOk
      BY <3>2 DEF KeepError, KeepOk, Goto
    <3>3. QED
      BY <1>3, <3>1, <3>2
  <2>2. canceled' \subseteq stored /\ attempts' \in [Ids -> Nat]
    BY <1>3 DEF KeepTry, KeepError, KeepOk, Update
  <2>3. UNCHANGED <<request, clock, stored, queues, sent, history, budget>>
    BY <1>3 DEF KeepTry, KeepError, KeepOk, Goto, Update
  <2>4. QED
    BY <2>1, <2>2, <2>3
<1>4. CASE Retry \/ RetryFails \/ ToErrors \/ ToErrorsFails \/ Ack
  <2>1. handler.copy * Backoff \in Nat /\ handler.id \in Ids
    BY ConstantsAssumption
  <2>2. delayQueue' \in Seq([id : Ids, ttl : Nat])
    <3>1. \/ delayQueue' = delayQueue
          \/ delayQueue' = Append(delayQueue, Delayed(handler.id, handler.copy * Backoff))
      BY <1>4 DEF Retry, RetryFails, ToErrors, ToErrorsFails, Ack
    <3>2. CASE delayQueue' = delayQueue
      BY <3>2
    <3>3. CASE delayQueue' = Append(delayQueue, Delayed(handler.id, handler.copy * Backoff))
      BY <2>1, <3>3, Published
    <3>4. QED
      BY <3>1, <3>2, <3>3
  <2>3. tries' \in 0..MaxTries /\ losses' \in 0..MaxLosses /\ crashes' \in 0..MaxCrashes
    <3>1. Loss \/ UNCHANGED budget
      BY <1>4 DEF Retry, RetryFails, ToErrors, ToErrorsFails, Ack
    <3>2. QED
      BY <3>1, BudgetTypes
  <2>4. handler' \in [pc : HandlerStates, id : Ids, copy : Nat] /\ errorQueue' \subseteq Ids
    BY <1>4 DEF Retry, RetryFails, ToErrors, ToErrorsFails, Ack, Goto
  <2>5. UNCHANGED <<request, clock, store, workQueue, sent, history>>
    BY <1>4 DEF Retry, RetryFails, ToErrors, ToErrorsFails, Ack, Goto
  <2>6. QED
    BY <2>2, <2>3, <2>4, <2>5
<1>5. CASE AckLost
  <2>1. workQueue' \in Seq(Ids)
    BY <1>5, Redelivered
  <2>2. tries' \in 0..MaxTries /\ losses' \in 0..MaxLosses /\ crashes' \in 0..MaxCrashes
    BY <1>5, BudgetTypes DEF AckLost
  <2>3. handler' \in [pc : HandlerStates, id : Ids, copy : Nat]
    BY <1>5 DEF AckLost
  <2>4. UNCHANGED <<request, clock, store, delayQueue, errorQueue, sent, history>>
    BY <1>5 DEF AckLost
  <2>5. QED
    BY <2>1, <2>2, <2>3, <2>4
<1>6. QED
  BY <1>1, <1>2, <1>3, <1>4, <1>5 DEF HandlerStep

LEMMA CrashTypes == ASSUME TypeOK, Crash PROVE TypeOK'
<1>1. workQueue' \in Seq(Ids)
  BY Redelivered
<1>2. Idle \in [pc : HandlerStates, id : Ids, copy : Nat]
  BY DEF Idle, HandlerStates, TypeOK
<1>3. crashes' \in 0..MaxCrashes
  BY ConstantsAssumption DEF TypeOK, Crash
<1>4. request' \in [Ids -> RequestStates]
  BY DEF TypeOK, Crash, RequestStates
<1>5. delay' \in [Ids -> 0..MaxDelay]
  BY ConstantsAssumption DEF Crash
<1>6. QED
  BY <1>1, <1>2, <1>3, <1>4, <1>5 DEF TypeOK, Crash, history

LEMMA TypesKeep == ASSUME TypeOK, [Next]_vars PROVE TypeOK'
<1>1. CASE UNCHANGED vars
  BY <1>1 DEF vars, TypeOK
<1>2. QED
  BY <1>1, HttpTypes, BrokerTypes, HandlerTypes, CrashTypes DEF Next

-----------------------------------------------------------------------------
(* No delivery is early by a millisecond.                                  *)

LEMMA InitOnTime == Init => OnTime
BY DEF Init, OnTime, Idle, Due

\* What a step that moves no message and starts no delivery must leave alone.
LEMMA TimeRests ==
    ASSUME TypeOK, OnTime, UNCHANGED <<wait, delayQueue, workQueue>>,
           handler'.pc # "idle" => handler.pc # "idle" /\ handler'.id = handler.id,
           \A i \in Ids : request[i] # "new" => request'[i] # "new",
           \A i \in Ids : request'[i] = "saved" => request[i] = "saved" /\ delay'[i] = delay[i]
    PROVE  OnTime'
<1>1. handler.id \in Ids
  BY DEF TypeOK
<1>2. QED
  BY <1>1, QueueFacts DEF OnTime, Due

LEMMA PublishOnTime ==
    ASSUME TypeOK, OnTime, NEW i \in Ids, NEW t \in Nat, wait[i] <= t \/ Due(i), request'[i] # "new",
           delayQueue' = Append(delayQueue, Delayed(i, t)), UNCHANGED <<wait, workQueue>>,
           handler'.pc # "idle" => handler.pc # "idle" /\ handler'.id = handler.id,
           \A j \in Ids : request[j] # "new" => request'[j] # "new",
           \A j \in Ids : request'[j] = "saved" => request[j] = "saved" /\ delay'[j] = delay[j]
    PROVE  OnTime'
<1>1. /\ DOMAIN delayQueue' = 1..Len(delayQueue) + 1 /\ DOMAIN delayQueue = 1..Len(delayQueue)
      /\ Len(delayQueue) \in Nat
      /\ \A k \in DOMAIN delayQueue : delayQueue'[k] = delayQueue[k]
      /\ delayQueue'[Len(delayQueue) + 1] = Delayed(i, t)
      /\ \A k \in DOMAIN delayQueue : delayQueue[k].id \in Ids
  BY Published, QueueFacts
<1>2. ASSUME NEW k \in DOMAIN delayQueue'
      PROVE  /\ delayQueue'[k].ttl + Millisecond > wait'[delayQueue'[k].id]
             /\ request'[delayQueue'[k].id] # "new"
  <2>1. CASE k \in DOMAIN delayQueue
    BY <1>1, <2>1 DEF OnTime
  <2>2. CASE k = Len(delayQueue) + 1
    <3>1. wait'[i] = wait[i] /\ wait[i] \in Nat /\ Millisecond \in Nat
      BY ConstantsAssumption DEF TypeOK
    <3>2. /\ Delayed(i, t).id = i /\ Delayed(i, t).ttl \in Nat
          /\ t < Delayed(i, t).ttl + Millisecond
      BY TruncatedTTL
    <3>3. Delayed(i, t).ttl + Millisecond > wait'[i]
      BY <3>1, <3>2 DEF Due
    <3>4. QED
      BY <1>1, <2>2, <3>2, <3>3
  <2>3. QED
    BY <1>1, <2>1, <2>2
<1>3. handler.id \in Ids /\ \A k \in DOMAIN workQueue : workQueue[k] \in Ids
  BY QueueFacts DEF TypeOK
<1>4. QED
  BY <1>2, <1>3 DEF OnTime, Due

LEMMA HttpOnTime ==
    ASSUME TypeOK, OnTime, NEW i \in Ids, Save(i) \/ Publish(i) \/ PublishFails(i) \/ Cancel(i)
    PROVE  OnTime'
<1>0. request \in [Ids -> RequestStates] /\ delay[i] \in Nat /\ wait[i] \in Nat
      /\ delay \in [Ids -> 0..MaxDelay] /\ wait \in [Ids -> 0..MaxDelay]
  BY ConstantsAssumption DEF TypeOK
<1>1. CASE Save(i)
  <2>1. PICK d \in 0..MaxDelay : /\ delay' = [delay EXCEPT ![i] = d]
                                 /\ wait' = [wait EXCEPT ![i] = d]
    BY <1>1 DEF Save
  <2>2. /\ request[i] = "new" /\ request' = [request EXCEPT ![i] = "saved"]
        /\ UNCHANGED <<delayQueue, workQueue, handler>>
    BY <1>1 DEF Save, queues
  <2>3. \A j \in Ids \ {i} : request'[j] = request[j] /\ wait'[j] = wait[j] /\ delay'[j] = delay[j]
    BY <1>0, <2>1, <2>2
  <2>4. request'[i] # "new" /\ delay'[i] = d /\ wait'[i] = d /\ d \in Nat
    BY <1>0, <2>1, <2>2, ConstantsAssumption
  <2>5. handler.id \in Ids
    BY DEF TypeOK
  <2>6. \A k \in DOMAIN delayQueue : delayQueue[k].id \in Ids \ {i}
    BY <2>2, QueueFacts DEF OnTime
  <2>7. \A k \in DOMAIN workQueue : workQueue[k] \in Ids \ {i}
    BY <2>2, QueueFacts DEF OnTime
  <2>8. QED
    BY <2>2, <2>3, <2>4, <2>5, <2>6, <2>7 DEF OnTime, Due
<1>2. ASSUME NEW s \in {"accepted", "refused"}, Answer(i, s),
             delayQueue' \in {delayQueue, Append(delayQueue, Delayed(i, delay[i]))},
             UNCHANGED <<workQueue, handler>>
      PROVE  OnTime'
  <2>1. /\ \A j \in Ids : request[j] # "new" => request'[j] # "new"
        /\ \A j \in Ids : request'[j] = "saved" => request[j] = "saved" /\ delay'[j] = delay[j]
        /\ request'[i] # "new" /\ UNCHANGED wait
    BY <1>0, <1>2 DEF Answer
  <2>2. wait[i] <= delay[i]
    BY <1>0, <1>2 DEF OnTime, Answer
  <2>3. QED
    BY <1>0, <1>2, <2>1, <2>2, TimeRests, PublishOnTime
<1>3. CASE Publish(i) \/ PublishFails(i)
  BY <1>2, <1>3 DEF Publish, PublishFails
<1>4. CASE Cancel(i)
  BY <1>4, TimeRests DEF Cancel, clock, queues
<1>5. QED
  BY <1>1, <1>3, <1>4

LEMMA BrokerOnTime == ASSUME TypeOK, OnTime, Tick \/ DeadLetter PROVE OnTime'
<1>1. CASE Tick
  <2>1. /\ UNCHANGED <<request, delay, workQueue, handler>>
        /\ wait' = [i \in Ids |-> Less(wait[i])]
    BY <1>1 DEF Tick
  <2>2. /\ DOMAIN delayQueue' = DOMAIN delayQueue
        /\ \A k \in DOMAIN delayQueue :
              /\ delayQueue'[k].id = delayQueue[k].id
              /\ delayQueue'[k].ttl = Less(delayQueue[k].ttl)
              /\ delayQueue[k].id \in Ids /\ delayQueue[k].ttl \in Nat
    BY <1>1, Ticked, QueueFacts
  <2>3. /\ Millisecond \in Nat /\ Millisecond > 0
        /\ \A m, n \in Nat : /\ m + Millisecond > n => Less(m) + Millisecond > Less(n)
                             /\ m >= n => m >= Less(n)
                             /\ Less(n) <= n /\ Less(n) \in Nat
    BY ConstantsAssumption DEF Less
  <2>4. \A i \in Ids : wait[i] \in Nat /\ delay[i] \in Nat /\ wait'[i] = Less(wait[i])
    BY <2>1, ConstantsAssumption DEF TypeOK
  <2>5. handler.id \in Ids /\ \A k \in DOMAIN workQueue : workQueue[k] \in Ids
    BY QueueFacts DEF TypeOK
  <2>6. \A k \in DOMAIN delayQueue' : /\ delayQueue'[k].ttl + Millisecond > wait'[delayQueue'[k].id]
                                      /\ request'[delayQueue'[k].id] # "new"
    BY <2>1, <2>2, <2>3, <2>4 DEF OnTime
  <2>7. \A i \in Ids : (Due(i) => Due(i)') /\ (delay[i] >= wait[i] => delay'[i] >= wait'[i])
    BY <2>1, <2>3, <2>4 DEF Due
  <2>8. QED
    BY <2>1, <2>5, <2>6, <2>7 DEF OnTime
<1>2. CASE DeadLetter
  <2> DEFINE h == Head(delayQueue).id
  <2>1. /\ delayQueue # <<>> /\ delayQueue' = Tail(delayQueue) /\ Head(delayQueue).ttl = 0
        /\ workQueue' = Append(workQueue, h)
        /\ UNCHANGED <<request, delay, wait, handler>>
    BY <1>2 DEF DeadLetter, clock
  <2>2. /\ Head(delayQueue) = delayQueue[1] /\ 1 \in DOMAIN delayQueue
        /\ \A k \in DOMAIN delayQueue' :
              k + 1 \in DOMAIN delayQueue /\ delayQueue'[k] = delayQueue[k + 1]
    BY <2>1, DeadLettered
  <2>3. h \in Ids /\ Due(h) /\ request[h] # "new"
    <3>1. h \in Ids
      BY <2>2, QueueFacts
    <3>2. wait[h] \in Nat /\ Millisecond \in Nat
      BY <3>1, ConstantsAssumption DEF TypeOK
    <3>3. QED
      BY <2>1, <2>2, <3>1, <3>2 DEF OnTime, Due
  <2> HIDE DEF h
  <2>4. \A k \in DOMAIN workQueue' : wait[workQueue'[k]] < Millisecond /\ request[workQueue'[k]] # "new"
    <3>1. /\ workQueue \in Seq(Ids) /\ Len(workQueue) \in Nat
          /\ DOMAIN workQueue = 1..Len(workQueue)
      BY QueueFacts DEF TypeOK
    <3>2. /\ Len(workQueue') = Len(workQueue) + 1 /\ DOMAIN workQueue' = 1..Len(workQueue')
          /\ \A k \in 1..Len(workQueue) : workQueue'[k] = workQueue[k]
          /\ workQueue'[Len(workQueue) + 1] = h
      BY <2>1, <2>3, <3>1, AppendProperties, LenProperties
    <3>3. QED
      BY <2>3, <3>1, <3>2 DEF OnTime, Due
  <2>5. QED
    BY <2>1, <2>2, <2>4 DEF OnTime, Due
<1>3. QED
  BY <1>1, <1>2

LEMMA HandlerOnTime == ASSUME TypeOK, OnTime, HandlerStep PROVE OnTime'
<1>0. handler \in [pc : HandlerStates, id : Ids, copy : Nat] /\ handler.id \in Ids
      /\ wait[handler.id] \in Nat
  BY ConstantsAssumption DEF TypeOK
<1>1. CASE Deliver
  <2>1. /\ workQueue # <<>> /\ workQueue' = Tail(workQueue) /\ handler'.id = Head(workQueue)
        /\ UNCHANGED <<request, delay, wait, delayQueue>>
    BY <1>1 DEF Deliver, clock
  <2>2. /\ Head(workQueue) = workQueue[1] /\ 1 \in DOMAIN workQueue
        /\ \A k \in DOMAIN workQueue' :
              k + 1 \in DOMAIN workQueue /\ workQueue'[k] = workQueue[k + 1]
    <3>1. /\ workQueue \in Seq(Ids) /\ workQueue' \in Seq(Ids)
          /\ Len(workQueue) \in Nat /\ Len(workQueue) >= 1 /\ Len(workQueue') = Len(workQueue) - 1
          /\ \A k \in 1..Len(workQueue) - 1 : workQueue'[k] = workQueue[k + 1]
          /\ Head(workQueue) = workQueue[1]
      BY <2>1, TailHolds DEF TypeOK
    <3>2. DOMAIN workQueue = 1..Len(workQueue) /\ DOMAIN workQueue' = 1..Len(workQueue')
      BY <3>1, LenProperties
    <3>3. QED
      BY <3>1, <3>2
  <2>3. QED
    BY <2>1, <2>2 DEF OnTime, Due
<1>2. ASSUME handler.pc # "idle", handler'.id = handler.id,
             UNCHANGED <<request, delay, wait, workQueue>>,
             \/ delayQueue' = delayQueue
             \/ delayQueue' = Append(delayQueue, Delayed(handler.id, handler.copy * Backoff))
      PROVE  OnTime'
  <2>1. handler.copy * Backoff \in Nat
    BY <1>0, ConstantsAssumption
  <2>2. Due(handler.id) /\ request[handler.id] # "new"
    BY <1>2 DEF OnTime
  <2>3. QED
    BY <1>0, <1>2, <2>1, <2>2, TimeRests, PublishOnTime
<1>3. CASE SendOk \/ SendTemporary \/ SendAnswerLost \/ SendFatal
  BY <1>0, <1>2, <1>3 DEF SendOk, SendTemporary, SendAnswerLost, SendFatal, Goto, clock
<1>4. CASE KeepTry \/ KeepError \/ KeepOk
  BY <1>0, <1>2, <1>4 DEF KeepTry, KeepError, KeepOk, Goto, Update, clock
<1>5. CASE Retry \/ RetryFails \/ ToErrors \/ ToErrorsFails \/ Ack
  BY <1>0, <1>2, <1>5 DEF Retry, RetryFails, ToErrors, ToErrorsFails, Ack, Goto, clock
<1>6. CASE AckLost
  <2>1. /\ UNCHANGED <<request, delay, wait, delayQueue>> /\ handler'.pc = "idle"
        /\ handler.pc = "ack"
    BY <1>0, <1>6 DEF AckLost, clock
  <2>2. /\ DOMAIN workQueue' = 1..Len(workQueue') /\ DOMAIN workQueue = 1..Len(workQueue)
        /\ \A k \in DOMAIN workQueue : workQueue[k] \in Ids
    BY <1>6, Redelivered, QueueFacts, LenProperties
  <2>3. \A k \in DOMAIN workQueue' : Due(workQueue'[k]) /\ request[workQueue'[k]] # "new"
    BY <1>6, <2>1, <2>2, Redelivered DEF OnTime
  <2>4. QED
    BY <2>1, <2>3 DEF OnTime, Due
<1>7. QED
  BY <1>1, <1>3, <1>4, <1>5, <1>6 DEF HandlerStep

LEMMA CrashOnTime == ASSUME TypeOK, OnTime, Crash PROVE OnTime'
<1>1. /\ UNCHANGED <<wait, delayQueue>> /\ handler'.pc = "idle"
      /\ \A i \in Ids : request[i] # "new" => request'[i] # "new"
      /\ \A i \in Ids : request'[i] # "saved"
  BY DEF Crash, Idle
<1>2. handler.id \in Ids
  BY DEF TypeOK
<1>3. \A k \in DOMAIN workQueue' : Due(workQueue'[k]) /\ request'[workQueue'[k]] # "new"
  <2>1. DOMAIN workQueue' = 1..Len(workQueue') /\ DOMAIN workQueue = 1..Len(workQueue)
        /\ Len(workQueue) \in Nat /\ \A k \in DOMAIN workQueue : workQueue[k] \in Ids
    BY Redelivered, QueueFacts, LenProperties
  <2>2. QED
    BY <1>1, <1>2, <2>1, Redelivered DEF OnTime
<1>4. QED
  BY <1>1, <1>3, QueueFacts DEF OnTime, Due

LEMMA OnTimeKeeps == ASSUME TypeOK, OnTime, [Next]_vars PROVE OnTime'
<1>1. CASE UNCHANGED vars
  BY <1>1, TimeRests DEF vars
<1>2. QED
  BY <1>1, HttpOnTime, BrokerOnTime, HandlerOnTime, CrashOnTime DEF Next

-----------------------------------------------------------------------------
(* A DELETE that found the handler elsewhere holds.                        *)

LEMMA QuietKeeps == ASSUME TypeOK, QuietStays, [Next]_vars PROVE QuietStays'
<1> USE DEF QuietStays
<1>0. /\ request \in [Ids -> RequestStates] /\ handler \in [pc : HandlerStates, id : Ids, copy : Nat]
      /\ quietly \subseteq Ids /\ canceled \subseteq stored
  BY DEF TypeOK
<1>1. CASE UNCHANGED vars
  BY <1>1 DEF vars
<1>2. ASSUME NEW i \in Ids, Save(i) PROVE QuietStays'
  BY <1>0, <1>2 DEF Save, history
<1>3. ASSUME NEW i \in Ids, Publish(i) \/ PublishFails(i) PROVE QuietStays'
  <2>1. /\ request[i] = "saved" /\ \A j \in Ids \ {i} : request'[j] = request[j]
        /\ UNCHANGED <<quietly, stored, canceled, handler>>
    BY <1>0, <1>3 DEF Publish, PublishFails, Answer, store, history
  <2>2. QED
    BY <1>0, <2>1
<1>4. ASSUME NEW i \in Ids, Cancel(i) PROVE QuietStays'
  BY <1>0, <1>4 DEF Cancel
<1>5. CASE Tick \/ DeadLetter
  BY <1>5 DEF Tick, DeadLetter, store, history
<1>6. CASE Deliver
  <2> DEFINE i == Head(workQueue)
  <2>1. /\ handler'.id = i /\ handler'.pc = IF i \in stored \ canceled THEN "send" ELSE "ack"
        /\ UNCHANGED <<quietly, request, stored, canceled>>
    BY <1>6 DEF Deliver, store, history
  <2> HIDE DEF i
  <2>2. QED
    BY <2>1
\* The handler is at work on a notification that is not among the quiet ones.
<1>7. ASSUME handler.pc \notin {"idle", "ack"}, handler'.id = handler.id,
             UNCHANGED <<quietly, request, stored>>, canceled \ {handler.id} \subseteq canceled'
      PROVE  QuietStays'
  BY <1>7
<1>8. CASE SendOk \/ SendTemporary \/ SendAnswerLost \/ SendFatal
  BY <1>0, <1>7, <1>8 DEF SendOk, SendTemporary, SendAnswerLost, SendFatal, Goto, store, history
<1>9. CASE KeepTry \/ KeepError \/ KeepOk
  BY <1>0, <1>7, <1>9 DEF KeepTry, KeepError, KeepOk, Goto, Update, history
<1>10. CASE Retry \/ RetryFails \/ ToErrors \/ ToErrorsFails
  BY <1>0, <1>7, <1>10 DEF Retry, RetryFails, ToErrors, ToErrorsFails, Goto, store, history
<1>11. CASE Ack \/ AckLost
  BY <1>0, <1>11 DEF Ack, AckLost, Goto, store, history
<1>12. CASE Crash
  <2>1. /\ \A i \in Ids : request[i] = "accepted" => request'[i] = "accepted"
        /\ stored' = {} /\ handler'.pc = "idle" /\ quietly' = quietly
    BY <1>0, <1>12 DEF Crash, Idle, history
  <2>2. QED
    BY <1>0, <2>1
<1>13. QED
  BY <1>1, <1>2, <1>3, <1>4, <1>5, <1>6, <1>8, <1>9, <1>10, <1>11, <1>12 DEF Next, HandlerStep

-----------------------------------------------------------------------------
(* One place for each notification, as long as nothing is lost.            *)

LEMMA InitOnePlace == Init => OnePlace
<1> SUFFICES ASSUME Init PROVE OnePlace
  OBVIOUS
<1>1. Waiting = <<>> /\ workQueue = <<>>
  BY DEF Init, Waiting
<1>2. Len(<<>>) = 0
  BY EmptySeq
<1>3. QED
  BY <1>1, <1>2 DEF Init, OnePlace, Here, Once, Holds, InHand, Idle

\* What a step leaves alone about one notification.
Rests(i) ==
    /\ request'[i] = request[i] /\ stored \subseteq stored' /\ canceledOk \subseteq canceledOk'
    /\ Holds(Waiting, i)' <=> Holds(Waiting, i)
    /\ Holds(workQueue, i)' <=> Holds(workQueue, i)
    /\ InHand(i)' <=> InHand(i)
    /\ sent'[i] = sent[i]
    /\ i \in errorQueue' <=> i \in errorQueue

LEMMA HereRests == ASSUME NEW i \in Ids, Here(i), Rests(i) PROVE Here(i)'
BY DEF Here, Rests

LEMMA OneMoves ==
    ASSUME OnePlace, Clean, NEW i \in Ids, Here(i)', \A j \in Ids \ {i} : Rests(j),
           canceled' \subseteq canceledOk', Once(Waiting)', Once(workQueue)'
    PROVE  OnePlace'
BY HereRests DEF OnePlace

LEMMA NoneMoves ==
    ASSUME OnePlace, Clean, \A j \in Ids : Rests(j),
           canceled' \subseteq canceledOk', UNCHANGED <<Waiting, workQueue>>
    PROVE  OnePlace'
BY HereRests DEF OnePlace, Once

\* Steps of a handler that stays at its notification.
LEMMA HandStays ==
    ASSUME TypeOK, OnePlace, Clean, UNCHANGED <<request, stored, canceledOk, delayQueue, workQueue, sent, errorQueue>>,
           canceled' \subseteq canceled, handler'.id = handler.id,
           InHand(handler.id)' <=> InHand(handler.id)
    PROVE  OnePlace'
<1>1. \A j \in Ids : InHand(j)' <=> InHand(j)
  BY DEF InHand
<1>2. UNCHANGED Waiting
  BY DEF Waiting
<1>3. \A j \in Ids : Rests(j)
  BY <1>1, <1>2 DEF Rests, Holds
<1>4. QED
  BY <1>2, <1>3, NoneMoves DEF OnePlace

LEMMA HttpOnePlace ==
    ASSUME TypeOK, OnePlace, Clean, NEW i \in Ids, Save(i) \/ Publish(i) \/ Cancel(i)
    PROVE  OnePlace'
<1>0. request \in [Ids -> RequestStates] /\ Here(i) /\ canceled \subseteq canceledOk
      /\ Once(Waiting) /\ Once(workQueue)
  BY DEF TypeOK, OnePlace
<1>1. CASE Save(i)
  <2>1. /\ request[i] = "new" /\ request' = [request EXCEPT ![i] = "saved"]
        /\ stored' = stored \cup {i}
        /\ UNCHANGED <<canceled, canceledOk, delayQueue, workQueue, errorQueue, handler, sent>>
    BY <1>1 DEF Save, queues, history
  <2>2. UNCHANGED Waiting
    BY <2>1 DEF Waiting
  <2>3. /\ Holds(Waiting, i)' <=> Holds(Waiting, i)
        /\ Holds(workQueue, i)' <=> Holds(workQueue, i)
        /\ InHand(i)' <=> InHand(i)
    BY <2>1, <2>2 DEF Holds, InHand
  <2>4. Here(i)'
    BY <1>0, <2>1, <2>3 DEF Here
  <2>5. \A j \in Ids \ {i} : Rests(j)
    BY <1>0, <2>1, <2>2 DEF Rests, Holds, InHand
  <2>6. QED
    BY <1>0, <2>1, <2>2, <2>4, <2>5, OneMoves DEF Once
<1>2. CASE Publish(i)
  <2>1. /\ request[i] = "saved" /\ request' = [request EXCEPT ![i] = "accepted"]
        /\ delayQueue' = Append(delayQueue, Delayed(i, delay[i])) /\ delay[i] \in Nat
        /\ UNCHANGED <<stored, canceled, canceledOk, workQueue, errorQueue, handler, sent>>
    BY <1>2, ConstantsAssumption DEF Publish, Answer, store, history, TypeOK
  <2>2. Waiting' = Append(Waiting, i) /\ Waiting \in Seq(Ids)
    BY <2>1, Published, QueueFacts
  <2>3. /\ \A j : Holds(Waiting', j) <=> Holds(Waiting, j) \/ j = i
        /\ Once(Waiting) /\ ~Holds(Waiting, i) => Once(Waiting')
    BY <2>2, AppendHolds
  <2>4. \A j : Holds(Waiting, j)' <=> Holds(Waiting', j)
    BY DEF Holds
  <2>5. ~Holds(Waiting, i) /\ ~Holds(workQueue, i) /\ ~InHand(i) /\ sent[i] = 0 /\ i \notin errorQueue
        /\ i \in stored
    BY <1>0, <2>1 DEF Here
  <2>6. \A j \in Ids : /\ InHand(j)' <=> InHand(j)
                       /\ Holds(workQueue, j)' <=> Holds(workQueue, j)
    BY <2>1 DEF InHand, Holds
  <2>7. Here(i)'
    BY <1>0, <2>1, <2>3, <2>4, <2>5, <2>6 DEF Here
  <2>8. \A j \in Ids \ {i} : Rests(j)
    BY <1>0, <2>1, <2>3, <2>4, <2>6 DEF Rests
  <2>9. Once(Waiting)' /\ Once(workQueue)'
    BY <1>0, <2>1, <2>3, <2>5 DEF Once
  <2>10. QED
    BY <1>0, <2>1, <2>7, <2>8, <2>9, OneMoves
<1>3. CASE Cancel(i)
  <2>1. /\ canceled' = canceled \cup {i} /\ canceledOk' = canceledOk \cup {i}
        /\ UNCHANGED <<request, stored, delayQueue, workQueue, errorQueue, handler, sent>>
    BY <1>3 DEF Cancel, queues
  <2>2. UNCHANGED Waiting
    BY <2>1 DEF Waiting
  <2>3. \A j \in Ids : Rests(j)
    BY <2>1, <2>2 DEF Rests, Holds, InHand
  <2>4. QED
    BY <1>0, <2>1, <2>2, <2>3, NoneMoves
<1>4. QED
  BY <1>1, <1>2, <1>3

LEMMA BrokerOnePlace == ASSUME TypeOK, OnePlace, Clean, Tick \/ DeadLetter PROVE OnePlace'
<1>0. canceled \subseteq canceledOk /\ Once(Waiting) /\ Once(workQueue) /\ workQueue \in Seq(Ids)
  BY DEF TypeOK, OnePlace
<1>1. CASE Tick
  <2>1. UNCHANGED <<request, stored, canceled, canceledOk, workQueue, errorQueue, handler, sent>>
    BY <1>1 DEF Tick, store, history
  <2>2. UNCHANGED Waiting
    BY <1>1, Ticked
  <2>3. \A j \in Ids : Rests(j)
    BY <2>1, <2>2 DEF Rests, Holds, InHand
  <2>4. QED
    BY <1>0, <2>1, <2>2, <2>3, NoneMoves
<1>2. CASE DeadLetter
  <2>0. PICK h \in Ids : h = Head(delayQueue).id
    BY <1>2, DeadLettered, QueueFacts DEF DeadLetter
  <2>1. /\ delayQueue # <<>> /\ delayQueue' = Tail(delayQueue)
        /\ workQueue' = Append(workQueue, h)
        /\ UNCHANGED <<request, stored, canceled, canceledOk, errorQueue, handler, sent>>
    BY <1>2, <2>0 DEF DeadLetter, store, history
  <2>2. Waiting # <<>> /\ Waiting' = Tail(Waiting) /\ Head(Waiting) = h /\ Waiting \in Seq(Ids)
    BY <2>0, <2>1, DeadLettered, QueueFacts
  <2>3. \A j : Holds(Waiting, j) <=> Holds(Waiting', j) \/ j = h
    BY <2>2, TailHolds
  <2>4. Once(Waiting') /\ ~Holds(Waiting', h)
    BY <1>0, <2>2, TailHolds
  <2>5. /\ \A j : Holds(workQueue', j) <=> Holds(workQueue, j) \/ j = h
        /\ ~Holds(workQueue, h) => Once(workQueue')
    BY <1>0, <2>1, <2>3, AppendHolds
  <2>6. \A j : /\ Holds(Waiting, j)' <=> Holds(Waiting', j)
               /\ Holds(workQueue, j)' <=> Holds(workQueue', j)
               /\ InHand(j)' <=> InHand(j)
    BY <2>1 DEF Holds, InHand
  <2>7. Here(h) /\ Holds(Waiting, h)
    BY <2>3 DEF OnePlace
  <2>8. Here(h)'
    BY <2>1, <2>4, <2>5, <2>6, <2>7 DEF Here
  <2>9. \A j \in Ids \ {h} : Rests(j)
    BY <2>1, <2>3, <2>5, <2>6 DEF Rests
  <2>10. Once(Waiting)' /\ Once(workQueue)'
    BY <2>4, <2>5, <2>7 DEF Once, Here
  <2>11. QED
    BY <1>0, <2>1, <2>3, <2>8, <2>9, <2>10, OneMoves
<1>3. QED
  BY <1>1, <1>2

LEMMA HandlerOnePlace == ASSUME TypeOK, OnePlace, Clean, HandlerStep, Clean' PROVE OnePlace'
<1>0. /\ canceled \subseteq canceledOk /\ Once(Waiting) /\ Once(workQueue) /\ workQueue \in Seq(Ids)
      /\ handler \in [pc : HandlerStates, id : Ids, copy : Nat]
      /\ \A j \in Ids : Here(j)
      /\ sent \in [Ids -> Nat]
  BY DEF TypeOK, OnePlace
<1>1. PICK i \in Ids : i = handler.id
  BY <1>0
<1>2. ~Loss
  BY DEF Loss, Clean
<1>3. CASE Deliver
  <2>1. PICK h \in Ids : h = Head(workQueue)
    BY <1>3, TailHolds DEF TypeOK, Deliver
  <2>2. /\ handler.pc = "idle" /\ workQueue # <<>> /\ workQueue' = Tail(workQueue)
        /\ handler'.id = h /\ handler'.pc = IF h \in stored \ canceled THEN "send" ELSE "ack"
        /\ UNCHANGED <<request, stored, canceled, canceledOk, delayQueue, errorQueue, sent>>
    BY <1>3, <2>1 DEF Deliver, store, history
  <2>3. UNCHANGED Waiting
    BY <2>2 DEF Waiting
  <2>4. /\ \A j : Holds(workQueue, j) <=> Holds(workQueue', j) \/ j = h
        /\ Once(workQueue') /\ ~Holds(workQueue', h)
    BY <1>0, <2>1, <2>2, TailHolds
  <2>5. /\ \A j : /\ ~InHand(j)
                  /\ InHand(j)' <=> j = h /\ h \in stored \ canceled
    BY <2>2 DEF InHand
  <2>6. \A j : /\ Holds(Waiting, j)' <=> Holds(Waiting, j)
               /\ Holds(workQueue, j)' <=> Holds(workQueue', j)
    BY <2>3 DEF Holds
  <2>7. Here(h) /\ Holds(workQueue, h)
    BY <1>0, <2>4
  <2>8. request[h] \notin {"new", "saved"} /\ h \in stored
    BY <2>7 DEF Here
  <2>9. Here(h)'
    BY <1>0, <2>2, <2>4, <2>5, <2>6, <2>7, <2>8 DEF Here
  <2>10. \A j \in Ids \ {h} : Rests(j)
    BY <2>2, <2>4, <2>5, <2>6 DEF Rests
  <2>11. Once(Waiting)' /\ Once(workQueue)'
    BY <1>0, <2>3, <2>4 DEF Once
  <2>12. QED
    BY <1>0, <2>2, <2>9, <2>10, <2>11, OneMoves
<1>4. CASE SendOk
  <2>1. /\ handler.pc = "send" /\ handler'.pc = "keepOk" /\ handler'.id = i
        /\ sent' = [sent EXCEPT ![i] = @ + 1]
        /\ UNCHANGED <<request, stored, canceled, canceledOk, delayQueue, workQueue, errorQueue>>
    BY <1>0, <1>1, <1>4 DEF SendOk, Goto, Telegram, store, history
  <2>2. UNCHANGED Waiting
    BY <2>1 DEF Waiting
  <2>3. \A j : InHand(j)' = FALSE /\ (InHand(j) <=> j = i)
    BY <1>1, <2>1 DEF InHand
  <2>4. sent'[i] = sent[i] + 1 /\ sent[i] = 0 /\ \A j \in Ids \ {i} : sent'[j] = sent[j]
    BY <1>0, <2>1, <2>3 DEF Here
  <2>5. \A j : /\ Holds(Waiting, j)' <=> Holds(Waiting, j)
               /\ Holds(workQueue, j)' <=> Holds(workQueue, j)
    BY <2>1, <2>2 DEF Holds
  <2>6. Here(i)'
    BY <1>0, <2>1, <2>3, <2>4, <2>5 DEF Here
  <2>7. \A j \in Ids \ {i} : Rests(j)
    BY <2>1, <2>3, <2>4, <2>5 DEF Rests
  <2>8. QED
    BY <1>0, <2>1, <2>2, <2>6, <2>7, OneMoves DEF Once
<1>5. CASE SendTemporary \/ SendFatal \/ KeepTry \/ KeepError \/ KeepOk \/ Ack
  <2>1. /\ UNCHANGED <<request, stored, canceledOk, delayQueue, workQueue, sent, errorQueue>>
        /\ canceled' \subseteq canceled
    BY <1>5 DEF SendTemporary, SendFatal, KeepTry, KeepError, KeepOk, Ack, Goto, Update, store, history
  <2>2. handler'.id = handler.id /\ (InHand(handler.id)' <=> InHand(handler.id))
    BY <1>0, <1>5 DEF SendTemporary, SendFatal, KeepTry, KeepError, KeepOk, Ack, Goto, InHand
  <2>3. QED
    BY <2>1, <2>2, HandStays
<1>6. CASE Retry
  <2>1. /\ handler.pc = "retry" /\ handler'.pc = "ack" /\ handler'.id = i
        /\ delayQueue' = Append(delayQueue, Delayed(i, handler.copy * Backoff))
        /\ handler.copy * Backoff \in Nat
        /\ UNCHANGED <<request, stored, canceled, canceledOk, workQueue, errorQueue, sent>>
    BY <1>0, <1>1, <1>6, ConstantsAssumption DEF Retry, Goto, store, history
  <2>2. Waiting' = Append(Waiting, i) /\ Waiting \in Seq(Ids)
    BY <2>1, Published, QueueFacts
  <2>3. /\ \A j : Holds(Waiting', j) <=> Holds(Waiting, j) \/ j = i
        /\ Once(Waiting) /\ ~Holds(Waiting, i) => Once(Waiting')
    BY <2>2, AppendHolds
  <2>4. \A j : InHand(j)' = FALSE /\ (InHand(j) <=> j = i)
    BY <1>1, <2>1 DEF InHand
  <2>5. \A j : /\ Holds(Waiting, j)' <=> Holds(Waiting', j)
               /\ Holds(workQueue, j)' <=> Holds(workQueue, j)
    BY <2>1 DEF Holds
  <2>6. ~Holds(Waiting, i)
    BY <1>0, <2>4 DEF Here
  <2>7. Here(i)'
    BY <1>0, <2>1, <2>3, <2>4, <2>5, <2>6 DEF Here
  <2>8. \A j \in Ids \ {i} : Rests(j)
    BY <2>1, <2>3, <2>4, <2>5 DEF Rests
  <2>9. Once(Waiting)' /\ Once(workQueue)'
    BY <1>0, <2>1, <2>3, <2>6 DEF Once
  <2>10. QED
    BY <1>0, <2>1, <2>7, <2>8, <2>9, OneMoves
<1>7. CASE ToErrors
  <2>1. /\ handler.pc = "toErrors" /\ handler'.pc = "ack" /\ handler'.id = i
        /\ errorQueue' = errorQueue \cup {i}
        /\ UNCHANGED <<request, stored, canceled, canceledOk, delayQueue, workQueue, sent>>
    BY <1>0, <1>1, <1>7 DEF ToErrors, Goto, store, history
  <2>2. UNCHANGED Waiting
    BY <2>1 DEF Waiting
  <2>3. \A j : InHand(j)' = FALSE /\ (InHand(j) <=> j = i)
    BY <1>1, <2>1 DEF InHand
  <2>4. \A j : /\ Holds(Waiting, j)' <=> Holds(Waiting, j)
               /\ Holds(workQueue, j)' <=> Holds(workQueue, j)
    BY <2>1, <2>2 DEF Holds
  <2>5. Here(i)'
    BY <1>0, <2>1, <2>3, <2>4 DEF Here
  <2>6. \A j \in Ids \ {i} : Rests(j)
    BY <2>1, <2>3, <2>4 DEF Rests
  <2>7. QED
    BY <1>0, <2>1, <2>2, <2>5, <2>6, OneMoves DEF Once
<1>8. QED
  BY <1>2, <1>3, <1>4, <1>5, <1>6, <1>7 DEF HandlerStep, SendAnswerLost, RetryFails, ToErrorsFails,
                                              AckLost

LEMMA OnePlaceKeeps == ASSUME TypeOK, OnePlace, [Next]_vars PROVE OnePlace'
<1>0. losses \in Nat /\ crashes \in Nat
  BY ConstantsAssumption DEF TypeOK
<1>1. CASE UNCHANGED vars
  <2>1. UNCHANGED <<request, stored, canceled, canceledOk, delayQueue, workQueue, errorQueue,
                    handler, sent, losses, crashes>>
    BY <1>1 DEF vars
  <2>2. UNCHANGED Waiting
    BY <2>1 DEF Waiting
  <2>3. \A j \in Ids : Rests(j)
    BY <2>1, <2>2 DEF Rests, Holds, InHand
  <2>4. CASE Clean
    BY <2>1, <2>2, <2>3, <2>4, NoneMoves DEF OnePlace
  <2>5. CASE ~Clean
    BY <2>1, <2>5 DEF OnePlace, Clean
  <2>6. QED
    BY <2>4, <2>5
<1>2. CASE Next /\ Clean /\ Clean'
  <2>1. ~Crash /\ \A i \in Ids : ~PublishFails(i)
    BY <1>2 DEF Clean, Crash, PublishFails, Loss
  <2>2. QED
    BY <1>2, <2>1, HttpOnePlace, BrokerOnePlace, HandlerOnePlace DEF Next
<1>3. CASE Next /\ ~Clean
  <2>1. losses' \in Nat /\ crashes' \in Nat /\ losses' >= losses /\ crashes' >= crashes
    BY <1>0, <1>3 DEF Next, Save, Publish, PublishFails, Cancel, Tick, DeadLetter, HandlerStep, Deliver,
       SendOk, SendTemporary, SendAnswerLost, SendFatal, KeepTry, KeepError, KeepOk, Update, Retry,
       RetryFails, ToErrors, ToErrorsFails, Ack, AckLost, Crash, Try, Loss, budget
  <2>2. ~Clean'
    BY <1>0, <1>3, <2>1 DEF Clean
  <2>3. QED
    BY <2>2 DEF OnePlace
<1>4. CASE ~Clean'
  BY <1>4 DEF OnePlace
<1>5. QED
  BY <1>1, <1>2, <1>3, <1>4

-----------------------------------------------------------------------------
(* The theorems.                                                           *)

LEMMA InitHolds == Init => IInv
<1>1. Init => QuietStays
  BY DEF Init, QuietStays
<1>2. QED
  BY <1>1, InitTypes, InitOnTime, InitOnePlace DEF IInv

LEMMA NextKeeps == ASSUME IInv, [Next]_vars PROVE IInv'
BY TypesKeep, OnTimeKeeps, QuietKeeps, OnePlaceKeeps DEF IInv

\* The invariant holds throughout.
THEOREM IInvAlways == Spec => []IInv
<1>1. Init => IInv
  BY InitHolds
<1>2. IInv /\ [Next]_vars => IInv'
  BY NextKeeps
<1>3. QED
  BY <1>1, <1>2, PTL DEF Spec

\* Every variable keeps its type, and only what the store holds is cancelled in it.
THEOREM TypeCorrect == Spec => []TypeOK
<1>1. IInv => TypeOK
  BY DEF IInv
<1>2. QED
  BY <1>1, IInvAlways, PTL

\* An id that a queue holds at most once has one position in it or none.
LEMMA OnceCounts ==
    ASSUME NEW S, NEW q \in Seq(S), NEW i, Once(q)
    PROVE  Cardinality({k \in 1..Len(q) : q[k] = i}) = IF Holds(q, i) THEN 1 ELSE 0
<1>1. CASE Holds(q, i)
  <2>1. PICK k \in 1..Len(q) : q[k] = i
    BY <1>1 DEF Holds
  <2>2. {l \in 1..Len(q) : q[l] = i} = {k}
    BY <2>1 DEF Once
  <2>3. QED
    BY <1>1, <2>2, FS_Singleton
<1>2. CASE ~Holds(q, i)
  <2>1. {k \in 1..Len(q) : q[k] = i} = {}
    BY <1>2 DEF Holds
  <2>2. QED
    BY <1>2, <2>1, FS_EmptySet
<1>3. QED
  BY <1>1, <1>2

LEMMA PlacesCount ==
    ASSUME TypeOK, OnePlace, Clean, NEW i \in Ids
    PROVE  Places(i) = (IF Holds(Waiting, i) THEN 1 ELSE 0)
                     + (IF Holds(workQueue, i) THEN 1 ELSE 0)
                     + (IF InHand(i) THEN 1 ELSE 0) + sent[i]
                     + (IF i \in errorQueue THEN 1 ELSE 0)
<1>1. /\ DOMAIN delayQueue = 1..Len(delayQueue) /\ DOMAIN workQueue = 1..Len(workQueue)
      /\ Len(Waiting) = Len(delayQueue)
      /\ \A k \in DOMAIN delayQueue : Waiting[k] = delayQueue[k].id
      /\ Waiting \in Seq(Ids) /\ workQueue \in Seq(Ids)
  BY QueueFacts DEF TypeOK
<1>2. Once(Waiting) /\ Once(workQueue)
  BY DEF OnePlace
<1>3. {k \in DOMAIN delayQueue : delayQueue[k].id = i} = {k \in 1..Len(Waiting) : Waiting[k] = i}
  BY <1>1
<1>4. Cardinality({k \in DOMAIN delayQueue : delayQueue[k].id = i})
         = IF Holds(Waiting, i) THEN 1 ELSE 0
  BY <1>1, <1>2, <1>3, OnceCounts
<1>5. Cardinality({k \in DOMAIN workQueue : workQueue[k] = i})
         = IF Holds(workQueue, i) THEN 1 ELSE 0
  BY <1>1, <1>2, OnceCounts
<1>6. QED
  BY <1>4, <1>5 DEF Places, Count

\* Without a restart or a loss, whatever the order of deliveries, retries and cancels,
\* an accepted notification is in one place, neither lost nor doubled.
THEOREM NeitherLostNorDoubled == Spec => []ExactlyOnePlace
<1>1. ASSUME IInv PROVE ExactlyOnePlace
  <2> SUFFICES ASSUME Clean, NEW i \in Ids, request[i] = "accepted"
               PROVE  Places(i) <= 1 /\ (i \notin canceledOk => Places(i) = 1)
    BY DEF ExactlyOnePlace, Clean
  <2>1. Places(i) = (IF Holds(Waiting, i) THEN 1 ELSE 0)
                  + (IF Holds(workQueue, i) THEN 1 ELSE 0)
                  + (IF InHand(i) THEN 1 ELSE 0) + sent[i]
                  + (IF i \in errorQueue THEN 1 ELSE 0)
    BY <1>1, PlacesCount DEF IInv
  <2>2. Here(i)
    BY <1>1 DEF IInv, OnePlace
  <2>3. QED
    BY <2>1, <2>2 DEF Here
<1>2. QED
  BY <1>1, IInvAlways, PTL

\* A send begins with a delivery of a notification that is stored and not cancelled.
LEMMA SendsAreDelivered ==
    ASSUME TypeOK, [Next]_vars, NEW i \in Ids, SendStarts(i)
    PROVE  \E k \in DOMAIN workQueue : workQueue[k] = i /\ i \in stored \ canceled
<1>1. handler.pc = "idle" /\ handler'.pc = "send" /\ handler'.id = i
  BY DEF SendStarts
<1>2. CASE Deliver
  <2>1. workQueue # <<>> /\ Head(workQueue) \in stored \ canceled /\ Head(workQueue) = i
    BY <1>1, <1>2 DEF Deliver
  <2>2. workQueue[1] = i /\ 1 \in 1..Len(workQueue) /\ DOMAIN workQueue = 1..Len(workQueue)
    BY <2>1, TailHolds, QueueFacts DEF TypeOK
  <2>3. QED
    BY <2>1, <2>2
<1>3. CASE UNCHANGED vars
  BY <1>1, <1>3 DEF vars
<1>4. handler'.pc # "idle" /\ handler' # handler
  BY <1>1
<1>5. ~Crash
  BY <1>4 DEF Crash, Idle
<1>6. QED
  BY <1>1, <1>2, <1>3, <1>4, <1>5
     DEF Next, Save, Publish, PublishFails, Cancel, Tick, DeadLetter, HandlerStep, SendOk,
         SendTemporary, SendAnswerLost, SendFatal, KeepTry, KeepError, KeepOk, Retry, RetryFails,
         ToErrors, ToErrorsFails, Ack, AckLost, Goto

\* No send begins a whole millisecond before SendAt, on no delivery, redelivery or
\* retry: only the part of a millisecond that a TTL cannot express may be missing.
THEOREM SendsAreNeverEarly == Spec => NeverEarlyByAMillisecond
<1>1. ASSUME IInv, [Next]_vars PROVE [\A i \in Ids : SendStarts(i) => wait[i] < Millisecond]_vars
  BY <1>1, SendsAreDelivered DEF IInv, OnTime, Due
<1>2. QED
  BY <1>1, IInvAlways, PTL DEF Spec, NeverEarlyByAMillisecond

\* A DELETE that was answered while the handler was elsewhere holds for good.
THEOREM QuietCancelsHold == Spec => QuietCancelHolds
<1>1. ASSUME IInv, [Next]_vars PROVE [\A i \in quietly : ~SendStarts(i)]_vars
  <2>1. quietly \subseteq Ids
    BY <1>1 DEF IInv, TypeOK
  <2>2. QED
    BY <1>1, <2>1, SendsAreDelivered DEF IInv, QuietStays
<1>2. QED
  BY <1>1, IInvAlways, PTL DEF Spec, QuietCancelHolds

-----------------------------------------------------------------------------
(* How often Telegram takes a notification, restarts, retries and          *)
(* redeliveries included.  The message of a notification can multiply: a   *)
(* publish that failed may have reached the broker, and one whose          *)
(* acknowledgement was lost is delivered again although its retry waits.   *)
(* So the invariant counts the chances of another send that are left.      *)

Copies(q, i) == Cardinality({k \in 1..Len(q) : q[k] = i})

\* Nothing of it was published yet.
Unpublished(i) == request[i] \in {"new", "saved"}

InUse(i) == handler.pc # "idle" /\ handler.id = i

\* The handler has a delivery that it may still send, or send again.
MaySend(i) == handler.id = i /\ handler.pc \in {"send", "keepTry", "retry"}

\* The publish of its POST, the messages in the queues, the delivery in hand.
Chances(i) == Count(Unpublished(i)) + Copies(Waiting, i) + Copies(workQueue, i) + Count(MaySend(i))

\* Each chance stands for one send.  Once a restart has emptied the store, the
\* chances that are left lead to none.
Bounded(i) ==
    /\ sent[i] <= 1 + losses
    /\ Unpublished(i) => Chances(i) = 1 /\ sent[i] = 0 /\ ~InUse(i)
    /\ i \in stored => sent[i] + Chances(i) <= 1 + losses
    /\ MaySend(i) => i \in stored

SendsBounded == \A i \in Ids : Bounded(i)

LEMMA CopiesAreFinite ==
    ASSUME NEW S, NEW q \in Seq(S), NEW i
    PROVE  /\ IsFiniteSet({k \in 1..Len(q) : q[k] = i})
           /\ Copies(q, i) \in Nat
<1>1. Len(q) \in Nat
  BY LenProperties
<1>2. IsFiniteSet(1..Len(q))
  BY <1>1, FS_Interval
<1>3. IsFiniteSet({k \in 1..Len(q) : q[k] = i})
  BY <1>2, FS_Subset
<1>4. QED
  BY <1>3, FS_CardinalityType DEF Copies

LEMMA EmptyHasNone == ASSUME NEW i PROVE Copies(<<>>, i) = 0
<1>1. {k \in 1..Len(<<>>) : <<>>[k] = i} = {}
  BY EmptySeq
<1>2. QED
  BY <1>1, FS_EmptySet DEF Copies

LEMMA AppendCopies ==
    ASSUME NEW S, NEW q \in Seq(S), NEW e \in S, NEW i
    PROVE  Copies(Append(q, e), i) = Copies(q, i) + Count(i = e)
<1> DEFINE r == Append(q, e)
           at == {k \in 1..Len(q) : q[k] = i}
           new == Len(q) + 1
<1>1. /\ Len(q) \in Nat /\ Len(r) = Len(q) + 1
      /\ \A k \in 1..Len(q) : r[k] = q[k]
      /\ r[Len(q) + 1] = e
  BY AppendProperties, LenProperties
<1> HIDE DEF r
<1>2. IsFiniteSet(at) /\ Cardinality(at) \in Nat /\ Copies(q, i) = Cardinality(at)
  BY CopiesAreFinite DEF Copies
<1>3. CASE i = e
  <2>1. {k \in 1..Len(r) : r[k] = i} = at \cup {new} /\ new \notin at
    BY <1>1, <1>3
  <2>2. Cardinality(at \cup {new}) = Cardinality(at) + 1
    BY <1>2, <2>1, FS_AddElement
  <2>3. QED
    BY <1>2, <1>3, <2>1, <2>2 DEF Copies, Count, r
<1>4. CASE i # e
  <2>1. {k \in 1..Len(r) : r[k] = i} = at
    BY <1>1, <1>4
  <2>2. Copies(r, i) = Copies(q, i)
    BY <2>1, Zenon DEF Copies
  <2>3. QED
    BY <1>2, <1>4, <2>2 DEF Count, r
<1>5. QED
  BY <1>3, <1>4

\* A queue that another one continues behind its first message.
LEMMA ShiftedCopies ==
    ASSUME NEW S, NEW q \in Seq(S), NEW r \in Seq(S), NEW i, Len(r) = Len(q) + 1,
           \A k \in 1..Len(q) : r[k + 1] = q[k]
    PROVE  Copies(r, i) = Copies(q, i) + Count(i = r[1])
<1> DEFINE at == {k \in 1..Len(q) : q[k] = i}
           behind == {k \in 2..Len(r) : r[k] = i}
           next == [k \in at |-> k + 1]
<1>1. Len(q) \in Nat /\ Len(r) \in Nat
  BY LenProperties
<1>2. IsFiniteSet(at) /\ Cardinality(at) \in Nat /\ Copies(q, i) = Cardinality(at)
  BY CopiesAreFinite DEF Copies
<1>3. IsFiniteSet(behind) /\ Cardinality(behind) = Cardinality(at)
  <2>1. next \in [at -> behind]
    BY <1>1
  <2>2. \A k, l \in at : next[k] = next[l] => k = l
    BY <1>1
  <2>3. \A k \in behind : \E l \in at : next[l] = k
    <3>1. ASSUME NEW k \in behind PROVE k - 1 \in at /\ next[k - 1] = k
      <4>1. k - 1 \in 1..Len(q) /\ r[(k - 1) + 1] = q[k - 1] /\ (k - 1) + 1 = k
        BY <1>1
      <4>2. QED
        BY <4>1
    <3>2. QED
      BY <3>1
  <2> HIDE DEF next, at, behind
  <2>4. next \in Bijection(at, behind)
    BY <2>1, <2>2, <2>3, Fun_IsBij
  <2>5. ExistsBijection(at, behind)
    BY <2>4, Fun_ExistsBij
  <2>6. QED
    BY <1>2, <2>5, FS_Bijection
<1>4. CASE i = r[1]
  <2>1. {k \in 1..Len(r) : r[k] = i} = behind \cup {1} /\ 1 \notin behind
    BY <1>1, <1>4
  <2>2. Cardinality(behind \cup {1}) = Cardinality(behind) + 1
    BY <1>3, <2>1, FS_AddElement
  <2>3. QED
    BY <1>2, <1>3, <1>4, <2>1, <2>2 DEF Copies, Count
<1>5. CASE i # r[1]
  <2>1. {k \in 1..Len(r) : r[k] = i} = behind
    BY <1>1, <1>5
  <2>2. Copies(r, i) = Copies(q, i)
    BY <1>2, <1>3, <2>1, Zenon DEF Copies
  <2>3. QED
    BY <1>2, <1>5, <2>2 DEF Count
<1>6. QED
  BY <1>4, <1>5

LEMMA TailCopies ==
    ASSUME NEW S, NEW q \in Seq(S), q # <<>>, NEW i
    PROVE  Copies(q, i) = Copies(Tail(q), i) + Count(i = Head(q))
<1> DEFINE r == Tail(q)
<1>1. /\ r \in Seq(S) /\ Len(q) \in Nat /\ Len(q) = Len(r) + 1 /\ Head(q) = q[1]
      /\ \A k \in 1..Len(r) : q[k + 1] = r[k]
  BY TailHolds
<1> HIDE DEF r
<1>2. Copies(q, i) = Copies(r, i) + Count(i = q[1])
  BY <1>1, ShiftedCopies
<1>3. QED
  BY <1>1, <1>2 DEF r

LEMMA IdsAreSeq ==
    ASSUME NEW q \in Seq([id : Ids, ttl : Nat])
    PROVE  [k \in DOMAIN q |-> q[k].id] \in Seq(Ids)
<1>1. /\ Len(q) \in Nat /\ DOMAIN q = 1..Len(q)
      /\ \A k \in 1..Len(q) : q[k] \in [id : Ids, ttl : Nat]
  BY LenProperties, ElementOfSeq
<1>2. [k \in DOMAIN q |-> q[k].id] \in [1..Len(q) -> Ids]
  BY <1>1
<1>3. QED
  BY <1>1, <1>2, SeqDef

LEMMA ChancesCount ==
    ASSUME TypeOK, NEW i
    PROVE  /\ Copies(Waiting, i) \in Nat /\ Copies(workQueue, i) \in Nat
           /\ Chances(i) \in Nat /\ Count(MaySend(i)) <= Chances(i)
<1>1. Copies(Waiting, i) \in Nat /\ Copies(workQueue, i) \in Nat
  BY CopiesAreFinite, QueueFacts DEF TypeOK
<1>2. Count(MaySend(i)) \in Nat /\ Count(Unpublished(i)) \in Nat
  BY DEF Count
<1>3. QED
  BY <1>1, <1>2 DEF Chances

LEMMA LossTypes ==
    ASSUME TypeOK, [Next]_vars
    PROVE  /\ losses \in Nat /\ losses' \in Nat /\ losses <= losses'
           /\ \A i \in Ids : sent[i] \in Nat /\ sent'[i] \in Nat
<1>1. losses \in Nat /\ losses' \in Nat /\ \A i \in Ids : sent[i] \in Nat /\ sent'[i] \in Nat
  BY TypesKeep, ConstantsAssumption DEF TypeOK
<1>2. losses' \in {losses, losses + 1}
  BY DEF Next, Save, Publish, PublishFails, Cancel, Tick, DeadLetter, HandlerStep, Deliver,
     SendOk, SendTemporary, SendAnswerLost, SendFatal, KeepTry, KeepError, KeepOk, Update, Retry,
     RetryFails, ToErrors, ToErrorsFails, Ack, AckLost, Crash, Try, Loss, budget, vars
<1>3. QED
  BY <1>1, <1>2

\* What a step does to one notification: no send without a chance, and no new chance
\* without a loss.
Turn(i) ==
    /\ Unpublished(i)' => /\ Unpublished(i)
                          /\ Chances(i)' <= Chances(i)
                          /\ InUse(i)' => InUse(i) \/ Copies(workQueue, i) > 0
    /\ MaySend(i)' => i \in stored'
    /\ sent'[i] = sent[i] \/ (MaySend(i) /\ sent'[i] = sent[i] + 1)
    /\ i \in stored' =>
          /\ i \in stored \/ Unpublished(i)
          /\ sent'[i] + Chances(i)' <= sent[i] + Chances(i) + (losses' - losses)

LEMMA TurnKeeps ==
    ASSUME TypeOK, [Next]_vars, NEW i \in Ids, Bounded(i), Turn(i)
    PROVE  Bounded(i)'
<1>0. /\ losses \in Nat /\ losses' \in Nat /\ losses <= losses'
      /\ sent[i] \in Nat /\ sent'[i] \in Nat
  BY LossTypes
<1>1. /\ Copies(workQueue, i) \in Nat /\ Copies(Waiting, i) \in Nat
      /\ Chances(i) \in Nat /\ Count(MaySend(i)) <= Chances(i)
  BY ChancesCount
<1>2. Chances(i)' \in Nat /\ (Unpublished(i)' => Chances(i)' >= 1)
  <2>1. delayQueue' \in Seq([id : Ids, ttl : Nat]) /\ workQueue' \in Seq(Ids)
    BY TypesKeep DEF TypeOK
  <2>2. Waiting' \in Seq(Ids)
    BY <2>1, IdsAreSeq DEF Waiting
  <2>3. Copies(Waiting', i) \in Nat /\ Copies(workQueue', i) \in Nat
    BY <2>1, <2>2, CopiesAreFinite
  <2>4. Copies(Waiting, i)' = Copies(Waiting', i) /\ Copies(workQueue, i)' = Copies(workQueue', i)
    BY DEF Copies
  <2>5. QED
    BY <2>3, <2>4 DEF Chances, Count
<1>3. sent'[i] <= 1 + losses'
  BY <1>0, <1>1 DEF Bounded, Turn, Count
<1>4. ASSUME Unpublished(i)' PROVE Chances(i)' = 1 /\ sent'[i] = 0 /\ ~InUse(i)'
  <2>1. Chances(i) = 1 /\ sent[i] = 0 /\ ~InUse(i) /\ ~MaySend(i)
    BY <1>4 DEF Bounded, Turn, InUse, MaySend
  <2>2. Copies(workQueue, i) = 0
    BY <1>1, <1>4, <2>1 DEF Turn, Chances, Count
  <2>3. QED
    BY <1>2, <1>4, <2>1, <2>2 DEF Turn
<1>5. ASSUME i \in stored' PROVE sent'[i] + Chances(i)' <= 1 + losses'
  BY <1>0, <1>1, <1>2, <1>5 DEF Bounded, Turn
<1>6. QED
  BY <1>3, <1>4, <1>5 DEF Bounded, Turn

LEMMA QueuesRest ==
    ASSUME UNCHANGED <<Waiting, workQueue>>, NEW i
    PROVE  /\ Copies(Waiting, i)' = Copies(Waiting, i)
           /\ Copies(workQueue, i)' = Copies(workQueue, i)
BY DEF Copies

\* A publish for i, by its POST or by the handler that had it in hand.
LEMMA PublishAdds ==
    ASSUME TypeOK, NEW i \in Ids, NEW t \in Nat,
           delayQueue' = Append(delayQueue, Delayed(i, t)), UNCHANGED workQueue
    PROVE  \A j : /\ Copies(Waiting, j)' = Copies(Waiting, j) + Count(j = i)
                  /\ Copies(workQueue, j)' = Copies(workQueue, j)
<1>1. Waiting' = Append(Waiting, i) /\ Waiting \in Seq(Ids)
  BY Published, QueueFacts
<1>2. \A j : Copies(Waiting', j) = Copies(Waiting, j) + Count(j = i)
  BY <1>1, AppendCopies
<1>3. \A j : Copies(Waiting, j)' = Copies(Waiting', j) /\ Copies(workQueue, j)' = Copies(workQueue, j)
  BY DEF Copies
<1>4. QED
  BY <1>2, <1>3

LEMMA RequeuedCopies ==
    ASSUME TypeOK, workQueue' = <<handler.id>> \o workQueue, NEW j
    PROVE  Copies(workQueue, j)' = Copies(workQueue, j) + Count(j = handler.id)
<1>1. /\ workQueue' \in Seq(Ids) /\ Len(workQueue') = Len(workQueue) + 1
      /\ workQueue'[1] = handler.id
      /\ \A k \in 1..Len(workQueue) : workQueue'[k + 1] = workQueue[k]
  BY Requeued
<1>2. Copies(workQueue', j) = Copies(workQueue, j) + Count(j = handler.id)
  <2>1. workQueue \in Seq(Ids)
    BY DEF TypeOK
  <2> DEFINE r == workQueue'
  <2>2. /\ r \in Seq(Ids) /\ Len(r) = Len(workQueue) + 1 /\ r[1] = handler.id
        /\ \A k \in 1..Len(workQueue) : r[k + 1] = workQueue[k]
    BY <1>1
  <2> HIDE DEF r
  <2>3. Copies(r, j) = Copies(workQueue, j) + Count(j = r[1])
    BY <2>1, <2>2, ShiftedCopies
  <2>4. QED
    BY <2>2, <2>3 DEF r
<1>3. QED
  BY <1>2 DEF Copies

LEMMA HttpTurn ==
    ASSUME TypeOK, [Next]_vars, SendsBounded, NEW i \in Ids,
           Save(i) \/ Publish(i) \/ PublishFails(i) \/ Cancel(i), NEW j \in Ids
    PROVE  Turn(j)
<1>0. /\ request \in [Ids -> RequestStates] /\ delay[i] \in Nat
      /\ losses \in Nat /\ losses' \in Nat /\ losses <= losses' /\ sent[j] \in Nat
      /\ Copies(Waiting, j) \in Nat /\ Copies(workQueue, j) \in Nat
      /\ Bounded(j)
  <2>1. request \in [Ids -> RequestStates] /\ delay[i] \in Nat
    BY ConstantsAssumption DEF TypeOK
  <2>2. QED
    BY <2>1, LossTypes, ChancesCount DEF SendsBounded
<1>1. /\ UNCHANGED <<workQueue, handler, sent>>
      /\ (MaySend(j)' <=> MaySend(j)) /\ (InUse(j)' <=> InUse(j))
  BY DEF Save, Publish, PublishFails, Cancel, queues, MaySend, InUse
<1>2. CASE Save(i)
  <2>1. /\ request[i] = "new" /\ request' = [request EXCEPT ![i] = "saved"]
        /\ stored' = stored \cup {i} /\ UNCHANGED delayQueue
    BY <1>2 DEF Save, queues
  <2>2. Unpublished(j)' <=> Unpublished(j)
    BY <1>0, <2>1 DEF Unpublished
  <2>3. Chances(j)' = Chances(j)
    BY <1>1, <2>1, <2>2, QueuesRest DEF Chances, Waiting, Count
  <2>4. Chances(j) \in Nat
    BY ChancesCount
  <2>5. j \in stored' => j \in stored \/ Unpublished(j)
    BY <2>1 DEF Unpublished
  <2>6. QED
    BY <1>0, <1>1, <2>1, <2>2, <2>3, <2>4, <2>5 DEF Turn, Bounded
<1>3. ASSUME NEW how \in {"accepted", "refused"}, Answer(i, how), UNCHANGED stored,
             delayQueue' \in {delayQueue, Append(delayQueue, Delayed(i, delay[i]))}
      PROVE  Turn(j)
  <2>1. request[i] = "saved" /\ request' = [request EXCEPT ![i] = how]
    BY <1>3 DEF Answer
  <2>2. /\ Unpublished(i) /\ ~Unpublished(i)'
        /\ j # i => (Unpublished(j)' <=> Unpublished(j))
    BY <1>0, <2>1 DEF Unpublished
  <2>3. /\ Copies(Waiting, j)' <= Copies(Waiting, j) + Count(j = i)
        /\ Copies(Waiting, j)' \in Nat
        /\ Copies(workQueue, j)' = Copies(workQueue, j)
    <3>1. CASE delayQueue' = delayQueue
      BY <1>0, <1>1, <3>1, QueuesRest DEF Waiting, Count
    <3>2. CASE delayQueue' = Append(delayQueue, Delayed(i, delay[i]))
      BY <1>0, <1>1, <3>2, PublishAdds DEF Count
    <3>3. QED
      BY <1>3, <3>1, <3>2
  <2>4. Chances(j)' <= Chances(j) /\ Chances(j) \in Nat /\ Chances(j)' \in Nat
    BY <1>0, <1>1, <2>2, <2>3 DEF Chances, Count
  <2>5. QED
    BY <1>0, <1>1, <1>3, <2>2, <2>4 DEF Turn, Bounded
<1>4. CASE Publish(i) \/ PublishFails(i)
  BY <1>3, <1>4 DEF Publish, PublishFails, store
<1>5. CASE Cancel(i)
  <2>1. UNCHANGED <<request, stored, delayQueue>>
    BY <1>5 DEF Cancel, queues
  <2>2. Unpublished(j)' <=> Unpublished(j)
    BY <2>1 DEF Unpublished
  <2>3. Chances(j)' = Chances(j) /\ Chances(j) \in Nat
    BY <1>1, <2>1, <2>2, QueuesRest, ChancesCount DEF Chances, Waiting, Count
  <2>4. QED
    BY <1>0, <1>1, <2>1, <2>2, <2>3 DEF Turn, Bounded
<1>6. QED
  BY <1>2, <1>4, <1>5

LEMMA BrokerTurn ==
    ASSUME TypeOK, [Next]_vars, SendsBounded, Tick \/ DeadLetter, NEW j \in Ids
    PROVE  Turn(j)
<1>0. /\ losses \in Nat /\ losses' \in Nat /\ losses <= losses' /\ sent[j] \in Nat
      /\ Copies(Waiting, j) \in Nat /\ Copies(workQueue, j) \in Nat
      /\ Bounded(j)
  BY LossTypes, ChancesCount DEF SendsBounded
<1>1. /\ UNCHANGED <<request, stored, handler, sent>>
      /\ (MaySend(j)' <=> MaySend(j)) /\ (InUse(j)' <=> InUse(j))
      /\ (Unpublished(j)' <=> Unpublished(j))
  BY DEF Tick, DeadLetter, store, MaySend, InUse, Unpublished
<1>2. Copies(Waiting, j)' + Copies(workQueue, j)' = Copies(Waiting, j) + Copies(workQueue, j)
      /\ Copies(Waiting, j)' \in Nat /\ Copies(workQueue, j)' \in Nat
  <2>1. CASE Tick
    BY <1>0, <2>1, Ticked, QueuesRest DEF Tick
  <2>2. CASE DeadLetter
    <3>1. PICK h \in Ids : h = Head(delayQueue).id
      BY <2>2, DeadLettered, QueueFacts DEF DeadLetter
    <3>2. /\ Waiting # <<>> /\ Waiting' = Tail(Waiting) /\ Head(Waiting) = h /\ Waiting \in Seq(Ids)
          /\ workQueue' = Append(workQueue, h) /\ workQueue \in Seq(Ids)
      BY <2>2, <3>1, DeadLettered, QueueFacts DEF DeadLetter, TypeOK
    <3>3. Copies(Waiting, j) = Copies(Waiting', j) + Count(j = h) /\ Copies(Waiting', j) \in Nat
      <4>1. Waiting' \in Seq(Ids)
        BY <3>2, TailHolds
      <4>2. QED
        BY <3>2, <4>1, TailCopies, CopiesAreFinite
    <3>4. Copies(workQueue', j) = Copies(workQueue, j) + Count(j = h)
      BY <3>1, <3>2, AppendCopies
    <3>5. Copies(Waiting, j)' = Copies(Waiting', j) /\ Copies(workQueue, j)' = Copies(workQueue', j)
      BY DEF Copies
    <3>6. QED
      BY <1>0, <3>3, <3>4, <3>5 DEF Count
  <2>3. QED
    BY <2>1, <2>2
<1>3. Chances(j)' = Chances(j) /\ Chances(j) \in Nat
  BY <1>0, <1>1, <1>2 DEF Chances, Count
<1>4. QED
  BY <1>0, <1>1, <1>3 DEF Turn, Bounded

LEMMA HandlerTurn ==
    ASSUME TypeOK, [Next]_vars, SendsBounded, HandlerStep, NEW j \in Ids
    PROVE  Turn(j)
<1>0. /\ losses \in Nat /\ losses' \in Nat /\ losses <= losses' /\ sent[j] \in Nat
      /\ Copies(Waiting, j) \in Nat /\ Copies(workQueue, j) \in Nat
      /\ Bounded(j)
  BY LossTypes, ChancesCount DEF SendsBounded
<1>1. /\ workQueue \in Seq(Ids) /\ sent \in [Ids -> Nat]
      /\ handler \in [pc : HandlerStates, id : Ids, copy : Nat]
  BY DEF TypeOK
<1>2. UNCHANGED <<request, stored>> /\ (Unpublished(j)' <=> Unpublished(j))
  BY DEF HandlerStep, Deliver, SendOk, SendTemporary, SendAnswerLost, SendFatal, KeepTry,
         KeepError, KeepOk, Update, Retry, RetryFails, ToErrors, ToErrorsFails, Ack, AckLost,
         Goto, store, Unpublished
<1>3. CASE Deliver
  <2>1. PICK h \in Ids : h = Head(workQueue)
    BY <1>3, TailHolds DEF TypeOK, Deliver
  <2>2. /\ handler.pc = "idle" /\ workQueue # <<>> /\ workQueue' = Tail(workQueue)
        /\ handler'.id = h /\ handler'.pc = IF h \in stored \ canceled THEN "send" ELSE "ack"
        /\ UNCHANGED <<delayQueue, sent>>
    BY <1>3, <2>1 DEF Deliver
  <2>3. Copies(workQueue, j) = Copies(workQueue', j) + Count(j = h) /\ Copies(workQueue', j) \in Nat
    <3>1. workQueue' \in Seq(Ids)
      BY <1>1, <2>2, TailHolds
    <3>2. Copies(workQueue, j) = Copies(Tail(workQueue), j) + Count(j = Head(workQueue))
      BY <1>1, <2>2, TailCopies
    <3>3. Copies(workQueue', j) \in Nat
      BY <3>1, CopiesAreFinite
    <3>4. QED
      BY <2>1, <2>2, <3>2, <3>3
  <2>4. Copies(Waiting, j)' = Copies(Waiting, j) /\ Copies(workQueue, j)' = Copies(workQueue', j)
    BY <2>2 DEF Copies, Waiting
  <2>5. /\ ~MaySend(j) /\ (MaySend(j)' => j = h /\ j \in stored)
        /\ (InUse(j)' => j = h)
    BY <2>2 DEF MaySend, InUse
  <2>6. Chances(j)' <= Chances(j) /\ Chances(j) \in Nat /\ Chances(j)' \in Nat
    BY <1>0, <1>2, <2>3, <2>4, <2>5 DEF Chances, Count
  <2>7. InUse(j)' => Copies(workQueue, j) > 0
    BY <2>3, <2>5 DEF Count
  <2>8. QED
    BY <1>0, <1>2, <2>2, <2>5, <2>6, <2>7 DEF Turn
<1>4. CASE SendTemporary \/ SendFatal \/ KeepTry \/ KeepError \/ KeepOk
           \/ RetryFails \/ ToErrors \/ ToErrorsFails \/ Ack
  <2>1. UNCHANGED <<delayQueue, workQueue, sent>> /\ handler.pc # "idle" /\ handler'.id = handler.id
    BY <1>1, <1>4 DEF SendTemporary, SendFatal, KeepTry, KeepError, KeepOk, RetryFails, ToErrors,
                      ToErrorsFails, Ack, Goto, Update
  <2>2. MaySend(j)' => MaySend(j)
    BY <1>1, <1>4 DEF SendTemporary, SendFatal, KeepTry, KeepError, KeepOk, RetryFails, ToErrors,
                      ToErrorsFails, Ack, Goto, MaySend
  <2>3. /\ Copies(Waiting, j)' = Copies(Waiting, j)
        /\ Copies(workQueue, j)' = Copies(workQueue, j)
    BY <2>1 DEF Copies, Waiting
  <2>4. Chances(j)' <= Chances(j) /\ Chances(j) \in Nat /\ Chances(j)' \in Nat
    BY <1>0, <1>2, <2>2, <2>3 DEF Chances, Count
  <2>5. InUse(j)' => InUse(j)
    BY <2>1 DEF InUse
  <2>6. QED
    BY <1>0, <1>2, <2>1, <2>2, <2>4, <2>5 DEF Turn, Bounded
<1>5. CASE SendOk \/ SendAnswerLost
  <2>1. /\ handler.pc = "send" /\ handler'.id = handler.id /\ handler'.pc # "idle"
        /\ \/ handler'.pc = "keepOk"
           \/ handler'.pc = "keepTry" /\ losses' = losses + 1
        /\ sent' = [sent EXCEPT ![handler.id] = @ + 1]
        /\ UNCHANGED <<delayQueue, workQueue>>
    BY <1>1, <1>5 DEF SendOk, SendAnswerLost, Goto, Telegram, Loss
  <2>2. /\ Copies(Waiting, j)' = Copies(Waiting, j)
        /\ Copies(workQueue, j)' = Copies(workQueue, j)
    BY <2>1 DEF Copies, Waiting
  <2>3. CASE j = handler.id
    <3>1. /\ sent'[j] = sent[j] + 1 /\ MaySend(j) /\ j \in stored
          /\ (MaySend(j)' => losses' = losses + 1)
      BY <1>0, <1>1, <2>1, <2>3 DEF MaySend, Bounded
    <3>2. ~Unpublished(j) /\ ~Unpublished(j)'
      BY <1>0, <1>2, <2>1, <2>3 DEF Bounded, InUse
    <3>3. /\ Chances(j) \in Nat /\ Chances(j)' \in Nat
          /\ Chances(j)' + 1 <= Chances(j) + (losses' - losses)
      BY <1>0, <2>2, <3>1, <3>2 DEF Chances, Count
    <3>4. QED
      BY <1>0, <1>2, <3>1, <3>2, <3>3 DEF Turn
  <2>4. CASE j # handler.id
    <3>1. sent'[j] = sent[j] /\ ~MaySend(j) /\ ~MaySend(j)' /\ ~InUse(j)'
      BY <1>1, <2>1, <2>4 DEF MaySend, InUse
    <3>2. Chances(j)' = Chances(j) /\ Chances(j) \in Nat
      BY <1>0, <1>2, <2>2, <3>1 DEF Chances, Count
    <3>3. QED
      BY <1>0, <1>2, <3>1, <3>2 DEF Turn
  <2>5. QED
    BY <2>3, <2>4
<1>6. CASE Retry
  <2>1. PICK h \in Ids : h = handler.id
    BY <1>1
  <2>2. /\ handler.pc = "retry" /\ handler'.pc = "ack" /\ handler'.id = h
        /\ delayQueue' = Append(delayQueue, Delayed(h, handler.copy * Backoff))
        /\ handler.copy * Backoff \in Nat
        /\ UNCHANGED <<workQueue, sent>>
    BY <1>1, <1>6, <2>1, ConstantsAssumption DEF Retry, Goto
  <2>3. /\ Copies(Waiting, j)' = Copies(Waiting, j) + Count(j = h)
        /\ Copies(workQueue, j)' = Copies(workQueue, j)
    BY <2>2, PublishAdds
  <2>4. (MaySend(j) <=> j = h) /\ ~MaySend(j)' /\ (InUse(j)' => InUse(j))
    BY <2>1, <2>2 DEF MaySend, InUse
  <2>5. Chances(j)' = Chances(j) /\ Chances(j) \in Nat
    BY <1>0, <1>2, <2>3, <2>4 DEF Chances, Count
  <2>6. QED
    BY <1>0, <1>2, <2>2, <2>4, <2>5 DEF Turn
<1>7. CASE AckLost
  <2>1. /\ handler.pc = "ack" /\ handler'.pc = "idle" /\ losses' = losses + 1
        /\ workQueue' = <<handler.id>> \o workQueue /\ UNCHANGED <<delayQueue, sent>>
    BY <1>1, <1>7 DEF AckLost, Loss
  <2>2. Copies(workQueue, j)' = Copies(workQueue, j) + Count(j = handler.id)
    BY <2>1, RequeuedCopies
  <2>3. Copies(Waiting, j)' = Copies(Waiting, j)
    BY <2>1 DEF Copies, Waiting
  <2>4. ~MaySend(j) /\ ~MaySend(j)' /\ ~InUse(j)' /\ (j = handler.id => InUse(j))
    BY <2>1 DEF MaySend, InUse
  <2>5. /\ Chances(j)' = Chances(j) + Count(j = handler.id)
        /\ Chances(j) \in Nat /\ Chances(j)' \in Nat
    BY <1>0, <1>2, <2>2, <2>3, <2>4 DEF Chances, Count
  <2>6. QED
    BY <1>0, <1>2, <2>1, <2>4, <2>5 DEF Turn, Bounded, Count
<1>8. QED
  BY <1>3, <1>4, <1>5, <1>6, <1>7 DEF HandlerStep

\* After a restart nothing is stored: what is delivered again is dropped.
LEMMA CrashTurn ==
    ASSUME TypeOK, [Next]_vars, SendsBounded, Crash, NEW j \in Ids
    PROVE  Turn(j)
<1>1. /\ stored' = {} /\ handler'.pc = "idle" /\ UNCHANGED <<delayQueue, sent>>
      /\ Unpublished(j)' => Unpublished(j)
  BY DEF Crash, Idle, Unpublished
<1>2. ~MaySend(j)' /\ ~InUse(j)'
  BY <1>1 DEF MaySend, InUse
<1>3. ASSUME Unpublished(j)' PROVE Chances(j)' <= Chances(j)
  <2>1. ~InUse(j) /\ Unpublished(j)
    BY <1>1, <1>3 DEF SendsBounded, Bounded
  <2>2. Copies(workQueue, j)' = Copies(workQueue, j)
    <3>1. CASE handler.pc = "idle"
      BY <3>1 DEF Crash, Copies
    <3>2. CASE handler.pc # "idle"
      <4>1. workQueue' = <<handler.id>> \o workQueue /\ handler.id # j
        BY <2>1, <3>2 DEF Crash, InUse
      <4>2. Copies(workQueue, j)' = Copies(workQueue, j) + Count(j = handler.id)
        BY <4>1, RequeuedCopies
      <4>3. Copies(workQueue, j) \in Nat
        BY ChancesCount
      <4>4. QED
        BY <4>1, <4>2, <4>3 DEF Count
    <3>3. QED
      BY <3>1, <3>2
  <2>3. Copies(Waiting, j)' = Copies(Waiting, j)
    BY <1>1 DEF Copies, Waiting
  <2>4. QED
    BY <1>2, <1>3, <2>1, <2>2, <2>3, ChancesCount DEF Chances, Count
<1>4. QED
  BY <1>1, <1>2, <1>3 DEF Turn

LEMMA BoundedNext == ASSUME TypeOK, SendsBounded, [Next]_vars PROVE SendsBounded'
<1> SUFFICES ASSUME NEW j \in Ids PROVE Bounded(j)'
  BY DEF SendsBounded
<1>1. CASE UNCHANGED vars
  <2>1. Bounded(j) /\ UNCHANGED <<request, delayQueue, workQueue, handler, sent, stored, losses>>
    BY <1>1 DEF SendsBounded, vars
  <2>2. QED
    BY <2>1 DEF Bounded, Chances, Unpublished, Copies, Waiting, MaySend, InUse
<1>2. CASE Next
  <2>1. Turn(j)
    BY <1>2, HttpTurn, BrokerTurn, HandlerTurn, CrashTurn DEF Next
  <2>2. QED
    BY <2>1, TurnKeeps DEF SendsBounded
<1>3. QED
  BY <1>1, <1>2

\* Retries, restarts and redeliveries double no send; only a loss can.
THEOREM OnlyALossDoubles == Spec => []AtMostOncePerLoss
<1>1. Init => SendsBounded
  <2> SUFFICES ASSUME Init, NEW i \in Ids PROVE Bounded(i)
    BY DEF SendsBounded
  <2>1. Waiting = <<>> /\ workQueue = <<>>
    BY EmptySeq DEF Init, Waiting
  <2>2. Unpublished(i) /\ ~MaySend(i) /\ ~InUse(i) /\ sent[i] = 0 /\ losses = 0 /\ stored = {}
    BY DEF Init, Idle, Unpublished, MaySend, InUse
  <2>3. Chances(i) = 1
    BY <2>1, <2>2, EmptyHasNone DEF Chances, Count
  <2>4. QED
    BY <2>2, <2>3 DEF Bounded
<1>2. IInv /\ SendsBounded /\ [Next]_vars => SendsBounded'
  BY BoundedNext DEF IInv
<1>3. SendsBounded => AtMostOncePerLoss
  BY DEF SendsBounded, Bounded, AtMostOncePerLoss
<1>4. QED
  BY <1>1, <1>2, <1>3, IInvAlways, PTL DEF Spec
=============================================================================
