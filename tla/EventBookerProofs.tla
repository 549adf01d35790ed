------------------------- MODULE EventBookerProofs -------------------------
(***************************************************************************)
(* Proofs about EventBooker, for any number of seats, any hold and any     *)
(* number of faults.  The inductive invariant IInv adds to the invariants  *)
(* of the runs how a timer relates to the booking it was set for: it never *)
(* runs ahead of it.                                                       *)
(***************************************************************************)
EXTENDS EventBooker, TLAPS

\* The seat ids given so far are those with a row.
IdsGiven == \A s \in SeatIds : status[s] = "absent" <=> s > lastSeat

\* The item of a reserved seat is no older than the booking, and a task runs
\* only when the booking it was started for has expired.
TimerLagsBooking ==
    \A s \in SeatIds : status[s] = "reserved" =>
        /\ s \in DOMAIN store => store[s] <= heldFor[s]
        /\ task[s] > 0 => heldFor[s] > Hold

IInv == /\ TypeOK
        /\ IdsGiven
        /\ OneTimerPerBooking
        /\ AbandonedOnlyByFault
        /\ TimerLagsBooking

-----------------------------------------------------------------------------

LEMMA AgesFacts ==
    ASSUME NEW a \in Ages
    PROVE  /\ Older(a) \in Ages
           /\ a <= Older(a)
           /\ \A b \in Ages : a <= b => Older(a) <= Older(b)
BY BoundsAssumption DEF Ages, Older

LEMMA FaultFacts ==
    ASSUME faults \in 0..MaxFaults, Fault
    PROVE  faults' \in 0..MaxFaults /\ faults' > 0
BY BoundsAssumption DEF Fault

LEMMA InitHolds == Init => IInv
<1> SUFFICES ASSUME Init PROVE IInv
  OBVIOUS
<1> USE BoundsAssumption DEF Init
<1>1. TypeOK
  BY DEF TypeOK, Statuses, Ages, Nobody, EmptyStore, SeatIds
<1>2. IdsGiven
  BY DEF IdsGiven, SeatIds
<1>3. OneTimerPerBooking
  BY DEF OneTimerPerBooking, Timers, Nobody, EmptyStore
<1>4. AbandonedOnlyByFault /\ TimerLagsBooking
  BY DEF AbandonedOnlyByFault, TimerLagsBooking
<1>5. QED
  BY <1>1, <1>2, <1>3, <1>4 DEF IInv

-----------------------------------------------------------------------------
(* One lemma per action.                                                   *)

LEMMA CreateEventKeeps ==
    ASSUME IInv, NEW n \in SeatIds, CreateEvent(n) PROVE IInv'
<1> USE BoundsAssumption DEF IInv, TypeOK, CreateEvent, memory, SeatIds
<1>1. TypeOK'
  BY DEF Statuses
<1>2. IdsGiven'
  BY DEF IdsGiven
<1>3. \A s \in SeatIds : \/ status'[s] = status[s]
                         \/ status'[s] = "free" /\ status[s] = "absent"
  BY DEF IdsGiven
<1>4. OneTimerPerBooking'
  BY <1>3 DEF OneTimerPerBooking, Timers
<1>5. AbandonedOnlyByFault' /\ TimerLagsBooking'
  BY <1>3 DEF AbandonedOnlyByFault, TimerLagsBooking, Timers
<1>6. QED
  BY <1>1, <1>2, <1>4, <1>5

LEMMA BookSpaceKeeps ==
    ASSUME IInv, NEW s \in SeatIds, BookSpace(s) PROVE IInv'
<1> USE BoundsAssumption DEF IInv, TypeOK, BookSpace, BookSeat, OneMore
<1>1. TypeOK'
  BY DEF Statuses, Ages
<1>2. IdsGiven'
  BY DEF IdsGiven
<1>3. Timers(s) = 0 /\ booking[s] = 0 /\ s \notin DOMAIN store /\ task[s] = 0
  BY DEF OneTimerPerBooking, Timers
<1>4. Timers(s)' = 1 /\ \A x \in SeatIds \ {s} : Timers(x)' = Timers(x)
  BY <1>3 DEF Timers
<1>5. OneTimerPerBooking'
  BY <1>4 DEF OneTimerPerBooking
<1>6. AbandonedOnlyByFault'
  BY <1>4 DEF AbandonedOnlyByFault
<1>7. TimerLagsBooking'
  BY <1>3 DEF TimerLagsBooking
<1>8. QED
  BY <1>1, <1>2, <1>5, <1>6, <1>7

LEMMA BookAnswerLostKeeps ==
    ASSUME IInv, NEW s \in SeatIds, BookAnswerLost(s) PROVE IInv'
<1> USE BoundsAssumption DEF IInv, TypeOK, BookAnswerLost, BookSeat, memory
<1>1. TypeOK'
  BY FaultFacts DEF Statuses, Ages
<1>2. IdsGiven'
  BY DEF IdsGiven
<1>3. Timers(s) = 0 /\ s \notin DOMAIN store /\ task[s] = 0
  BY DEF OneTimerPerBooking, Timers
<1>4. \A x \in SeatIds : Timers(x)' = Timers(x)
  BY DEF Timers
<1>5. OneTimerPerBooking'
  BY <1>3, <1>4 DEF OneTimerPerBooking
<1>6. AbandonedOnlyByFault'
  BY FaultFacts DEF AbandonedOnlyByFault
<1>7. TimerLagsBooking'
  BY <1>3 DEF TimerLagsBooking
<1>8. QED
  BY <1>1, <1>2, <1>5, <1>6, <1>7

LEMMA AddItemKeeps ==
    ASSUME IInv, NEW s \in SeatIds, AddItem(s) PROVE IInv'
<1> USE BoundsAssumption DEF IInv, TypeOK, AddItem, table, OneLess
<1>1. booking[s] = 1 /\ s \notin DOMAIN store /\ task[s] = 0 /\ Timers(s) = 1
  BY DEF OneTimerPerBooking, Timers
<1>2. TypeOK'
  BY DEF Ages
<1>3. IdsGiven'
  BY DEF IdsGiven
<1>4. \A x \in SeatIds : Timers(x)' = Timers(x)
  BY <1>1 DEF Timers
<1>5. OneTimerPerBooking' /\ AbandonedOnlyByFault'
  BY <1>4 DEF OneTimerPerBooking, AbandonedOnlyByFault
<1>6. TimerLagsBooking'
  BY <1>1 DEF TimerLagsBooking, Ages
<1>7. QED
  BY <1>2, <1>3, <1>5, <1>6

LEMMA ConfirmBookingKeeps ==
    ASSUME IInv, NEW s \in SeatIds, ConfirmBooking(s) PROVE IInv'
<1> USE DEF IInv, TypeOK, ConfirmBooking, memory
<1>1. TypeOK'
  BY DEF Statuses
<1>2. IdsGiven'
  BY DEF IdsGiven
<1>3. \A x \in SeatIds : Timers(x)' = Timers(x)
  BY DEF Timers
<1>4. OneTimerPerBooking' /\ AbandonedOnlyByFault'
  BY <1>3 DEF OneTimerPerBooking, AbandonedOnlyByFault
<1>5. TimerLagsBooking'
  BY DEF TimerLagsBooking
<1>6. QED
  BY <1>1, <1>2, <1>4, <1>5

LEMMA CheckStoreKeeps ==
    ASSUME IInv, CheckStore PROVE IInv'
<1> DEFINE due == {s \in DOMAIN store : Expired(store[s])}
<1> USE BoundsAssumption DEF IInv, TypeOK, CheckStore, table, OneMore, Expired
<1>1. \A s \in due : s \in SeatIds /\ task[s] = 0 /\ booking[s] = 0
  BY DEF OneTimerPerBooking, Timers
<1>2. TypeOK'
  OBVIOUS
<1>3. IdsGiven'
  BY DEF IdsGiven
<1>4. \A x \in SeatIds : Timers(x)' = Timers(x)
  BY <1>1 DEF Timers
<1>5. OneTimerPerBooking' /\ AbandonedOnlyByFault'
  BY <1>4 DEF OneTimerPerBooking, AbandonedOnlyByFault
<1>6. \A s \in due : status[s] = "reserved" => heldFor[s] > Hold
  BY <1>1 DEF TimerLagsBooking, Ages
<1>7. TimerLagsBooking'
  BY <1>6 DEF TimerLagsBooking
<1>8. QED
  BY <1>2, <1>3, <1>5, <1>7

LEMMA CancelIfUnpaidKeeps ==
    ASSUME IInv, NEW s \in SeatIds, CancelIfUnpaid(s) PROVE IInv'
<1> USE BoundsAssumption DEF IInv, TypeOK, CancelIfUnpaid, OneLess
<1>1. Timers(s) = 1 /\ task[s] = 1 /\ booking[s] = 0 /\ s \notin DOMAIN store
  BY DEF OneTimerPerBooking, Timers
<1>2. TypeOK'
  BY DEF Statuses, Ages
<1>3. status[s] \notin {"absent", "free"}
  BY <1>1 DEF OneTimerPerBooking
<1>4. IdsGiven'
  BY <1>3 DEF IdsGiven
<1>5. Timers(s)' = 0 /\ \A x \in SeatIds \ {s} : Timers(x)' = Timers(x)
  BY <1>1 DEF Timers
<1>6. OneTimerPerBooking' /\ AbandonedOnlyByFault'
  BY <1>5 DEF OneTimerPerBooking, AbandonedOnlyByFault
<1>7. TimerLagsBooking'
  BY DEF TimerLagsBooking
<1>8. QED
  BY <1>2, <1>4, <1>6, <1>7

LEMMA CancelFailsKeeps ==
    ASSUME IInv, NEW s \in SeatIds, CancelFails(s) PROVE IInv'
<1> USE BoundsAssumption DEF IInv, TypeOK, CancelFails, table, OneLess
<1>0. Timers(s) <= 1 /\ task[s] > 0 /\ task[s] \in Nat /\ booking[s] \in Nat
  BY DEF OneTimerPerBooking
<1>1. Timers(s) = 1 /\ task[s] = 1 /\ booking[s] = 0 /\ s \notin DOMAIN store
  BY ONLY <1>0 DEF Timers
<1>2. TypeOK'
  BY FaultFacts
<1>3. IdsGiven'
  BY DEF IdsGiven
<1>4. Timers(s)' = 0 /\ \A x \in SeatIds \ {s} : Timers(x)' = Timers(x)
  BY <1>1 DEF Timers
<1>5. OneTimerPerBooking'
  BY <1>4 DEF OneTimerPerBooking
<1>6. AbandonedOnlyByFault'
  BY FaultFacts DEF AbandonedOnlyByFault
<1>7. TimerLagsBooking'
  BY DEF TimerLagsBooking
<1>8. QED
  BY <1>2, <1>3, <1>5, <1>6, <1>7

LEMMA RestartKeeps ==
    ASSUME IInv, Restart PROVE IInv'
<1> USE DEF IInv, TypeOK, Restart, table, Nobody, EmptyStore
<1>1. TypeOK'
  BY FaultFacts
<1>2. IdsGiven'
  BY DEF IdsGiven
<1>3. \A x \in SeatIds : Timers(x)' = 0
  BY DEF Timers
<1>4. OneTimerPerBooking'
  BY <1>3 DEF OneTimerPerBooking
<1>5. AbandonedOnlyByFault'
  BY FaultFacts DEF AbandonedOnlyByFault
<1>6. TimerLagsBooking'
  BY DEF TimerLagsBooking
<1>7. QED
  BY <1>1, <1>2, <1>4, <1>5, <1>6

LEMMA TickKeeps ==
    ASSUME IInv, Tick PROVE IInv'
<1> USE DEF IInv, TypeOK, Tick
<1>1. TypeOK'
  BY AgesFacts
<1>2. IdsGiven'
  BY DEF IdsGiven
<1>3. \A x \in SeatIds : Timers(x)' = Timers(x)
  BY DEF Timers
<1>4. OneTimerPerBooking' /\ AbandonedOnlyByFault'
  BY <1>3 DEF OneTimerPerBooking, AbandonedOnlyByFault
<1>5. TimerLagsBooking'
  <2> SUFFICES ASSUME NEW s \in SeatIds, status'[s] = "reserved"
               PROVE  /\ s \in DOMAIN store' => store'[s] <= heldFor'[s]
                      /\ task'[s] > 0 => heldFor'[s] > Hold
    BY DEF TimerLagsBooking
  <2>1. heldFor'[s] = Older(heldFor[s])
    OBVIOUS
  <2>2. s \in DOMAIN store' => store'[s] <= heldFor'[s]
    BY <2>1, AgesFacts DEF TimerLagsBooking
  <2>3. task'[s] > 0 => heldFor'[s] > Hold
    BY <2>1, BoundsAssumption DEF TimerLagsBooking, Older, Ages
  <2>4. QED
    BY <2>2, <2>3
<1>6. QED
  BY <1>1, <1>2, <1>4, <1>5

LEMMA NextKeeps == IInv /\ [Next]_vars => IInv'
<1> SUFFICES ASSUME IInv, [Next]_vars PROVE IInv'
  OBVIOUS
<1>1. CASE Next
  BY <1>1, CreateEventKeeps, BookSpaceKeeps, BookAnswerLostKeeps, AddItemKeeps,
     ConfirmBookingKeeps, CheckStoreKeeps, CancelIfUnpaidKeeps, CancelFailsKeeps,
     RestartKeeps, TickKeeps DEF Next
<1>2. CASE UNCHANGED vars
  BY <1>2 DEF vars, IInv, TypeOK, IdsGiven, OneTimerPerBooking,
              AbandonedOnlyByFault, TimerLagsBooking, Timers
<1>3. QED
  BY <1>1, <1>2

-----------------------------------------------------------------------------

\* IInv holds in every state of every behaviour.
THEOREM IInvAlways == Spec => []IInv
BY InitHolds, NextKeeps, PTL DEF Spec

\* Every variable keeps its type, seats.status its four values.
THEOREM TypeCorrect == Spec => []TypeOK
BY IInvAlways, PTL DEF IInv

\* No seat ever has two timers, and none survives the booking it was set for.
THEOREM OneTimer == Spec => []OneTimerPerBooking
BY IInvAlways, PTL DEF IInv

\* Without faults every reservation has a timer that will end it.
THEOREM AbandonedByFault == Spec => []AbandonedOnlyByFault
BY IInvAlways, PTL DEF IInv

LEMMA InitRefines == Init => Seat!HoldInit
BY DEF Init, Seat!HoldInit

LEMMA StepRefines == IInv /\ [Next]_vars => [Seat!HoldNext]_(Seat!holdVars)
<1> SUFFICES ASSUME IInv, [Next]_vars PROVE [Seat!HoldNext]_(Seat!holdVars)
  OBVIOUS
<1> USE DEF IInv, TypeOK, Seat!HoldNext, Seat!holdVars
<1>1. ASSUME NEW n \in SeatIds, CreateEvent(n)
      PROVE  \E S \in SUBSET SeatIds : Seat!Offer(S)
  <2> DEFINE new == (lastSeat + 1)..(lastSeat + n)
  <2>1. new \in SUBSET SeatIds
    BY <1>1, BoundsAssumption DEF CreateEvent, SeatIds
  <2>2. \A s \in new : status[s] = "absent"
    BY <1>1, <2>1, BoundsAssumption DEF CreateEvent, IdsGiven, SeatIds
  <2>3. Seat!Offer(new)
    BY <1>1, <2>2 DEF CreateEvent, Seat!Offer
  <2>4. QED
    BY <2>1, <2>3
<1>2. ASSUME NEW s \in SeatIds, BookSpace(s) \/ BookAnswerLost(s)
      PROVE  Seat!Reserve(s)
  BY <1>2 DEF BookSpace, BookAnswerLost, BookSeat, Seat!Reserve
<1>3. ASSUME NEW s \in SeatIds, ConfirmBooking(s)
      PROVE  Seat!Confirm(s)
  BY <1>3 DEF ConfirmBooking, Seat!Confirm
<1>4. ASSUME NEW s \in SeatIds, CancelIfUnpaid(s)
      PROVE  Seat!GiveUp(s) \/ UNCHANGED <<status, heldFor>>
  BY <1>4 DEF CancelIfUnpaid, Seat!GiveUp, TimerLagsBooking
<1>5. ASSUME NEW s \in SeatIds, AddItem(s) \/ CancelFails(s)
      PROVE  UNCHANGED <<status, heldFor>>
  BY <1>5 DEF AddItem, CancelFails, table
<1>6. ASSUME CheckStore \/ Restart
      PROVE  UNCHANGED <<status, heldFor>>
  BY <1>6 DEF CheckStore, Restart, table
<1>7. ASSUME Tick
      PROVE  Seat!Pass
  BY <1>7 DEF Tick, Seat!Pass, Older, Seat!Older
<1>8. ASSUME UNCHANGED vars
      PROVE  UNCHANGED <<status, heldFor>>
  BY <1>8 DEF vars
<1>9. QED
  BY <1>1, <1>2, <1>3, <1>4, <1>5, <1>6, <1>7, <1>8 DEF Next

\* Whatever the handlers, the sweep, the tasks and restarts do in between, the
\* seats table goes through the steps of the abstract seat only: a confirmed
\* seat stays confirmed, and a reservation is released after Hold, not before.
THEOREM KeepsSeatContract == Spec => SeatContract
BY InitRefines, StepRefines, IInvAlways, PTL
   DEF Spec, SeatContract, Seat!HoldSpec
=============================================================================
