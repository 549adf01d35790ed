---------------------------- MODULE EventBooker ----------------------------
(***************************************************************************)
(* L3.5, EventBooker: HTTP handlers that book and confirm seats in         *)
(* PostgreSQL, and an in-memory scheduler that gives an unpaid seat back   *)
(* after two minutes.                                                      *)
(*                                                                         *)
(* Every UPDATE of a seat takes the row's lock and commits in the same     *)
(* transaction, so a repository call is one step, at its commit.  What     *)
(* interleaves is what happens around the calls: a handler that has        *)
(* committed its booking and has not called AddItem yet, the sweep of the  *)
(* scheduler, the goroutine the sweep starts for each expired item, and a  *)
(* restart of the process, which keeps the table and loses all of these.   *)
(***************************************************************************)
EXTENDS Naturals, FiniteSets

CONSTANTS
    MaxSeats,   \* bound: seat ids ever allocated
    Hold,       \* the two minutes of BookSpace, in ticks of the model's clock
    MaxFaults   \* bound: restarts and failed or ambiguous database calls

ASSUME BoundsAssumption == /\ MaxSeats \in Nat
                           /\ Hold \in Nat
                           /\ MaxFaults \in Nat

VARIABLES
    lastSeat,  \* last id given by the seats.id sequence
    status,    \* seats.status; "absent" for an id not given yet
    heldFor,   \* ticks since seats.booked_at, 0 when it is NULL
    booking,   \* per seat, BookSpace calls between their commit and AddItem
    store,     \* CornScheduler.store: seat id -> ticks since its AddItem
    task,      \* per seat, goroutines started by checkStore and not done
    faults     \* faults so far

table  == <<lastSeat, status, heldFor>>
memory == <<booking, store, task>>
vars   == <<lastSeat, status, heldFor, booking, store, task, faults>>

SeatIds  == 1..MaxSeats
Statuses == {"absent", "free", "reserved", "confirmed"}

\* A time is kept as the ticks that passed since, and counting stops where
\* now.After(deathTime) has become true for good.
Ages       == 0..(Hold + 1)
Older(age) == IF age > Hold THEN age ELSE age + 1
Expired(age) == age > Hold

Nobody == [s \in SeatIds |-> 0]
OneMore(count, S) == [s \in SeatIds |-> IF s \in S THEN count[s] + 1 ELSE count[s]]
OneLess(count, s) == [count EXCEPT ![s] = @ - 1]
EmptyStore == [s \in {} |-> 0]

Fault == /\ faults < MaxFaults
         /\ faults' = faults + 1

Init == /\ lastSeat = 0
        /\ status = [s \in SeatIds |-> "absent"]
        /\ heldFor = [s \in SeatIds |-> 0]
        /\ booking = Nobody
        /\ store = EmptyStore
        /\ task = Nobody
        /\ faults = 0

-----------------------------------------------------------------------------
(* Handlers and repository.                                                *)

\* POST /events: one transaction inserts the event and its n seats.
CreateEvent(n) ==
    /\ n > 0
    /\ lastSeat + n <= MaxSeats
    /\ lastSeat' = lastSeat + n
    /\ status' = [s \in SeatIds |-> IF s \in (lastSeat + 1)..(lastSeat + n)
                                    THEN "free" ELSE status[s]]
    /\ UNCHANGED <<heldFor, memory, faults>>

\* UPDATE seats SET status = reserved, booked_at = NOW() WHERE status = free.
BookSeat(s) ==
    /\ status[s] = "free"
    /\ status' = [status EXCEPT ![s] = "reserved"]
    /\ heldFor' = [heldFor EXCEPT ![s] = 0]
    /\ UNCHANGED lastSeat

\* Mutant: the handler does not go on to AddItem.
BookSpaceWithoutTimer(s) ==
    /\ BookSeat(s)
    /\ UNCHANGED <<memory, faults>>

\* POST /events/{id}/book up to the commit; AddItem is the handler's next step.
BookSpace(s) ==
    /\ BookSeat(s)
    /\ booking' = OneMore(booking, {s})
    /\ UNCHANGED <<store, task, faults>>

\* The commit is applied and tx.Commit still returns an error (the connection
\* or the request's context is gone): the handler answers 409 and adds no item.
BookAnswerLost(s) ==
    /\ Fault
    /\ BookSeat(s)
    /\ UNCHANGED memory

\* cs.store[id] = &Item{deathTime: now + 2 min}, overwriting an older item.
AddItem(s) ==
    /\ booking[s] > 0
    /\ booking' = OneLess(booking, s)
    /\ store' = [x \in DOMAIN store \cup {s} |-> IF x = s THEN 0 ELSE store[x]]
    /\ UNCHANGED <<table, task, faults>>

\* Mutant: PaySeat writes 'paid', the value of the enum that nothing uses.
ConfirmBookingAsPaid(s) ==
    /\ status[s] = "reserved"
    /\ status' = [status EXCEPT ![s] = "paid"]
    /\ UNCHANGED <<lastSeat, heldFor, memory, faults>>

\* POST /events/{id}/confirm: reserved -> confirmed, whatever the deadline says;
\* the scheduler's item stays.
ConfirmBooking(s) ==
    /\ status[s] = "reserved"
    /\ status' = [status EXCEPT ![s] = "confirmed"]
    /\ UNCHANGED <<lastSeat, heldFor, memory, faults>>

-----------------------------------------------------------------------------
(* Scheduler.                                                              *)

\* Mutant: the sweep starts the task and leaves the item in the store.
CheckStoreKeepsItem ==
    LET due == {s \in DOMAIN store : Expired(store[s])}
    IN  /\ due # {}
        /\ task' = OneMore(task, due)
        /\ UNCHANGED <<table, booking, store, faults>>

\* Mutant: the sweep drops the expired items and starts no task.
CheckStoreDropsItem ==
    LET due == {s \in DOMAIN store : Expired(store[s])}
    IN  /\ due # {}
        /\ store' = [s \in DOMAIN store \ due |-> store[s]]
        /\ UNCHANGED <<table, booking, task, faults>>

\* One sweep, under the mutex: every expired item leaves the store and gets a
\* goroutine.  A sweep that finds none changes nothing.
CheckStore ==
    LET due == {s \in DOMAIN store : Expired(store[s])}
    IN  /\ due # {}
        /\ task' = OneMore(task, due)
        /\ store' = [s \in DOMAIN store \ due |-> store[s]]
        /\ UNCHANGED <<table, booking, faults>>

\* Mutant: the UPDATE has no AND status = 'reserved'.
CancelAnyway(s) ==
    /\ task[s] > 0
    /\ task' = OneLess(task, s)
    /\ status' = [status EXCEPT ![s] = "free"]
    /\ heldFor' = [heldFor EXCEPT ![s] = 0]
    /\ UNCHANGED <<lastSeat, booking, store, faults>>

\* The task: UPDATE seats SET status = free, booked_at = NULL WHERE status =
\* reserved.  It knows the seat and not the booking it was started for.
CancelIfUnpaid(s) ==
    /\ task[s] > 0
    /\ task' = OneLess(task, s)
    /\ IF status[s] = "reserved"
       THEN /\ status' = [status EXCEPT ![s] = "free"]
            /\ heldFor' = [heldFor EXCEPT ![s] = 0]
       ELSE UNCHANGED <<status, heldFor>>
    /\ UNCHANGED <<lastSeat, booking, store, faults>>

\* The task's call fails (its five seconds pass, the database is away): the
\* error is logged and nothing tries again.
CancelFails(s) ==
    /\ Fault
    /\ task[s] > 0
    /\ task' = OneLess(task, s)
    /\ UNCHANGED <<table, booking, store>>

-----------------------------------------------------------------------------
(* Environment.                                                            *)

\* The process stops, with or without a signal, and starts again: handlers and
\* tasks end, scheduler.New makes an empty store, nothing is read back.
Restart ==
    /\ Fault
    /\ booking' = Nobody
    /\ store' = EmptyStore
    /\ task' = Nobody
    /\ UNCHANGED table

Tick ==
    /\ heldFor' = [s \in SeatIds |->
                     IF status[s] \in {"reserved", "confirmed"} THEN Older(heldFor[s])
                                                                ELSE heldFor[s]]
    /\ store' = [s \in DOMAIN store |-> Older(store[s])]
    /\ UNCHANGED <<lastSeat, status, booking, task, faults>>

Next == \/ \E n \in SeatIds : CreateEvent(n)
        \/ \E s \in SeatIds : \/ BookSpace(s) \/ BookAnswerLost(s) \/ AddItem(s)
                              \/ ConfirmBooking(s)
                              \/ CancelIfUnpaid(s) \/ CancelFails(s)
        \/ CheckStore
        \/ Restart
        \/ Tick

\* The clock runs, the ticker keeps ticking, and a goroutine that can run does.
\* Clients owe nothing, and a fault never has to happen.
Fairness == /\ WF_vars(Tick)
            /\ WF_vars(CheckStore)
            /\ \A s \in SeatIds : WF_vars(AddItem(s)) /\ WF_vars(CancelIfUnpaid(s))

Spec     == Init /\ [][Next]_vars
FairSpec == Spec /\ Fairness

-----------------------------------------------------------------------------
(* Properties.                                                             *)

\* Every variable has its type.  Of seats.status: the enum value 'paid' is never
\* written, so no reader has to know it.
TypeOK == /\ lastSeat \in 0..MaxSeats
          /\ status \in [SeatIds -> Statuses]
          /\ heldFor \in [SeatIds -> Ages]
          /\ booking \in [SeatIds -> Nat]
          /\ DOMAIN store \subseteq SeatIds
          /\ \A s \in DOMAIN store : store[s] \in Ages
          /\ task \in [SeatIds -> Nat]
          /\ faults \in 0..MaxFaults

Timers(s) == booking[s] + task[s] + (IF s \in DOMAIN store THEN 1 ELSE 0)

\* At any time at most one thing will ever try to cancel a seat, and nothing is
\* left over when the seat is free: this is what keeps a task, which knows only
\* the seat's id, from cancelling a later booking of the same seat.
OneTimerPerBooking ==
    \A s \in SeatIds : /\ Timers(s) <= 1
                       /\ status[s] \in {"absent", "free"} => Timers(s) = 0

\* A reservation without a timer, which nothing will ever release, exists only
\* after a restart or a failed database call.
AbandonedOnlyByFault ==
    \A s \in SeatIds : status[s] = "reserved" /\ Timers(s) = 0 => faults > 0

\* The table behaves like the abstract seat: a reservation is released only when
\* it was held for longer than Hold, a confirmed seat is never released by the
\* timer that still runs for it.  Faults and restarts included.
Seat == INSTANCE SeatHold WITH Seats <- SeatIds
SeatContract == Seat!HoldSpec

\* As long as no fault happens, a reservation ends: it is paid or released.
UnpaidIsReleased ==
    \A s \in SeatIds : (status[s] = "reserved") ~> (status[s] # "reserved" \/ faults > 0)

\* The README's promise: a place that is not paid for frees itself.  The code
\* keeps it only while the process lives and its calls succeed.
UnpaidIsAlwaysReleased ==
    \A s \in SeatIds : (status[s] = "reserved") ~> (status[s] # "reserved")
=============================================================================
