------------------------------ MODULE SeatHold ------------------------------
(***************************************************************************)
(* What EventBooker promises for every seat, whatever the service does     *)
(* inside: a seat is offered once, a free seat can be reserved, a          *)
(* reservation is either confirmed, and then stays so, or is given up, and *)
(* it is given up only after it has been held for longer than Hold.        *)
(***************************************************************************)
EXTENDS Naturals

CONSTANTS
    Seats,   \* seat ids
    Hold     \* ticks a reservation is kept for the client who made it

VARIABLES
    status,  \* [Seats -> {"absent", "free", "reserved", "confirmed"}]
    heldFor  \* ticks since the seat was booked, counted up to Hold + 1

holdVars == <<status, heldFor>>

HoldInit == /\ status = [s \in Seats |-> "absent"]
            /\ heldFor = [s \in Seats |-> 0]

\* A new event brings a set of seats that did not exist before.
Offer(S) == /\ \A s \in S : status[s] = "absent"
            /\ status' = [s \in Seats |-> IF s \in S THEN "free" ELSE status[s]]
            /\ UNCHANGED heldFor

Reserve(s) == /\ status[s] = "free"
              /\ status' = [status EXCEPT ![s] = "reserved"]
              /\ heldFor' = [heldFor EXCEPT ![s] = 0]

Confirm(s) == /\ status[s] = "reserved"
              /\ status' = [status EXCEPT ![s] = "confirmed"]
              /\ UNCHANGED heldFor

GiveUp(s) == /\ status[s] = "reserved"
             /\ heldFor[s] > Hold
             /\ status' = [status EXCEPT ![s] = "free"]
             /\ heldFor' = [heldFor EXCEPT ![s] = 0]

Older(age) == IF age > Hold THEN age ELSE age + 1

Pass == /\ heldFor' = [s \in Seats |->
              IF status[s] \in {"reserved", "confirmed"} THEN Older(heldFor[s])
                                                         ELSE heldFor[s]]
        /\ UNCHANGED status

HoldNext == \/ \E S \in SUBSET Seats : Offer(S)
            \/ \E s \in Seats : Reserve(s) \/ Confirm(s) \/ GiveUp(s)
            \/ Pass

HoldSpec == HoldInit /\ [][HoldNext]_holdVars
=============================================================================
