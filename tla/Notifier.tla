------------------------------ MODULE Notifier ------------------------------
(***************************************************************************)
(* L3.1, delayed notifications: POST /notify keeps the notification in an  *)
(* in-memory store and publishes a message that waits for its TTL in the   *)
(* delay queue and is then dead-lettered to the work queue; the one        *)
(* consumer sends it to Telegram, publishes it again with a longer TTL     *)
(* after a temporary failure, and moves it to the error queue after a      *)
(* fatal one.  DELETE /notify/{id} marks the stored notification.          *)
(*                                                                         *)
(* RabbitMQ outlives the process; the store does not.  A message leaves    *)
(* the delay queue only at its head, and an unacknowledged message returns *)
(* to the head of the work queue when the consumer's connection ends.      *)
(***************************************************************************)
EXTENDS Naturals, Sequences, FiniteSets

CONSTANTS
    Ids,        \* notification ids
    Millisecond, \* ticks in a millisecond, the unit of a TTL
    MaxDelay,   \* bound: ticks a notification can be scheduled ahead
    Backoff,    \* the five seconds of the retry delay, in ticks
    MaxTries,   \* bound: temporary failures of Telegram
    MaxLosses,  \* bound: publishes that fail, answers and acknowledgements that get lost
    MaxCrashes  \* bound: restarts of the process

ASSUME ConstantsAssumption == /\ Ids # {}
                              /\ Millisecond \in Nat \ {0}
                              /\ MaxDelay \in Nat /\ Backoff \in Nat
                              /\ MaxTries \in Nat /\ MaxLosses \in Nat /\ MaxCrashes \in Nat

VARIABLES
    request,    \* per id, how far its POST is
    delay,      \* the ticks until SendAt a POST has computed and will publish
    wait,       \* ticks left until SendAt
    stored,     \* keys of InMemoryStore.data
    canceled,   \* stored notifications with Canceled = true
    attempts,   \* Attempts of the stored notifications
    delayQueue, \* notify-delay-queue: ids with the TTL left, oldest first
    workQueue,  \* notify-queue: ids
    errorQueue, \* ids in notify-error-queue
    handler,    \* the consumer's delivery: next step, id, Attempts of its copy
    sent,       \* times Telegram accepted the notification
    canceledOk, \* history: ids whose DELETE was answered 200
    quietly,    \* history: those of them the handler was not working on
    tries, losses, crashes

store   == <<stored, canceled, attempts>>
queues  == <<delayQueue, workQueue, errorQueue>>
history == <<canceledOk, quietly>>
clock   == <<delay, wait>>
budget  == <<tries, losses, crashes>>
vars    == <<request, delay, wait, stored, canceled, attempts,
             delayQueue, workQueue, errorQueue, handler, sent,
             canceledOk, quietly, tries, losses, crashes>>

RequestStates == {"new", "saved", "accepted", "refused"}
HandlerStates == {"idle", "send", "keepTry", "retry", "keepError", "toErrors", "keepOk", "ack"}

Idle == [pc |-> "idle", id |-> CHOOSE i \in Ids : TRUE, copy |-> 0]

Init == /\ request = [i \in Ids |-> "new"]
        /\ delay = [i \in Ids |-> 0] /\ wait = [i \in Ids |-> 0]
        /\ stored = {} /\ canceled = {} /\ attempts = [i \in Ids |-> 0]
        /\ delayQueue = <<>> /\ workQueue = <<>> /\ errorQueue = {}
        /\ handler = Idle
        /\ sent = [i \in Ids |-> 0]
        /\ canceledOk = {} /\ quietly = {}
        /\ tries = 0 /\ losses = 0 /\ crashes = 0

Try  == tries < MaxTries /\ tries' = tries + 1 /\ UNCHANGED <<losses, crashes>>
Loss == losses < MaxLosses /\ losses' = losses + 1 /\ UNCHANGED <<tries, crashes>>

\* A message for the delay queue.  WithTTL gives the broker whole milliseconds: what
\* is left of the delay is cut off.
Delayed(i, d) == [id |-> i, ttl |-> d - (d % Millisecond)]
Less(n) == IF n = 0 THEN 0 ELSE n - 1

-----------------------------------------------------------------------------
(* HTTP handlers.                                                          *)

\* The store first, then the delay until SendAt.
Save(i) ==
    /\ request[i] = "new"
    /\ request' = [request EXCEPT ![i] = "saved"]
    /\ stored' = stored \cup {i}
    /\ \E d \in 0..MaxDelay : /\ delay' = [delay EXCEPT ![i] = d]
                              /\ wait' = [wait EXCEPT ![i] = d]
    /\ UNCHANGED <<canceled, attempts, queues, handler, sent, history, budget>>

\* The POST ends, and the delay it computed is forgotten.
Answer(i, how) == /\ request[i] = "saved"
                  /\ request' = [request EXCEPT ![i] = how]
                  /\ delay' = [delay EXCEPT ![i] = 0]
                  /\ UNCHANGED wait

\* Mutant: the message is published without its TTL.
PublishAtOnce(i) ==
    /\ Answer(i, "accepted")
    /\ delayQueue' = Append(delayQueue, Delayed(i, 0))
    /\ UNCHANGED <<store, workQueue, errorQueue, handler, sent, history, budget>>

\* The client gets the id.
Publish(i) ==
    /\ Answer(i, "accepted")
    /\ delayQueue' = Append(delayQueue, Delayed(i, delay[i]))
    /\ UNCHANGED <<store, workQueue, errorQueue, handler, sent, history, budget>>

\* 502, although the broker may have taken the message; the store keeps its entry.
PublishFails(i) ==
    /\ Answer(i, "refused")
    /\ Loss
    /\ delayQueue' \in {delayQueue, Append(delayQueue, Delayed(i, delay[i]))}
    /\ UNCHANGED <<store, workQueue, errorQueue, handler, sent, history>>

\* Mutant: Store.Cancel does not ask whether the id is stored.
CancelUnknown(i) ==
    /\ request[i] = "accepted"
    /\ canceled' = canceled \cup {i}
    /\ canceledOk' = canceledOk \cup {i}
    /\ quietly' = IF handler.pc # "idle" /\ handler.id = i THEN quietly ELSE quietly \cup {i}
    /\ UNCHANGED <<request, clock, stored, attempts, queues, handler, sent, budget>>

\* Store.Cancel; the client knows the id from the answer to its POST, and may
\* repeat the DELETE.
Cancel(i) ==
    /\ request[i] = "accepted"
    /\ i \in stored
    /\ canceled' = canceled \cup {i}
    /\ canceledOk' = canceledOk \cup {i}
    /\ quietly' = IF handler.pc # "idle" /\ handler.id = i THEN quietly ELSE quietly \cup {i}
    /\ UNCHANGED <<request, clock, stored, attempts, queues, handler, sent, budget>>

-----------------------------------------------------------------------------
(* RabbitMQ.                                                               *)

Tick ==
    /\ wait' = [i \in Ids |-> Less(wait[i])]
    /\ delayQueue' = [k \in DOMAIN delayQueue |-> [delayQueue[k] EXCEPT !.ttl = Less(@)]]
    /\ UNCHANGED <<request, delay, store, workQueue, errorQueue, handler, sent, history, budget>>

\* Only the head expires: a short TTL waits behind a long one.
DeadLetter ==
    /\ delayQueue # <<>>
    /\ Head(delayQueue).ttl = 0
    /\ delayQueue' = Tail(delayQueue)
    /\ workQueue' = Append(workQueue, Head(delayQueue).id)
    /\ UNCHANGED <<request, clock, store, errorQueue, handler, sent, history, budget>>

-----------------------------------------------------------------------------
(* HandleNotification: Workers and PrefetchCount are 1.                    *)

Goto(from, to) == /\ handler.pc = from
                  /\ handler' = [handler EXCEPT !.pc = to]
                  /\ UNCHANGED <<request, clock, workQueue, history>>

\* Mutant: the handler does not look at Canceled.
DeliverAnyway ==
    /\ handler.pc = "idle" /\ workQueue # <<>>
    /\ LET i == Head(workQueue)
       IN  handler' = [pc |-> IF i \in stored THEN "send" ELSE "ack",
                       id |-> i, copy |-> attempts[i]]
    /\ workQueue' = Tail(workQueue)
    /\ UNCHANGED <<request, clock, store, delayQueue, errorQueue, sent, history, budget>>

\* A delivery and its Get: the rest works on a copy of the stored notification.
\* One that is missing or canceled is acknowledged and forgotten.
Deliver ==
    /\ handler.pc = "idle" /\ workQueue # <<>>
    /\ LET i == Head(workQueue)
       IN  handler' = [pc |-> IF i \in stored \ canceled THEN "send" ELSE "ack",
                       id |-> i, copy |-> attempts[i]]
    /\ workQueue' = Tail(workQueue)
    /\ UNCHANGED <<request, clock, store, delayQueue, errorQueue, sent, history, budget>>

Telegram(i, n) == sent' = [sent EXCEPT ![i] = @ + n]

SendOk == /\ Goto("send", "keepOk")
          /\ Telegram(handler.id, 1)
          /\ UNCHANGED <<store, delayQueue, errorQueue, budget>>

SendTemporary == /\ Goto("send", "keepTry")
                 /\ Try
                 /\ UNCHANGED <<store, delayQueue, errorQueue, sent>>

\* Telegram took the message and the answer did not come back in time: ErrTemporary.
SendAnswerLost == /\ Goto("send", "keepTry")
                  /\ Loss
                  /\ Telegram(handler.id, 1)
                  /\ UNCHANGED <<store, delayQueue, errorQueue>>

SendFatal == /\ Goto("send", "keepError")
             /\ UNCHANGED <<store, delayQueue, errorQueue, sent, budget>>

\* Store.Update writes the whole copy back, its Canceled = false included.
Update(n) ==
    /\ IF handler.id \in stored
       THEN /\ canceled' = canceled \ {handler.id}
            /\ attempts' = [attempts EXCEPT ![handler.id] = n]
       ELSE UNCHANGED <<canceled, attempts>>
    /\ UNCHANGED <<stored, delayQueue, errorQueue, sent, budget>>

KeepTry == /\ handler.pc = "keepTry"
           /\ handler' = [handler EXCEPT !.pc = "retry", !.copy = @ + 1]
           /\ Update(handler.copy + 1)
           /\ UNCHANGED <<request, clock, workQueue, history>>

KeepError == Goto("keepError", "toErrors") /\ Update(handler.copy)

KeepOk == Goto("keepOk", "ack") /\ Update(handler.copy)

\* Mutant: the retry is left to the broker, and the handler acknowledges.
NoRetry == /\ Goto("retry", "ack")
           /\ UNCHANGED <<delayQueue, store, errorQueue, sent, budget>>

\* Mutant: the handler publishes the retry and does not acknowledge the delivery.
RetryUnacked == /\ Goto("retry", "send")
                /\ delayQueue' = Append(delayQueue, Delayed(handler.id, handler.copy * Backoff))
                /\ UNCHANGED <<store, errorQueue, sent, budget>>

\* The delay grows by five seconds with every attempt; attempts are not limited.
Retry == /\ Goto("retry", "ack")
         /\ delayQueue' = Append(delayQueue, Delayed(handler.id, handler.copy * Backoff))
         /\ UNCHANGED <<store, errorQueue, sent, budget>>

\* The publish shares the five seconds of the send and can fail: the error is
\* logged and the delivery acknowledged.
RetryFails == /\ Goto("retry", "ack")
              /\ Loss
              /\ UNCHANGED <<delayQueue, store, errorQueue, sent>>

ToErrors == /\ Goto("toErrors", "ack")
            /\ errorQueue' = errorQueue \cup {handler.id}
            /\ UNCHANGED <<delayQueue, store, sent, budget>>

ToErrorsFails == /\ Goto("toErrors", "ack")
                 /\ Loss
                 /\ UNCHANGED <<delayQueue, store, errorQueue, sent>>

Ack == /\ Goto("ack", "idle")
       /\ UNCHANGED <<delayQueue, store, errorQueue, sent, budget>>

\* The connection ended while the handler was at work: main starts the consumer again,
\* and the broker delivers once more what could not be acknowledged.
AckLost == /\ handler.pc = "ack"
           /\ Loss
           /\ handler' = [handler EXCEPT !.pc = "idle"]
           /\ workQueue' = <<handler.id>> \o workQueue
           /\ UNCHANGED <<request, clock, store, delayQueue, errorQueue, sent, history>>

-----------------------------------------------------------------------------

\* Mutant: the store outlives the process.
CrashKeepsStore ==
    /\ crashes < MaxCrashes
    /\ crashes' = crashes + 1
    /\ request' = [i \in Ids |-> IF request[i] = "saved" THEN "refused" ELSE request[i]]
    /\ delay' = [i \in Ids |-> 0]
    /\ workQueue' = IF handler.pc = "idle" THEN workQueue ELSE <<handler.id>> \o workQueue
    /\ handler' = Idle
    /\ UNCHANGED <<wait, store, delayQueue, errorQueue, sent, history, tries, losses>>

\* The process ends and starts again: the store is empty, requests are gone, and
\* the unacknowledged delivery is first in the work queue again.
Crash ==
    /\ crashes < MaxCrashes
    /\ crashes' = crashes + 1
    /\ request' = [i \in Ids |-> IF request[i] = "saved" THEN "refused" ELSE request[i]]
    /\ delay' = [i \in Ids |-> 0]
    /\ stored' = {} /\ canceled' = {} /\ attempts' = [i \in Ids |-> 0]
    /\ workQueue' = IF handler.pc = "idle" THEN workQueue ELSE <<handler.id>> \o workQueue
    /\ handler' = Idle
    /\ UNCHANGED <<wait, delayQueue, errorQueue, sent, history, tries, losses>>

HandlerStep == \/ Deliver
               \/ SendOk \/ SendTemporary \/ SendAnswerLost \/ SendFatal
               \/ KeepTry \/ KeepError \/ KeepOk
               \/ Retry \/ RetryFails \/ ToErrors \/ ToErrorsFails
               \/ Ack \/ AckLost

Next == \/ \E i \in Ids : Save(i) \/ Publish(i) \/ PublishFails(i) \/ Cancel(i)
        \/ Tick \/ DeadLetter
        \/ HandlerStep
        \/ Crash

\* Time passes, the broker hands on what has expired, the consumer loop runs.
Fairness == WF_vars(Tick) /\ WF_vars(DeadLetter) /\ WF_vars(HandlerStep)

Spec     == Init /\ [][Next]_vars
FairSpec == Spec /\ Fairness

-----------------------------------------------------------------------------
(* Properties.                                                             *)

\* Every variable has its type; only stored notifications are canceled.
TypeOK == /\ request \in [Ids -> RequestStates]
          /\ delay \in [Ids -> 0..MaxDelay]
          /\ wait \in [Ids -> 0..MaxDelay]
          /\ stored \subseteq Ids
          /\ canceled \subseteq stored
          /\ attempts \in [Ids -> Nat]
          /\ delayQueue \in Seq([id : Ids, ttl : Nat])
          /\ workQueue \in Seq(Ids)
          /\ errorQueue \subseteq Ids
          /\ handler \in [pc : HandlerStates, id : Ids, copy : Nat]
          /\ sent \in [Ids -> Nat]
          /\ canceledOk \subseteq Ids
          /\ quietly \subseteq canceledOk
          /\ tries \in 0..MaxTries
          /\ losses \in 0..MaxLosses
          /\ crashes \in 0..MaxCrashes

InHand(i) == handler.id = i /\ handler.pc \in {"send", "keepTry", "retry", "keepError", "toErrors"}

Count(P) == IF P THEN 1 ELSE 0

\* Where notification i is: waiting, queued, being handled, delivered or given up.
Places(i) == Cardinality({k \in DOMAIN delayQueue : delayQueue[k].id = i})
           + Cardinality({k \in DOMAIN workQueue : workQueue[k] = i})
           + Count(InHand(i)) + sent[i] + Count(i \in errorQueue)

\* An accepted notification is always in exactly one place, so that it is
\* neither lost nor delivered twice, unless the process restarted, a publish failed
\* or an answer or acknowledgement got lost.  Only a cancelled one may be nowhere.
ExactlyOnePlace ==
    \A i \in Ids : request[i] = "accepted" /\ crashes = 0 /\ losses = 0 =>
        /\ Places(i) <= 1
        /\ i \notin canceledOk => Places(i) = 1

\* Telegram takes a notification at most once, and once more for each publish that
\* failed and each answer or acknowledgement that got lost; a restart adds none, because
\* the store it empties no longer knows what is delivered again.
AtMostOncePerLoss == \A i \in Ids : sent[i] <= 1 + losses

SendStarts(i) == handler.pc = "idle" /\ handler'.pc = "send" /\ handler'.id = i

\* No send begins a whole millisecond before SendAt, on no delivery, redelivery or
\* retry: only the part of a millisecond that a TTL cannot express may be missing.
NeverEarlyByAMillisecond == [][\A i \in Ids : SendStarts(i) => wait[i] < Millisecond]_vars

\* A DELETE answered while the handler was not at work on the notification holds
\* for good: no later delivery sends it.
QuietCancelHolds == [][\A i \in quietly : ~SendStarts(i)]_vars

\* Without crash or loss every accepted notification is delivered, reported in
\* the error queue or cancelled.
AcceptedIsResolved ==
    \A i \in Ids : request[i] = "accepted" ~>
        \/ sent[i] > 0
        \/ i \in errorQueue
        \/ i \in canceledOk
        \/ crashes + losses > 0

\* The comment on handleNotifyCancel: DELETE cancels the notification, so once it
\* was answered no new send of it begins.
CanceledIsNotSent == [][\A i \in canceledOk : ~SendStarts(i)]_vars
=============================================================================
