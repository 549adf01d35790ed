# Verification of go-practiceL3

TLA+ models of the services under `src/`, the TLC runs that check them on small
instances, and TLAPS proofs that hold for every value of the constants.
`PROJECT.json` lists the components, the runs, the mutant of each property, the
source lines of each definition, the findings, the hazards and the theorems.

## 1. The system

The repository holds seven independent Go programs. They share no state.

| Program | State it keeps | Operations that change it | What makes it hard |
|---|---|---|---|
| L3.1 delayed notifier | in-memory map of notifications; RabbitMQ delay, work and error queues | `POST /notify`, `DELETE /notify/{id}`, the consumer's handler, message expiry | a handler that works on a copy while requests change the original; redelivery; a store that a restart empties while the queues survive |
| L3.2 shortener and analytics | table `links`, Redis cache with TTL, table `clicks` of another service | `POST /shorten`, `GET /s/{short}`, click events | cache and table written by separate calls of concurrent requests; events that may be lost; statistics read in two statements |
| L3.3 comment tree | table `comments`, a forest with cascading delete | create, delete, subtree, roots and search pages | trees rebuilt from flat lists; pages by offset over a table that changes |
| L3.4 image pipeline | table `images`, two directories of files, a Kafka topic and the group's offset | `POST /upload`, `DELETE /image/{id}`, the workers' loop | three stores written one after the other, by requests and workers that stop anywhere; at-least-once delivery |
| L3.5 EventBooker | tables `events` and `seats`; the scheduler's in-memory map of deadlines | `POST /events`, `/book`, `/confirm`, the sweep and its goroutines | a timer that knows the seat and not the booking; timers in memory for rows in a database |
| L3.6 sales tracker | table `items` | CRUD; list by pages, analytics and CSV export read it | an export and a paging client need several queries by OFFSET over a table that changes |
| L3.7 warehouse | tables `items`, `users`, `item_history` | CRUD in a transaction that names the actor, audit trigger, token login | the actor is a setting of a pooled connection; concurrent changes of one item and of one SKU; a history sorted by when transactions began |

How the parts interact, and what makes each correct:

* **L3.5.** A handler commits `free -> reserved` and then calls `AddItem`. The
  sweep moves expired items to goroutines that run `CancelIfUnpaid`. Correct: a
  confirmed seat is never released; a reservation is released only after its two
  minutes and, in the end, is; a timer never touches a later booking.
* **L3.4.** Upload writes file, row and message, and undoes them on an error. The
  worker reads row and file, writes the result, marks the row, drops the original
  and commits the offset. DELETE removes files and row. Correct: an offset is
  committed only over jobs that are settled; a job that may still run has its
  original; a ready image has its result; an accepted image ends ready or failed;
  a deleted one leaves nothing behind.
* **L3.1.** Create stores and publishes; the broker delays; the handler reads the
  store, sends, writes the store, publishes the retry. Correct: nothing is sent
  early by more than a TTL cannot express, nothing is lost or sent twice unless
  something failed, and a cancel holds.
* **L3.2.** Correct: an alias leads to one URL for ever, cache and table agree, a
  click is counted at most once.
* **L3.3.** Correct: the tree that is returned is the subtree, a delete removes
  exactly it, pages neither skip nor repeat on a table at rest; while comments are
  added they skip none and repeat one only for another that came in before it.
* **L3.6.** The export and a client of `GET /items` go through the same `Repo.List`,
  one page at a time. Correct: over a table at rest the pages are the result, each
  record once; over one that changes they are off by no more than what moved; the
  export and the analytics of a period agree.
* **L3.7.** Correct: every change of an item has one history row, with the actor
  and role of the request that made it; no change by a role that may not.

## 2. Modules

| Module | Models | Uses |
|---|---|---|
| `SeatHold` | the abstract seat: offered, reserved, confirmed, given up after `Hold` | |
| `EventBooker` | L3.5, all of it that changes state | `SeatHold`, as the property `SeatContract` |
| `EventBookerProofs` | theorems about `EventBooker` | `EventBooker`, `TLAPS` |
| `ImageLife` | the abstract image: what `GET /image/{id}` may answer, one after the other | |
| `ImagePipeline` | L3.4: upload, delete, worker, topic, files, rows | `ImageLife`, as the property `AnswersMoveForward` |
| `ImagePipelineProofs` | theorems about `ImagePipeline` | `ImagePipeline`, `SequenceTheorems`, `TLAPS` |
| `MCImagePipeline` | symmetry and bound for the run `images` | `ImagePipeline` |
| `Notifier` | L3.1: handlers, store, queues, consumer | |
| `NotifierProofs` | theorems about `Notifier` | `Notifier`, `FunctionTheorems`, `FiniteSetTheorems`, `SequenceTheorems`, `TLAPS` |
| `Shortener` | L3.2: both services, cache, tables | |
| `MCShortener` | symmetry for the run of `Shortener` | `Shortener` |
| `ShortenerProofs` | theorems about `Shortener` | `Shortener`, `TLAPS` |
| `CommentTree` | L3.3: the table, the subtree query and its tree, the pages | |
| `SortedSequences` | lemmas about `ORDER BY` with `LIMIT` and `OFFSET`: the place of a row, and how it moves | `FiniteSetTheorems`, `SequenceTheorems`, `TLAPS` |
| `CommentTreeProofs` | theorems about `CommentTree` | `CommentTree`, `SortedSequences`, `WellFoundedInduction` |
| `AuditedTable` | the abstract warehouse: a request changes table and history in one instant | |
| `Warehouse` | L3.7: transactions on items, the audit trigger, the history | `AuditedTable`, as the property `AuditedSpec` |
| `MCWarehouse` | callers and symmetry for the run of `Warehouse` | `Warehouse` |
| `WarehouseProofs` | theorems about `Warehouse` | `Warehouse`, `FiniteSetTheorems`, `WellFoundedInduction`, `TLAPS` |
| `SalesTracker` | L3.6: the table, the pages of `List`, the export, the analytics | |
| `MCSalesTracker` | contents and queries for the run of `SalesTracker` | `SalesTracker` |
| `SalesTrackerProofs` | theorems about `SalesTracker` | `SalesTracker`, `SortedSequences`, `WellFoundedInduction` |

A definition that PROJECT.json does not map is a property, a mutant (its comment
starts with "Mutant:"), shorthand, or takes an operator as its parameter (`InOrder`
of `CommentTree`: ORDER BY, postgres.go:85, 178 and 246). Mutants stand before the
definition they replace and are not part of any specification.

### EventBooker

| Model | Code |
|---|---|
| `status`, `heldFor` | `seats.status`, the age of `seats.booked_at` |
| `booking[s]` | `BookSpace` calls between the commit of `BookSeat` and `AddItem` (events.go:172-181) |
| `store` | `CornScheduler.store`, with ages in place of `deathTime` |
| `task[s]` | goroutines `go task(id)` that have not run their UPDATE |
| `BookSpace` / `BookAnswerLost` | `BookSeat` committed and answered / committed and answered with an error |
| `CheckStore` | one `checkStore` under the mutex |
| `CancelIfUnpaid` / `CancelFails` | the task's transaction / its error, which is only logged |
| `Restart` | the process ends (main.go has no step that saves or restores timers) |

A repository call is one step because each is one `UPDATE ... WHERE status = ...`
in its own transaction: the row lock is held until the commit. Time is counted in
ticks; ages stop at `Hold + 1`, where `now.After(deathTime)` can no longer change.
Seat ids come from a sequence; ids skipped by a rolled-back transaction are left
out.

### ImagePipeline

| Model | Code |
|---|---|
| `row`, `original`, `result` | `images.status` and the two directories |
| `upload[i]`, `delete[d]` | the program counter of a request; `sawResult` is `ProcessedPath != nil` of the row `DeleteImage` read; `quiet` is history |
| `log`, `committed`, `position`, `owner` | partition, committed offset, the reader's place, the worker it is assigned to |
| `worker[w]` | the step of `StartConsume` and the offset in hand |
| the actions named `...Fails` | the error return of the call, applied or not where the answer can be lost |
| `UploadStops`, `DeleteStops` | the process or the client goes away: every later call on the request's context fails, those of the rollback too |
| `WorkerCrash`, `Rebalance` | the process restarts; the group moves the partition while the old owner goes on with its message |
| `Decodable`, `Undoable` | which jobs `Process` refuses: bytes that do not decode, and a thumb without both sides, which the upload lets through |
| `Answer(i)` | the status that `GET /image/{id}` gives; "broken" is a ready row without its file |

The UPDATE and the SELECT of `MarkReady` are two steps. A file is written to a
temporary name and renamed, so it appears whole in one step. `removing` and the
field `quiet` are history for the properties: images that an upload or a DELETE has
begun to remove, and whether a DELETE found its image ready while no worker was
between reading the row and writing the result (`MayWrite`). `sawResult` and the
offset in hand are reset after their last use; the code keeps them and does not look
at them again.

`Life` maps this state to `ImageLife`: `answer[i]` is `Answer(i)`, `withdrawn` the
images whose upload was refused or broke off. The files, the log and the steps of
requests and workers are hidden; most steps are stutters.

### Notifier

| Model | Code |
|---|---|
| `stored`, `canceled`, `attempts` | `InMemoryStore.data` and the two fields the handler reads |
| `delayQueue` | `notify-delay-queue` with the TTL left; only its head expires |
| `Delayed` | `WithTTL`: `d.Milliseconds()` cuts the delay down to whole milliseconds (TLLoption.go:14) |
| `workQueue`, `errorQueue` | `notify-queue`, `notify-error-queue` |
| `handler` | the consumer's one delivery (`Workers`, `PrefetchCount` are 1): next call, id, `Attempts` of its copy |
| `Update` | writes the copy back, `Canceled = false` included: a delivery goes on only if the copy was not cancelled |
| `Answer` | a POST ends, and the delay it computed with it |
| `Cancel` | `Store.Cancel`: a repeated DELETE is answered 200 too and sets `Canceled` again |
| `AckLost` | the connection ends while the handler works; main.go starts the consumer again and the delivery comes a second time |
| `Crash` | store emptied, POSTs gone, unacknowledged delivery first in the work queue |

`wait` is the time left until `SendAt`, in ticks of which `Millisecond` make a
millisecond. The program measures the delay in nanoseconds and the broker takes whole
milliseconds, so a TTL may end up to a millisecond before `SendAt`, and the send then
begins that much early. `NeverEarlyByAMillisecond` is what the code keeps: the part that
was cut off is all that can be missing. `canceledOk` and `quietly` are history
variables: ids whose DELETE was answered 200, and those answered while the
handler was not at work on them.

### Shortener

| Model | Code |
|---|---|
| `links`, `clicks` | the two tables; clicks as a number per alias |
| `cache` | Redis: `Expire` may drop an entry at any time, `CacheSet` may be refused |
| `shorten[q]` | a `POST /shorten`: next call, alias, URL, who chose the alias, attempt |
| `redirect[r]` | a `GET /s/{short}` in the steps of `Resolve`; `known` is history |
| `click[r]` | `go sendClickEvent`: `SaveClick` is the row inserted, whatever the 500 ms client heard; `ClickLost` the rest |
| `stats` | one `GetStats`: COUNT, then the list; `ListIsCut` is a broken connection that `rows.Next()` ends quietly |
| `SaveURLFails`, `GetURLFails`, `Restart` | an error other than the unique violation, the row there or not; requests that die half way |

The random alias is any alias: nanoid's collisions are what `Taken` is about.

### CommentTree

| Model | Code |
|---|---|
| `comments`, `lastId` | the table (parent, `created_at`, rank under one search) and its sequence |
| `inserting` | ids of INSERTs under way: taken from the sequence, the row not to be seen yet |
| `Insert`, `Create` | the INSERT takes its id; its reference is checked with the row in the table, and it commits |
| `CreateRefused` | a parent that is not there; the id is used up |
| `Delete`, `Below` | DELETE with ON DELETE CASCADE: the least set of rows closed under replies |
| `Paths`, `InOrder`, `Flat` | the recursive query: one row per path down to the depth, ORDER BY path |
| `BuildCommentTree` | the two passes of tree.go over the flat list |
| `walk`, `NextPage` | a client that follows `has_more`; `start`, `joined` and `left` are history |
| `FetchPage` | LIMIT limit + 1 OFFSET offset |

A request is one statement. A DELETE and a query are one step; an INSERT is two, because
concurrent INSERTs take their ids in one order and commit in another: row 5 can be there
before row 4, and a reply can have a smaller id than its parent, when the parent commits
before the reference is checked. The check and the commit are one step, because the
row lock that the check takes on the parent makes a cascade wait until the INSERT has
ended. `created_at` is chosen freely with each row. `Orderings` leaves ties
of the sort column to the planner, so two pages of one walk may break them differently.

### Warehouse

| Model | Code |
|---|---|
| `items`, `history` | committed rows; an item is its SKU |
| `tx[q]` | the transaction of a request: its place in `withActor`, its caller, the row the trigger has written |
| `lock`, `Marked` | row locks; unique keys that a transaction under way has changed |
| `Begin` | RequireWrite / RequireDelete, BEGIN and `set_config` |
| `TakeId`, `LockRow`, `NotFound` | the statement finds its row, or takes the next id |
| `Act` / `Conflict` / `Deadlock` | the unique check passes and the trigger runs / the key is taken / a circle of waits is cut |
| `Commit`, `Fail` | COMMIT, answered or not / an error of any earlier call, rolled back |
| `before` | history variable: the entries that were there when a request began |

The clock moves when a transaction begins, the only time `now()` is read. A
transaction has one connection and never asks for a second, so a full pool only
delays `Begin`.

`Audited` maps this state to `AuditedTable`: table and history as they are, and for
each request under way what it asked for (`Calls`; the id that `TakeId` has put into
`tx` is taken out again). `Begin` is `Arrive`; `NotFound`, `Conflict`, `Deadlock` and
`Fail` are `EndUnchanged`; `TakeId`, `LockRow` and `Act` are stutters; `Commit` is
`Apply`.

### SalesTracker

| Model | Code |
|---|---|
| `items`, `lastId` | the table (type, amount, `occurred_at`) and its sequence |
| `Create`, `Update`, `Delete` | one statement each; an id that is not there is a 404 |
| `ListItems`, `Export` | the queries that `GET /items` and `ExportCSV` make of their parameters |
| `Matches`, `Precedes`, `Result` | `buildWhere` and the ORDER BY with its tie by id |
| `List` | LIMIT limit + 1 OFFSET offset and `has_more` |
| `read`, `NextPage` | the loop of `ExportCSV`, or a client that follows `has_more`: query, offset, rows sent |
| `ExportBreaks` | `List` or a write fails in the loop, after the 200 |
| `Analytics`, `Percentile` | `GET /analytics`, one statement: COUNT, SUM and `percentile_cont` |

`read.start` is the result when the reader began, `read.drift` what left and joined it
since: history variables. Readers change nothing, so one at a time shows what any
number would see. After it has ended nothing can change what it got, and the table
rests.

## 3. Runs

| Run | Instance | What it shows |
|---|---|---|
| `booker` | 2 seats, hold 2 ticks, 2 faults | `OneTimerPerBooking`, `AbandonedOnlyByFault`, `SeatContract`, `UnpaidIsReleased` |
| `booker_restart` | 1 seat, 1 fault | `UnpaidIsAlwaysReleased` is violated |
| `images` | a thumb with its sides and one without, 2 DELETEs, 2 workers, 1 crash, rebalance or failed call | `CommittedIsSettled`, `OriginalKeptWhileNeeded`, `ReadyHasResult`, `FailedForCause`, `QuietDeleteLeavesNoFile`, `AnswersMoveForward` |
| `images_live` | a good and a corrupt image, no DELETE and no failed call, 2 workers, 2 crashes or rebalances | `AcceptedIsSettled` |
| `images_delete` | 1 image, 1 DELETE, 1 worker, nothing fails | `DeletedLeavesNoFile` is violated |
| `notifier` | 2 notifications, 2 ticks to the millisecond, delays 0 to 3 ticks, 2 temporary failures, 1 lost publish, answer or acknowledgement, 1 restart | `ExactlyOnePlace`, `AtMostOncePerLoss`, `NeverEarlyByAMillisecond`, `QuietCancelHolds`, `AcceptedIsResolved` |
| `notifier_cancel` | 1 notification, 1 temporary failure | `CanceledIsNotSent` is violated |
| `shortener` | 2 aliases, 2 URLs, 2 shortens, 2 redirects, 1 statistics request, 2 attempts, list limit 2, 1 fault | `CacheAgreesWithTable`, `CreatedLeadsToItsUrl`, `RedirectLeadsToLink`, `KnownAliasIsFound`, `ClicksAreRedirects`, `TotalIsListed` |
| `comments` | 4 ids, 3 while a client walks, 2 times, pages of 1 and 2, depths 0 to 2 | `RepliesHaveParents`, `SubtreeIsExact`, `PagesWhileGrowing` |
| `comments_forest` | 2 ids | `CommentsAreTrees` is violated |
| `warehouse` | 2 requests, an admin and a manager, 2 items, 2 SKUs, 4 changes, 2 times | `SkusAreUnique`, `HistoryExplainsTable`, `ShownInOrder`, `NobodyIsStuck`, `AuditedSpec` |
| `sales` | 4 ids, 3 contents, pages of 2 and 1, 6 queries, changes until 3 rows have moved while they are read | `PagesMakeTheResult`, `DriftExplainsPages`, `ExportAddsUp` |

Why the bounds are enough for the cases that matter:

* Seats do not interact except through one sweep, so two suffice. With hold 2 a
  seat can be paid before, at and after its deadline, and one seat can be booked,
  released and booked again while tasks of the other are open. Two faults cover a
  restart after a failed call, and both orders.
* One crash or rebalance makes two workers hold the same job, and a duplicated
  send gives two copies of it in the log. Two images give a message after the one
  that was skipped. Two DELETEs meet every step of worker and upload, and each other on one
  image. DELETEs and workers are interchangeable, so the run uses symmetry on both; it
  checks no liveness. Images are not: one of them cannot be processed as asked. A
  crash and a failed call do not come together in this run (`OneFault`), which keeps it to
  1.4 million states. The properties of the run are theorems for any number of each.
* Two notifications with delays 0 to 3 give head-of-line blocking in both orders. With
  two ticks to the millisecond the delays 1 and 3 lose a tick and the others do not, and
  a delay of 2 or 3 is long enough for a send that is a millisecond early.
  Two temporary failures give a retry of a retry, with the longer delay. One loss or
  restart, or one of each, brings back a delivery whose work was done or half done.
* Two shortens on two aliases and URLs give collisions of both kinds of alias, a
  lost answer and its repetition; two redirects write the cache while it expires
  and while a shorten is between table and cache. One fault is one failed call or
  restart at any point. Aliases, URLs and requests of a kind are interchangeable,
  and no definition tells them apart, so the run uses symmetry; it checks no
  liveness. What two of each do not show is covered by the proofs.
* Four comments, in any order of their ids, give a chain of three replies, a nephew
  between two siblings in the order of paths, and a reply that is older than its parent.
  The chain is deeper than the deepest request (`DefaultDepth` is 2). Two times give ties
  and an order that is not the order of the ids. Three ids and a page of one or two make
  walks of up to three pages with changes before, between and after them, a comment that
  becomes visible before one with a smaller id among them. When the client is through,
  the table rests (`MayChange`): nothing can change what it has seen.
* Two requests at a time give every pair of methods on one item and on two: waiting
  for a row that is then changed, deleted or rolled back, waiting for a SKU, and the
  circle of two PUTs that exchange SKUs, which needs two items and four changes. A
  circle of three waits the same way. What two requests do not show is covered by the
  proofs.
* Four records in pages of two, or of one, make exports of up to three pages and walks of
  up to four. The contents tie in the date and in the amount, so the order by id matters;
  periods and a type leave some of them out, so an UPDATE can move a record out of a
  result or into it. Changes go on
  until three rows have left or joined what is read: two UPDATEs between pages, or an
  UPDATE and a DELETE.

The four violations, in words:

1. **Unpaid seats.** README of L3.5, line 38: an unpaid place frees itself. Book,
   restart: the map of timers is new and empty, the row stays `reserved`, and no
   endpoint can release it. A failed `CancelIfUnpaid` and a commit whose answer is
   lost end the same way. `AbandonedOnlyByFault` shows that these are the only
   ways.
2. **DELETE against the worker.** `DeleteImage` decides from the row it read at the
   start; a worker with the image in hand writes the result afterwards and finds no
   row. The file stays. README of L3.4, line 85, says both files are erased.
   `QuietDeleteLeavesNoFile` shows what does hold: a DELETE that found the image ready,
   with no worker on its way to another result, leaves nothing and nothing comes back.
3. **Cancel undone.** `Update` writes back a copy taken before the send, over the
   `Canceled` a DELETE set in between (server.go:144-145 describes the cancel). The
   retry then sends. `QuietCancelHolds` shows that every other cancel holds.
4. **A comment under itself.** The foreign key is the only check of `parent_id` and
   runs after the row is in: the id the sequence is about to give passes. The comment
   is no root, and its subtree query never gets to an end but for the depth.
   `SubtreeIsExact` is stated of the other comments.

Two things the code does that contradict no promise, so that no run refutes them:
after a failed call a worker goes on without a commit, and its comments
(worker_consumer.go:128, 194) count on a redelivery. A running reader gets none: its
position is past the message, and a later commit covers it. `CommittedIsSettled` and
`AcceptedIsSettled` therefore promise nothing once a call has failed (`errors > 0`).
And an upload with mode `thumb` and one side missing is answered 202 and always ends
`failed`: `Undoable` has it.

`ShownInOrder` of `Warehouse` is as much as the history promises: `changed_at` is the
time of BEGIN, so of two overlapping changes the first row shown need not be the last
one made. `HistoryExplainsTable` holds in the order of ids.

## 4. Fairness

`Spec` has none; `FairSpec` adds weak fairness of

* the clock, the sweep, `AddItem` and the tasks (`EventBooker`): the ticker is
  never stopped, goroutines that can run do, and each of these steps once enabled
  stays so until it is taken or a restart removes it;
* each worker's own steps (`ImagePipeline`): the loop has no exit but shutdown;
* time, expiry in the broker and the handler (`Notifier`): the consumer loop in
  main.go restarts after every stop.

`Shortener`, `CommentTree`, `Warehouse` and `SalesTracker` have no liveness property and
no fairness: their requests may break off at any step, and a client need not ask for
the next page.

Clients, faults, crashes and rebalances are never forced. Where a fault can keep
the promise from being met, the liveness property says so (`faults > 0`,
`errors > 0`, `crashes + losses > 0`), and a run without the fault budget shows
that the promise is then met.

## 5. Proofs

`EventBookerProofs` is checked by tlapm for any `MaxSeats`, `Hold` and `MaxFaults`
in Nat (`BoundsAssumption`, the only assumption).

* `IInvAlways`: `Spec => []IInv`, one lemma per action. The runs' invariants are
  not inductive alone: `SeatContract` needs that a task runs only when its booking
  has expired, which needs that an item is no older than the booking, because
  `AddItem` comes after the commit (`TimerLagsBooking`); and a new event must not
  meet used ids (`IdsGiven`).
* `TypeCorrect`, `OneTimer`, `AbandonedByFault` are its parts.
* `KeepsSeatContract`: `Spec => SeatContract`. Each action maps to a step of
  `SeatHold` or to a stutter; `CancelIfUnpaid` maps to `GiveUp` by
  `TimerLagsBooking`.

`ShortenerProofs` is checked for any constants with `ConstantsAssumption` (sets
that are not empty, `None` no alias and no URL, finitely many redirects).

* `IInvAlways`: the run's invariants are made inductive by what a request holds at
  each step (`RequestsAreFilled`), `KnownStaysKnown`, and for the counts
  `CountedWasSent`: the clicks of an alias are at most its answered redirects whose
  goroutine has ended. `SaveClick` adds one to both sides (`FS_AddElement`).
* `CacheAgrees`, `AliasIsWriteOnce` and `RedirectsAreRight` rest on one fact: a row is
  inserted only where there is none, so what any request has read stays true.
* `TypeCorrect`, `KnownIsFound`, `ClicksAreCounted`, `TotalsAreListed` are the other
  parts.

`CommentTreeProofs` is checked for any constants with `ConstantsAssumption`.

* `ParentsStay`: `Spec => []RepliesHaveParents`. A deleted comment takes its replies
  along because `Below` is closed under them (`BelowIsClosed`); that no later insert
  takes up a deleted id needs that ids come from the sequence (`IdsAreGiven`).
* `CirclesAreSelfReferences`: `Spec => []NoCircle`. Ids do not order parents before
  replies, but a row is new when its parent is checked, so no other row can lead to it: a
  set of comments that holds the parents of all its members holds a comment that is its
  own parent. The finding is the only circle there is.
* `WalkInvAlways`: `Spec => []WalkInv`. `PagesWhileGrowing` speaks of the end of a walk;
  before it, what holds are the accounts of each comment (`WalkIsExplained`): one that
  was there at the start has been sent when its place is within the offset, and each was
  sent at most once for that and once for each one that joined before it. A row that joins
  at any place moves the places behind it by one and adds one to both sides; a page, of
  any ordering that the query may return, adds a copy of exactly those whose place it
  passes, and a page that is not followed by another ends with the list.
* `TypeCorrect` and `PagesStayWhole` are its parts. `PagesAreTheList`:
  `Spec => []PagesAtRest`, what follows on a table at rest: the pages are the list, each
  comment once.
* `SubtreesAreExact`: `Spec => []SubtreeIsExact`, from `TypeOK` and `NoCircle`: parents
  do not go round, so the query finds every comment by one path only
  (`OneChain`), but for a root that is its own parent,
  which the property leaves aside. Rows in the order of their paths show siblings
  in the order of their ids (`RepliesAreListed`), so the list that `BuildCommentTree` puts together
  for a comment is that of its replies, as far as the depth reaches. That the nesting and
  the reference `TreeUnder`, both recursive functions, agree from the deepest level up
  is again shown by the absence of a smallest counterexample. The orders of the
  model are stated by rank (`InOrder`), so that nothing rests on which sequence a choice
  of the library returns.

`WarehouseProofs` is checked for any constants with `ConstantsAssumption` (callers with
one of the three roles, some SKU, finitely many requests at a time, bounds in Nat).

* `IInvAlways`: `Spec => []IInv`. `SkusAreUnique`, `HistoryExplainsTable` and
  `ShownInOrder` speak of what is committed; what makes them inductive is what a
  transaction can rely on between its steps. The row it works on is its own
  (`RowIsHeld`), so what the trigger wrote down as `old` is still the last committed
  value, its id is above all entries of the item, and the key that was free when it was
  checked is free at the commit (`ActedIsDue`). `RequestsAreFilled` says that a request
  under way passed the role check and carries its own settings, `SeenIsOlder` that the
  entries it saw have earlier times and smaller ids. `IdsAreGiven` and `RoomIsLeft` count
  ids; `LastOnes` makes `Max` of the entries of an item one of them, which for a set that
  grows by one needs no induction.
* `TypeCorrect`, `SkusStayUnique`, `HistoryIsAChain` and `HistoryIsShownInOrder` are its
  parts.
* `WaitsAreEnded`: `Spec => []NobodyIsStuck`. A request that cannot go on waits for one
  that is under way, since locks and marked keys have an owner. If all of a group waited
  inside it, some part of the group would be closed under waiting; one with the least
  number of requests (`WFMin`) is a circle, which is what PostgreSQL ends
  (`InCircle`). The property names what a request can do by the guards of its actions
  and not by ENABLED, so that it can be proved.
* `ImplementsAuditedTable`: `Spec => AuditedSpec`, one lemma per kind of step. `Commit`
  maps to `Apply` because of `ActedIsDue`: the entry written before other commits came
  in between is the one that `Apply` would write now.

`ImagePipelineProofs` is checked for any constants with `ConstantsAssumption` (some image,
some worker, the odd images among the images, fault bounds in Nat).

* `IInvAlways`: `Spec => []IInv`. To the run's invariants it adds where an upload and a
  delete stand (`UploadsInOrder`: a row after its file, a message after both;
  `DeletesInOrder`: who looks for a result has seen the row settled) and what a worker
  with a job in hand knows (`Knows`): before `MarkReady` the result is there or a DELETE
  has come, before the commit the job is settled and so is everything before it in the
  log. Each of these has to survive the steps of all others, which comes down to one lemma
  about what no step takes back (`Onward`): the log only grows, a settled job stays
  settled, and a result goes only when its row is settled and a DELETE is at work.
  `ReadIsSettled` carries the same over a rebalance, when another worker goes on from the
  committed offset.
* `TypeCorrect`, `CommitsAreSettled`, `OriginalIsKept`, `ReadyIsThere`, `FailureHasCause`
  are its parts.
* `QuietDeletesAreClean`: `Spec => []QuietDeleteLeavesNoFile`. Inductive is `KeepsClean`:
  from the moment a quiet DELETE has read the row, no worker may write for its image, and
  the files it has passed are gone. A worker that fetches the job again finds the row
  ready, failed or missing and stops before the files.
* `UnsettledIsNotPassed`: `Spec => []UnsettledIsAhead`, what liveness needs of safety:
  unless a call failed, an accepted image that is not settled has a job that the owner of
  the partition has in hand or has yet to fetch.
* `ImplementsImageLife`: `Spec => AnswersMoveForward`, the refinement of `ImageLife`. A
  job that a worker settles was not settled before or shows the same, a row goes only
  with its upload withdrawn or by a DELETE, and the steps on files and offsets map to
  stutters.

`NotifierProofs` is checked for any constants with `ConstantsAssumption` (some id, a
millisecond of at least one tick, bounds in Nat).

* `IInvAlways`: `Spec => []IInv`, of three parts. `OnTime`: the TTL of a queued message is
  less than a millisecond short of what is left until `SendAt`, and what has left the delay
  queue is due within a millisecond. The conversion of a delay loses less than that
  (`TruncatedTTL`), for any number of ticks to the millisecond.
  `QuietStays`: after a quiet cancel the handler has at most its acknowledgement to send,
  and the store keeps the mark. `OnePlace`: the five places exclude each other and no
  queue holds an id twice; it speaks of a run without loss or restart, in which the marks
  of the store are those that were answered.
* `TypeCorrect` and `NeitherLostNorDoubled` follow from it. `ExactlyOnePlace` counts
  places, `OnePlace` tells them apart; the step between is the cardinality of a set of
  positions that has at most one.
* `SendsAreNeverEarly` and `QuietCancelsHold` are action properties: the one step that
  begins a send meets `OnTime` and `QuietStays`.
* `OnlyALossDoubles`: `Spec => []AtMostOncePerLoss`, what is left of "delivered once" when
  things do get lost, for any number of restarts: a notification is sent at most
  `1 + losses` times. `SendsBounded` counts the chances of another send (the POST's
  publish, the copies in both queues, the delivery in hand). A step that sends uses up a
  chance or counts as a loss, and a step that makes one (`AckLost`, a publish that failed
  and arrived) counts as a loss. A restart brings a delivery back and empties the store,
  so that the copies left over lead to no send.

`SalesTrackerProofs` is checked for any constants with `ConstantsAssumption` (rows of the
table's types, page sizes above zero, an export asks for what its handler asks for).

* `SortedSequences` gives the place of a row in a strict order as one more than the number
  of rows before it. A row that joins or leaves moves the places behind it by one, the
  sorted sequence is the inverse of the places and there is only one, and a page is the
  rows whose places lie under it.
* `IInvAlways`: `Spec => []IInv`. `DriftExplainsPages` speaks of the end of a walk;
  before it, what holds are the accounts of each record that stayed (`WalkIsExplained`):
  it was sent at most once for each one that joined before it, and once more if its place
  is within the offset; it is within the offset and was not sent only if one before it
  left, and there are no more of these than have left. A row that joins or leaves changes
  both sides by the same, and a page adds to the copies exactly those whose place it passes.
  `SentIsPrefix` is the same with nothing to explain: what was sent is the result as far
  as the offset.
* `TypeCorrect`, `PagesAddUp`, `DriftIsTheReason` follow from it.
* `ExportIsThePeriod`: count and sum of an export are those of `Analytics`. The model adds
  up amounts with folds, over a set and over a sequence. That such a fold counts the units of
  its numbers (`SumIsUnits`) is shown by induction over the subsets, as the absence of a
  smallest counterexample (`WFMin`), which needs no operator as a parameter. The
  percentiles are read off the result by ascending amount, where what lies below a
  position is at most that many rows.

Only model-checked: the liveness properties (`UnpaidIsReleased`, `AcceptedIsSettled`,
`AcceptedIsResolved`), which rest on fairness and are out of the prover's reach. Every
invariant, action property and refinement that a passing run checks is a theorem.

## 6. Not modelled

* Reads of one row or one statement that change nothing: the lists and details of L3.5,
  L3.7 and `GET /items/{id}` of L3.6.
* Pixel work of L3.4: the model has only which jobs it refuses.
* Validation of requests: it decides whether a request starts.
* Functions without a caller: `UpdateEvent`, `DeleteEvent`, `CancelReservation`,
  `SetInterval` in L3.5.
* In L3.1, a POST that itself carries `canceled` or `attempts`; a delay that is negative,
  because `SendAt` passed between its check (server.go:69) and server.go:91, or longer than
  the broker takes. What the broker does with such a TTL is outside the source.
* In L3.3, levels below the default depth of 1000 and the words of a search.
* In L3.7, login (it signs the name and role it is given and keeps nothing), expiry of
  tokens, and PUT as last writer wins: the form is sent whole, the history shows it.
* Several Kafka partitions: images in different partitions do not interact.
* Configuration, migrations as commands, loggers, mocks, and the web pages, those of
  L3.3 with overlapping loads among them.

## 7. Plan

In order of what is left to gain:

1. For `Warehouse`, that every request is answered: waits for rows and keys end.
2. The page of L3.3 with two loads under way, and the delay that server.go:91 of L3.1
   computes again after its check.
