--------------------------- MODULE ImagePipeline ---------------------------
(***************************************************************************)
(* L3.4, image pipeline: the API stores an upload as a file, a row and a   *)
(* Kafka message, workers of one consumer group turn the original into a   *)
(* result, and DELETE removes all of it.  Files, row and message are       *)
(* written one after the other, by requests and workers that interleave    *)
(* and that may stop between any two steps.                                *)
(*                                                                         *)
(* The topic has one partition.  A reader of kafka-go fetches forward in   *)
(* memory (position) whether or not it committed, and goes back to the     *)
(* committed offset only when its process restarts or the group rebalances.*)
(***************************************************************************)
EXTENDS Naturals, Sequences, FiniteSets

CONSTANTS
    Images,     \* ids; an id is 128 random bits, so every upload has its own
    Corrupt,    \* the images whose bytes do not decode
    Thumbs,     \* those uploaded with mode thumb; the rest is resized or watermarked
    Sized,      \* those uploaded with a width and a height
    Deletes,    \* DELETE requests
    Workers,    \* worker processes of the consumer group
    MaxCrashes, \* bound: worker crashes and rebalances of the group
    MaxErrors   \* bound: calls of a worker that return an error

ASSUME ConstantsAssumption == /\ Images # {}
                              /\ Corrupt \cup Thumbs \cup Sized \subseteq Images
                              /\ Workers # {}
                              /\ MaxCrashes \in Nat
                              /\ MaxErrors \in Nat

VARIABLES
    row,        \* images.status, "none" when there is no row
    original,   \* images whose original file exists
    result,     \* images whose processed file exists
    upload,     \* per image, how far its POST /upload is
    delete,     \* per DELETE request: how far it is, its image, what Get saw; quiet is history
    removing,   \* history: images some DELETE has found and begun to remove
    log,        \* the partition: the ids of the jobs sent
    owner,      \* the worker the partition is assigned to
    position,   \* messages the owner has fetched or skipped
    committed,  \* the group's committed offset
    worker,     \* per worker: its next step and the offset it has in hand
    crashes, errors

disk   == <<original, result>>
topic  == <<log, owner, position, committed>>
budget == <<crashes, errors>>
api    == <<upload, delete, removing>>
vars   == <<row, original, result, upload, delete, removing,
            log, owner, position, committed, worker, crashes, errors>>

RowStates    == {"none", "processing", "ready", "failed"}
UploadStates == {"new", "saved", "created", "undoRow", "undoFile", "accepted", "rejected"}
DeleteStates == {"new", "original", "result", "row", "deleted", "ended"}
WorkerStates == {"fetch", "get", "load", "process", "markReady", "askStatus", "clean",
                 "markFailed", "commit"}

NoDelete == [pc |-> "new", image |-> CHOOSE i \in Images : TRUE, sawResult |-> FALSE,
             quiet |-> FALSE]

Init == /\ row = [i \in Images |-> "none"]
        /\ original = {} /\ result = {}
        /\ upload = [i \in Images |-> "new"]
        /\ delete = [d \in Deletes |-> NoDelete]
        /\ removing = {}
        /\ log = <<>> /\ position = 0 /\ committed = 0
        /\ owner \in Workers
        /\ worker = [w \in Workers |-> [pc |-> "fetch", at |-> 0]]
        /\ crashes = 0 /\ errors = 0

-----------------------------------------------------------------------------
(* POST /upload.  A request ends at "accepted" (202) or "rejected".        *)

At(i, from, to) == /\ upload[i] = from
                   /\ upload' = [upload EXCEPT ![i] = to]
                   /\ UNCHANGED <<delete, removing, owner, position, committed, worker, budget>>

Sent(i, n) == log' = log \o [k \in 1..n |-> i]

SaveOriginal(i) == /\ At(i, "new", "saved")
                   /\ original' = original \cup {i}
                   /\ UNCHANGED <<row, result, log>>

CreateRow(i) == /\ At(i, "saved", "created")
                /\ row' = [row EXCEPT ![i] = "processing"]
                /\ UNCHANGED <<disk, log>>

\* Create returns an error; the INSERT may have been applied all the same.
CreateFails(i) == /\ At(i, "saved", "undoFile")
                  /\ row' \in {row, [row EXCEPT ![i] = "processing"]}
                  /\ UNCHANGED <<disk, log>>

\* SendWithRetry succeeds; an attempt whose answer was lost leaves a second copy.
SendJob(i) == /\ At(i, "created", "accepted")
              /\ \E n \in 1..2 : Sent(i, n)
              /\ UNCHANGED <<row, disk>>

\* Every attempt returned an error; one of them may have reached the broker.
SendFails(i) == /\ At(i, "created", "undoRow")
                /\ \E n \in 0..1 : Sent(i, n)
                /\ UNCHANGED <<row, disk>>

\* The rollback ignores the errors of its own two steps.
UndoRow(i) == /\ At(i, "undoRow", "undoFile")
              /\ row' \in {row, [row EXCEPT ![i] = "none"]}
              /\ UNCHANGED <<disk, log>>

UndoFile(i) == /\ At(i, "undoFile", "rejected")
               /\ original' \in {original, original \ {i}}
               /\ UNCHANGED <<row, result, log>>

\* The API process stops, or the client goes away and with it the request's
\* context, on which every further step and the rollback run.
UploadStops(i) == /\ \E from \in {"saved", "created", "undoRow", "undoFile"} :
                        At(i, from, "rejected")
                  /\ UNCHANGED <<row, disk, log>>

-----------------------------------------------------------------------------
(* DELETE /image/{id}, by a client that was given the id.  sawResult is     *)
(* forgotten after its last use, all of a DELETE that ended without a 204,  *)
(* and so is the offset of a worker.                                        *)

Ended == [NoDelete EXCEPT !.pc = "ended"]

DeleteAt(d, from, to) ==
    /\ delete[d].pc = from
    /\ delete' = [delete EXCEPT ![d] = IF to = "ended" THEN Ended
             ELSE [@ EXCEPT !.pc = to, !.sawResult = delete[d].sawResult /\ to = "result"]]
    /\ UNCHANGED <<upload, topic, worker, budget>>

\* A worker that may still write a file of image i, whatever its row says by then.
MayWrite(i) == \E w \in Workers : worker[w].pc \in {"load", "process"} /\ log[worker[w].at] = i

\* Get: 404 without a row; else its copy of the row serves the rest of the request.
DeleteGet(d) ==
    /\ delete[d].pc = "new"
    /\ \E i \in Images :
        /\ upload[i] = "accepted"
        /\ delete' = [delete EXCEPT ![d] =
             IF row[i] = "none" THEN Ended
             ELSE [pc |-> "original", image |-> i, sawResult |-> row[i] = "ready",
                   quiet |-> row[i] = "ready" /\ ~MayWrite(i)]]
        /\ removing' = IF row[i] = "none" THEN removing ELSE removing \cup {i}
    /\ UNCHANGED <<row, disk, upload, topic, worker, budget>>

\* Mutant: the processed file is left behind.
DeleteOriginalOnly(d) ==
    /\ DeleteAt(d, "original", "row")
    /\ original' = original \ {delete[d].image}
    /\ UNCHANGED <<row, result, removing>>

DeleteOriginal(d) ==
    /\ DeleteAt(d, "original", IF delete[d].sawResult THEN "result" ELSE "row")
    /\ original' = original \ {delete[d].image}
    /\ UNCHANGED <<row, result, removing>>

DeleteProcessed(d) ==
    /\ DeleteAt(d, "result", "row")
    /\ result' = result \ {delete[d].image}
    /\ UNCHANGED <<row, original, removing>>

\* 204 when the row was there, 404 when another request was faster.
DeleteRow(d) ==
    /\ DeleteAt(d, "row", IF row[delete[d].image] = "none" THEN "ended" ELSE "deleted")
    /\ row' = [row EXCEPT ![delete[d].image] = "none"]
    /\ UNCHANGED <<disk, removing>>

\* One of the steps returns an error (500), or the request dies; what was done
\* stays done.  The DELETE of the row may be applied and its answer lost.
DeleteStops(d) ==
    \E from \in {"original", "result", "row"} :
        /\ DeleteAt(d, from, "ended")
        /\ \/ UNCHANGED row
           \/ from = "row" /\ row' = [row EXCEPT ![delete[d].image] = "none"]
        /\ UNCHANGED <<disk, removing>>

-----------------------------------------------------------------------------
(* StartConsume.  "fetch" is the head of the loop.                         *)

Job(w) == log[worker[w].at]

Goto(w, from, to) == /\ worker[w].pc = from
                     /\ worker' = [worker EXCEPT ![w].pc = to,
                                                  ![w].at = IF to = "fetch" THEN 0 ELSE @]
                     /\ UNCHANGED <<api, crashes>>

Error == /\ errors < MaxErrors
         /\ errors' = errors + 1

\* Mutant: the reader commits what it fetches (CommitInterval, auto-commit).
FetchAndCommit(w) == /\ owner = w
                     /\ worker[w].pc = "fetch"
                     /\ position < Len(log)
                     /\ position' = position + 1
                     /\ committed' = position + 1
                     /\ worker' = [worker EXCEPT ![w] = [pc |-> "get", at |-> position + 1]]
                     /\ UNCHANGED <<row, disk, api, log, owner, budget>>

Fetch(w) == /\ owner = w
            /\ worker[w].pc = "fetch"
            /\ position < Len(log)
            /\ position' = position + 1
            /\ worker' = [worker EXCEPT ![w] = [pc |-> "get", at |-> position + 1]]
            /\ UNCHANGED <<row, disk, api, log, owner, committed, budget>>

\* A deleted, ready or failed image is skipped and its message committed.
GetRow(w) == /\ Goto(w, "get", IF row[Job(w)] = "processing" THEN "load" ELSE "commit")
             /\ UNCHANGED <<row, disk, topic, errors>>

\* The row cannot be read: on to the next message, without a commit.
GetFails(w) == /\ Error
               /\ Goto(w, "get", "fetch")
               /\ UNCHANGED <<row, disk, topic>>

LoadOriginal(w) == /\ Goto(w, "load", IF Job(w) \in original THEN "process" ELSE "markFailed")
                   /\ UNCHANGED <<row, disk, topic, errors>>

LoadFails(w) == /\ Error
                /\ Goto(w, "load", "markFailed")
                /\ UNCHANGED <<row, disk, topic>>

Decodable(i) == i \notin Corrupt

\* The jobs that Process refuses.  The upload lets a side be missing: resize keeps the
\* proportions, or the image as it is, and thumb fails here, after the 202.
Undoable == {i \in Images : ~Decodable(i) \/ i \in Thumbs \ Sized}

\* Mutant: the original goes as soon as the result is written.
SaveAndClean(w) == /\ Goto(w, "process", "markReady")
                   /\ Job(w) \notin Undoable
                   /\ result' = result \cup {Job(w)}
                   /\ original' = original \ {Job(w)}
                   /\ UNCHANGED <<row, topic, errors>>

\* Process, then SaveProcessed, which replaces the file atomically.
SaveProcessed(w) == /\ Goto(w, "process", "markReady")
                    /\ Job(w) \notin Undoable
                    /\ result' = result \cup {Job(w)}
                    /\ UNCHANGED <<row, original, topic, errors>>

\* Mutant: the error of Process is not looked at.
ProcessErrorIgnored(w) == /\ Goto(w, "process", "markReady")
                          /\ Job(w) \in Undoable
                          /\ UNCHANGED <<row, disk, topic, errors>>

\* Mutant: after the error the row is not marked 'failed'.
ProcessErrorUnmarked(w) == /\ Goto(w, "process", "commit")
                           /\ Job(w) \in Undoable
                           /\ UNCHANGED <<row, disk, topic, errors>>

ProcessFails(w) == /\ Goto(w, "process", "markFailed")
                   /\ Job(w) \in Undoable
                   /\ UNCHANGED <<row, disk, topic, errors>>

SaveFails(w) == /\ Error
                /\ Goto(w, "process", "markFailed")
                /\ Job(w) \notin Undoable
                /\ UNCHANGED <<row, disk, topic>>

\* Mutant: UPDATE ... WHERE id = $1 alone.
SetStatusAlways(i, s) == row' = IF row[i] # "none" THEN [row EXCEPT ![i] = s] ELSE row

\* UPDATE ... WHERE status = 'processing'.
SetStatus(i, s) == row' = IF row[i] = "processing" THEN [row EXCEPT ![i] = s] ELSE row

\* The UPDATE; when it changes no row, a SELECT of its own finds out why.
MarkReady(w) == /\ Goto(w, "markReady", IF row[Job(w)] = "processing" THEN "clean" ELSE "askStatus")
                /\ SetStatus(Job(w), "ready")
                /\ UNCHANGED <<disk, topic, errors>>

\* The database is away, or only its answer is lost: no commit.
MarkReadyFails(w) == /\ Error
                     /\ Goto(w, "markReady", "fetch")
                     /\ SetStatus(Job(w), "ready") \/ UNCHANGED row
                     /\ UNCHANGED <<disk, topic>>

\* No row any more: skip and commit.  Another status: no error, on as if updated.
AskStatus(w) == /\ Goto(w, "askStatus", IF row[Job(w)] = "none" THEN "commit" ELSE "clean")
                /\ UNCHANGED <<row, disk, topic, errors>>

AskStatusFails(w) == /\ Error
                     /\ Goto(w, "askStatus", "fetch")
                     /\ UNCHANGED <<row, disk, topic>>

CleanOriginal(w) == /\ Goto(w, "clean", "commit")
                    /\ original' = original \ {Job(w)}
                    /\ UNCHANGED <<row, result, topic, errors>>

CleanFails(w) == /\ Error
                 /\ Goto(w, "clean", "commit")
                 /\ UNCHANGED <<row, disk, topic>>

MarkFailed(w) == /\ Goto(w, "markFailed", "commit")
                 /\ SetStatus(Job(w), "failed")
                 /\ UNCHANGED <<disk, topic, errors>>

\* markFailedBestEffort logs the error, and the message is committed anyway.
MarkFailedFails(w) == /\ Error
                      /\ Goto(w, "markFailed", "commit")
                      /\ UNCHANGED <<row, disk, topic>>

\* Mutant: it commits the offset after the next message.
CommitNext(w) == /\ Goto(w, "commit", "fetch")
                 /\ committed' = worker[w].at + 1
                 /\ UNCHANGED <<row, disk, log, owner, position, errors>>

\* A worker that lost the partition while it worked may still commit, or be refused.
Commit(w) == /\ Goto(w, "commit", "fetch")
             /\ \/ committed' = worker[w].at
                \/ owner # w /\ UNCHANGED committed
             /\ UNCHANGED <<row, disk, log, owner, position, errors>>

CommitFails(w) == /\ Error
                  /\ Goto(w, "commit", "fetch")
                  /\ UNCHANGED <<row, disk, topic>>

-----------------------------------------------------------------------------

Crash == /\ crashes < MaxCrashes
         /\ crashes' = crashes + 1

\* A worker process stops anywhere and starts again; on SIGTERM its context is
\* cancelled first, and every call it still makes fails.
WorkerCrash(w) ==
    /\ Crash
    /\ worker' = [worker EXCEPT ![w] = [pc |-> "fetch", at |-> 0]]
    /\ position' = IF owner = w THEN committed ELSE position
    /\ UNCHANGED <<row, disk, api, log, owner, committed, errors>>

\* The group moves the partition, or gives it again to the same worker; what
\* the old owner has in hand it goes on with.
Rebalance(w) ==
    /\ Crash
    /\ owner' = w
    /\ position' = committed
    /\ UNCHANGED <<row, disk, api, log, committed, worker, errors>>

UploadStep(i) == \/ SaveOriginal(i) \/ CreateRow(i) \/ CreateFails(i)
                 \/ SendJob(i) \/ SendFails(i)
                 \/ UndoRow(i) \/ UndoFile(i) \/ UploadStops(i)

DeleteStep(d) == \/ DeleteGet(d) \/ DeleteOriginal(d) \/ DeleteProcessed(d)
                 \/ DeleteRow(d) \/ DeleteStops(d)

WorkerStep(w) == \/ Fetch(w) \/ GetRow(w) \/ LoadOriginal(w)
                 \/ SaveProcessed(w) \/ ProcessFails(w)
                 \/ MarkReady(w) \/ AskStatus(w) \/ CleanOriginal(w)
                 \/ MarkFailed(w) \/ Commit(w)

WorkerError(w) == \/ GetFails(w) \/ LoadFails(w) \/ SaveFails(w) \/ MarkReadyFails(w)
                  \/ AskStatusFails(w) \/ CleanFails(w) \/ MarkFailedFails(w) \/ CommitFails(w)

Next == \/ \E i \in Images : UploadStep(i)
        \/ \E d \in Deletes : DeleteStep(d)
        \/ \E w \in Workers : WorkerStep(w) \/ WorkerError(w) \/ WorkerCrash(w) \/ Rebalance(w)

\* A worker that can go on does; requests and faults may never come.
Fairness == \A w \in Workers : WF_vars(WorkerStep(w))

Spec     == Init /\ [][Next]_vars
FairSpec == Spec /\ Fairness

-----------------------------------------------------------------------------
(* Properties.                                                             *)

\* Every variable has its type; a worker that works has an offset of the log.
TypeOK == /\ row \in [Images -> RowStates]
          /\ original \subseteq Images
          /\ result \subseteq Images
          /\ upload \in [Images -> UploadStates]
          /\ delete \in [Deletes -> [pc : DeleteStates, image : Images, sawResult : BOOLEAN,
                                   quiet : BOOLEAN]]
          /\ removing \subseteq Images
          /\ log \in Seq(Images)
          /\ owner \in Workers
          /\ position \in 0..Len(log)
          /\ committed \in 0..Len(log)
          /\ worker \in [Workers -> [pc : WorkerStates, at : Nat]]
          /\ \A w \in Workers : worker[w].pc # "fetch" => worker[w].at \in 1..Len(log)
          /\ crashes \in 0..MaxCrashes
          /\ errors \in 0..MaxErrors

\* At-least-once over crashes and rebalances: unless one of a worker's calls
\* failed, the committed offset passes no job that is still to be done.
CommittedIsSettled ==
    errors = 0 => \A k \in 1..committed : row[log[k]] # "processing"

\* A job that may still run finds its original, however often it was delivered
\* before: the original goes only after the row left 'processing'.
OriginalKeptWhileNeeded ==
    \A i \in Images :
        row[i] = "processing" /\ upload[i] \in {"created", "accepted"} /\ i \notin removing
            => i \in original

\* GET of a ready image has a file to send, unless a DELETE is at work or died.
ReadyHasResult ==
    \A i \in Images : row[i] = "ready" /\ i \notin removing => i \in result

\* Deliveries that repeat or overlap never fail a good image: 'failed' says that
\* the bytes or the job were bad, a call failed, the upload was rolled back or a DELETE came.
FailedForCause ==
    \A i \in Images : row[i] = "failed" =>
        \/ i \in Undoable
        \/ errors > 0
        \/ i \in removing
        \/ upload[i] \in {"undoRow", "undoFile", "rejected"}

\* What DELETE does keep of the README's promise: when it has found a ready image that
\* no worker was still at, both files are gone for good once it answers 204, whatever is
\* delivered again, crashes or deletes beside it.
QuietDeleteLeavesNoFile ==
    \A d \in Deletes :
        delete[d].quiet /\ delete[d].pc = "deleted" =>
            delete[d].image \notin original /\ delete[d].image \notin result

\* What GET /image/{id} says; without a row, whether the upload has come to it yet.
Answer(i) == IF row[i] = "none"
             THEN IF upload[i] \in {"new", "saved"} THEN "new" ELSE "gone"
             ELSE IF row[i] = "ready" /\ i \notin result THEN "broken" ELSE row[i]

Life == INSTANCE ImageLife WITH
    answer <- [i \in Images |-> Answer(i)],
    withdrawn <- {i \in Images : upload[i] \in {"undoRow", "undoFile", "rejected"}}

\* Rows, files, requests and workers together implement the life of an image as its
\* clients see it: it appears once, is settled at most once whatever is delivered
\* twice, is shown until a DELETE comes, and never comes back.
AnswersMoveForward == Life!Spec

\* Whatever crashes, an accepted image is settled or deleted in the end, as long
\* as no call of a worker returned an error.
AcceptedIsSettled ==
    \A i \in Images :
        upload[i] = "accepted" ~> row[i] # "processing" \/ errors > 0

InHand(i) == \E w \in Workers : worker[w].pc # "fetch" /\ Job(w) = i

\* README, DELETE /image/{id}: it erases the original and the processed file.
DeletedLeavesNoFile ==
    \A d \in Deletes :
        LET i == delete[d].image
        IN  delete[d].pc = "deleted" /\ ~InHand(i) => i \notin original /\ i \notin result
=============================================================================
