------------------------- MODULE ImagePipelineProofs -------------------------
(***************************************************************************)
(* Proofs about ImagePipeline, for any images, requests, workers, crashes  *)
(* and failing calls.  The inductive invariant IInv says what a request    *)
(* and a worker can rely on between two of their steps, whoever else is at *)
(* work on the image; from it follow the invariants of the run, and that   *)
(* rows and files show the life of an image in ImageLife.                  *)
(***************************************************************************)
EXTENDS ImagePipeline, SequenceTheorems, TLAPS

WithdrawnStates == {"undoRow", "undoFile", "rejected"}
RemovalSteps == {"original", "result", "row"}

\* A row comes after its file, a message after both, and only an accepted image can
\* be found by a DELETE.
UploadsInOrder ==
    /\ \A i \in Images : upload[i] \in {"new", "saved"} => row[i] = "none"
    /\ \A i \in Images : upload[i] = "saved" => i \in original
    /\ \A i \in removing : upload[i] = "accepted"
    /\ \A k \in 1..Len(log) : upload[log[k]] \in {"accepted"} \cup WithdrawnStates

\* A DELETE that looks for a result has seen the row when it was settled.
DeletesInOrder ==
    \A d \in Deletes :
       /\ delete[d].pc \in RemovalSteps => delete[d].image \in removing
       /\ delete[d].pc = "result" => delete[d].sawResult
       /\ delete[d].pc \in RemovalSteps /\ delete[d].sawResult =>
             row[delete[d].image] # "processing"

Settled(i) == row[i] # "processing"

Excused(i) == \/ i \in Undoable \cup removing
              \/ errors > 0
              \/ upload[i] \in WithdrawnStates

\* What worker w can rely on, with its job in hand.
Knows(w) ==
    /\ worker[w].pc \in {"markReady", "askStatus", "clean"} => Job(w) \in result \cup removing
    /\ worker[w].pc = "markReady" => /\ Job(w) \notin Undoable
                                     /\ Settled(Job(w)) \/ Job(w) \in result
    /\ worker[w].pc \in {"askStatus", "clean"} => Settled(Job(w))
    /\ worker[w].pc = "markFailed" => Settled(Job(w)) \/ Excused(Job(w))
    /\ errors = 0 /\ worker[w].pc # "fetch" => \A k \in 1..worker[w].at - 1 : Settled(log[k])
    /\ errors = 0 /\ worker[w].pc = "commit" => Settled(Job(w))

WorkersKnow == \A w \in Workers : Knows(w)

\* The reader passes only what is settled or what its worker has in hand.
ReadIsSettled ==
    errors = 0 => \A k \in 1..position :
                     Settled(log[k]) \/ (worker[owner].pc # "fetch" /\ worker[owner].at = k)

IInv == /\ TypeOK /\ UploadsInOrder /\ DeletesInOrder /\ WorkersKnow /\ ReadIsSettled
        /\ CommittedIsSettled /\ OriginalKeptWhileNeeded /\ ReadyHasResult /\ FailedForCause

-----------------------------------------------------------------------------
(* What no step takes back.                                                *)

\* A step only adds to the log; a settled job stays settled, an excuse stays one, and
\* a result goes only once its row is settled and a DELETE is at work.
Onward ==
    /\ log' \in Seq(Images) /\ Len(log) <= Len(log')
    /\ \A k \in 1..Len(log) : log'[k] = log[k]
    /\ \A k \in 1..Len(log) : row[log[k]] # "processing" => row'[log[k]] # "processing"
    /\ \A i \in Images : Excused(i) => Excused(i)'
    /\ removing \subseteq removing'
    /\ \A i \in result : i \in result' \/ (i \in removing /\ row[i] # "processing")
    /\ errors' \in Nat /\ errors <= errors'

LEMMA TypeFacts ==
    ASSUME TypeOK
    PROVE  /\ errors \in Nat /\ position \in Nat /\ committed \in Nat /\ Len(log) \in Nat
           /\ position <= Len(log) /\ committed <= Len(log)
           /\ \A k \in 1..Len(log) : log[k] \in Images
           /\ \A w \in Workers : worker[w].at \in Nat /\ worker[w].pc \in WorkerStates
           /\ \A w \in Workers : worker[w].pc # "fetch" =>
                 worker[w].at \in 1..Len(log) /\ Job(w) \in Images
BY ConstantsAssumption DEF TypeOK, Job

LEMMA KnowsOn ==
    ASSUME TypeOK, Onward, NEW w \in Workers, worker'[w] = worker[w], Knows(w)
    PROVE  Knows(w)'
<1>1. /\ errors \in Nat /\ worker[w].at \in Nat
      /\ worker[w].pc # "fetch" => worker[w].at \in 1..Len(log) /\ Job(w) \in Images
      /\ Len(log) \in Nat
  BY TypeFacts
<1>2. CASE worker[w].pc = "fetch"
  BY <1>2 DEF Knows
<1>3. CASE worker[w].pc # "fetch"
  <2>1. Job(w)' = Job(w) /\ Job(w) \in Images /\ (Settled(Job(w)) => Settled(Job(w))')
    BY <1>1, <1>3 DEF Job, Onward, Settled
  <2>2. \A k \in 1..worker[w].at - 1 : Settled(log[k]) => Settled(log[k])'
    BY <1>1, <1>3 DEF Onward, Settled
  <2>3. errors' = 0 => errors = 0
    BY <1>1 DEF Onward
  <2>4. Excused(Job(w)) => Excused(Job(w))'
    BY <2>1 DEF Onward, Excused
  <2>5. Job(w) \in result => Job(w) \in result' \/ (Job(w) \in removing' /\ Settled(Job(w))')
    BY <2>1 DEF Onward, Settled
  <2>6. Job(w) \in removing => Job(w) \in removing'
    BY DEF Onward
  <2>7. Undoable' = Undoable
    BY DEF Undoable, Decodable
  <2>8. QED
    BY <2>1, <2>2, <2>3, <2>4, <2>5, <2>6, <2>7 DEF Knows
<1>4. QED
  BY <1>2, <1>3

LEMMA CommittedOn ==
    ASSUME TypeOK, Onward, CommittedIsSettled, UNCHANGED committed
    PROVE  CommittedIsSettled'
BY TypeFacts DEF Onward, CommittedIsSettled

LEMMA ReadOn ==
    ASSUME TypeOK, Onward, ReadIsSettled, UNCHANGED <<position, owner>>,
           errors' = 0 => \A k \in 1..Len(log) :
               worker[owner].pc # "fetch" /\ worker[owner].at = k =>
                  row'[log[k]] # "processing" \/ (worker'[owner].pc # "fetch" /\ worker'[owner].at = k)
    PROVE  ReadIsSettled'
BY TypeFacts DEF Onward, ReadIsSettled, Settled

\* Steps of requests leave the workers and the reader as they are.
LEMMA TopicOn ==
    ASSUME TypeOK, Onward, WorkersKnow, ReadIsSettled, CommittedIsSettled,
           UNCHANGED <<owner, position, committed, worker>>
    PROVE  (WorkersKnow /\ ReadIsSettled /\ CommittedIsSettled)'
<1>1. WorkersKnow'
  BY KnowsOn DEF WorkersKnow
<1>2. ReadIsSettled'
  BY ReadOn
<1>3. QED
  BY <1>1, <1>2, CommittedOn

LEMMA InitHolds == Init => IInv
<1> SUFFICES ASSUME Init PROVE IInv
  OBVIOUS
<1> USE ConstantsAssumption DEF Init
<1>1. TypeOK
  BY DEF TypeOK, RowStates, UploadStates, DeleteStates, WorkerStates, NoDelete
<1>2. UploadsInOrder
  BY DEF UploadsInOrder
<1>3. DeletesInOrder
  BY DEF DeletesInOrder, NoDelete, RemovalSteps
<1>4. WorkersKnow
  BY DEF WorkersKnow, Knows
<1>5. ReadIsSettled /\ CommittedIsSettled
  BY DEF ReadIsSettled, CommittedIsSettled
<1>6. OriginalKeptWhileNeeded /\ ReadyHasResult /\ FailedForCause
  BY DEF OriginalKeptWhileNeeded, ReadyHasResult, FailedForCause
<1>7. QED
  BY <1>1, <1>2, <1>3, <1>4, <1>5, <1>6 DEF IInv

-----------------------------------------------------------------------------
(* POST /upload.                                                           *)

LEMMA SentFacts ==
    ASSUME TypeOK, NEW i \in Images, NEW n \in Nat, Sent(i, n)
    PROVE  /\ log' \in Seq(Images) /\ Len(log) \in Nat /\ Len(log') = Len(log) + n
           /\ \A k \in 1..Len(log) : log'[k] = log[k]
           /\ \A k \in Len(log) + 1..Len(log) + n : log'[k] = i
<1> DEFINE new == [k \in 1..n |-> i]
<1>1. new \in Seq(Images) /\ Len(new) = n
  OBVIOUS
<1>2. log \in Seq(Images) /\ log' = log \o new
  BY DEF TypeOK, Sent
<1> HIDE DEF new
<1>3. /\ log' \in Seq(Images) /\ Len(log') = Len(log) + n /\ Len(log) \in Nat
      /\ \A k \in 1..Len(log) + n : log'[k] = IF k <= Len(log) THEN log[k] ELSE new[k - Len(log)]
  BY <1>1, <1>2, ConcatProperties, LenProperties
<1>4. \A k \in 1..n : new[k] = i
  BY DEF new
<1>5. QED
  BY <1>3, <1>4

\* An upload moves on by itself; what it does to its row, its file and the log is
\* what the hypotheses allow.
LEMMA UploadKeeps ==
    ASSUME IInv, NEW i \in Images, NEW from, NEW to \in UploadStates \ {"new"}, At(i, from, to),
           from # "accepted", from \in WithdrawnStates => to \in WithdrawnStates,
           row' \in [Images -> RowStates], \A j \in Images \ {i} : row'[j] = row[j],
           row'[i] \in {row[i], "none"} \/ (row'[i] = "processing" /\ from = "saved"),
           to = "saved" => row'[i] = "none" /\ i \in original',
           original' \subseteq Images, \A j \in original : j # i => j \in original',
           to \in {"created", "accepted"} /\ row'[i] = "processing" => i \in original',
           result' = result,
           log' \in Seq(Images), Len(log) <= Len(log'),
           \A k \in 1..Len(log) : log'[k] = log[k],
           \A k \in Len(log) + 1..Len(log') : log'[k] = i,
           Len(log') = Len(log) \/ to \in {"accepted", "undoRow"}
    PROVE  IInv'
<1> USE DEF IInv
<1>0. /\ upload \in [Images -> UploadStates] /\ upload[i] = from
      /\ upload' = [upload EXCEPT ![i] = to]
      /\ UNCHANGED <<delete, removing, owner, position, committed, worker, crashes, errors>>
  BY DEF At, TypeOK, budget
<1>1. upload'[i] = to /\ \A j \in Images \ {i} : upload'[j] = upload[j]
  BY <1>0
<1>2. i \notin removing /\ \A k \in 1..Len(log) : log[k] = i => from \in WithdrawnStates
  BY <1>0 DEF UploadsInOrder
<1>3. Len(log') \in Nat /\ Len(log) \in Nat /\ \A k \in 1..Len(log) : log[k] \in Images
  BY TypeFacts, LenProperties
<1>4. TypeOK'
  <2>1. /\ position' \in 0..Len(log') /\ committed' \in 0..Len(log')
        /\ \A w \in Workers : worker'[w].pc # "fetch" => worker'[w].at \in 1..Len(log')
    BY <1>0, <1>3 DEF TypeOK
  <2>2. QED
    BY <1>0, <2>1 DEF TypeOK
<1>5. Onward
  <2>1. \A k \in 1..Len(log) : row[log[k]] # "processing" => row'[log[k]] # "processing"
    BY <1>2, <1>3 DEF WithdrawnStates
  <2>2. \A j \in Images : Excused(j) => Excused(j)'
    BY <1>0, <1>1 DEF Excused, Undoable, Decodable
  <2>3. QED
    BY <1>0, <2>1, <2>2, TypeFacts DEF Onward
<1>6. UploadsInOrder'
  <2>1. \A j \in Images : upload'[j] \in {"new", "saved"} => row'[j] = "none"
    BY <1>1 DEF UploadsInOrder
  <2>2. \A j \in Images : upload'[j] = "saved" => j \in original'
    BY <1>1 DEF UploadsInOrder
  <2>3. \A j \in removing' : upload'[j] = "accepted"
    BY <1>0, <1>1, <1>2 DEF UploadsInOrder, TypeOK
  <2>4. ASSUME NEW k \in 1..Len(log')
        PROVE  upload'[log'[k]] \in {"accepted"} \cup WithdrawnStates
    <3>1. CASE k \in 1..Len(log)
      BY <1>1, <1>2, <1>3, <3>1 DEF UploadsInOrder
    <3>2. CASE k \in Len(log) + 1..Len(log')
      BY <1>1, <1>3, <3>2 DEF WithdrawnStates
    <3>3. QED
      BY <1>3, <3>1, <3>2
  <2>5. QED
    BY <2>1, <2>2, <2>3, <2>4 DEF UploadsInOrder
<1>7. DeletesInOrder'
  BY <1>0, <1>2 DEF DeletesInOrder, TypeOK
<1>8. OriginalKeptWhileNeeded'
  BY <1>0, <1>1 DEF OriginalKeptWhileNeeded
<1>9. ReadyHasResult'
  BY <1>0 DEF ReadyHasResult
<1>10. FailedForCause'
  <2>1. \A j \in Images : row'[j] = "failed" => row[j] = "failed"
    OBVIOUS
  <2>2. \A j \in Images : Excused(j) => Excused(j)'
    BY <1>5 DEF Onward
  <2>3. QED
    BY <2>1, <2>2 DEF FailedForCause, Excused, WithdrawnStates
<1>11. QED
  BY <1>0, <1>4, <1>5, <1>6, <1>7, <1>8, <1>9, <1>10, TopicOn

LEMMA UploadStepKeeps == ASSUME IInv, NEW i \in Images, UploadStep(i) PROVE IInv'
<1> USE DEF UploadStates, WithdrawnStates
<1>0. /\ row \in [Images -> RowStates] /\ original \subseteq Images /\ log \in Seq(Images)
      /\ Len(log) \in Nat /\ {"none", "processing"} \subseteq RowStates
      /\ upload[i] \in {"new", "saved"} => row[i] = "none"
      /\ upload[i] = "saved" => i \in original
      /\ upload[i] = "created" /\ row[i] = "processing" => i \in original
  BY TypeFacts DEF IInv, TypeOK, UploadsInOrder, OriginalKeptWhileNeeded, RowStates
<1>1. CASE SaveOriginal(i)
  <2>1. At(i, "new", "saved") /\ upload[i] = "new" /\ original' = original \cup {i}
        /\ UNCHANGED <<row, result, log>>
    BY <1>1 DEF SaveOriginal, At
  <2>2. QED
    BY <1>0, <2>1, UploadKeeps
<1>2. ASSUME NEW to \in {"created", "undoFile"}, At(i, "saved", to),
             row' \in {row, [row EXCEPT ![i] = "processing"]}, UNCHANGED <<disk, log>>
      PROVE  IInv'
  <2>1. upload[i] = "saved" /\ UNCHANGED <<original, result, log>>
    BY <1>2 DEF At, disk
  <2>2. QED
    BY <1>0, <1>2, <2>1, UploadKeeps
<1>3. ASSUME NEW to \in {"accepted", "undoRow"}, NEW n \in 0..2, At(i, "created", to),
             Sent(i, n), UNCHANGED <<row, disk>>
      PROVE  IInv'
  <2>1. upload[i] = "created" /\ UNCHANGED <<row, original, result>>
    BY <1>3 DEF At, disk
  <2>2. /\ log' \in Seq(Images) /\ Len(log) <= Len(log')
        /\ \A k \in 1..Len(log) : log'[k] = log[k]
        /\ \A k \in Len(log) + 1..Len(log') : log'[k] = i
    BY <1>3, SentFacts DEF IInv
  <2>3. QED
    BY <1>0, <1>3, <2>1, <2>2, UploadKeeps
<1>4. CASE UndoRow(i)
  <2>1. /\ At(i, "undoRow", "undoFile") /\ UNCHANGED <<original, result, log>>
        /\ row' \in {row, [row EXCEPT ![i] = "none"]}
    BY <1>4 DEF UndoRow, disk
  <2>2. QED
    BY <1>0, <2>1, UploadKeeps
<1>5. CASE UndoFile(i)
  <2>1. /\ At(i, "undoFile", "rejected") /\ UNCHANGED <<row, result, log>>
        /\ original' \in {original, original \ {i}}
    BY <1>5 DEF UndoFile
  <2>2. QED
    BY <1>0, <2>1, UploadKeeps
<1>6. CASE UploadStops(i)
  <2>1. PICK from \in {"saved", "created", "undoRow", "undoFile"} : At(i, from, "rejected")
    BY <1>6 DEF UploadStops
  <2>2. UNCHANGED <<row, original, result, log>>
    BY <1>6 DEF UploadStops, disk
  <2>3. QED
    BY <1>0, <2>1, <2>2, UploadKeeps
<1>7. QED
  BY <1>1, <1>2, <1>3, <1>4, <1>5, <1>6
     DEF UploadStep, CreateRow, CreateFails, SendJob, SendFails

-----------------------------------------------------------------------------
(* DELETE /image/{id}.                                                     *)

DeleteRecord == [pc : DeleteStates, image : Images, sawResult : BOOLEAN, quiet : BOOLEAN]

LEMMA EndedFacts ==
    /\ Ended \in DeleteRecord /\ Ended.pc = "ended"
    /\ Ended.sawResult = FALSE /\ Ended.quiet = FALSE
<1> DEFINE first == CHOOSE i \in Images : TRUE
<1>1. first \in Images
  BY ConstantsAssumption
<1>2. NoDelete = [pc |-> "new", image |-> first, sawResult |-> FALSE, quiet |-> FALSE]
  BY Zenon DEF NoDelete
<1> HIDE DEF first
<1>3. /\ NoDelete \in DeleteRecord
      /\ NoDelete.sawResult = FALSE /\ NoDelete.quiet = FALSE
  BY <1>1, <1>2 DEF DeleteRecord, DeleteStates
<1>4. QED
  BY <1>3 DEF Ended, DeleteRecord, DeleteStates

LEMMA RecordTurn ==
    ASSUME NEW A, NEW B, NEW C, NEW r \in [pc : A, image : B, sawResult : C, quiet : C],
           NEW a \in A, NEW c \in C, NEW n, n = [r EXCEPT !.pc = a, !.sawResult = c]
    PROVE  /\ n \in [pc : A, image : B, sawResult : C, quiet : C]
           /\ n.pc = a /\ n.sawResult = c /\ n.image = r.image /\ n.quiet = r.quiet
OBVIOUS

\* A step of a DELETE leaves the others alone, and an ended one keeps nothing.
LEMMA DeleteAtFacts ==
    ASSUME TypeOK, NEW d \in Deletes, NEW from, NEW to \in DeleteStates, DeleteAt(d, from, to)
    PROVE  /\ delete[d].pc = from /\ delete'[d].pc = to
           /\ delete' \in [Deletes -> DeleteRecord]
           /\ \A e \in Deletes \ {d} : delete'[e] = delete[e]
           /\ delete'[d].sawResult <=> (delete[d].sawResult /\ to = "result")
           /\ to # "ended" => /\ delete'[d].image = delete[d].image
                              /\ delete'[d].quiet = delete[d].quiet
           /\ to = "ended" => ~delete'[d].quiet
           /\ UNCHANGED <<upload, log, owner, position, committed, worker, crashes, errors>>
<1> DEFINE saw  == delete[d].sawResult /\ to = "result"
           on   == [delete[d] EXCEPT !.pc = to, !.sawResult = saw]
           next == IF to = "ended" THEN Ended ELSE on
<1>1. /\ delete \in [Deletes -> DeleteRecord] /\ delete[d] \in DeleteRecord
      /\ delete' = [delete EXCEPT ![d] = next] /\ delete[d].pc = from
      /\ UNCHANGED <<upload, log, owner, position, committed, worker, crashes, errors>>
  <2>1. delete' = [delete EXCEPT ![d] = next] /\ delete[d].pc = from
    BY Zenon DEF DeleteAt
  <2>2. delete \in [Deletes -> DeleteRecord]
    BY DEF TypeOK, DeleteRecord
  <2>3. UNCHANGED <<upload, log, owner, position, committed, worker, crashes, errors>>
    BY DEF DeleteAt, topic, budget
  <2>4. QED
    BY <2>1, <2>2, <2>3, Zenon
<1>2. saw \in BOOLEAN /\ (saw <=> (delete[d].sawResult /\ to = "result"))
  BY <1>1 DEF DeleteRecord
<1> HIDE DEF saw
<1>3. /\ on \in DeleteRecord /\ on.pc = to /\ on.sawResult = saw
      /\ on.image = delete[d].image /\ on.quiet = delete[d].quiet
  <2>1. delete[d] \in [pc : DeleteStates, image : Images, sawResult : BOOLEAN, quiet : BOOLEAN]
    BY <1>1 DEF DeleteRecord
  <2>2. QED
    BY <1>2, <2>1, RecordTurn DEF DeleteRecord
<1> HIDE DEF on
<1>4. /\ next \in DeleteRecord /\ next.pc = to
      /\ next.sawResult <=> (delete[d].sawResult /\ to = "result")
      /\ to # "ended" => next.image = delete[d].image /\ next.quiet = delete[d].quiet
      /\ to = "ended" => ~next.quiet
  BY <1>2, <1>3, EndedFacts
<1> HIDE DEF next
<1>5. /\ delete'[d] = next /\ delete' \in [Deletes -> DeleteRecord]
      /\ \A e \in Deletes \ {d} : delete'[e] = delete[e]
  BY <1>1, <1>4
<1>6. QED
  BY <1>1, <1>4, <1>5

\* What Get finds: nothing, or a row whose status decides what is removed.
LEMMA DeleteGetFacts ==
    ASSUME TypeOK, NEW d \in Deletes, DeleteGet(d)
    PROVE  /\ \E i \in Images :
              /\ upload[i] = "accepted"
              /\ \/ /\ row[i] = "none" /\ removing' = removing
                    /\ delete'[d].pc = "ended" /\ ~delete'[d].sawResult /\ ~delete'[d].quiet
                 \/ /\ row[i] # "none" /\ removing' = removing \cup {i}
                    /\ delete'[d].pc = "original" /\ delete'[d].image = i
                    /\ delete'[d].sawResult => row[i] = "ready"
                    /\ delete'[d].quiet => row[i] = "ready" /\ ~MayWrite(i) /\ delete'[d].sawResult
           /\ delete' \in [Deletes -> DeleteRecord]
           /\ \A e \in Deletes \ {d} : delete'[e] = delete[e]
           /\ UNCHANGED <<row, original, result, upload, log, owner, position, committed, worker,
                          crashes, errors>>
<1>1. PICK i \in Images :
         /\ upload[i] = "accepted"
         /\ delete' = [delete EXCEPT ![d] =
              IF row[i] = "none" THEN Ended
              ELSE [pc |-> "original", image |-> i, sawResult |-> row[i] = "ready",
                    quiet |-> row[i] = "ready" /\ ~MayWrite(i)]]
         /\ removing' = IF row[i] = "none" THEN removing ELSE removing \cup {i}
  BY DEF DeleteGet
<1> DEFINE saw   == row[i] = "ready"
           quiet == row[i] = "ready" /\ ~MayWrite(i)
           found == [pc |-> "original", image |-> i, sawResult |-> saw, quiet |-> quiet]
           next  == IF row[i] = "none" THEN Ended ELSE found
<1>2. saw \in BOOLEAN /\ quiet \in BOOLEAN /\ (saw => row[i] = "ready")
      /\ (quiet => saw /\ row[i] = "ready" /\ ~MayWrite(i))
  OBVIOUS
<1>3. delete' = [delete EXCEPT ![d] = next] /\ delete \in [Deletes -> DeleteRecord]
  BY <1>1 DEF TypeOK, DeleteRecord
<1> HIDE DEF saw, quiet
<1>4. /\ found \in DeleteRecord /\ found.pc = "original" /\ found.image = i
      /\ found.sawResult = saw /\ found.quiet = quiet
  BY <1>2 DEF DeleteRecord, DeleteStates
<1> HIDE DEF found
<1>5. next \in DeleteRecord /\ (row[i] = "none" => next = Ended) /\ (row[i] # "none" => next = found)
  BY <1>4, EndedFacts
<1> HIDE DEF next
<1>6. /\ delete'[d] = next /\ delete' \in [Deletes -> DeleteRecord]
      /\ \A e \in Deletes \ {d} : delete'[e] = delete[e]
  BY <1>3, <1>5
<1>7. UNCHANGED <<row, original, result, upload, log, owner, position, committed, worker,
                  crashes, errors>>
  BY DEF DeleteGet, disk, topic, budget
<1>8. CASE row[i] = "none"
  BY <1>1, <1>5, <1>6, <1>7, <1>8, EndedFacts
<1>9. CASE row[i] # "none"
  BY <1>1, <1>2, <1>4, <1>5, <1>6, <1>7, <1>9
<1>10. QED
  BY <1>8, <1>9

LEMMA DeleteGetKeeps == ASSUME IInv, NEW d \in Deletes, DeleteGet(d) PROVE IInv'
<1> USE DEF IInv
<1>1. /\ delete' \in [Deletes -> DeleteRecord]
      /\ \A e \in Deletes \ {d} : delete'[e] = delete[e]
      /\ UNCHANGED <<row, original, result, upload, log, owner, position, committed, worker,
                     crashes, errors>>
  BY DeleteGetFacts
<1>2. PICK i \in Images :
         /\ upload[i] = "accepted"
         /\ \/ removing' = removing /\ delete'[d].pc = "ended" /\ ~delete'[d].sawResult
            \/ /\ removing' = removing \cup {i}
               /\ delete'[d].pc = "original" /\ delete'[d].image = i
               /\ delete'[d].sawResult => row[i] = "ready"
  BY DeleteGetFacts
<1>3. TypeOK'
  BY <1>1, <1>2 DEF TypeOK, DeleteRecord
<1>4. Onward
  BY <1>1, <1>2, TypeFacts DEF Onward, Excused, Undoable, Decodable, TypeOK
<1>5. UploadsInOrder'
  BY <1>1, <1>2 DEF UploadsInOrder
<1>6. DeletesInOrder'
  <2>1. \A e \in Deletes \ {d} : delete'[e].pc \in RemovalSteps =>
           delete'[e].image \in removing
    BY <1>1 DEF DeletesInOrder
  <2>2. \A e \in Deletes \ {d} :
           /\ delete'[e].pc = "result" => delete'[e].sawResult
           /\ delete'[e].pc \in RemovalSteps /\ delete'[e].sawResult =>
                 row'[delete'[e].image] # "processing"
    BY <1>1, Zenon DEF DeletesInOrder
  <2>3. /\ delete'[d].pc # "result"
        /\ delete'[d].pc \in RemovalSteps => delete'[d].image \in removing'
        /\ delete'[d].pc \in RemovalSteps /\ delete'[d].sawResult =>
              row'[delete'[d].image] # "processing"
    BY <1>1, <1>2 DEF RemovalSteps
  <2>4. QED
    BY <1>2, <2>1, <2>2, <2>3 DEF DeletesInOrder
<1>7. OriginalKeptWhileNeeded' /\ ReadyHasResult' /\ FailedForCause'
  BY <1>1, <1>2
     DEF OriginalKeptWhileNeeded, ReadyHasResult, FailedForCause, Undoable, Decodable
<1>8. QED
  BY <1>1, <1>3, <1>4, <1>5, <1>6, <1>7, TopicOn

\* Later steps remove what belongs to the image, the result only if one was seen.
LEMMA RemovalKeeps ==
    ASSUME IInv, NEW d \in Deletes, NEW from \in RemovalSteps, NEW to \in DeleteStates,
           DeleteAt(d, from, to), UNCHANGED <<removing, log>>,
           to = "result" => delete[d].sawResult,
           row' \in {row, [row EXCEPT ![delete[d].image] = "none"]},
           original' \in {original, original \ {delete[d].image}},
           result' \in {result, result \ {delete[d].image}},
           result' = result \/ from = "result"
    PROVE  IInv'
<1> DEFINE i == delete[d].image
<1> USE DEF IInv, RemovalSteps
<1>0. /\ delete[d].pc = from /\ delete'[d].pc = to
      /\ delete' \in [Deletes -> DeleteRecord]
      /\ \A e \in Deletes \ {d} : delete'[e] = delete[e]
      /\ delete'[d].sawResult <=> (delete[d].sawResult /\ to = "result")
      /\ to # "ended" => delete'[d].image = i
      /\ UNCHANGED <<upload, log, owner, position, committed, worker, crashes, errors>>
  BY DeleteAtFacts
<1>1. /\ i \in removing /\ i \in Images
      /\ delete[d].sawResult => row[i] # "processing"
      /\ from = "result" => delete[d].sawResult
  BY <1>0 DEF DeletesInOrder, TypeOK
<1> HIDE DEF i
<1>3. /\ \A j \in Images : row'[j] = row[j] \/ (row'[j] = "none" /\ j = i)
      /\ row' \in [Images -> RowStates]
      /\ original' \subseteq original /\ \A j \in original : j # i => j \in original'
      /\ result' \subseteq result /\ \A j \in result : j # i => j \in result'
  BY <1>1 DEF i, TypeOK, RowStates
<1>4. TypeOK'
  BY <1>0, <1>3 DEF TypeOK, DeleteRecord
<1>5. Onward
  <2>1. \A j \in result : j \in result' \/ (j \in removing /\ row[j] # "processing")
    BY <1>1, <1>3
  <2>2. \A k \in 1..Len(log) : row[log[k]] # "processing" => row'[log[k]] # "processing"
    BY <1>3, TypeFacts
  <2>3. QED
    BY <1>0, <2>1, <2>2, TypeFacts DEF Onward, Excused, Undoable, Decodable, TypeOK
<1>6. UploadsInOrder'
  BY <1>0, <1>1, <1>3 DEF UploadsInOrder
<1>7. DeletesInOrder'
  BY <1>0, <1>1, <1>3 DEF DeletesInOrder, TypeOK
<1>8. OriginalKeptWhileNeeded' /\ ReadyHasResult' /\ FailedForCause'
  BY <1>0, <1>1, <1>3
     DEF OriginalKeptWhileNeeded, ReadyHasResult, FailedForCause, Undoable, Decodable
<1>9. QED
  BY <1>0, <1>4, <1>5, <1>6, <1>7, <1>8, TopicOn

LEMMA DeleteStepKeeps == ASSUME IInv, NEW d \in Deletes, DeleteStep(d) PROVE IInv'
<1> USE DEF RemovalSteps, DeleteStates
<1>1. CASE DeleteGet(d)
  BY <1>1, DeleteGetKeeps
<1>2. CASE DeleteOriginal(d)
  <2>1. PICK to \in {"result", "row"} : /\ DeleteAt(d, "original", to)
                                        /\ to = "result" => delete[d].sawResult
    BY <1>2 DEF DeleteOriginal
  <2>2. UNCHANGED <<row, result, removing, log>> /\ original' = original \ {delete[d].image}
    BY <1>2 DEF DeleteOriginal, DeleteAt, topic
  <2>3. QED
    BY <2>1, <2>2, RemovalKeeps
<1>3. CASE DeleteProcessed(d)
  <2>1. /\ DeleteAt(d, "result", "row") /\ UNCHANGED <<row, original, removing, log>>
        /\ result' = result \ {delete[d].image}
    BY <1>3 DEF DeleteProcessed, DeleteAt, topic
  <2>2. QED
    BY <2>1, RemovalKeeps
<1>4. CASE DeleteRow(d)
  <2>1. PICK to \in {"ended", "deleted"} : DeleteAt(d, "row", to)
    BY <1>4 DEF DeleteRow
  <2>2. /\ UNCHANGED <<original, result, removing, log>>
        /\ row' = [row EXCEPT ![delete[d].image] = "none"]
    BY <1>4 DEF DeleteRow, DeleteAt, disk, topic
  <2>3. QED
    BY <2>1, <2>2, RemovalKeeps
<1>5. CASE DeleteStops(d)
  <2>1. PICK from \in {"original", "result", "row"} :
           /\ DeleteAt(d, from, "ended") /\ UNCHANGED <<disk, removing>>
           /\ row' \in {row, [row EXCEPT ![delete[d].image] = "none"]}
    BY <1>5 DEF DeleteStops
  <2>2. UNCHANGED <<original, result, removing, log>>
    BY <2>1 DEF DeleteAt, disk, topic
  <2>3. QED
    BY <2>1, <2>2, RemovalKeeps
<1>6. QED
  BY <1>1, <1>2, <1>3, <1>4, <1>5 DEF DeleteStep

-----------------------------------------------------------------------------
(* StartConsume.                                                           *)

\* What worker w may do to rows and files.
Leaves(w) ==
    /\ row' \in [Images -> RowStates]
    /\ \A i \in Images :
          \/ row'[i] = row[i]
          \/ row[i] = "processing" /\ row'[i] = "ready" /\ i \in result \cup removing
          \/ row[i] = "processing" /\ row'[i] = "failed" /\ Excused(i)
    /\ result \subseteq result' /\ result' \subseteq Images
    /\ original' \subseteq original
    /\ \A i \in original \ original' : i = Job(w) /\ row[i] # "processing"

\* What worker w must have found to go to a step.
MayGo(w, to) ==
    /\ to \in {"markReady", "askStatus", "clean"} => Job(w) \in result' \cup removing
    /\ to = "markReady" =>
          Job(w) \notin Undoable /\ (row'[Job(w)] # "processing" \/ Job(w) \in result')
    /\ to \in {"askStatus", "clean"} => row'[Job(w)] # "processing"
    /\ to = "markFailed" => row'[Job(w)] # "processing" \/ Excused(Job(w)) \/ errors' > 0
    /\ to \in {"commit", "fetch"} /\ errors' = 0 => row'[Job(w)] # "processing"

LEMMA GotoFacts ==
    ASSUME TypeOK, NEW w \in Workers, NEW from, NEW to \in WorkerStates, Goto(w, from, to)
    PROVE  /\ worker[w].pc = from /\ worker'[w].pc = to
           /\ to # "fetch" => worker'[w].at = worker[w].at
           /\ \A v \in Workers \ {w} : worker'[v] = worker[v]
           /\ worker' \in [Workers -> [pc : WorkerStates, at : Nat]]
           /\ UNCHANGED <<upload, delete, removing, crashes>>
<1> DEFINE at == IF to = "fetch" THEN 0 ELSE worker[w].at
<1>1. worker \in [Workers -> [pc : WorkerStates, at : Nat]] /\ at \in Nat
  BY DEF TypeOK
<1>2. /\ worker[w].pc = from /\ worker' = [worker EXCEPT ![w].pc = to, ![w].at = at]
      /\ UNCHANGED <<upload, delete, removing, crashes>>
  BY DEF Goto, api
<1>3. to # "fetch" => at = worker[w].at
  OBVIOUS
<1> HIDE DEF at
<1>4. QED
  BY <1>1, <1>2, <1>3

LEMMA AtFetch == ASSUME NEW w, worker'[w].pc = "fetch" PROVE Knows(w)'
BY DEF Knows

LEMMA KnowsThere ==
    ASSUME TypeOK, NEW w \in Workers, NEW to \in WorkerStates, Knows(w), MayGo(w, to),
           worker[w].pc # "fetch", to # "fetch",
           worker'[w].pc = to, worker'[w].at = worker[w].at,
           UNCHANGED <<log, removing>>, errors' \in Nat, errors <= errors',
           Excused(Job(w)) => Excused(Job(w))',
           \A i \in Images : row[i] # "processing" => row'[i] # "processing"
    PROVE  Knows(w)'
<1>1. worker[w].at \in 1..Len(log) /\ Job(w) \in Images /\ Job(w)' = Job(w)
      /\ errors \in Nat /\ \A k \in 1..Len(log) : log[k] \in Images
  BY TypeFacts DEF Job
<1>2. errors' = 0 => \A k \in 1..worker[w].at - 1 : row'[log[k]] # "processing"
  BY <1>1 DEF Knows, Settled
<1>3. errors' > 0 => Excused(Job(w))'
  BY DEF Excused
<1>4. Undoable' = Undoable
  BY DEF Undoable, Decodable
<1>5. QED
  BY <1>1, <1>2, <1>3, <1>4 DEF Knows, MayGo, Settled

LEMMA TurnKeeps ==
    ASSUME IInv, NEW w \in Workers, NEW from \in WorkerStates \ {"fetch"},
           NEW to \in WorkerStates, Goto(w, from, to), Leaves(w), MayGo(w, to),
           UNCHANGED <<log, owner, position>>,
           committed' = committed \/ (committed' = worker[w].at /\ from = "commit"),
           errors' \in {errors, errors + 1}, errors' <= MaxErrors
    PROVE  IInv'
<1>0. /\ worker[w].pc = from /\ worker'[w].pc = to
      /\ to # "fetch" => worker'[w].at = worker[w].at
      /\ \A v \in Workers \ {w} : worker'[v] = worker[v]
      /\ worker' \in [Workers -> [pc : WorkerStates, at : Nat]]
      /\ UNCHANGED <<upload, delete, removing, log, owner, position, crashes>>
  BY GotoFacts DEF IInv
<1>2. /\ worker[w].at \in 1..Len(log) /\ Len(log) \in Nat
      /\ Job(w) \in Images /\ Job(w) = log[worker[w].at]
      /\ errors \in Nat /\ errors' \in Nat /\ errors <= errors' /\ MaxErrors \in Nat
      /\ \A k \in 1..Len(log) : log[k] \in Images
  BY <1>0, TypeFacts, ConstantsAssumption DEF Job, IInv
<1>3. upload[Job(w)] # "saved"
  BY <1>2 DEF UploadsInOrder, WithdrawnStates, IInv
<1>4. /\ \A i \in Images : row[i] # "processing" => row'[i] = row[i]
      /\ \A i \in Images : row'[i] = "none" <=> row[i] = "none"
  BY DEF Leaves
<1>5. TypeOK'
  <2>1. \A v \in Workers : worker'[v].pc # "fetch" => worker'[v].at \in 1..Len(log)
    BY <1>0, <1>2 DEF TypeOK, IInv
  <2>2. committed' \in 0..Len(log)
    BY <1>2 DEF TypeOK, IInv
  <2>3. errors' \in 0..MaxErrors
    BY <1>2
  <2>4. QED
    BY <1>0, <2>1, <2>2, <2>3 DEF TypeOK, IInv, Leaves
<1>6. \A i \in Images : Excused(i) => Excused(i)'
  BY <1>0, <1>2 DEF Excused, Undoable, Decodable
<1>7. Onward
  <2>1. \A k \in 1..Len(log) : row[log[k]] # "processing" => row'[log[k]] # "processing"
    BY <1>2, <1>4
  <2>2. QED
    BY <1>0, <1>2, <1>6, <2>1 DEF Onward, TypeOK, IInv, Leaves
<1>8. UploadsInOrder'
  <2>1. \A i \in Images : upload[i] = "saved" => i \in original'
    BY <1>3 DEF UploadsInOrder, IInv, Leaves
  <2>2. QED
    BY <1>0, <1>4, <2>1 DEF UploadsInOrder, IInv
<1>9. DeletesInOrder'
  BY <1>0, <1>4 DEF DeletesInOrder, TypeOK, IInv
<1>10. CommittedIsSettled'
  <2>1. CASE committed' = committed
    BY <1>7, <2>1, CommittedOn DEF IInv
  <2>2. CASE committed' = worker[w].at /\ from = "commit"
    <3>1. errors = 0 => \A k \in 1..worker[w].at : Settled(log[k])
      BY <1>0, <1>2, <2>2 DEF WorkersKnow, Knows, IInv
    <3>2. QED
      BY <1>0, <1>2, <1>4, <2>2, <3>1 DEF CommittedIsSettled, Settled
  <2>3. QED
    BY <2>1, <2>2
<1>11. ReadIsSettled'
  <2>1. errors' = 0 => \A k \in 1..Len(log) :
           worker[owner].pc # "fetch" /\ worker[owner].at = k =>
              row'[log[k]] # "processing" \/ (worker'[owner].pc # "fetch" /\ worker'[owner].at = k)
    BY <1>0, <1>2 DEF TypeOK, IInv, MayGo
  <2>2. QED
    BY <1>0, <1>7, <2>1, ReadOn DEF IInv
<1>12. WorkersKnow'
  <2>1. \A v \in Workers \ {w} : Knows(v)'
    BY <1>0, <1>7, KnowsOn DEF WorkersKnow, IInv
  <2>2. CASE to = "fetch"
    BY <1>0, <2>1, <2>2, AtFetch DEF WorkersKnow
  <2>3. CASE to # "fetch"
    <3>0. /\ TypeOK /\ Knows(w) /\ (Excused(Job(w)) => Excused(Job(w))')
          /\ \A i \in Images : row[i] # "processing" => row'[i] # "processing"
      <4>1. Job(w)' = Job(w)
        BY <1>0, <2>3 DEF Job
      <4>2. QED
        BY <1>2, <1>4, <1>6, <4>1 DEF WorkersKnow, IInv, Excused, Undoable, Decodable
    <3>1. Knows(w)'
      BY <1>0, <1>2, <2>3, <3>0, KnowsThere
    <3>2. QED
      BY <2>1, <3>1 DEF WorkersKnow
  <2>4. QED
    BY <2>2, <2>3
<1>13. OriginalKeptWhileNeeded'
  BY <1>0, <1>4 DEF OriginalKeptWhileNeeded, IInv, Leaves
<1>14. ReadyHasResult'
  BY <1>0 DEF ReadyHasResult, IInv, Leaves
<1>15. FailedForCause'
  <2>1. \A i \in Images : row'[i] = "failed" => Excused(i)
    BY DEF FailedForCause, Excused, WithdrawnStates, IInv, Leaves
  <2>2. QED
    BY <1>6, <2>1 DEF FailedForCause, Excused, WithdrawnStates
<1>16. QED
  BY <1>5, <1>8, <1>9, <1>10, <1>11, <1>12, <1>13, <1>14, <1>15 DEF IInv

\* At its steps a worker knows what Knows says, by the names of the steps.
LEMMA AtWork ==
    ASSUME IInv, NEW w \in Workers, worker[w].pc # "fetch"
    PROVE  /\ Job(w) \in Images /\ Knows(w) /\ errors \in Nat /\ errors <= MaxErrors
           /\ upload[Job(w)] \in {"accepted"} \cup WithdrawnStates
           /\ row \in [Images -> RowStates] /\ original \subseteq Images /\ result \subseteq Images
BY TypeFacts, ConstantsAssumption DEF IInv, TypeOK, Job, WorkersKnow, UploadsInOrder

LEMMA NothingWritten ==
    ASSUME IInv, NEW w \in Workers, UNCHANGED <<row, disk>> PROVE Leaves(w)
BY DEF Leaves, IInv, TypeOK, disk

\* The row of the job is settled as s, if it was still open.
LEMMA StatusWritten ==
    ASSUME IInv, NEW w \in Workers, worker[w].pc # "fetch", UNCHANGED disk,
           NEW s \in {"ready", "failed"}, SetStatus(Job(w), s) \/ UNCHANGED row,
           s = "ready" => worker[w].pc = "markReady",
           s = "failed" => worker[w].pc = "markFailed"
    PROVE  Leaves(w)
<1>1. /\ Job(w) \in Images /\ Knows(w)
      /\ row \in [Images -> RowStates] /\ original \subseteq Images /\ result \subseteq Images
  BY AtWork
<1>2. /\ row' \in [Images -> RowStates]
      /\ \A i \in Images : \/ row'[i] = row[i]
                           \/ row[i] = "processing" /\ row'[i] = s /\ i = Job(w)
  BY <1>1 DEF SetStatus, RowStates
<1>3. row[Job(w)] = "processing" => /\ s = "ready" => Job(w) \in result \cup removing
                                    /\ s = "failed" => Excused(Job(w))
  BY <1>1 DEF Knows, Settled
<1>4. QED
  BY <1>1, <1>2, <1>3 DEF Leaves, disk

LEMMA TurnStepKeeps ==
    ASSUME IInv, NEW w \in Workers,
           \/ GetRow(w) \/ LoadOriginal(w) \/ SaveProcessed(w) \/ ProcessFails(w)
           \/ MarkReady(w) \/ AskStatus(w) \/ CleanOriginal(w) \/ MarkFailed(w) \/ Commit(w)
    PROVE  IInv'
<1> USE DEF WorkerStates
<1>0. errors \in Nat /\ errors <= MaxErrors
  BY TypeFacts DEF IInv, TypeOK
<1>1. CASE GetRow(w)
  <2>1. PICK to \in {"load", "commit"} :
           Goto(w, "get", to) /\ (to = "commit" => row[Job(w)] # "processing")
    BY <1>1 DEF GetRow
  <2>2. UNCHANGED <<row, disk, log, owner, position, committed, errors>>
    BY <1>1 DEF GetRow, topic
  <2>3. MayGo(w, to)
    BY <2>1, <2>2 DEF MayGo
  <2>4. QED
    BY <1>0, <2>1, <2>2, <2>3, NothingWritten, TurnKeeps
<1>2. CASE LoadOriginal(w)
  <2>1. PICK to \in {"process", "markFailed"} :
           Goto(w, "load", to) /\ (to = "markFailed" => Job(w) \notin original)
    BY <1>2 DEF LoadOriginal
  <2>2. UNCHANGED <<row, disk, log, owner, position, committed, errors>>
    BY <1>2 DEF LoadOriginal, topic
  <2>3. to = "markFailed" => row[Job(w)] # "processing" \/ Excused(Job(w))
    BY <2>1, AtWork DEF Goto, IInv, OriginalKeptWhileNeeded, Excused
  <2>4. MayGo(w, to)
    BY <2>1, <2>2, <2>3 DEF MayGo
  <2>5. QED
    BY <1>0, <2>1, <2>2, <2>4, NothingWritten, TurnKeeps
<1>3. CASE SaveProcessed(w)
  <2>1. /\ Goto(w, "process", "markReady") /\ Job(w) \notin Undoable
        /\ result' = result \cup {Job(w)}
        /\ UNCHANGED <<row, original, log, owner, position, committed, errors>>
    BY <1>3 DEF SaveProcessed, topic
  <2>2. Leaves(w)
    BY <2>1, AtWork DEF Leaves, Goto
  <2>3. MayGo(w, "markReady")
    BY <2>1 DEF MayGo
  <2>4. QED
    BY <1>0, <2>1, <2>2, <2>3, TurnKeeps
<1>4. CASE ProcessFails(w)
  <2>1. /\ Goto(w, "process", "markFailed") /\ Job(w) \in Undoable
        /\ UNCHANGED <<row, disk, log, owner, position, committed, errors>>
    BY <1>4 DEF ProcessFails, topic
  <2>2. MayGo(w, "markFailed")
    BY <2>1 DEF MayGo, Excused
  <2>3. QED
    BY <1>0, <2>1, <2>2, NothingWritten, TurnKeeps
<1>5. CASE MarkReady(w)
  <2>1. PICK to \in {"clean", "askStatus"} :
           Goto(w, "markReady", to) /\ (to = "askStatus" => row[Job(w)] # "processing")
    BY <1>5 DEF MarkReady
  <2>2. /\ SetStatus(Job(w), "ready")
        /\ UNCHANGED <<disk, log, owner, position, committed, errors>>
    BY <1>5 DEF MarkReady, topic
  <2>3. worker[w].pc = "markReady" /\ Job(w) \in result \cup removing
    BY <2>1, AtWork DEF Goto, Knows
  <2>4. row'[Job(w)] # "processing"
    BY <2>2, <2>3, AtWork DEF SetStatus
  <2>5. MayGo(w, to)
    BY <2>2, <2>3, <2>4 DEF MayGo, disk
  <2>6. QED
    BY <1>0, <2>1, <2>2, <2>3, <2>5, StatusWritten, TurnKeeps
<1>6. CASE AskStatus(w)
  <2>1. PICK to \in {"commit", "clean"} : Goto(w, "askStatus", to)
    BY <1>6 DEF AskStatus
  <2>2. UNCHANGED <<row, disk, log, owner, position, committed, errors>>
    BY <1>6 DEF AskStatus, topic
  <2>3. row[Job(w)] # "processing" /\ Job(w) \in result \cup removing
    BY <2>1, AtWork DEF Goto, Knows, Settled
  <2>4. MayGo(w, to)
    BY <2>1, <2>2, <2>3 DEF MayGo, disk
  <2>5. QED
    BY <1>0, <2>1, <2>2, <2>4, NothingWritten, TurnKeeps
<1>7. CASE CleanOriginal(w)
  <2>1. /\ Goto(w, "clean", "commit") /\ original' = original \ {Job(w)}
        /\ UNCHANGED <<row, result, log, owner, position, committed, errors>>
    BY <1>7 DEF CleanOriginal, topic
  <2>2. row[Job(w)] # "processing"
    BY <2>1, AtWork DEF Goto, Knows, Settled
  <2>3. Leaves(w)
    BY <2>1, <2>2, AtWork DEF Leaves, Goto
  <2>4. MayGo(w, "commit")
    BY <2>1, <2>2 DEF MayGo
  <2>5. QED
    BY <1>0, <2>1, <2>3, <2>4, TurnKeeps
<1>8. CASE MarkFailed(w)
  <2>1. /\ Goto(w, "markFailed", "commit") /\ SetStatus(Job(w), "failed")
        /\ UNCHANGED <<disk, log, owner, position, committed, errors>>
    BY <1>8 DEF MarkFailed, topic
  <2>2. worker[w].pc = "markFailed" /\ row'[Job(w)] # "processing"
    BY <2>1, AtWork DEF Goto, SetStatus
  <2>3. MayGo(w, "commit")
    BY <2>2 DEF MayGo
  <2>4. QED
    BY <1>0, <2>1, <2>2, <2>3, StatusWritten, TurnKeeps
<1>9. CASE Commit(w)
  <2>1. /\ Goto(w, "commit", "fetch") /\ committed' \in {committed, worker[w].at}
        /\ UNCHANGED <<row, disk, log, owner, position, errors>>
    BY <1>9 DEF Commit
  <2>2. MayGo(w, "fetch")
    BY <2>1, AtWork DEF Goto, Knows, Settled, MayGo
  <2>3. QED
    BY <1>0, <2>1, <2>2, NothingWritten, TurnKeeps
<1>10. QED
  BY <1>1, <1>2, <1>3, <1>4, <1>5, <1>6, <1>7, <1>8, <1>9

LEMMA WorkerErrorKeeps == ASSUME IInv, NEW w \in Workers, WorkerError(w) PROVE IInv'
<1> USE DEF WorkerStates
<1>0. errors \in Nat /\ MaxErrors \in Nat
  BY TypeFacts, ConstantsAssumption DEF IInv
<1>1. Error /\ errors' = errors + 1 /\ errors' > 0 /\ errors' <= MaxErrors
      /\ UNCHANGED <<log, owner, position, committed>>
  BY <1>0 DEF WorkerError, Error, GetFails, LoadFails, SaveFails, MarkReadyFails, AskStatusFails,
              CleanFails, MarkFailedFails, CommitFails, topic
<1>2. \A to \in {"fetch", "markFailed", "commit"} : MayGo(w, to)
  BY <1>0, <1>1 DEF MayGo
<1>3. ASSUME NEW from \in WorkerStates \ {"fetch"}, NEW to \in {"fetch", "markFailed", "commit"},
             Goto(w, from, to), UNCHANGED <<row, disk>>
      PROVE  IInv'
  BY <1>1, <1>2, <1>3, NothingWritten, TurnKeeps
<1>4. CASE MarkReadyFails(w)
  <2>1. /\ Goto(w, "markReady", "fetch") /\ UNCHANGED disk
        /\ SetStatus(Job(w), "ready") \/ UNCHANGED row
    BY <1>4 DEF MarkReadyFails
  <2>2. worker[w].pc = "markReady"
    BY <2>1 DEF Goto
  <2>3. QED
    BY <1>1, <1>2, <2>1, <2>2, StatusWritten, TurnKeeps
<1>5. QED
  BY <1>3, <1>4 DEF WorkerError, GetFails, LoadFails, SaveFails, AskStatusFails, CleanFails,
                    MarkFailedFails, CommitFails

-----------------------------------------------------------------------------
(* The reader, crashes and rebalances: rows, files and requests rest.      *)

LEMMA ReaderKeeps ==
    ASSUME IInv, UNCHANGED <<row, disk, api, log, errors>>, TypeOK',
           committed' = committed, ReadIsSettled',
           \A w \in Workers : worker'[w] = worker[w] \/ Knows(w)'
    PROVE  IInv'
<1>0. UNCHANGED <<row, original, result, upload, delete, removing, log, errors>>
  BY DEF disk, api
<1>1. Onward
  BY <1>0, TypeFacts DEF Onward, Excused, Undoable, Decodable, IInv, TypeOK
<1>2. WorkersKnow'
  BY <1>1, KnowsOn DEF WorkersKnow, IInv
<1>3. CommittedIsSettled'
  BY <1>1, CommittedOn DEF IInv
<1>4. UploadsInOrder' /\ DeletesInOrder'
  BY <1>0 DEF UploadsInOrder, DeletesInOrder, IInv
<1>5. OriginalKeptWhileNeeded' /\ ReadyHasResult' /\ FailedForCause'
  BY <1>0 DEF OriginalKeptWhileNeeded, ReadyHasResult, FailedForCause, Undoable, Decodable, IInv
<1>6. QED
  BY <1>2, <1>3, <1>4, <1>5 DEF IInv

LEMMA FetchKeeps == ASSUME IInv, NEW w \in Workers, Fetch(w) PROVE IInv'
<1> DEFINE next == position + 1
<1>1. /\ owner = w /\ worker[w].pc = "fetch" /\ position' = next
      /\ worker' = [worker EXCEPT ![w] = [pc |-> "get", at |-> next]]
      /\ UNCHANGED <<row, disk, api, log, owner, committed, crashes, errors>>
      /\ next \in 1..Len(log) /\ next \in Nat /\ position \in Nat
  BY TypeFacts DEF Fetch, budget, IInv
<1>2. /\ worker'[w].pc = "get" /\ worker'[w].at = next
      /\ \A v \in Workers \ {w} : worker'[v] = worker[v]
      /\ worker' \in [Workers -> [pc : WorkerStates, at : Nat]]
  BY <1>1 DEF IInv, TypeOK, WorkerStates
<1>3. errors = 0 => \A k \in 1..position : Settled(log[k])
  BY <1>1 DEF IInv, ReadIsSettled
<1>4. TypeOK'
  BY <1>1, <1>2 DEF IInv, TypeOK, disk, api
<1>5. Knows(w)'
  BY <1>1, <1>2, <1>3 DEF Knows, Settled
<1>6. ReadIsSettled'
  BY <1>1, <1>2, <1>3 DEF ReadIsSettled, Settled
<1>7. QED
  BY <1>1, <1>2, <1>4, <1>5, <1>6, ReaderKeeps

LEMMA CrashKeeps ==
    ASSUME IInv, NEW w \in Workers, WorkerCrash(w) \/ Rebalance(w) PROVE IInv'
<1>0. /\ crashes' \in 0..MaxCrashes /\ UNCHANGED <<row, disk, api, log, committed, errors>>
      /\ committed \in Nat
  BY ConstantsAssumption, TypeFacts DEF WorkerCrash, Rebalance, Crash, IInv, TypeOK
<1>1. CASE WorkerCrash(w)
  <2>1. /\ worker'[w].pc = "fetch"
        /\ \A v \in Workers \ {w} : worker'[v] = worker[v]
        /\ worker' \in [Workers -> [pc : WorkerStates, at : Nat]]
        /\ owner' = owner /\ position' = IF owner = w THEN committed ELSE position
    BY <1>1 DEF WorkerCrash, IInv, TypeOK, WorkerStates
  <2>2. TypeOK'
    BY <1>0, <2>1 DEF IInv, TypeOK, disk, api
  <2>3. ReadIsSettled'
    BY <1>0, <2>1 DEF IInv, TypeOK, ReadIsSettled, CommittedIsSettled, Settled
  <2>4. Knows(w)'
    BY <2>1, AtFetch
  <2>5. QED
    BY <1>0, <2>1, <2>2, <2>3, <2>4, ReaderKeeps
<1>2. CASE Rebalance(w)
  <2>1. owner' = w /\ position' = committed /\ UNCHANGED worker
    BY <1>2 DEF Rebalance
  <2>2. TypeOK'
    BY <1>0, <2>1 DEF IInv, TypeOK, disk, api
  <2>3. ReadIsSettled'
    BY <1>0, <2>1 DEF IInv, ReadIsSettled, CommittedIsSettled, Settled
  <2>4. QED
    BY <1>0, <2>1, <2>2, <2>3, ReaderKeeps
<1>3. QED
  BY <1>1, <1>2

LEMMA StutterKeeps == ASSUME IInv, UNCHANGED vars PROVE IInv'
<1>1. UNCHANGED <<row, disk, api, log, errors, worker, committed, position, owner, crashes>>
  BY DEF vars, disk, api
<1>2. TypeOK' /\ ReadIsSettled'
  BY <1>1 DEF IInv, TypeOK, ReadIsSettled, Settled, disk, api
<1>3. QED
  BY <1>1, <1>2, ReaderKeeps

LEMMA NextKeeps == ASSUME IInv, [Next]_vars PROVE IInv'
<1>1. ASSUME NEW w \in Workers, WorkerStep(w) PROVE IInv'
  BY <1>1, FetchKeeps, TurnStepKeeps DEF WorkerStep
<1>2. QED
  BY <1>1, UploadStepKeeps, DeleteStepKeeps, WorkerErrorKeeps, CrashKeeps, StutterKeeps DEF Next

\* The invariant holds throughout.
THEOREM IInvAlways == Spec => []IInv
<1>1. Init => IInv
  BY InitHolds
<1>2. IInv /\ [Next]_vars => IInv'
  BY NextKeeps
<1>3. QED
  BY <1>1, <1>2, PTL DEF Spec

\* Every variable keeps its type, and a worker with a job has an offset of the log.
THEOREM TypeCorrect == Spec => []TypeOK
<1>1. IInv => TypeOK
  BY DEF IInv
<1>2. QED
  BY <1>1, IInvAlways, PTL

\* At-least-once: as long as no call failed, crashes and rebalances at any step never
\* let the committed offset pass a job that is still to be done.
THEOREM CommitsAreSettled == Spec => []CommittedIsSettled
<1>1. IInv => CommittedIsSettled
  BY DEF IInv
<1>2. QED
  BY <1>1, IInvAlways, PTL

\* A job that may still run, for the first time or again, finds its original.
THEOREM OriginalIsKept == Spec => []OriginalKeptWhileNeeded
<1>1. IInv => OriginalKeptWhileNeeded
  BY DEF IInv
<1>2. QED
  BY <1>1, IInvAlways, PTL

\* A ready image has its result, unless a DELETE has come for it.
THEOREM ReadyIsThere == Spec => []ReadyHasResult
<1>1. IInv => ReadyHasResult
  BY DEF IInv
<1>2. QED
  BY <1>1, IInvAlways, PTL

\* Deliveries that repeat or overlap never fail a good image.
THEOREM FailureHasCause == Spec => []FailedForCause
<1>1. IInv => FailedForCause
  BY DEF IInv
<1>2. QED
  BY <1>1, IInvAlways, PTL

-----------------------------------------------------------------------------
(* A DELETE that found a ready image at rest.  Nobody writes a file of it  *)
(* any more: its row is settled for good, so no worker that comes to the   *)
(* job again goes beyond GetStatus.                                        *)

\* What DELETE d has removed so far stays removed.
KeepsClean(d) ==
    LET i == delete[d].image
    IN  delete[d].quiet /\ delete[d].pc \in RemovalSteps \cup {"deleted"} =>
          /\ i \in removing /\ Settled(i) /\ ~MayWrite(i)
          /\ delete[d].pc = "original" => delete[d].sawResult
          /\ delete[d].pc # "original" => i \notin original
          /\ delete[d].pc \in {"row", "deleted"} => i \notin result

QuietIsClean == \A d \in Deletes : KeepsClean(d)

\* To images that are being removed nobody adds a file, but a worker that was at them
\* or that finds them unsettled.
NothingAdded ==
    /\ removing \subseteq removing'
    /\ \A i \in removing :
          /\ i \in original' => i \in original
          /\ Settled(i) => /\ Settled(i)'
                           /\ MayWrite(i)' => MayWrite(i)
                           /\ i \in result' => i \in result \/ MayWrite(i)

LEMMA CleanOn ==
    ASSUME NothingAdded, NEW d \in Deletes, delete'[d] = delete[d], KeepsClean(d)
    PROVE  KeepsClean(d)'
BY DEF NothingAdded, KeepsClean

\* A worker that keeps its job in hand, or drops it, may write what it might before.
LEMMA WritersOn ==
    ASSUME TypeOK, NEW i,
           Len(log) <= Len(log'), \A k \in 1..Len(log) : log'[k] = log[k],
           \A w \in Workers : worker'[w] = worker[w] \/ worker'[w].pc \notin {"load", "process"}
    PROVE  MayWrite(i)' => MayWrite(i)
<1> SUFFICES ASSUME MayWrite(i)' PROVE MayWrite(i)
  OBVIOUS
<1>1. PICK w \in Workers : worker'[w].pc \in {"load", "process"} /\ log'[worker'[w].at] = i
  BY DEF MayWrite
<1>2. worker'[w] = worker[w] /\ worker[w].at \in 1..Len(log)
  BY <1>1, TypeFacts
<1>3. QED
  BY <1>1, <1>2 DEF MayWrite

LEMMA UploadAddsNothing == ASSUME IInv, NEW i \in Images, UploadStep(i) PROVE NothingAdded
<1>1. /\ UNCHANGED <<removing, result, worker>>
      /\ upload[i] # "accepted"
      /\ row \in [Images -> RowStates] /\ removing \subseteq Images
      /\ \A j \in Images \ {i} : row'[j] = row[j]
      /\ original' \subseteq original \cup {i}
  BY DEF UploadStep, SaveOriginal, CreateRow, CreateFails, SendJob, SendFails, UndoRow,
         UndoFile, UploadStops, At, disk, IInv, TypeOK
<1>2. i \notin removing
  BY <1>1 DEF IInv, UploadsInOrder
<1>3. Len(log) <= Len(log') /\ \A k \in 1..Len(log) : log'[k] = log[k]
  <2>1. CASE log' = log
    BY <2>1, TypeFacts DEF IInv
  <2>2. CASE \E n \in 0..2 : Sent(i, n)
    BY <2>2, SentFacts DEF IInv
  <2>3. QED
    BY <2>1, <2>2 DEF UploadStep, SaveOriginal, CreateRow, CreateFails, SendJob, SendFails,
                      UndoRow, UndoFile, UploadStops
<1>4. \A j \in removing : MayWrite(j)' => MayWrite(j)
  BY <1>1, <1>3, WritersOn DEF IInv
<1>5. QED
  BY <1>1, <1>2, <1>4 DEF NothingAdded, Settled

LEMMA DeleteAddsNothing == ASSUME IInv, NEW d \in Deletes, DeleteStep(d) PROVE NothingAdded
<1>1. /\ UNCHANGED <<log, worker>> /\ removing \subseteq removing' /\ removing \subseteq Images
      /\ original' \subseteq original /\ result' \subseteq result
      /\ \A i \in Images : row'[i] \in {row[i], "none"}
  BY DEF DeleteStep, DeleteGet, DeleteOriginal, DeleteProcessed, DeleteRow, DeleteStops,
         DeleteAt, topic, disk, IInv, TypeOK
<1>2. QED
  BY <1>1 DEF NothingAdded, Settled, MayWrite

\* A worker turns to a job's files only from its row, and writes the result in "process".
LEMMA TurnAddsNothing ==
    ASSUME IInv, NEW w \in Workers, worker[w].pc # "fetch", UNCHANGED <<removing, log>>,
           NEW to \in WorkerStates, Goto(w, worker[w].pc, to),
           original' \subseteq original,
           result' = result \/ (worker[w].pc = "process" /\ result' = result \cup {Job(w)}),
           \A i \in Images : row[i] # "processing" => row'[i] = row[i],
           to \in {"load", "process"} =>
              worker[w].pc = "load" \/ row[Job(w)] = "processing"
    PROVE  NothingAdded
<1>1. /\ worker'[w].pc = to /\ (to # "fetch" => worker'[w].at = worker[w].at)
      /\ \A v \in Workers \ {w} : worker'[v] = worker[v]
  BY GotoFacts DEF IInv
<1>2. ASSUME NEW i \in removing, Settled(i), MayWrite(i)' PROVE MayWrite(i)
  <2>1. PICK v \in Workers : worker'[v].pc \in {"load", "process"} /\ log[worker'[v].at] = i
    BY <1>2 DEF MayWrite
  <2>2. CASE v # w
    BY <1>1, <2>1, <2>2 DEF MayWrite
  <2>3. CASE v = w
    BY <1>1, <1>2, <2>1, <2>3 DEF MayWrite, Settled, Job
  <2>4. QED
    BY <2>2, <2>3
<1>3. \A i \in result' : i \in result \/ MayWrite(i)
  BY DEF MayWrite, Job
<1>4. removing \subseteq Images
  BY DEF IInv, TypeOK
<1>5. QED
  BY <1>2, <1>3, <1>4 DEF NothingAdded, Settled

LEMMA WorkerAddsNothing ==
    ASSUME IInv, NEW w \in Workers, WorkerStep(w) \/ WorkerError(w) PROVE NothingAdded
<1>1. CASE Fetch(w)
  <2>1. /\ UNCHANGED <<row, original, result, removing, log>>
        /\ \A v \in Workers : worker'[v] = worker[v] \/ worker'[v].pc = "get"
    BY <1>1 DEF Fetch, disk, api, IInv, TypeOK
  <2>2. \A i \in removing : MayWrite(i)' => MayWrite(i)
    BY <2>1, TypeFacts, WritersOn DEF IInv
  <2>3. QED
    BY <2>1, <2>2 DEF NothingAdded, Settled
<1>2. CASE ~Fetch(w)
  <2>1. PICK to \in WorkerStates :
           /\ worker[w].pc # "fetch" /\ Goto(w, worker[w].pc, to)
           /\ to = "process" => worker[w].pc = "load"
           /\ to = "load" => row[Job(w)] = "processing"
    BY <1>2 DEF WorkerStep, WorkerError, GetRow, LoadOriginal, SaveProcessed, ProcessFails,
                MarkReady, AskStatus, CleanOriginal, MarkFailed, Commit, GetFails, LoadFails,
                SaveFails, MarkReadyFails, AskStatusFails, CleanFails, MarkFailedFails,
                CommitFails, Goto, WorkerStates
  <2>2. /\ UNCHANGED log /\ original' \subseteq original
        /\ result' = result \/ (worker[w].pc = "process" /\ result' = result \cup {Job(w)})
    BY <1>2 DEF WorkerStep, WorkerError, GetRow, LoadOriginal, SaveProcessed, ProcessFails,
                MarkReady, AskStatus, CleanOriginal, MarkFailed, Commit, GetFails, LoadFails,
                SaveFails, MarkReadyFails, AskStatusFails, CleanFails, MarkFailedFails,
                CommitFails, Goto, disk, topic
  <2>3. \A i \in Images : row[i] # "processing" => row'[i] = row[i]
    <3>1. row' = row \/ SetStatus(Job(w), "ready") \/ SetStatus(Job(w), "failed")
      BY <1>2 DEF WorkerStep, WorkerError, GetRow, LoadOriginal, SaveProcessed, ProcessFails,
                  MarkReady, AskStatus, CleanOriginal, MarkFailed, Commit, GetFails, LoadFails,
                  SaveFails, MarkReadyFails, AskStatusFails, CleanFails, MarkFailedFails,
                  CommitFails
    <3>2. row \in [Images -> RowStates]
      BY DEF IInv, TypeOK
    <3>3. QED
      BY <3>1, <3>2 DEF SetStatus
  <2>4. UNCHANGED removing
    BY <2>1 DEF Goto, api
  <2>5. QED
    BY <2>1, <2>2, <2>3, <2>4, TurnAddsNothing
<1>3. QED
  BY <1>1, <1>2

LEMMA CrashAddsNothing ==
    ASSUME IInv, NEW w \in Workers, WorkerCrash(w) \/ Rebalance(w) PROVE NothingAdded
<1>1. /\ UNCHANGED <<row, original, result, removing, log>>
      /\ \A v \in Workers : worker'[v] = worker[v] \/ worker'[v].pc = "fetch"
  BY DEF WorkerCrash, Rebalance, disk, api, IInv, TypeOK
<1>2. \A i \in removing : MayWrite(i)' => MayWrite(i)
  BY <1>1, TypeFacts, WritersOn DEF IInv
<1>3. QED
  BY <1>1, <1>2 DEF NothingAdded, Settled

\* The steps of the DELETE itself: each removes its part, or ends the request.
LEMMA OwnStepKeepsClean ==
    ASSUME IInv, NEW d \in Deletes, DeleteStep(d), KeepsClean(d), NothingAdded
    PROVE  KeepsClean(d)'
<1> DEFINE i == delete[d].image
<1>1. CASE DeleteGet(d)
  <2>1. PICK j \in Images :
           \/ delete'[d].pc = "ended"
           \/ /\ removing' = removing \cup {j} /\ delete'[d].image = j
              /\ delete'[d].pc = "original"
              /\ delete'[d].quiet => row[j] = "ready" /\ ~MayWrite(j) /\ delete'[d].sawResult
    BY <1>1, DeleteGetFacts DEF IInv
  <2>2. UNCHANGED <<row, worker, log>>
    BY <1>1, DeleteGetFacts DEF IInv
  <2>3. QED
    BY <2>1, <2>2 DEF KeepsClean, MayWrite, Settled, RemovalSteps
<1>2. ASSUME NEW from \in RemovalSteps, NEW to \in {"result", "row", "deleted", "ended"},
             DeleteAt(d, from, to),
             from = "original" => original' = original \ {i} /\ to # "deleted"
                                  /\ (delete[d].sawResult => to \in {"result", "ended"}),
             from = "result" => result' = result \ {i}
      PROVE  KeepsClean(d)'
  <2>1. /\ delete[d].pc = from /\ delete'[d].pc = to
        /\ to # "ended" => delete'[d].image = i /\ delete'[d].quiet = delete[d].quiet
        /\ to = "ended" => ~delete'[d].quiet
    BY <1>2, DeleteAtFacts DEF IInv, DeleteStates
  <2>2. QED
    BY <1>2, <2>1 DEF NothingAdded, KeepsClean, RemovalSteps
<1>3. CASE DeleteOriginal(d)
  BY <1>2, <1>3 DEF DeleteOriginal, RemovalSteps
<1>4. CASE DeleteProcessed(d)
  BY <1>2, <1>4 DEF DeleteProcessed, RemovalSteps
<1>5. CASE DeleteRow(d)
  BY <1>2, <1>5 DEF DeleteRow, RemovalSteps
<1>6. CASE DeleteStops(d)
  <2>1. PICK from \in RemovalSteps : DeleteAt(d, from, "ended")
    BY <1>6 DEF DeleteStops, RemovalSteps
  <2>2. ~delete'[d].quiet
    BY <2>1, DeleteAtFacts DEF IInv, DeleteStates
  <2>3. QED
    BY <2>2 DEF KeepsClean
<1>7. QED
  BY <1>1, <1>3, <1>4, <1>5, <1>6 DEF DeleteStep

LEMMA QuietInit == Init => QuietIsClean
BY DEF Init, QuietIsClean, KeepsClean, NoDelete, RemovalSteps

LEMMA QuietNext == IInv /\ QuietIsClean /\ [Next]_vars => QuietIsClean'
<1> SUFFICES ASSUME IInv, QuietIsClean, [Next]_vars PROVE QuietIsClean'
  OBVIOUS
<1>1. ASSUME NothingAdded, delete' = delete PROVE QuietIsClean'
  BY <1>1, CleanOn DEF QuietIsClean
<1>2. ASSUME NEW i \in Images, UploadStep(i) PROVE QuietIsClean'
  <2>1. delete' = delete
    BY <1>2 DEF UploadStep, SaveOriginal, CreateRow, CreateFails, SendJob, SendFails, UndoRow,
                UndoFile, UploadStops, At
  <2>2. QED
    BY <1>1, <1>2, <2>1, UploadAddsNothing
<1>3. ASSUME NEW d \in Deletes, DeleteStep(d) PROVE QuietIsClean'
  <2>1. NothingAdded /\ KeepsClean(d)'
    BY <1>3, DeleteAddsNothing, OwnStepKeepsClean DEF QuietIsClean
  <2>2. \A e \in Deletes \ {d} : delete'[e] = delete[e]
    BY <1>3 DEF DeleteStep, DeleteGet, DeleteOriginal, DeleteProcessed, DeleteRow, DeleteStops,
                DeleteAt, IInv, TypeOK
  <2>3. QED
    BY <2>1, <2>2, CleanOn DEF QuietIsClean
<1>4. ASSUME NEW w \in Workers, WorkerStep(w) \/ WorkerError(w) PROVE QuietIsClean'
  <2>1. delete' = delete
    BY <1>4 DEF WorkerStep, WorkerError, Fetch, GetRow, LoadOriginal, SaveProcessed, ProcessFails,
                MarkReady, AskStatus, CleanOriginal, MarkFailed, Commit, GetFails, LoadFails,
                SaveFails, MarkReadyFails, AskStatusFails, CleanFails, MarkFailedFails,
                CommitFails, Goto, api
  <2>2. QED
    BY <1>1, <1>4, <2>1, WorkerAddsNothing
<1>5. ASSUME NEW w \in Workers, WorkerCrash(w) \/ Rebalance(w) PROVE QuietIsClean'
  BY <1>1, <1>5, CrashAddsNothing DEF WorkerCrash, Rebalance, api
<1>6. CASE UNCHANGED vars
  BY <1>6 DEF vars, QuietIsClean, KeepsClean, Settled, MayWrite
<1>7. QED
  BY <1>2, <1>3, <1>4, <1>5, <1>6 DEF Next

\* A DELETE that found a ready image at rest leaves no file of it when it answers 204,
\* and none comes back, whatever is delivered again, crashes, fails or deletes beside it.
THEOREM QuietDeletesAreClean == Spec => []QuietDeleteLeavesNoFile
<1>1. QuietIsClean => QuietDeleteLeavesNoFile
  BY DEF QuietIsClean, KeepsClean, QuietDeleteLeavesNoFile
<1>2. QED
  BY <1>1, QuietInit, QuietNext, IInvAlways, PTL DEF Spec

-----------------------------------------------------------------------------
(* No accepted image is forgotten: the safety half of AcceptedIsSettled.   *)

\* An upload answers 202 only with a copy of its job in the log, and the log keeps it.
AcceptedIsSent ==
    \A i \in Images : upload[i] = "accepted" => \E k \in 1..Len(log) : log[k] = i

\* Unless a call failed, an accepted image that is not settled has a job that the owner
\* of the partition has in hand or has yet to fetch.
UnsettledIsAhead ==
    errors = 0 => \A i \in Images :
        upload[i] = "accepted" /\ row[i] = "processing" =>
            \E k \in 1..Len(log) :
                /\ log[k] = i
                /\ k > position \/ (worker[owner].pc # "fetch" /\ worker[owner].at = k)

LEMMA SentOn ==
    ASSUME IInv, AcceptedIsSent, Len(log') \in Nat, Len(log) <= Len(log'),
           \A k \in 1..Len(log) : log'[k] = log[k],
           \A i \in Images : upload'[i] = "accepted" =>
               upload[i] = "accepted" \/ \E k \in 1..Len(log') : log'[k] = i
    PROVE  AcceptedIsSent'
<1> SUFFICES ASSUME NEW i \in Images, upload'[i] = "accepted"
             PROVE  \E k \in 1..Len(log') : log'[k] = i
  BY DEF AcceptedIsSent
<1>1. CASE upload[i] = "accepted"
  <2>1. PICK k \in 1..Len(log) : log[k] = i
    BY <1>1 DEF AcceptedIsSent
  <2>2. k \in 1..Len(log') /\ log'[k] = i
    BY <2>1, TypeFacts DEF IInv
  <2>3. QED
    BY <2>2
<1>2. QED
  BY <1>1

LEMMA SentNext == IInv /\ AcceptedIsSent /\ [Next]_vars => AcceptedIsSent'
<1> SUFFICES ASSUME IInv, AcceptedIsSent, [Next]_vars PROVE AcceptedIsSent'
  OBVIOUS
<1>1. ASSUME UNCHANGED <<upload, log>> PROVE AcceptedIsSent'
  BY <1>1 DEF AcceptedIsSent
<1>2. ASSUME NEW i \in Images, UploadStep(i) PROVE AcceptedIsSent'
  <2>1. CASE SendJob(i)
    <3>1. PICK n \in 1..2 : Sent(i, n)
      BY <2>1 DEF SendJob
    <3>2. /\ Len(log) \in Nat /\ Len(log') = Len(log) + n
          /\ \A k \in 1..Len(log) : log'[k] = log[k]
          /\ \A k \in Len(log) + 1..Len(log) + n : log'[k] = i
      BY <3>1, SentFacts DEF IInv
    <3>3. Len(log) + 1 \in 1..Len(log') /\ log'[Len(log) + 1] = i
      BY <3>1, <3>2
    <3>4. \A j \in Images \ {i} : upload'[j] = upload[j]
      BY <2>1 DEF SendJob, At, IInv, TypeOK
    <3>5. QED
      BY <3>2, <3>3, <3>4, SentOn
  <2>2. CASE ~SendJob(i)
    <3>1. \A j \in Images : upload'[j] = "accepted" => upload[j] = "accepted"
      BY <1>2, <2>2 DEF UploadStep, SaveOriginal, CreateRow, CreateFails, SendFails, UndoRow,
                        UndoFile, UploadStops, At, IInv, TypeOK
    <3>2. CASE log' = log
      BY <3>1, <3>2 DEF AcceptedIsSent
    <3>3. CASE \E n \in 0..1 : Sent(i, n)
      <4>1. PICK n \in 0..1 : Sent(i, n)
        BY <3>3
      <4>2. /\ Len(log) \in Nat /\ Len(log') = Len(log) + n
            /\ \A k \in 1..Len(log) : log'[k] = log[k]
        BY <4>1, SentFacts DEF IInv
      <4>3. QED
        BY <3>1, <4>2, SentOn
    <3>4. QED
      BY <1>2, <2>2, <3>2, <3>3 DEF UploadStep, SaveOriginal, CreateRow, CreateFails, SendFails,
                                    UndoRow, UndoFile, UploadStops
  <2>3. QED
    BY <2>1, <2>2
<1>3. ASSUME NEW d \in Deletes, DeleteStep(d) PROVE AcceptedIsSent'
  BY <1>1, <1>3 DEF DeleteStep, DeleteGet, DeleteOriginal, DeleteProcessed, DeleteRow,
                    DeleteStops, DeleteAt, topic
<1>4. ASSUME NEW w \in Workers, WorkerStep(w) \/ WorkerError(w) PROVE AcceptedIsSent'
  BY <1>1, <1>4
     DEF WorkerStep, WorkerError, Fetch, GetRow, LoadOriginal, SaveProcessed, ProcessFails,
         MarkReady, AskStatus, CleanOriginal, MarkFailed, Commit, GetFails, LoadFails, SaveFails,
         MarkReadyFails, AskStatusFails, CleanFails, MarkFailedFails, CommitFails, Goto, api, topic
<1>5. ASSUME NEW w \in Workers, WorkerCrash(w) \/ Rebalance(w) PROVE AcceptedIsSent'
  BY <1>1, <1>5 DEF WorkerCrash, Rebalance, api
<1>6. CASE UNCHANGED vars
  BY <1>1, <1>6 DEF vars
<1>7. QED
  BY <1>2, <1>3, <1>4, <1>5, <1>6 DEF Next

\* Whatever crashes, moves or is delivered twice, and as long as no call of a worker
\* failed: the job of an accepted image that is not settled is never behind the reader
\* with nobody at it.
THEOREM UnsettledIsNotPassed == Spec => []UnsettledIsAhead
<1>1. Init => AcceptedIsSent
  BY DEF Init, AcceptedIsSent
<1>2. IInv /\ AcceptedIsSent => UnsettledIsAhead
  <2> SUFFICES ASSUME IInv, AcceptedIsSent, errors = 0, NEW i \in Images,
                      upload[i] = "accepted", row[i] = "processing"
               PROVE  \E k \in 1..Len(log) :
                         /\ log[k] = i
                         /\ k > position \/ (worker[owner].pc # "fetch" /\ worker[owner].at = k)
    BY DEF UnsettledIsAhead
  <2>1. PICK k \in 1..Len(log) : log[k] = i
    BY DEF AcceptedIsSent
  <2>2. k <= position => worker[owner].pc # "fetch" /\ worker[owner].at = k
    BY <2>1, TypeFacts DEF IInv, ReadIsSettled, Settled
  <2>3. QED
    BY <2>1, <2>2, TypeFacts DEF IInv
<1>3. QED
  BY <1>1, <1>2, SentNext, IInvAlways, PTL DEF Spec

-----------------------------------------------------------------------------
(* What GET shows is the life of an image: ImageLife under the mapping of  *)
(* Life.  Each step changes the answer for one image at most.              *)

Withdrawn == {i \in Images : upload[i] \in WithdrawnStates}

LEMMA NothingShows ==
    ASSUME \A i \in Images : Answer(i)' = Answer(i), removing' = removing, Withdrawn' = Withdrawn
    PROVE  UNCHANGED Life!vars
BY DEF Life!vars, Withdrawn, WithdrawnStates

LEMMA OneTurns ==
    ASSUME NEW i \in Images, \A j \in Images \ {i} : Answer(j)' = Answer(j),
           NEW from, Answer(i) \in from, NEW to, Answer(i)' = to
    PROVE  Life!Turn(i, from, to)
<1> DEFINE A(j) == Answer(j)
<1>1. [j \in Images |-> A(j)]' = [[j \in Images |-> A(j)] EXCEPT ![i] = to]
  OBVIOUS
<1>2. QED
  BY <1>1 DEF Life!Turn

\* What an image shows depends on its row, its result and how far its upload is.
LEMMA OthersShowTheSame ==
    ASSUME NEW i \in Images, row'[i] = row[i], i \in result' <=> i \in result,
           upload'[i] = upload[i] \/ row[i] # "none"
             \/ (upload[i] \in {"new", "saved"} <=> upload'[i] \in {"new", "saved"})
    PROVE  Answer(i)' = Answer(i)
BY DEF Answer

LEMMA InitRefines == Init => Life!Init
BY DEF Init, Life!Init, Answer

LEMMA UploadRefines ==
    ASSUME IInv, NEW i \in Images, UploadStep(i) PROVE Life!Next
<1> USE DEF WithdrawnStates
<1>0. row \in [Images -> RowStates] /\ (upload[i] \in {"new", "saved"} => row[i] = "none")
  BY DEF IInv, TypeOK, UploadsInOrder
<1>1. PICK from \in UploadStates, to \in UploadStates :
         /\ upload[i] = from /\ upload' = [upload EXCEPT ![i] = to] /\ UNCHANGED <<removing, result>>
         /\ \A j \in Images \ {i} : row'[j] = row[j]
         /\ \/ from = "new" /\ to = "saved" /\ row' = row
            \/ from = "saved" /\ to = "created" /\ row'[i] = "processing"
            \/ from = "saved" /\ to \in WithdrawnStates /\ row'[i] \in {row[i], "processing"}
            \/ from = "created" /\ to \in {"accepted"} \cup WithdrawnStates /\ row' = row
            \/ from \in WithdrawnStates /\ to \in WithdrawnStates /\ row'[i] \in {row[i], "none"}
  BY <1>0 DEF UploadStep, SaveOriginal, CreateRow, CreateFails, SendJob, SendFails, UndoRow,
              UndoFile, UploadStops, At, disk, UploadStates
<1>2. upload'[i] = to /\ \A j \in Images \ {i} : upload'[j] = upload[j]
  BY <1>1 DEF IInv, TypeOK
<1>3. \A j \in Images \ {i} : Answer(j)' = Answer(j)
  BY <1>1, <1>2, OthersShowTheSame
<1>4. /\ to \in WithdrawnStates => Withdrawn' = Withdrawn \cup {i}
      /\ to \in WithdrawnStates /\ from \in WithdrawnStates => Withdrawn' = Withdrawn
      /\ to \notin WithdrawnStates /\ from \notin WithdrawnStates => Withdrawn' = Withdrawn
  BY <1>1, <1>2 DEF Withdrawn
<1>5. CASE from = "new" /\ to = "saved" /\ row' = row
  <2>1. Answer(i)' = Answer(i)
    BY <1>1, <1>2, <1>5, OthersShowTheSame
  <2>2. QED
    BY <1>1, <1>3, <1>4, <1>5, <2>1, NothingShows DEF Life!Next
<1>6. CASE from = "saved" /\ to = "created" /\ row'[i] = "processing"
  <2>1. Answer(i) = "new" /\ Answer(i)' = "processing"
    BY <1>0, <1>1, <1>6 DEF Answer
  <2>2. Life!Turn(i, {"new"}, "processing")
    BY <1>3, <2>1, OneTurns
  <2>3. Life!Appear(i)
    BY <1>1, <1>4, <1>6, <2>2 DEF Life!Appear, Withdrawn
  <2>4. QED
    BY <2>3 DEF Life!Next
<1>7. CASE from = "saved" /\ to \in WithdrawnStates /\ row'[i] \in {row[i], "processing"}
  <2>1. Answer(i) = "new" /\ Answer(i)' \in {"gone", "processing"}
    BY <1>0, <1>1, <1>2, <1>7 DEF Answer
  <2>2. Life!Turn(i, {"new"}, "processing") \/ Life!Turn(i, {"new"}, "gone")
    BY <1>3, <2>1, OneTurns
  <2>3. Life!Withdraw(i)
    BY <1>1, <1>4, <1>7, <2>2 DEF Life!Withdraw, Withdrawn
  <2>4. QED
    BY <2>3 DEF Life!Next
<1>8. CASE from = "created" /\ to \in {"accepted"} \cup WithdrawnStates /\ row' = row
  <2>1. \A j \in Images : Answer(j)' = Answer(j)
    BY <1>1, <1>2, <1>3, <1>8, OthersShowTheSame
  <2>2. CASE to = "accepted"
    BY <1>1, <1>4, <1>8, <2>1, <2>2, NothingShows DEF Life!Next
  <2>3. CASE to \in WithdrawnStates
    <3>1. Life!Withdraw(i)
      BY <1>1, <1>4, <2>1, <2>3 DEF Life!Withdraw, Withdrawn
    <3>2. QED
      BY <3>1 DEF Life!Next
  <2>4. QED
    BY <1>8, <2>2, <2>3
<1>9. CASE from \in WithdrawnStates /\ to \in WithdrawnStates /\ row'[i] \in {row[i], "none"}
  <2>1. CASE row'[i] = row[i]
    <3>1. \A j \in Images : Answer(j)' = Answer(j)
      BY <1>1, <1>2, <1>3, <1>9, <2>1, OthersShowTheSame
    <3>2. QED
      BY <1>1, <1>4, <1>9, <3>1, NothingShows DEF Life!Next
  <2>2. CASE row[i] # "none" /\ row'[i] = "none"
    <3>1. Answer(i) \in {"processing", "ready", "failed", "broken"} /\ Answer(i)' = "gone"
      BY <1>0, <1>2, <1>9, <2>2 DEF Answer, RowStates
    <3>2. Life!Turn(i, {"processing", "ready", "failed", "broken"}, "gone")
      BY <1>3, <3>1, OneTurns
    <3>3. Life!Remove(i)
      BY <1>1, <1>4, <1>9, <3>2 DEF Life!Remove, Withdrawn
    <3>4. QED
      BY <3>3 DEF Life!Next
  <2>3. QED
    BY <1>9, <2>1, <2>2
<1>10. QED
  BY <1>1, <1>5, <1>6, <1>7, <1>8, <1>9

LEMMA DeleteRefines ==
    ASSUME IInv, NEW d \in Deletes, DeleteStep(d) PROVE Life!Next
<1>0. row \in [Images -> RowStates] /\ upload' = upload /\ Withdrawn' = Withdrawn
  BY DEF IInv, TypeOK, DeleteStep, DeleteGet, DeleteOriginal, DeleteProcessed, DeleteRow,
         DeleteStops, DeleteAt, Withdrawn
<1>1. CASE DeleteGet(d)
  <2>1. PICK i \in Images :
           removing' = IF row[i] = "none" THEN removing ELSE removing \cup {i}
    BY <1>1 DEF DeleteGet
  <2>2. \A j \in Images : Answer(j)' = Answer(j)
    BY <1>0, <1>1, OthersShowTheSame DEF DeleteGet, disk
  <2>3. CASE row[i] = "none"
    BY <1>0, <2>1, <2>2, <2>3, NothingShows DEF Life!Next
  <2>4. CASE row[i] # "none"
    <3>1. Answer(i) \notin {"new", "gone"}
      BY <1>0, <2>4 DEF Answer, RowStates
    <3>2. Life!BeginRemove(i)
      BY <1>0, <2>1, <2>2, <2>4, <3>1 DEF Life!BeginRemove, Withdrawn, WithdrawnStates
    <3>3. QED
      BY <3>2 DEF Life!Next
  <2>5. QED
    BY <2>3, <2>4
<1>2. ASSUME delete[d].pc \in RemovalSteps, removing' = removing,
             \/ UNCHANGED <<row, result>>
             \/ row' = row /\ result' = result \ {delete[d].image}
             \/ result' = result /\ row' = [row EXCEPT ![delete[d].image] = "none"]
      PROVE  Life!Next
  <2>1. PICK i \in Images : i = delete[d].image
    BY <1>2 DEF IInv, TypeOK
  <2>2. i \in removing /\ upload[i] = "accepted"
    BY <1>2, <2>1 DEF IInv, DeletesInOrder, UploadsInOrder
  <2>3. \A j \in Images \ {i} : row'[j] = row[j] /\ (j \in result' <=> j \in result)
    BY <1>0, <1>2, <2>1
  <2>4. \A j \in Images \ {i} : Answer(j)' = Answer(j)
    BY <1>0, <2>3, OthersShowTheSame
  <2>5. \/ Answer(i)' = Answer(i)
        \/ Answer(i) = "ready" /\ Answer(i)' = "broken"
        \/ Answer(i) \in {"processing", "ready", "failed", "broken"} /\ Answer(i)' = "gone"
    <3>1. CASE row' = row /\ result' = result \ {i}
      BY <1>0, <3>1 DEF Answer
    <3>2. CASE result' = result /\ row' = [row EXCEPT ![i] = "none"]
      BY <1>0, <2>2, <3>2 DEF Answer, RowStates
    <3>3. CASE UNCHANGED <<row, result>>
      BY <1>0, <3>3 DEF Answer
    <3>4. QED
      BY <1>2, <2>1, <3>1, <3>2, <3>3
  <2>6. CASE Answer(i)' = Answer(i)
    BY <1>0, <1>2, <2>4, <2>6, NothingShows DEF Life!Next
  <2>7. CASE \/ Answer(i) = "ready" /\ Answer(i)' = "broken"
             \/ Answer(i) \in {"processing", "ready", "failed", "broken"} /\ Answer(i)' = "gone"
    <3>1. \/ Life!Turn(i, {"ready"}, "broken")
          \/ Life!Turn(i, {"processing", "ready", "failed", "broken"}, "gone")
      BY <2>4, <2>7, OneTurns
    <3>2. Life!Remove(i)
      BY <1>0, <1>2, <2>2, <3>1 DEF Life!Remove, Withdrawn, WithdrawnStates
    <3>3. QED
      BY <3>2 DEF Life!Next
  <2>8. QED
    BY <2>5, <2>6, <2>7
<1>3. QED
  BY <1>1, <1>2 DEF DeleteStep, DeleteOriginal, DeleteProcessed, DeleteRow, DeleteStops,
                    DeleteAt, RemovalSteps, disk

\* Of the worker's steps only three show: the result, ready and failed.
LEMMA WorkRefines ==
    ASSUME IInv, NEW w \in Workers, worker[w].pc # "fetch", UNCHANGED api,
           \/ UNCHANGED <<row, result>>
           \/ row' = row /\ result' = result \cup {Job(w)}
           \/ SetStatus(Job(w), "ready") /\ worker[w].pc = "markReady" /\ result' = result
           \/ SetStatus(Job(w), "failed") /\ result' = result
    PROVE  Life!Next
<1>0. /\ row \in [Images -> RowStates] /\ UNCHANGED <<upload, removing>>
      /\ Withdrawn' = Withdrawn
  BY DEF IInv, TypeOK, api, Withdrawn
<1>1. PICK i \in Images : i = Job(w)
  BY AtWork
<1>2. \A j \in Images \ {i} : row'[j] = row[j] /\ (j \in result' <=> j \in result)
  BY <1>0, <1>1 DEF SetStatus
<1>3. \A j \in Images \ {i} : Answer(j)' = Answer(j)
  BY <1>0, <1>2, OthersShowTheSame
<1>4. \/ Answer(i)' = Answer(i)
      \/ Answer(i) = "broken" /\ Answer(i)' = "ready" /\ i \in removing
      \/ Answer(i) = "processing" /\ Answer(i)' = "ready" /\ i \notin Undoable
      \/ Answer(i) = "processing" /\ Answer(i)' = "failed"
  <2>1. CASE UNCHANGED <<row, result>>
    BY <1>0, <2>1 DEF Answer
  <2>2. CASE row' = row /\ result' = result \cup {i}
    BY <1>0, <2>2 DEF Answer, IInv, ReadyHasResult
  <2>3. CASE SetStatus(i, "ready") /\ worker[w].pc = "markReady" /\ result' = result
    <3>1. i \notin Undoable /\ (row[i] = "processing" => i \in result)
      BY <1>1, <2>3, AtWork DEF Knows, Settled
    <3>2. QED
      BY <1>0, <2>3, <3>1 DEF Answer, SetStatus
  <2>4. CASE SetStatus(i, "failed") /\ result' = result
    BY <1>0, <2>4 DEF Answer, SetStatus
  <2>5. QED
    BY <1>1, <2>1, <2>2, <2>3, <2>4
<1>5. CASE Answer(i)' = Answer(i)
  BY <1>0, <1>3, <1>5, NothingShows DEF Life!Next
<1>6. CASE Answer(i) = "broken" /\ Answer(i)' = "ready" /\ i \in removing
  <2>1. Life!Remove(i)
    BY <1>0, <1>3, <1>6, OneTurns DEF Life!Remove, Withdrawn, WithdrawnStates
  <2>2. QED
    BY <2>1 DEF Life!Next
<1>7. CASE \/ Answer(i) = "processing" /\ Answer(i)' = "ready" /\ i \notin Undoable
           \/ Answer(i) = "processing" /\ Answer(i)' = "failed"
  <2>1. Life!Settle(i)
    BY <1>0, <1>3, <1>7, OneTurns DEF Life!Settle, Withdrawn, WithdrawnStates
  <2>2. QED
    BY <2>1 DEF Life!Next
<1>8. QED
  BY <1>4, <1>5, <1>6, <1>7

LEMMA StepRefines == IInv /\ [Next]_vars => [Life!Next]_(Life!vars)
<1> SUFFICES ASSUME IInv, [Next]_vars PROVE Life!Next
  OBVIOUS
<1>1. ASSUME UNCHANGED <<row, result, api>> PROVE Life!Next
  <2>1. \A j \in Images : Answer(j)' = Answer(j)
    BY <1>1 DEF Answer, api
  <2>2. QED
    BY <1>1, <2>1, NothingShows DEF api, Withdrawn, Life!Next
<1>2. ASSUME NEW w \in Workers, WorkerStep(w) \/ WorkerError(w) PROVE Life!Next
  <2>1. CASE Fetch(w)
    BY <1>1, <2>1 DEF Fetch, disk
  <2>2. CASE SaveProcessed(w)
    <3>1. worker[w].pc # "fetch" /\ UNCHANGED api /\ row' = row /\ result' = result \cup {Job(w)}
      BY <2>2 DEF SaveProcessed, Goto
    <3>2. QED
      BY <3>1, WorkRefines
  <2>3. CASE MarkReady(w) \/ MarkReadyFails(w) \/ MarkFailed(w)
    <3>1. /\ worker[w].pc # "fetch" /\ UNCHANGED api /\ result' = result
          /\ \/ row' = row
             \/ SetStatus(Job(w), "ready") /\ worker[w].pc = "markReady"
             \/ SetStatus(Job(w), "failed")
      BY <2>3 DEF MarkReady, MarkReadyFails, MarkFailed, Goto, disk
    <3>2. QED
      BY <3>1, WorkRefines
  <2>4. QED
    BY <1>1, <1>2, <2>1, <2>2, <2>3
       DEF WorkerStep, WorkerError, GetRow, LoadOriginal, ProcessFails, AskStatus, CleanOriginal,
           Commit, GetFails, LoadFails, SaveFails, AskStatusFails, CleanFails, MarkFailedFails,
           CommitFails, Goto, disk
<1>3. ASSUME NEW w \in Workers, WorkerCrash(w) \/ Rebalance(w) PROVE Life!Next
  BY <1>1, <1>3 DEF WorkerCrash, Rebalance, disk
<1>4. CASE UNCHANGED vars
  BY <1>1, <1>4 DEF vars, api
<1>5. QED
  BY <1>2, <1>3, <1>4, UploadRefines, DeleteRefines DEF Next

\* Whatever interleaves, crashes, fails and is delivered twice, GET shows every image
\* appear once, settle once, stay until its DELETE, and never come back.
THEOREM ImplementsImageLife == Spec => AnswersMoveForward
BY InitRefines, StepRefines, IInvAlways, PTL DEF Spec, AnswersMoveForward, Life!Spec
=============================================================================
