------------------------- MODULE IngestionRunProofs -------------------------
(***************************************************************************)
(* What the runs leave behind.  Ingestion implements DocumentLifecycle:    *)
(* what is committed about a document goes from one promised state to the  *)
(* next, whatever the runs, requests and faults do in between.  Nothing    *)
(* PENDING is forgotten, a consumer run is atomic, and with one consumer   *)
(* process the topic never gives a document two sets of chunks.            *)
(***************************************************************************)
EXTENDS IngestionProofs, FiniteSetTheorems

\* The row was inserted, and does not come back once it is deleted.
Uploaded == upload \in {"inserted", "done"}

\* What a run may have inserted, given the chunks c it has committed: nothing is committed
\* before its COMMIT, an in-process run deletes nothing, and a run that failed, with the
\* batches it still has in flight, never makes up a full set.  A consumer run goes on only
\* for a row it has seen, so that the upload is over.
InsertsOK(x, c) ==
  /\ x.pc = "idle" => c = {} /\ x.stray = {}
  /\ x.pc \in {"begin", "read", "wipe", "mark", "work", "failed", "commit"} => c = {}
  /\ x.pc \in {"begin", "read", "wipe", "mark", "work"} => x.stray = {}
  /\ x.kind = "local" => x.wiped = {} /\ x.pc \notin {"begin", "read", "wipe"}
  /\ \/ x.stray # {}
     \/ x.pc = "failed"
     \/ x.pc = "commit" /\ x.wrote # "ready"
     => Batches = {} \/ x.own \cup x.stray \cup c # Batches
  /\ x.kind = "worker" /\ x.pc \in {"read", "wipe", "mark", "work", "failed", "commit"}
       => Uploaded
  /\ x.kind = "worker" /\ x.pc = "commit" /\ x.wrote = "none" => row = "absent"

ChunksOK ==
  /\ \A r \in RunIds : InsertsOK(run[r], chunks[r])
  /\ \A r \in RunIds : r > nruns => run[r].pc = "idle"

-----------------------------------------------------------------------------
(* How ChunksOK survives.                                                  *)

\* A row that was inserted stays so, and its row does not come back once deleted.
LEMMA UploadStaysDone ==
  ASSUME TypeOK, TransactionsOK, Next, Uploaded
  PROVE  Uploaded' /\ (row = "absent" => row' = "absent")
  <1>1. Uploaded'
    <2> USE DEF httpVars, Uploaded
    <2>1. ASSUME NEW r \in RunIds, RunStep(r) PROVE Uploaded'
      BY <2>1 DEF RunStep, FindDocument, ReadFile, Wipe, MarkProcessing, InsertBatch, BatchFails,
           PrepareFails, MarkFailed, MarkReady, RunCommit, Reenqueue, DeadLetter, Ack,
           DeadlockAbort, InTxUnchanged
    <2>2. ASSUME NEW r \in RunIds, \/ ReenqueueFails(r) \/ DeadLetterFails(r) \/ ConnectionLost(r)
                                   \/ CommitVoided(r) \/ \E b \in Batches : StrayInsert(r, b)
          PROVE  Uploaded'
      BY <2>2 DEF ReenqueueFails, DeadLetterFails, ConnectionLost, CommitVoided, StrayInsert
    <2>3. CASE \/ UploadSave \/ UploadStep \/ UploadDisconnect \/ RetryCheck \/ RetryDispatch
               \/ DeleteLock \/ DeleteStep \/ DeleteDisconnect \/ Deliver \/ Evict
               \/ LoseMessages \/ Crash
      BY <2>3 DEF UploadSave, UploadCreate, UploadStray, UploadLate, UploadStep, UploadDispatch,
           UploadCommit, UploadDisconnect,
           RetryCheck, RetryDispatch, DeleteLock, DeleteStep, DeleteCascade, DeleteFile,
           DeleteCommit, DeleteDisconnect, Deliver, Evict, LoseMessages, Crash
    <2> QED BY <2>1, <2>2, <2>3 DEF Next
  <1>2. row = "absent" => row' = "absent"
    <2>1. ~Accepted
      BY DEF Accepted, Uploaded, UploadCommit, UploadStray, UploadLate
    <2> QED BY <2>1, DocumentChanges, PublishOK DEF DeleteCommit, StrayInsert
  <1> QED BY <1>1, <1>2

\* A run that another step leaves alone, its committed chunks kept or deleted, stays as it was.
LEMMA OtherRunOK ==
  ASSUME TypeOK, TransactionsOK, Next, NEW q \in RunIds, InsertsOK(run[q], chunks[q]),
         run'[q] = run[q], chunks'[q] \subseteq chunks[q]
  PROVE  InsertsOK(run[q], chunks[q])'
  <1>1. chunks[q] \in SUBSET Batches
    BY DEF TypeOK
  <1>2. Uploaded => Uploaded' /\ (row = "absent" => row' = "absent")
    BY UploadStaysDone
  <1>3. InsertsOK(run[q], chunks'[q])
    <2>1. run[q].own \in SUBSET Batches /\ run[q].stray \in SUBSET Batches
      BY DEF TypeOK, Run
    <2>2. run[q].own \cup run[q].stray \cup chunks[q] # Batches
            => run[q].own \cup run[q].stray \cup chunks'[q] # Batches
      BY <1>1, <2>1
    <2>3. chunks[q] = {} => chunks'[q] = {}
      OBVIOUS
    <2> QED BY <2>2, <2>3 DEF InsertsOK
  <1> QED BY <1>2, <1>3 DEF InsertsOK

\* One run that has started moves; the chunks of the others are kept or deleted.
LEMMA OneRunInserts ==
  ASSUME TypeOK, TransactionsOK, ChunksOK, Next, NEW r \in RunIds,
         run[r].pc # "idle", UNCHANGED nruns,
         \A q \in RunIds \ {r} :
           run'[q] = run[q] /\ chunks'[q] \subseteq chunks[q],
         InsertsOK(run[r], chunks[r])'
  PROVE  ChunksOK'
  <1>1. ASSUME NEW q \in RunIds PROVE InsertsOK(run[q], chunks[q])'
    <2>1. CASE q = r
      BY <2>1
    <2>2. CASE q # r
      BY <2>2, OtherRunOK DEF ChunksOK
    <2> QED BY <2>1, <2>2
  <1>2. ASSUME NEW q \in RunIds, q > nruns' PROVE run'[q].pc = "idle"
    BY <1>2 DEF ChunksOK
  <1> QED BY <1>1, <1>2 DEF ChunksOK

\* The same when nothing is committed and the run becomes the record x.
LEMMA OneRunWorks ==
  ASSUME TypeOK, TransactionsOK, ChunksOK, Next, NEW r \in RunIds, NEW x,
         run[r].pc # "idle", run' = [run EXCEPT ![r] = x],
         UNCHANGED <<row, chunks, upload, nruns>>, InsertsOK(x, chunks[r])
  PROVE  ChunksOK'
  <1>1. run'[r] = x /\ \A q \in RunIds \ {r} : run'[q] = run[q]
    BY DEF TypeOK
  <1>2. InsertsOK(run[r], chunks[r])'
    BY <1>1 DEF InsertsOK, Uploaded
  <1> QED BY <1>1, <1>2, OneRunInserts

\* No run moves.
LEMMA NoRunInserts ==
  ASSUME TypeOK, TransactionsOK, ChunksOK, Next, UNCHANGED <<run, nruns>>,
         \A q \in RunIds : chunks'[q] \subseteq chunks[q]
  PROVE  ChunksOK'
  BY OtherRunOK DEF ChunksOK

\* A run that ends has inserted nothing yet, except for its batches in flight.
LEMMA ClosedInserts ==
  ASSUME TypeOK, TransactionsOK, ChunksOK, NEW r \in RunIds,
         NEW pc \in {"handle", "ack", "done"}, InTx(r)
  PROVE  /\ InsertsOK(Closed(r, pc), chunks[r])
         /\ run[r].pc # "idle"
  <1>1. /\ run[r] \in Run /\ InsertsOK(run[r], chunks[r])
        /\ chunks[r] = {} /\ run[r].pc # "idle"
    BY DEF TypeOK, ChunksOK, InsertsOK, InTx
  <1>2. /\ Closed(r, pc).pc = pc /\ Closed(r, pc).stray = run[r].stray
        /\ Closed(r, pc).own = {} /\ Closed(r, pc).wiped = {}
    BY ClosedType DEF TypeOK, PCs
  <1>3. run[r].stray # {} => run[r].stray # Batches
    <2>1. run[r].own \in SUBSET Batches /\ run[r].stray \in SUBSET Batches
      BY <1>1 DEF Run
    <2> QED BY <1>1, <2>1 DEF InsertsOK
  <1> QED BY <1>1, <1>2, <1>3 DEF InsertsOK

\* A rollback.
LEMMA RollbackInserts ==
  ASSUME TypeOK, TransactionsOK, ChunksOK, Next, NEW r \in RunIds, InTx(r), Rollback(r),
         UNCHANGED <<row, chunks, upload, nruns>>
  PROVE  ChunksOK'
  <1>1. \/ run' = [run EXCEPT ![r] = Closed(r, "handle")]
        \/ run' = [run EXCEPT ![r] = Closed(r, "done")]
    BY DEF Rollback
  <1> QED BY <1>1, ClosedInserts, OneRunWorks

\* The steps of a run that commit nothing.
LEMMA InTxInserts ==
  ASSUME TypeOK, TransactionsOK, ChunksOK, Next, NEW r \in RunIds,
         \/ FindDocument(r) \/ ReadFile(r) \/ Wipe(r) \/ MarkProcessing(r)
         \/ (\E b \in Batches : InsertBatch(r, b) \/ BatchFails(r, b))
         \/ PrepareFails(r) \/ MarkFailed(r) \/ MarkReady(r)
  PROVE  ChunksOK'
  <1>a. /\ UNCHANGED <<row, chunks, upload, nruns>>
        /\ InTx(r)
        /\ run[r].pc # "idle"
    BY DEF InTx, InTxUnchanged, dbVars, httpVars, FindDocument, ReadFile, Wipe, InsertBatch,
           MarkProcessing, BatchFails, PrepareFails, MarkFailed, MarkReady
  <1>b. /\ run[r] \in Run /\ TxOK(run[r]) /\ InsertsOK(run[r], chunks[r])
        /\ ~Uploaded => row = "absent"
        /\ chunks[r] = {}
    BY <1>a DEF TypeOK, TransactionsOK, ChunksOK, InsertsOK, InTx, Uploaded
  <1>1. CASE Rollback(r)
    BY <1>1, <1>a, RollbackInserts
  <1>2. CASE FindDocument(r)
    <2>1. CASE run' = [run EXCEPT ![r] = Closed(r, "ack")]
      BY <2>1, <1>a, ClosedInserts, OneRunWorks
    <2>2. CASE row # "absent" /\ Step(r, "read")
      <3>1. InsertsOK([run[r] EXCEPT !.pc = "read"], chunks[r])
        BY <1>2, <2>2, <1>b DEF FindDocument, InsertsOK, Run
      <3> QED BY <2>2, <3>1, <1>a, OneRunWorks DEF Step
    <2> QED BY <1>1, <1>2, <2>1, <2>2 DEF FindDocument
  <1>3. CASE ReadFile(r)
    <2>1. InsertsOK([run[r] EXCEPT !.pc = "wipe", !.snap = Rows], chunks[r])
      BY <1>3, <1>b DEF ReadFile, InsertsOK, Run
    <2> QED BY <1>1, <1>3, <2>1, <1>a, OneRunWorks DEF ReadFile
  <1>4. CASE Wipe(r)
    <2>1. InsertsOK([run[r] EXCEPT !.pc = "mark", !.snap = {},
                                   !.wiped = run[r].snap \cap Rows], chunks[r])
      BY <1>4, <1>b DEF Wipe, InsertsOK, Run
    <2> QED BY <1>4, <2>1, <1>a, OneRunWorks DEF Wipe
  <1>5. CASE MarkProcessing(r)
    <2>1. InsertsOK([run[r] EXCEPT !.pc = "work", !.wrote = Wrote("processing")], chunks[r])
      BY <1>5, <1>b DEF MarkProcessing, InsertsOK, Run
    <2> QED BY <1>5, <2>1, <1>a, OneRunWorks DEF MarkProcessing
  <1>6. ASSUME NEW b \in Batches, InsertBatch(r, b) PROVE ChunksOK'
    <2>1. CASE run' = [run EXCEPT ![r] = [@ EXCEPT !.own = run[r].own \cup {b}]]
      <3>1. InsertsOK([run[r] EXCEPT !.own = run[r].own \cup {b}], chunks[r])
        BY <1>6, <1>b DEF InsertBatch, InsertsOK, Run
      <3> QED BY <2>1, <3>1, <1>a, OneRunWorks
    <2> QED BY <1>1, <1>6, <2>1 DEF InsertBatch
  <1>7. ASSUME NEW b \in Batches, BatchFails(r, b) PROVE ChunksOK'
    <2> DEFINE left == Batches \ (run[r].own \cup {b})
    <2>1. run[r].own \cup left \cup {} # Batches
      BY <1>7, <1>b DEF BatchFails, Run
    <2>2. InsertsOK([run[r] EXCEPT !.pc = "failed", !.stray = left], chunks[r])
      <3> HIDE DEF left
      <3> QED BY <1>7, <1>b, <2>1 DEF BatchFails, InsertsOK, Run
    <2> QED BY <1>7, <2>2, <1>a, OneRunWorks DEF BatchFails
  <1>8. CASE PrepareFails(r)
    <2>1. InsertsOK([run[r] EXCEPT !.pc = "failed"], chunks[r])
      BY <1>8, <1>b DEF PrepareFails, InsertsOK, Run
    <2> QED BY <1>8, <2>1, <1>a, OneRunWorks DEF PrepareFails, Step
  <1>9. CASE MarkFailed(r)
    <2>1. CASE (run[r].kind = "local" \/ row = "absent")
               /\ run' = [run EXCEPT ![r] = [@ EXCEPT !.pc = "commit",
                                                      !.wrote = Wrote("failed")]]
      <3>1. InsertsOK([run[r] EXCEPT !.pc = "commit", !.wrote = Wrote("failed")], chunks[r])
        BY <1>9, <2>1, <1>b DEF MarkFailed, InsertsOK, Run, Wrote
      <3> QED BY <2>1, <3>1, <1>a, OneRunWorks
    <2> QED BY <1>1, <1>9, <2>1 DEF MarkFailed
  <1>10. CASE MarkReady(r)
    <2>1. InsertsOK([run[r] EXCEPT !.pc = "commit", !.wrote = Wrote("ready")], chunks[r])
      BY <1>10, <1>b DEF MarkReady, InsertsOK, TxOK, Run, Wrote
    <2> QED BY <1>10, <2>1, <1>a, OneRunWorks DEF MarkReady
  <1> QED BY <1>2, <1>3, <1>4, <1>5, <1>6, <1>7, <1>8, <1>9, <1>10

\* A COMMIT makes the run's batches its committed chunks.
LEMMA CommitInserts ==
  ASSUME TypeOK, TransactionsOK, ChunksOK, Next, NEW r \in RunIds,
         run[r].pc = "commit", Publish(r), UNCHANGED nruns,
         NEW pc \in {"handle", "ack", "done"}, run' = [run EXCEPT ![r] = Closed(r, pc)]
  PROVE  ChunksOK'
  <1>a. /\ run[r] \in Run /\ InsertsOK(run[r], chunks[r]) /\ TxOK(run[r])
        /\ chunks[r] = {}
        /\ chunks \in [RunIds -> SUBSET Batches]
    BY DEF TypeOK, TransactionsOK, ChunksOK, InsertsOK
  <1>b. run[r].own \in SUBSET Batches /\ run[r].stray \in SUBSET Batches
    BY <1>a DEF Run
  <1>1. /\ Closed(r, pc).pc = pc /\ Closed(r, pc).stray = run[r].stray
        /\ Closed(r, pc).own = {} /\ Closed(r, pc).wiped = {}
        /\ run'[r] = Closed(r, pc)
    BY ClosedType DEF TypeOK, PCs
  <1>2. chunks'[r] = run[r].own
    BY <1>a DEF Publish
  <1>3. run[r].wrote = "ready" => run[r].stray = {} \/ run[r].own \cup run[r].stray # Batches
    BY <1>a, <1>b DEF InsertsOK
  <1>4. run[r].stray # {} => run[r].own \cup run[r].stray # Batches
    BY <1>a, <1>b, <1>3 DEF InsertsOK
  <1>5. InsertsOK(run[r], chunks[r])'
    <2> HIDE DEF TypeOK
    <2> DEFINE y == run'[r]
    <2>1. y.pc = pc /\ y.stray = run[r].stray /\ y.own = {} /\ y.wiped = {}
      BY <1>1
    <2>2. y.stray # {} => y.own \cup y.stray \cup chunks'[r] # Batches
      BY <2>1, <1>2, <1>4
    <2> QED BY <2>1, <2>2 DEF InsertsOK
  <1>6. \A q \in RunIds \ {r} : run'[q] = run[q] /\ chunks'[q] \subseteq chunks[q]
    BY <1>a DEF Publish, TypeOK
  <1> QED BY <1>5, <1>6, OneRunInserts

\* A batch in flight, inside the transaction or after it: the set it belongs to is not full.
LEMMA StrayInserts ==
  ASSUME TypeOK, TransactionsOK, ChunksOK, Next, NEW r \in RunIds, NEW b \in Batches,
         StrayInsert(r, b)
  PROVE  /\ ChunksOK'
         /\ chunks' = chunks \/ (chunks[r] # Batches /\ chunks'[r] # Batches)
  <1>a. /\ run[r] \in Run /\ InsertsOK(run[r], chunks[r]) /\ b \in run[r].stray
        /\ chunks \in [RunIds -> SUBSET Batches]
        /\ UNCHANGED <<row, upload, nruns>>
        /\ run[r].pc # "idle"
    BY DEF TypeOK, ChunksOK, InsertsOK, StrayInsert, httpVars
  <1>b. /\ run[r].own \in SUBSET Batches /\ run[r].stray \in SUBSET Batches
        /\ chunks[r] \in SUBSET Batches
        /\ run[r].own \cup run[r].stray \cup chunks[r] # Batches
    BY <1>a DEF Run, InsertsOK
  <1> DEFINE x == [run[r] EXCEPT !.stray = run[r].stray \ {b}, !.leaked = run[r].leaked \cup {b}]
             y == [run[r] EXCEPT !.stray = run[r].stray \ {b}, !.own = run[r].own \cup {b}]
  <1>1. CASE InTx(r) /\ Rollback(r) /\ UNCHANGED chunks
    BY <1>1, <1>a, RollbackInserts
  <1>2. CASE run' = [run EXCEPT ![r] = y] /\ UNCHANGED chunks
    <2>1. InsertsOK(y, chunks[r])
      BY <1>a, <1>b DEF InsertsOK, Run
    <2> HIDE DEF y
    <2> QED BY <1>2, <2>1, <1>a, OneRunWorks
  <1>3. CASE /\ ~InTx(r) /\ run' = [run EXCEPT ![r] = x]
             /\ chunks' = [chunks EXCEPT ![r] = @ \cup {b}]
    <2>1. chunks'[r] = chunks[r] \cup {b} /\ run'[r] = x
      BY <1>3, <1>a DEF TypeOK
    <2>2. InsertsOK(x, chunks[r] \cup {b})
      BY <1>3, <1>a, <1>b DEF InsertsOK, Run, InTx
    <2> HIDE DEF x
    <2>3. InsertsOK(run[r], chunks[r])'
      BY <2>1, <2>2, <1>a DEF InsertsOK
    <2>4. \A q \in RunIds \ {r} : run'[q] = run[q] /\ chunks'[q] = chunks[q]
      BY <1>3, <1>a DEF TypeOK
    <2>5. ChunksOK'
      BY <2>3, <2>4, <1>a, OneRunInserts
    <2>6. chunks[r] # Batches /\ chunks'[r] # Batches
      BY <2>1, <1>a, <1>b
    <2> QED BY <2>5, <2>6
  <1> QED BY <1>1, <1>2, <1>3 DEF StrayInsert

\* A run starts from nothing.
LEMMA StartInserts ==
  ASSUME TypeOK, TransactionsOK, ChunksOK, Next, NEW k \in {"worker", "local"}, NEW a,
         StartRun(k, a), UNCHANGED chunks
  PROVE  ChunksOK'
  <1>n. PICK n \in RunIds : n = nruns + 1
    BY IngestionAssumption DEF StartRun, TypeOK, RunIds
  <1>a. nruns \in Nat /\ n > nruns
    BY <1>n, IngestionAssumption DEF TypeOK
  <1>1. run[n].pc = "idle" /\ chunks[n] = {}
    BY <1>a DEF ChunksOK, InsertsOK
  <1>2. /\ run'[n] = NewRun(k, a)
        /\ \A q \in RunIds \ {n} : run'[q] = run[q]
    BY <1>n DEF StartRun, TypeOK
  <1>3. InsertsOK(run[n], chunks[n])'
    <2>1. /\ run'[n].pc \in {"begin", "mark"} /\ run'[n].kind = k /\ run'[n].stray = {}
          /\ run'[n].wiped = {} /\ run'[n].own = {}
          /\ k = "local" => run'[n].pc = "mark"
          /\ k = "worker" => run'[n].pc = "begin"
      BY <1>2 DEF NewRun, NoRunYet
    <2> QED BY <1>1, <2>1 DEF InsertsOK
  <1>4. ASSUME NEW q \in RunIds PROVE InsertsOK(run[q], chunks[q])'
    <2>1. CASE q = n
      BY <2>1, <1>3
    <2>2. CASE q # n
      BY <2>2, <1>2, OtherRunOK DEF ChunksOK
    <2> QED BY <2>1, <2>2
  <1>5. ASSUME NEW q \in RunIds, q > nruns' PROVE run'[q].pc = "idle"
    <2>1. q > nruns /\ q # n
      BY <1>5, <1>a, <1>n DEF StartRun, RunIds
    <2> QED BY <2>1, <1>2 DEF ChunksOK
  <1> QED BY <1>4, <1>5 DEF ChunksOK

\* The requests, the consumer, the handling of failures and the faults.
LEMMA OtherInserts ==
  ASSUME TypeOK, TransactionsOK, ChunksOK, Next,
         \/ UploadSave \/ UploadStep \/ UploadDisconnect \/ RetryCheck \/ RetryDispatch
         \/ DeleteLock \/ DeleteStep \/ DeleteDisconnect \/ Deliver \/ Evict \/ LoseMessages
         \/ Crash
         \/ \E r \in RunIds :
              \/ RunCommit(r) \/ Reenqueue(r) \/ ReenqueueFails(r) \/ DeadLetter(r)
              \/ DeadLetterFails(r) \/ Ack(r) \/ ConnectionLost(r) \/ CommitVoided(r)
              \/ DeadlockAbort(r)
  PROVE  ChunksOK'
  <1> USE DEF dbVars, runVars, mqVars, httpVars
  <1>1. CASE UploadDispatch \/ RetryDispatch \/ Deliver
    <2>1. /\ UNCHANGED chunks
          /\ \/ UNCHANGED <<run, nruns>>
             \/ StartRun("local", 0)
             \/ StartRun("worker", Head(queue))
      BY <1>1 DEF UploadDispatch, RetryDispatch, Deliver, Dispatch
    <2> QED BY <2>1, StartInserts, NoRunInserts
  <1>2. CASE \/ UploadSave \/ UploadCreate \/ UploadStray \/ UploadLate \/ UploadCommit
             \/ UploadDisconnect \/ RetryCheck \/ LoseMessages
             \/ DeleteLock \/ DeleteStep \/ DeleteDisconnect \/ Evict
    <2>1. /\ UNCHANGED <<run, nruns>>
          /\ \A q \in RunIds : chunks'[q] \subseteq chunks[q]
      BY <1>2 DEF UploadSave, UploadCreate, UploadStray, UploadLate, UploadCommit,
           UploadDisconnect, RetryCheck, LoseMessages, DeleteLock, DeleteStep, DeleteCascade, DeleteFile, DeleteCommit, DeleteDisconnect, Evict
    <2> QED BY <2>1, NoRunInserts
  <1>3. CASE Crash
    <2>1. ASSUME NEW q \in RunIds
          PROVE  /\ InsertsOK(run[q], chunks[q])'
                 /\ run[q].pc = "idle" => run'[q].pc = "idle"
      <3>1. /\ run'[q].pc = IF run[q].pc = "idle" THEN "idle" ELSE "done"
            /\ run'[q].stray = {} /\ run'[q].wiped = {}
        <4>1. ASSUME NEW pc \in PCs
              PROVE  /\ [Closed(q, pc) EXCEPT !.stray = {}].pc = pc
                     /\ [Closed(q, pc) EXCEPT !.stray = {}].stray = {}
                     /\ [Closed(q, pc) EXCEPT !.stray = {}].wiped = {}
          BY DEF Closed, NoRunYet
        <4>2. CASE run[q].pc = "idle"
          <5>1. run'[q] = [Closed(q, "idle") EXCEPT !.stray = {}]
            BY <1>3, <4>2 DEF Crash
          <5> QED BY <5>1, <4>1, <4>2 DEF PCs
        <4>3. CASE run[q].pc # "idle"
          <5>1. run'[q] = [Closed(q, "done") EXCEPT !.stray = {}]
            BY <1>3, <4>3 DEF Crash
          <5> QED BY <5>1, <4>1, <4>3 DEF PCs
        <4> QED BY <4>2, <4>3
      <3>2. chunks' = chunks /\ (run[q].pc = "idle" => chunks[q] = {})
        BY <1>3 DEF Crash, ChunksOK, InsertsOK
      <3> QED BY <3>1, <3>2 DEF InsertsOK
    <2> QED BY <1>3, <2>1 DEF ChunksOK, Crash
  <1>4. ASSUME NEW r \in RunIds, RunCommit(r) PROVE ChunksOK'
    <2>1. /\ run[r].pc = "commit" /\ Publish(r) /\ UNCHANGED nruns
          /\ \/ run' = [run EXCEPT ![r] = Closed(r, "ack")]
             \/ run' = [run EXCEPT ![r] = Closed(r, "done")]
      BY <1>4 DEF RunCommit
    <2> QED BY <2>1, CommitInserts
  <1>5. ASSUME NEW r \in RunIds,
               \/ Reenqueue(r) \/ ReenqueueFails(r) \/ DeadLetter(r) \/ DeadLetterFails(r)
               \/ Ack(r)
        PROVE  ChunksOK'
    <2>1. /\ Step(r, "ack") \/ Step(r, "done")
          /\ run[r].pc \in {"handle", "ack"}
          /\ UNCHANGED <<row, chunks, upload, nruns>>
      BY <1>5 DEF Reenqueue, ReenqueueFails, DeadLetter, DeadLetterFails, Ack
    <2>2. ASSUME NEW pc \in {"ack", "done"} PROVE InsertsOK([run[r] EXCEPT !.pc = pc], chunks[r])
      <3>1. run[r] \in Run /\ InsertsOK(run[r], chunks[r])
        BY DEF TypeOK, ChunksOK
      <3> QED BY <3>1, <2>1 DEF InsertsOK, Run
    <2> QED BY <2>1, <2>2, OneRunWorks DEF Step
  <1>6. ASSUME NEW r \in RunIds, ConnectionLost(r) PROVE ChunksOK'
    <2>1. Rollback(r) /\ InTx(r) /\ UNCHANGED <<upload, nruns>>
      BY <1>6 DEF ConnectionLost
    <2>2. CASE UNCHANGED dbVars
      BY <2>1, <2>2, RollbackInserts
    <2>3. CASE run[r].pc = "commit" /\ Publish(r)
      <3>1. \/ run' = [run EXCEPT ![r] = Closed(r, "handle")]
            \/ run' = [run EXCEPT ![r] = Closed(r, "done")]
        BY <2>1 DEF Rollback
      <3> QED BY <2>1, <2>3, <3>1, CommitInserts
    <2> QED BY <1>6, <2>2, <2>3 DEF ConnectionLost
  <1>7. ASSUME NEW r \in RunIds, DeadlockAbort(r) PROVE ChunksOK'
    <2>1. CASE Rollback(r)
      BY <1>7, <2>1, RollbackInserts DEF DeadlockAbort, InTx
    <2>2. CASE UNCHANGED run
      BY <1>7, <2>2, NoRunInserts DEF DeadlockAbort
    <2> QED BY <1>7, <2>1, <2>2 DEF DeadlockAbort
  <1>8. ASSUME NEW r \in RunIds, CommitVoided(r) PROVE ChunksOK'
    <2>1. /\ InTx(r) /\ UNCHANGED <<row, chunks, upload, nruns>>
          /\ \/ run' = [run EXCEPT ![r] = Closed(r, "ack")]
             \/ run' = [run EXCEPT ![r] = Closed(r, "done")]
      BY <1>8 DEF CommitVoided, InTx
    <2> QED BY <2>1, ClosedInserts, OneRunWorks
  <1> QED BY <1>1, <1>2, <1>3, <1>4, <1>5, <1>6, <1>7, <1>8 DEF UploadStep

-----------------------------------------------------------------------------
(* The refinement.                                                         *)

\* What the runs have inserted is as ChunksOK says.
LEMMA ChunksCorrect == Spec => []ChunksOK
  <1>1. Init => ChunksOK
    BY DEF Init, ChunksOK, InsertsOK, NoRunYet
  <1>2. TypeOK /\ TransactionsOK /\ ChunksOK /\ [Next]_vars => ChunksOK'
    <2> SUFFICES ASSUME TypeOK, TransactionsOK, ChunksOK, [Next]_vars PROVE ChunksOK'
      OBVIOUS
    <2>1. CASE UNCHANGED vars
      BY <2>1 DEF vars, ChunksOK, InsertsOK, Uploaded
    <2>2. CASE Next
      BY <2>2, InTxInserts, OtherInserts, StrayInserts DEF Next, RunStep
    <2> QED BY <2>1, <2>2
  <1> QED BY <1>1, <1>2, TypeCorrect, TransactionsCorrect, PTL DEF Spec

\* Every step changes the committed document as DocumentLifecycle promises, or not at all.
LEMMA StepImplements ==
  ASSUME TypeOK, TransactionsOK, ChunksOK, [Next]_vars, Batches # {}
  PROVE  [Lifecycle!Next]_(Lifecycle!vars)
  <1> USE DEF Lifecycle!Next, Lifecycle!vars, Searchable
  <1>1. CASE UNCHANGED <<row, count, chunks>>
    BY <1>1
  <1>2. ASSUME NEW r \in RunIds, run[r].pc = "commit", Publish(r)
        PROVE  [Lifecycle!Next]_(Lifecycle!vars)
    <2>a. /\ TxOK(run[r]) /\ run[r] \in Run /\ InsertsOK(run[r], chunks[r])
          /\ chunks[r] = {} /\ chunks \in [RunIds -> SUBSET Batches]
      BY <1>2 DEF TypeOK, TransactionsOK, ChunksOK, InsertsOK
    <2>b. /\ run[r].wrote \in {"none", "ready", "failed"}
          /\ run[r].own \in SUBSET Batches /\ run[r].stray \in SUBSET Batches
      BY <1>2, <2>a DEF TxOK, Run
    <2>1. CASE run[r].wrote = "ready"
      <3>1. row # "absent" /\ row' = "ready" /\ chunks'[r] = Batches
        BY <1>2, <2>1, <2>a DEF Publish, TxOK
      <3> QED BY <3>1 DEF Lifecycle!Complete
    <2>2. CASE run[r].wrote # "ready"
      <3>1. run[r].wiped = {} /\ run[r].own # Batches
        BY <1>2, <2>2, <2>a, <2>b DEF TxOK, InsertsOK
      <3>2. ASSUME NEW q \in RunIds PROVE chunks'[q] = Batches <=> chunks[q] = Batches
        BY <1>2, <3>1, <2>a DEF Publish
      <3>3. Searchable' = Searchable
        BY <3>2
      <3>4. CASE run[r].wrote = "none"
        BY <1>2, <3>3, <3>4 DEF Publish
      <3>5. CASE run[r].wrote = "failed"
        <4>1. row # "absent" /\ row' = "failed"
          BY <1>2, <3>5, <2>a DEF Publish, TxOK
        <4> QED BY <4>1, <3>3 DEF Lifecycle!Fail
      <3> QED BY <2>2, <2>b, <3>4, <3>5
    <2> QED BY <2>1, <2>2
  <1>3. CASE Accepted
    <2>1. row = "absent" /\ ~Searchable
      BY <1>3, AcceptedOK DEF TransactionsOK
    <2>2. row' \in {row, "pending"} /\ Searchable' = Searchable
      BY <1>3, AcceptedOK
    <2> QED BY <2>1, <2>2 DEF Lifecycle!Accept
  <1>4. CASE DeleteCommit
    <2>1. row' = "absent" /\ Searchable' = FALSE
      BY <1>4 DEF DeleteCommit
    <2>2. row = "absent" => Searchable = FALSE
      BY DEF TransactionsOK
    <2> QED BY <2>1, <2>2 DEF Lifecycle!Remove
  <1>5. ASSUME NEW r \in RunIds, NEW b \in Batches, StrayInsert(r, b)
        PROVE  UNCHANGED <<row, Searchable>>
    <2>1. UNCHANGED row /\ \A q \in RunIds \ {r} : chunks'[q] = chunks[q]
      BY <1>5 DEF StrayInsert, TypeOK
    <2>2. CASE chunks' = chunks
      BY <2>1, <2>2
    <2>3. CASE Next
      <3>1. chunks' = chunks \/ (chunks[r] # Batches /\ chunks'[r] # Batches)
        BY <1>5, <2>3, StrayInserts
      <3> QED BY <2>1, <2>2, <3>1
    <2>4. CASE UNCHANGED vars
      BY <2>2, <2>4 DEF vars
    <2> QED BY <2>3, <2>4
  <1>6. CASE Next
    BY <1>1, <1>2, <1>3, <1>4, <1>5, <1>6, DocumentChanges
  <1> QED BY <1>1, <1>6 DEF vars

\* The pipeline implements the abstract life cycle, for documents whose text gives at least
\* one chunk: what is committed about a document is never a half-done attempt.
THEOREM IngestionImplementsLifecycle == Batches # {} => (Spec => LifecycleSpec)
  <1> SUFFICES ASSUME Batches # {} PROVE Spec => LifecycleSpec
    OBVIOUS
  <1>1. Init => Lifecycle!Init
    BY DEF Init, Lifecycle!Init, Searchable
  <1>2. TypeOK /\ TransactionsOK /\ ChunksOK /\ [Next]_vars
          => [Lifecycle!Next]_(Lifecycle!vars)
    BY StepImplements
  <1> QED BY <1>1, <1>2, TypeCorrect, TransactionsCorrect, ChunksCorrect, PTL
          DEF Spec, LifecycleSpec, Lifecycle!Spec

-----------------------------------------------------------------------------
(* A document that is PENDING, or about to be, is pursued: its message is  *)
(* in the topic until the offset is committed, whatever becomes of the     *)
(* runs that handle it, and a run commits the offset only after it has     *)
(* published another message, or has settled the document.                 *)

Early == {"idle", "saved", "adrift", "created", "joined", "gone"}
Awaited == row = "pending" \/ upload \in {"dispatched", "sent"}
LocalRun == \E r \in RunIds : run[r].kind = "local" /\ run[r].pc # "done"
Kept == abandoned \/ LocalRun \/ upload = "inserted"

Pursued ==
  /\ upload \in Early => queue = <<>> /\ \A r \in RunIds : run[r].pc = "idle"
  /\ retry = "checked" => Uploaded
  /\ \A r \in RunIds : run[r].kind = "local" => run[r].pc \in {"mark", "work", "failed", "commit", "done"}
  /\ Awaited => queue # <<>> \/ Kept
  /\ Awaited => \A r \in RunIds : run[r].pc = "ack" /\ current = r => Len(queue) >= 2 \/ Kept

\* Publishing makes the topic longer.
LEMMA Longer ==
  ASSUME NEW S, NEW q \in Seq(S), NEW a \in S
  PROVE  /\ Len(q) \in Nat /\ Len(Append(q, a)) = Len(q) + 1 /\ Append(q, a) # <<>>
         /\ q # <<>> => Len(q) >= 1
         /\ Len(q) >= 2 => q # <<>> /\ Tail(q) # <<>>
  <1>1. Len(q) \in Nat /\ Len(Append(q, a)) = Len(q) + 1 /\ Append(q, a) # <<>>
    BY AppendProperties, LenProperties
  <1>2. q # <<>> => Len(q) >= 1
    BY EmptySeq, LenProperties
  <1>3. Len(q) >= 2 => q # <<>> /\ Tail(q) # <<>>
    <2>1. \A s \in Seq(S) : s = <<>> <=> Len(s) = 0
      BY EmptySeq
    <2>2. q # <<>> => \E t \in Seq(S) : t = Tail(q) /\ Len(t) = Len(q) - 1
      BY HeadTailProperties
    <2> QED BY <1>1, <2>1, <2>2
  <1> QED BY <1>1, <1>2, <1>3

\* One run moves: an in-process run that ends without a status is abandoned, and a consumer
\* run comes to its offset with another message published or nothing to wait for.
LEMMA OneRunPursues ==
  ASSUME TypeOK, Pursued, NEW r \in RunIds, NEW x,
         run[r].pc # "idle", run' = [run EXCEPT ![r] = x], x.kind = run[r].kind,
         x.kind = "local" => x.pc \in {"mark", "work", "failed", "commit", "done"},
         UNCHANGED <<upload, retry>>,
         queue' = queue \/ \E a \in 1..MaxAttempts : queue' = Append(queue, a),
         current' = current \/ current' = NoRun,
         abandoned => abandoned', Awaited' => Awaited,
         Awaited' /\ x.kind = "local" /\ x.pc = "done" /\ run[r].pc # "done" => abandoned',
         Awaited' /\ x.pc = "ack" /\ run[r].pc # "ack" /\ current' = r => Len(queue') >= 2 \/ abandoned'
  PROVE  Pursued'
  <1>1. run'[r] = x /\ \A q \in RunIds \ {r} : run'[q] = run[q]
    BY DEF TypeOK
  <1>2. upload \notin Early /\ (retry = "checked" => Uploaded')
    BY DEF Pursued, Uploaded
  <1>3. /\ queue # <<>> => queue' # <<>>
        /\ Len(queue) >= 2 => Len(queue') >= 2
    BY Longer DEF TypeOK
  <1>4. Awaited' /\ Kept => Kept'
    BY <1>1 DEF Kept, LocalRun, Pursued
  <1>5. ASSUME Awaited', NEW q \in RunIds, run'[q].pc = "ack", current' = q PROVE Len(queue') >= 2 \/ Kept'
    <2>1. current = q
      BY <1>5 DEF NoRun, RunIds
    <2>2. CASE run[q].pc = "ack"
      BY <1>3, <1>4, <1>5, <2>1, <2>2 DEF Pursued
    <2>3. CASE run[q].pc # "ack"
      <3>1. q = r
        BY <1>1, <1>5, <2>3
      <3> QED BY <1>1, <1>5, <2>3, <3>1 DEF Kept
    <2> QED BY <2>2, <2>3
  <1>6. \A q \in RunIds : run'[q].kind = "local" => run'[q].pc \in {"mark", "work", "failed", "commit", "done"}
    BY <1>1 DEF Pursued
  <1> QED BY <1>2, <1>3, <1>4, <1>5, <1>6 DEF Pursued

\* A rollback, of whose transaction nothing or everything was committed.
LEMMA RollbackPursues ==
  ASSUME TypeOK, Pursued, NEW r \in RunIds, InTx(r), Rollback(r), UNCHANGED <<upload, retry, queue, current>>,
         row' = "pending" => row = "pending"
  PROVE  Pursued'
  <1>1. PICK pc \in {"handle", "done"} : /\ run' = [run EXCEPT ![r] = Closed(r, pc)]
                                         /\ pc = "handle" <=> run[r].kind = "worker"
    BY DEF Rollback
  <1>2. Closed(r, pc).pc = pc /\ Closed(r, pc).kind = run[r].kind
    BY ClosedType DEF TypeOK, PCs
  <1>3. abandoned' = (abandoned \/ run[r].kind = "local") /\ run[r].pc # "idle"
    BY DEF Rollback, InTx
  <1>4. Awaited' => Awaited
    BY DEF Awaited
  <1> QED BY <1>1, <1>2, <1>3, <1>4, OneRunPursues

\* Once the upload is over, a row that is not PENDING is not waited for.
LEMMA SettledOnce ==
  ASSUME TransactionsOK, row # "absent" \/ Uploaded, UNCHANGED upload, row' # "pending"
  PROVE  ~Awaited'
  BY DEF Awaited, TransactionsOK, Uploaded

\* The steps of a run inside its transaction.
LEMMA InTxPursues ==
  ASSUME TypeOK, TransactionsOK, Pursued, NEW r \in RunIds,
         \/ FindDocument(r) \/ ReadFile(r) \/ Wipe(r) \/ MarkProcessing(r)
         \/ (\E b \in Batches : InsertBatch(r, b) \/ BatchFails(r, b))
         \/ PrepareFails(r) \/ MarkFailed(r) \/ MarkReady(r)
  PROVE  Pursued'
  <1>1. /\ UNCHANGED <<row, upload, retry, queue, current>> /\ InTx(r) /\ run[r].pc # "idle"
        /\ run[r].kind = "local" => run[r].pc \notin {"begin", "read", "wipe"}
    BY DEF InTxUnchanged, dbVars, mqVars, httpVars, InTx, Pursued, FindDocument, ReadFile, Wipe, InsertBatch,
           MarkProcessing, BatchFails, PrepareFails, MarkFailed, MarkReady
  <1>2. CASE Rollback(r)
    BY <1>1, <1>2, RollbackPursues
  <1>3. ASSUME UNCHANGED abandoned, NEW x, run' = [run EXCEPT ![r] = x], x.kind = run[r].kind,
               x.pc \in {"read", "wipe", "mark", "work", "failed", "commit"},
               x.pc \in {"read", "wipe"} => run[r].kind # "local"
        PROVE  Pursued'
    <2>1. Awaited' => Awaited
      BY <1>1 DEF Awaited
    <2> QED BY <1>1, <1>3, <2>1, OneRunPursues
  <1>a. run[r] \in Run
    BY DEF TypeOK
  <1>4. CASE FindDocument(r)
    <2>1. CASE row = "ready" /\ run' = [run EXCEPT ![r] = Closed(r, "ack")] /\ UNCHANGED abandoned
      <3>1. ~Awaited'
        BY <1>1, <2>1, SettledOnce
      <3>2. Closed(r, "ack").pc = "ack" /\ Closed(r, "ack").kind = run[r].kind
        BY ClosedType DEF TypeOK, PCs
      <3>3. run[r].kind # "local"
        BY <1>1, <1>4 DEF FindDocument
      <3> QED BY <1>1, <2>1, <3>1, <3>2, <3>3, OneRunPursues
    <2>2. CASE Step(r, "read") /\ UNCHANGED abandoned
      <3>1. [run[r] EXCEPT !.pc = "read"].pc = "read" /\ [run[r] EXCEPT !.pc = "read"].kind = run[r].kind
        BY <1>a DEF Run
      <3>2. run[r].kind # "local"
        BY <1>1, <1>4 DEF FindDocument
      <3> QED BY <1>3, <2>2, <3>1, <3>2 DEF Step
    <2> QED BY <1>2, <1>4, <2>1, <2>2 DEF FindDocument
  <1>5. CASE ReadFile(r)
    <2>1. \A x : x = [run[r] EXCEPT !.pc = "wipe", !.snap = Rows] => x.pc = "wipe" /\ x.kind = run[r].kind
      BY <1>a DEF Run
    <2>2. run[r].kind # "local"
      BY <1>1, <1>5 DEF ReadFile
    <2> QED BY <1>2, <1>3, <1>5, <2>1, <2>2 DEF ReadFile
  <1>6. CASE Wipe(r)
    <2>1. \A x : x = [run[r] EXCEPT !.pc = "mark", !.snap = {}, !.wiped = run[r].snap \cap Rows]
                   => x.pc = "mark" /\ x.kind = run[r].kind
      BY <1>a DEF Run
    <2> QED BY <1>3, <1>6, <2>1 DEF Wipe
  <1>7. CASE MarkProcessing(r) \/ MarkFailed(r) \/ MarkReady(r)
    <2>1. \/ Rollback(r)
          \/ /\ UNCHANGED abandoned
             /\ \E s \in {"none"} \cup Statuses, pc \in {"work", "commit"} :
                  run' = [run EXCEPT ![r] = [run[r] EXCEPT !.pc = pc, !.wrote = s]]
      BY <1>7 DEF MarkProcessing, MarkFailed, MarkReady, Wrote, Statuses
    <2>2. ASSUME NEW s, NEW pc \in {"work", "commit"}, UNCHANGED abandoned,
                 NEW x, x = [run[r] EXCEPT !.pc = pc, !.wrote = s], run' = [run EXCEPT ![r] = x]
          PROVE  Pursued'
      <3>1. x.pc = pc /\ x.kind = run[r].kind
        BY <1>a, <2>2 DEF Run
      <3> QED BY <1>3, <2>2, <3>1
    <2> QED BY <1>2, <2>1, <2>2
  <1>8. ASSUME NEW b \in Batches, InsertBatch(r, b) \/ BatchFails(r, b) PROVE Pursued'
    <2>1. ASSUME UNCHANGED abandoned, run[r].pc = "work",
                 NEW x, x = [run[r] EXCEPT !.own = run[r].own \cup {b}], run' = [run EXCEPT ![r] = x]
          PROVE  Pursued'
      <3>1. x.pc = "work" /\ x.kind = run[r].kind
        BY <1>a, <2>1 DEF Run
      <3> QED BY <1>3, <2>1, <3>1
    <2>2. ASSUME UNCHANGED abandoned, NEW s,
                 NEW x, x = [run[r] EXCEPT !.pc = "failed", !.stray = s], run' = [run EXCEPT ![r] = x]
          PROVE  Pursued'
      <3>1. x.pc = "failed" /\ x.kind = run[r].kind
        BY <1>a, <2>2 DEF Run
      <3> QED BY <1>3, <2>2, <3>1
    <2>3. CASE InsertBatch(r, b)
      BY <1>2, <2>1, <2>3 DEF InsertBatch
    <2>4. CASE BatchFails(r, b)
      BY <2>2, <2>4 DEF BatchFails
    <2> QED BY <1>8, <2>3, <2>4
  <1>9. CASE PrepareFails(r)
    <2>1. \A x : x = [run[r] EXCEPT !.pc = "failed"] => x.pc = "failed" /\ x.kind = run[r].kind
      BY <1>a DEF Run
    <2> QED BY <1>3, <1>9, <2>1 DEF PrepareFails, Step
  <1> QED BY <1>4, <1>5, <1>6, <1>7, <1>8, <1>9

\* A COMMIT settles the document, or an in-process run is abandoned.
LEMMA CommitPursues ==
  ASSUME TypeOK, TransactionsOK, ChunksOK, Pursued, NEW r \in RunIds,
         RunCommit(r) \/ ConnectionLost(r) \/ CommitVoided(r) \/ DeadlockAbort(r)
  PROVE  Pursued'
  <1> USE DEF mqVars, httpVars, dbVars
  <1>a. TxOK(run[r]) /\ InsertsOK(run[r], chunks[r]) /\ run[r] \in Run
    BY DEF TypeOK, TransactionsOK, ChunksOK
  <1>b. Closed(r, "ack").pc = "ack" /\ Closed(r, "done").pc = "done"
        /\ Closed(r, "ack").kind = run[r].kind /\ Closed(r, "done").kind = run[r].kind
    BY ClosedType DEF TypeOK, PCs
  <1>1. CASE RunCommit(r)
    <2>1. /\ run[r].pc = "commit" /\ Publish(r) /\ UNCHANGED <<upload, retry, queue, current>>
          /\ run' = [run EXCEPT ![r] = IF run[r].kind = "worker" THEN Closed(r, "ack") ELSE Closed(r, "done")]
          /\ abandoned' = (abandoned \/ (run[r].kind = "local" /\ run[r].wrote = "none"))
      BY <1>1 DEF RunCommit
    <2>2. /\ row' = row \/ run[r].wrote = row'
          /\ row' = row \/ row' \in {"ready", "failed"}
          /\ row' = "absent" <=> row = "absent"
      BY <2>1, PublishOK
    <2>3. Awaited' => Awaited
      BY <2>1, <2>2 DEF Awaited
    <2>4. run[r].kind = "worker" \/ run[r].wrote # "none" => ~Awaited'
      <3>1. CASE run[r].wrote # "none"
        <4>1. row # "absent" /\ row' \in {"ready", "failed"}
          BY <1>a, <2>1, <3>1 DEF TxOK, Publish
        <4> QED BY <2>1, <4>1, SettledOnce
      <3>2. CASE run[r].kind = "worker" /\ run[r].wrote = "none"
        <4>1. row = "absent" /\ Uploaded
          BY <1>a, <2>1, <3>2 DEF InsertsOK
        <4> QED BY <2>1, <2>2, <4>1, SettledOnce
      <3> QED BY <3>1, <3>2
    <2>5. PICK pc \in {"ack", "done"} : /\ run' = [run EXCEPT ![r] = Closed(r, pc)]
                                        /\ pc = "ack" => run[r].kind = "worker"
      BY <2>1
    <2> DEFINE x == Closed(r, pc)
    <2>6. x.pc = pc /\ x.kind = run[r].kind
      BY <1>b
    <2> HIDE DEF x
    <2>7. /\ run[r].pc # "idle" /\ run' = [run EXCEPT ![r] = x]
          /\ x.kind = "local" => x.pc \in {"mark", "work", "failed", "commit", "done"}
          /\ abandoned => abandoned'
          /\ Awaited' /\ x.kind = "local" => abandoned'
          /\ Awaited' => x.pc # "ack"
      BY <2>1, <2>4, <2>5, <2>6 DEF x
    <2>8. x.kind = run[r].kind
      BY <2>6
    <2> QED BY <2>1, <2>3, <2>7, <2>8, OneRunPursues
  <1>2. CASE ConnectionLost(r)
    <2>1. Rollback(r) /\ InTx(r) /\ UNCHANGED <<upload, retry, queue, current>>
      BY <1>2 DEF ConnectionLost
    <2>2. row' = "pending" => row = "pending"
      BY <1>2, PublishOK DEF ConnectionLost
    <2> QED BY <2>1, <2>2, RollbackPursues
  <1>3. CASE CommitVoided(r)
    <2>1. /\ run[r].pc = "commit" /\ abandoned' = TRUE /\ UNCHANGED <<row, upload, retry, queue, current>>
          /\ run' = [run EXCEPT ![r] = IF run[r].kind = "worker" THEN Closed(r, "ack") ELSE Closed(r, "done")]
      BY <1>3 DEF CommitVoided
    <2>2. Awaited' => Awaited
      BY <2>1 DEF Awaited
    <2>3. PICK pc \in {"ack", "done"} : /\ run' = [run EXCEPT ![r] = Closed(r, pc)]
                                        /\ pc = "ack" => run[r].kind = "worker"
      BY <2>1
    <2> DEFINE x == Closed(r, pc)
    <2>4. x.pc = pc /\ x.kind = run[r].kind
      BY <1>b
    <2> HIDE DEF x
    <2>5. /\ run[r].pc # "idle" /\ run' = [run EXCEPT ![r] = x]
          /\ x.kind = "local" => x.pc \in {"mark", "work", "failed", "commit", "done"}
      BY <2>1, <2>3, <2>4 DEF x
    <2> QED BY <2>1, <2>2, <2>4, <2>5, OneRunPursues
  <1>4. CASE DeadlockAbort(r)
    <2>1. UNCHANGED <<row, upload, retry, queue, current>> /\ InTx(r)
      BY <1>4 DEF DeadlockAbort, InTx
    <2>2. CASE Rollback(r)
      BY <2>1, <2>2, RollbackPursues
    <2>3. CASE UNCHANGED <<run, abandoned>>
      BY <2>1, <2>3 DEF Pursued, Awaited, Kept, LocalRun, Uploaded
    <2> QED BY <1>4, <2>2, <2>3 DEF DeadlockAbort
  <1> QED BY <1>1, <1>2, <1>3, <1>4

\* A batch in flight.
LEMMA StrayPursues ==
  ASSUME TypeOK, ChunksOK, Pursued, NEW r \in RunIds, NEW b \in Batches, StrayInsert(r, b)
  PROVE  Pursued'
  <1>1. UNCHANGED <<row, upload, retry, queue, current>> /\ run[r] \in Run /\ run[r].pc # "idle"
    BY DEF StrayInsert, mqVars, httpVars, TypeOK, ChunksOK, InsertsOK
  <1>2. CASE InTx(r) /\ Rollback(r)
    BY <1>1, <1>2, RollbackPursues
  <1>3. CASE ~(InTx(r) /\ Rollback(r))
    <2>1. PICK x : run' = [run EXCEPT ![r] = x] /\ x.kind = run[r].kind /\ x.pc = run[r].pc /\ UNCHANGED abandoned
      <3>1. \/ run' = [run EXCEPT ![r] = [run[r] EXCEPT !.stray = run[r].stray \ {b}, !.own = run[r].own \cup {b}]]
            \/ run' = [run EXCEPT ![r] = [run[r] EXCEPT !.stray = run[r].stray \ {b}, !.leaked = run[r].leaked \cup {b}]]
        BY <1>3 DEF StrayInsert
      <3>2. UNCHANGED abandoned
        BY <1>3 DEF StrayInsert
      <3>3. ASSUME NEW x, \/ x = [run[r] EXCEPT !.stray = run[r].stray \ {b}, !.own = run[r].own \cup {b}]
                          \/ x = [run[r] EXCEPT !.stray = run[r].stray \ {b}, !.leaked = run[r].leaked \cup {b}]
            PROVE  x.kind = run[r].kind /\ x.pc = run[r].pc
        BY <1>1, <3>3 DEF Run
      <3> QED BY <3>1, <3>2, <3>3
    <2>2. Awaited' => Awaited
      BY <1>1 DEF Awaited
    <2>3. x.kind = "local" => x.pc \in {"mark", "work", "failed", "commit", "done"}
      BY <2>1 DEF Pursued
    <2> QED BY <1>1, <2>1, <2>2, <2>3, OneRunPursues
  <1> QED BY <1>2, <1>3

\* The handler of a failure publishes before the offset is committed; the offset of the
\* message that is committed was followed by another message.
LEMMA HandlerPursues ==
  ASSUME TypeOK, HeadIsHeld, Pursued, NEW r \in RunIds,
         Reenqueue(r) \/ ReenqueueFails(r) \/ DeadLetter(r) \/ DeadLetterFails(r) \/ Ack(r)
  PROVE  Pursued'
  <1> USE DEF mqVars, httpVars, dbVars
  <1>1. /\ UNCHANGED <<row, upload, retry>> /\ run[r].pc \in {"handle", "ack"} /\ run[r] \in Run
        /\ run[r].kind # "local" /\ (Awaited' => Awaited)
    BY DEF Reenqueue, ReenqueueFails, DeadLetter, DeadLetterFails, Ack, TypeOK, Pursued, Awaited
  <1>2. PICK pc \in {"ack", "done"} : run' = [run EXCEPT ![r] = [run[r] EXCEPT !.pc = pc]]
                                      /\ (pc = "done" \/ run[r].pc = "handle")
    BY DEF Reenqueue, ReenqueueFails, DeadLetter, DeadLetterFails, Ack, Step
  <1>3. [run[r] EXCEPT !.pc = pc].pc = pc /\ [run[r] EXCEPT !.pc = pc].kind = run[r].kind
    BY <1>1 DEF Run
  <1> DEFINE x == [run[r] EXCEPT !.pc = pc]
  <1> HIDE DEF x
  <1>a. run' = [run EXCEPT ![r] = x] /\ x.pc = pc /\ x.kind = run[r].kind
    BY <1>2, <1>3 DEF x
  <1>4. CASE Reenqueue(r) \/ ReenqueueFails(r)
    <2>1. /\ UNCHANGED abandoned /\ run[r].attempt + 1 \in 1..MaxAttempts
          /\ \/ queue' = queue /\ pc = "done"
             \/ queue' = Append(queue, run[r].attempt + 1)
          /\ current' = current \/ current' = NoRun
      <3>1. run[r].attempt + 1 \in 1..MaxAttempts
        BY <1>1, <1>4, IngestionAssumption DEF Reenqueue, ReenqueueFails, Run
      <3>2. CASE Reenqueue(r)
        BY <3>1, <3>2 DEF Reenqueue
      <3>3. CASE ReenqueueFails(r)
        <4>1. [run[r] EXCEPT !.pc = "done"].pc = "done" /\ run' = [run EXCEPT ![r] = [run[r] EXCEPT !.pc = "done"]]
          BY <1>1, <3>3 DEF ReenqueueFails, Step, Run
        <4>2. x = [run[r] EXCEPT !.pc = "done"]
          BY <1>a, <4>1 DEF TypeOK
        <4> QED BY <1>a, <3>1, <3>3, <4>1, <4>2 DEF ReenqueueFails
      <3> QED BY <1>4, <3>2, <3>3
    <2>2. pc = "ack" /\ current' = r => Len(queue') >= 2
      <3>1. current = r => queue # <<>>
        BY DEF HeadIsHeld, NoRun, RunIds
      <3>2. Len(queue) \in Nat /\ (queue # <<>> => Len(queue) >= 1)
            /\ Len(Append(queue, run[r].attempt + 1)) = Len(queue) + 1
        BY <2>1, Longer DEF TypeOK
      <3> QED BY <2>1, <3>1, <3>2 DEF NoRun, RunIds
    <2> QED BY <1>1, <1>a, <2>1, <2>2, OneRunPursues
  <1>5. CASE DeadLetter(r) \/ DeadLetterFails(r)
    <2>1. UNCHANGED <<queue, current>> /\ abandoned'
      BY <1>5 DEF DeadLetter, DeadLetterFails
    <2> QED BY <1>1, <1>a, <2>1, OneRunPursues
  <1>6. CASE Ack(r)
    <2>1. CASE UNCHANGED <<queue, current>>
      <3>1. pc = "done" /\ UNCHANGED abandoned
        BY <1>1, <1>2, <1>6 DEF Ack
      <3> QED BY <1>1, <1>a, <2>1, <3>1, OneRunPursues
    <2>2. CASE current = r /\ queue' = Tail(queue) /\ current' = NoRun
      <3>1. UNCHANGED abandoned /\ run[r].pc = "ack" /\ pc = "done"
        BY <1>2, <1>6 DEF Ack
      <3>2. run'[r] = x /\ \A q \in RunIds \ {r} : run'[q] = run[q]
        BY <1>a DEF TypeOK
      <3>3. Kept => Kept'
        BY <1>1, <3>1, <3>2 DEF Kept, LocalRun
      <3>4. Awaited' => Len(queue) >= 2 \/ Kept'
        BY <1>1, <2>2, <3>1, <3>3 DEF Pursued
      <3>5. Awaited' => queue' # <<>> \/ Kept'
        <4>1. 1 \in 1..MaxAttempts /\ queue \in Seq(1..MaxAttempts)
          BY IngestionAssumption DEF TypeOK
        <4>2. Len(queue) >= 2 => Tail(queue) # <<>>
          BY <4>1, Longer
        <4> QED BY <2>2, <3>4, <4>2
      <3>6. \A q \in RunIds : current' # q
        BY <2>2 DEF NoRun, RunIds
      <3>7. \A q \in RunIds : run'[q].kind = "local" => run'[q].pc \in {"mark", "work", "failed", "commit", "done"}
        BY <1>1, <1>a, <3>2 DEF Pursued
      <3>8. upload' \notin Early /\ (retry' = "checked" => Uploaded')
        BY <1>1, <3>1 DEF Pursued, Uploaded
      <3> QED BY <1>1, <3>5, <3>6, <3>7, <3>8 DEF Pursued
    <2> QED BY <1>6, <2>1, <2>2 DEF Ack
  <1> QED BY <1>4, <1>5, <1>6

\* A run starts: in this process, or at the head of the topic.
LEMMA StartPursues ==
  ASSUME TypeOK, ChunksOK, Pursued, NEW k \in {"worker", "local"}, NEW a, StartRun(k, a)
  PROVE  /\ \A r \in RunIds : run'[r].kind = "local" => run'[r].pc \in {"mark", "work", "failed", "commit", "done"}
         /\ \A r \in RunIds : run'[r].pc = "ack" => run[r].pc = "ack" /\ r # nruns + 1
         /\ LocalRun => LocalRun'
         /\ k = "local" => LocalRun'
  <1>n. PICK n \in RunIds : n = nruns + 1
    BY IngestionAssumption DEF StartRun, TypeOK, RunIds
  <1>0. n > nruns
    BY <1>n, IngestionAssumption DEF TypeOK
  <1>1. run[n].pc = "idle" /\ run[n].kind # "local"
    BY <1>0 DEF ChunksOK, Pursued
  <1>2. run'[n] = NewRun(k, a) /\ \A q \in RunIds \ {n} : run'[q] = run[q]
    BY <1>n DEF StartRun, TypeOK
  <1>3. NewRun(k, a).kind = k /\ NewRun(k, a).pc = IF k = "worker" THEN "begin" ELSE "mark"
    BY DEF NewRun, NoRunYet
  <1>4. k = "local" => run'[n].kind = "local" /\ run'[n].pc = "mark"
    BY <1>2, <1>3
  <1> QED BY <1>n, <1>1, <1>2, <1>3, <1>4 DEF Pursued, LocalRun

LEMMA DispatchPursues ==
  ASSUME TypeOK, TransactionsOK, ChunksOK, HeadIsHeld, Pursued, UploadDispatch \/ RetryDispatch \/ Deliver
  PROVE  Pursued'
  <1> USE DEF mqVars, httpVars, dbVars
  <1>0. 1 \in 1..MaxAttempts /\ queue \in Seq(1..MaxAttempts) /\ Len(queue) \in Nat
        /\ Append(queue, 1) # <<>> /\ Len(Append(queue, 1)) = Len(queue) + 1
    <2>1. 1 \in 1..MaxAttempts /\ queue \in Seq(1..MaxAttempts)
      BY IngestionAssumption DEF TypeOK
    <2> QED BY <2>1, Longer
  <1>1. CASE UploadDispatch \/ RetryDispatch
    <2>1. /\ UNCHANGED <<row, current>> /\ (queue' = queue \/ queue' = Append(queue, 1))
          /\ \/ StartRun("local", 0)
             \/ UNCHANGED run /\ queue' = Append(queue, 1)
      BY <1>1 DEF UploadDispatch, RetryDispatch, Dispatch
    <2>2. /\ \A r \in RunIds : run'[r].kind = "local" => run'[r].pc \in {"mark", "work", "failed", "commit", "done"}
          /\ queue' = Append(queue, 1) \/ LocalRun'
      <3>1. CASE StartRun("local", 0)
        BY <3>1, StartPursues
      <3>2. CASE UNCHANGED run /\ queue' = Append(queue, 1)
        BY <3>2 DEF Pursued
      <3> QED BY <2>1, <3>1, <3>2
    <2>3. queue' # <<>> \/ Kept'
      BY <1>0, <2>2 DEF Kept
    <2>4. \A r \in RunIds : current' = r => Len(queue') >= 2 \/ Kept'
      <3>1. \A r \in RunIds : current = r => Len(queue) >= 1
        BY <1>0, Longer DEF HeadIsHeld, NoRun, RunIds
      <3>2. Len(queue) >= 1 /\ queue' = Append(queue, 1) => Len(queue') >= 2
        BY <1>0
      <3> QED BY <2>1, <2>2, <3>1, <3>2 DEF Kept
    <2>5. upload' \notin Early /\ (retry' = "checked" => Uploaded')
      BY <1>1 DEF UploadDispatch, RetryDispatch, Early, Uploaded, Pursued
    <2> QED BY <2>2, <2>3, <2>4, <2>5 DEF Pursued
  <1>2. CASE Deliver
    <2>1. /\ queue # <<>> /\ StartRun("worker", Head(queue)) /\ current' = nruns + 1
          /\ UNCHANGED <<row, queue, abandoned, upload, retry>>
      BY <1>2 DEF Deliver
    <2>2. /\ \A r \in RunIds : run'[r].kind = "local" => run'[r].pc \in {"mark", "work", "failed", "commit", "done"}
          /\ \A r \in RunIds : run'[r].pc = "ack" => r # nruns + 1
      BY <2>1, StartPursues
    <2>3. upload \notin Early /\ (retry = "checked" => Uploaded')
      BY <2>1 DEF Pursued, Uploaded
    <2>4. Awaited' => \A r \in RunIds : run'[r].pc = "ack" => current' # r
      BY <2>1, <2>2
    <2> QED BY <2>1, <2>2, <2>3, <2>4 DEF Pursued
  <1> QED BY <1>1, <1>2

\* The requests, the loss of the partition or of messages, and the death of the process, which
\* gives up the runs and the upload that were only in its memory.
LEMMA RequestPursues ==
  ASSUME TypeOK, TransactionsOK, Pursued,
         \/ UploadSave \/ UploadCreate \/ Accepted \/ UploadDisconnect \/ RetryCheck
         \/ DeleteLock \/ DeleteStep \/ DeleteDisconnect \/ Evict \/ LoseMessages \/ Crash
  PROVE  Pursued'
  <1> USE DEF runVars, mqVars, httpVars, dbVars, Accepted
  <1>1. CASE Evict \/ LoseMessages
    <2>1. /\ UNCHANGED <<row, run, upload, retry>>
          /\ \/ UNCHANGED <<queue, abandoned>> /\ \A r \in RunIds : current' # r
             \/ queue # <<>> /\ abandoned' = TRUE
      BY <1>1 DEF Evict, LoseMessages, NoRun, RunIds
    <2> QED BY <2>1 DEF Pursued, Awaited, Kept, LocalRun, Uploaded
  <1>2. CASE Crash
    <2>1. /\ UNCHANGED <<row, queue>> /\ upload' = (IF upload = "idle" THEN "idle" ELSE "done") /\ retry' = "idle"
          /\ \A r \in RunIds : current' # r
          /\ abandoned' = (\/ abandoned
                           \/ upload = "inserted"
                           \/ \E r \in RunIds : run[r].kind = "local" /\ InTx(r))
      BY <1>2 DEF Crash, NoRun, RunIds
    <2>2. ASSUME NEW r \in RunIds
          PROVE  run'[r].kind = run[r].kind /\ run'[r].pc = IF run[r].pc = "idle" THEN "idle" ELSE "done"
      <3> DEFINE ended(pc) == [Closed(r, pc) EXCEPT !.stray = {}]
      <3>1. \A pc : ended(pc).pc = pc /\ ended(pc).kind = run[r].kind
        BY DEF Closed, NoRunYet
      <3>2. run'[r] = ended(IF run[r].pc = "idle" THEN "idle" ELSE "done")
        BY <1>2 DEF Crash
      <3> HIDE DEF ended
      <3> QED BY <3>1, <3>2
    <2>3. LocalRun => abandoned'
      BY <2>1 DEF LocalRun, Pursued, InTx
    <2>4. Kept => Kept'
      BY <2>1, <2>3 DEF Kept
    <2>5. Awaited' => Awaited
      BY <2>1 DEF Awaited
    <2>6. /\ \A r \in RunIds : run'[r].kind = "local" => run'[r].pc \in {"mark", "work", "failed", "commit", "done"}
          /\ upload' \in Early => queue' = <<>> /\ \A r \in RunIds : run'[r].pc = "idle"
      BY <2>1, <2>2 DEF Pursued, Early
    <2> QED BY <2>1, <2>4, <2>5, <2>6 DEF Pursued
  <1>3. CASE \/ UploadSave \/ UploadCreate \/ Accepted \/ UploadDisconnect \/ RetryCheck
             \/ DeleteLock \/ DeleteStep \/ DeleteDisconnect
    <2>1. UNCHANGED <<run, queue, current, abandoned>>
      BY <1>3 DEF UploadSave, UploadCreate, UploadStray, UploadLate, UploadCommit, UploadDisconnect, RetryCheck,
           DeleteLock, DeleteStep, DeleteCascade, DeleteFile, DeleteCommit, DeleteDisconnect
    <2>2. CASE UploadSave \/ UploadCreate \/ Accepted \/ UploadDisconnect
      <3>1. /\ Awaited' => Awaited \/ upload' = "inserted"
            /\ upload # "inserted"
            /\ upload' \in Early => upload \in Early
            /\ retry' # "checked"
        BY <2>2 DEF Awaited, Early, Pursued, Uploaded, TransactionsOK, UploadSave, UploadCreate, UploadStray,
             UploadLate, UploadCommit, UploadDisconnect
      <3> QED BY <2>1, <3>1 DEF Pursued, Kept, LocalRun
    <2>3. CASE RetryCheck \/ DeleteLock \/ DeleteStep \/ DeleteDisconnect
      <3>1. /\ Awaited' => Awaited
            /\ UNCHANGED upload
            /\ retry' = "checked" => Uploaded'
        BY <2>3 DEF Awaited, Pursued, Uploaded, TransactionsOK, RetryCheck, DeleteLock, DeleteStep, DeleteCascade,
             DeleteFile, DeleteCommit, DeleteDisconnect
      <3> QED BY <2>1, <3>1 DEF Pursued, Kept, LocalRun
    <2> QED BY <1>3, <2>2, <2>3
  <1> QED BY <1>1, <1>2, <1>3

\* Whatever the broker, the consumers and the users do, a PENDING document has a message, a
\* live run, an upload about to dispatch it, or its last job was given up; a retry starts a job
\* that is pursued again, whatever was lost before it.
THEOREM PendingIsPursued == Spec => []NoOrphanPending
  <1>1. Init => Pursued
    BY DEF Init, Pursued, NoRunYet, Awaited
  <1>2. TypeOK /\ HeadIsHeld /\ TransactionsOK /\ ChunksOK /\ Pursued /\ [Next]_vars => Pursued'
    <2> SUFFICES ASSUME TypeOK, HeadIsHeld, TransactionsOK, ChunksOK, Pursued, [Next]_vars PROVE Pursued'
      OBVIOUS
    <2>1. CASE UNCHANGED vars
      BY <2>1 DEF vars, Pursued, Awaited, Kept, LocalRun, Uploaded
    <2>2. CASE Next
      BY <2>2, InTxPursues, CommitPursues, StrayPursues, HandlerPursues, DispatchPursues, RequestPursues
         DEF Next, RunStep, UploadStep, Accepted
    <2> QED BY <2>1, <2>2
  <1>3. TypeOK /\ Pursued => NoOrphanPending
    <2> SUFFICES ASSUME TypeOK, Pursued, LocalRun PROVE \E r \in RunIds : run[r].pc \notin {"idle", "done"}
      BY DEF Pursued, NoOrphanPending, Awaited, Kept
    <2> QED BY DEF LocalRun, Pursued
  <1> QED BY <1>1, <1>2, <1>3, TypeInvariant, TransactionsCorrect, ChunksCorrect, PTL DEF Spec

-----------------------------------------------------------------------------
(* A consumer run commits all of its chunks or none, and with one consumer *)
(* process the run that commits has deleted what every earlier one had     *)
(* committed.  Chunks are deleted in two steps, the snapshot and the       *)
(* DELETE, so the invariant speaks of every copy of a run's rows: those    *)
(* committed, those in a snapshot, and those deleted but not yet committed.*)

Open == {"begin", "read", "wipe", "mark", "work", "failed", "commit"}
Part(p, S) == {b \in Batches : <<p, b>> \in S}
Copies(p) == {chunks[p]} \cup {Part(p, run[q].snap) : q \in RunIds}
                         \cup {Part(p, run[q].wiped) : q \in RunIds}
OnlyLeaked(p) == \A c \in Copies(p) : c \subseteq run[p].leaked
AllOrNone(p) == \A c \in Copies(p) : c \in {{}, Batches}

\* Before its end a run has committed nothing.  After it, a consumer run has committed what
\* leaked, or everything, and then it has no batch left in flight.
AtomicOf(p) ==
  /\ run[p].kind = "none" => run[p].pc = "idle"
  /\ run[p].pc \in Open \cup {"idle"} => run[p].leaked = {} /\ OnlyLeaked(p)
  /\ run[p].kind # "local" => \/ OnlyLeaked(p)
                              \/ run[p].stray = {} /\ run[p].pc \notin Open /\ AllOrNone(p)
Atomic == \A p \in RunIds : AtomicOf(p)

\* A consumer run that has come to its DELETE deletes what another one committed.
Written(q) == run[q].kind # "local" /\ chunks[q] \ run[q].leaked # {}
Rewrites(q, r) ==
  Written(q) /\ run[r].kind = "worker" =>
    /\ run[r].pc = "wipe" => chunks[q] \subseteq Part(q, run[r].snap)
    /\ run[r].pc \in {"mark", "work", "failed", "commit"} => chunks[q] \subseteq Part(q, run[r].wiped)
Single ==
  /\ \A q, r \in LiveWorkers : q = r
  /\ \A q, r \in RunIds : q # r => Rewrites(q, r)
  /\ QueueRewritesOnce

RunsOK == Atomic /\ (Consumers = 1 => Single)

\* What a step of a run may make of its record y: the rows it holds, and the rest.
Keeps(y, z) == z.snap \in {y.snap, {}, Rows} /\ z.wiped \in {y.wiped, {}, y.snap \cap Rows}
Moves(y, z) ==
  /\ z.leaked = y.leaked /\ (z.kind = y.kind \/ y.pc = "idle")
  /\ z.kind = "none" => z.pc = "idle"
  /\ z.pc \in Open => y.pc \in Open \cup {"idle"}
  /\ z.pc = "idle" => y.pc = "idle"
  /\ y.pc \notin Open \cup {"idle"} => z.stray \subseteq y.stray
  /\ y.pc = "done" => z.pc = "done"
  /\ z.kind = "worker" /\ z.pc = "wipe" => z.snap = Rows \/ (y.kind = "worker" /\ y.pc = "wipe" /\ z.snap = y.snap)
  /\ z.kind = "worker" /\ z.pc \in {"mark", "work", "failed", "commit"} =>
       /\ y.kind = "worker"
       /\ \/ y.pc = "wipe" /\ z.wiped = y.snap \cap Rows
          \/ y.pc \in {"mark", "work", "failed", "commit"} /\ z.wiped = y.wiped

\* A copy of a run's rows after a step comes from copies before it.
LEMMA CopiesInherited ==
  ASSUME TypeOK, NEW p \in RunIds, \A q \in RunIds : Keeps(run[q], run'[q]),
         \/ chunks'[p] \in {chunks[p], {}}
         \/ \E q \in RunIds : chunks'[p] = chunks[p] \ Part(p, run[q].wiped)
  PROVE  \A d \in Copies(p)' : d = {} \/ \E c, e \in Copies(p) : d \in {c, c \cap e, c \ e}
  <1>1. /\ chunks[p] \in Copies(p) /\ chunks[p] \subseteq Batches
        /\ \A q \in RunIds : Part(p, run[q].snap) \in Copies(p) /\ Part(p, run[q].wiped) \in Copies(p)
    BY DEF Copies, TypeOK
  <1>2. Part(p, {}) = {} /\ Part(p, Rows) = chunks[p]
        /\ \A S : Part(p, S \cap Rows) = Part(p, S) \cap chunks[p]
    BY <1>1 DEF Part, Rows, ChunkRows
  <1>3. ASSUME NEW q \in RunIds
        PROVE  /\ Part(p, run'[q].snap) = {} \/ Part(p, run'[q].snap) \in Copies(p)
               /\ \/ Part(p, run'[q].wiped) = {} \/ Part(p, run'[q].wiped) \in Copies(p)
                  \/ Part(p, run'[q].wiped) = Part(p, run[q].snap) \cap chunks[p]
    BY <1>1, <1>2 DEF Keeps
  <1>4. Copies(p)' = {chunks'[p]} \cup {Part(p, run'[q].snap) : q \in RunIds}
                                  \cup {Part(p, run'[q].wiped) : q \in RunIds}
    BY DEF Copies, Part
  <1> QED BY <1>1, <1>3, <1>4

\* A run stays atomic when no rows are added to what it committed.
LEMMA AtomicInherited ==
  ASSUME TypeOK, NEW p \in RunIds, AtomicOf(p), Moves(run[p], run'[p]),
         \A q \in RunIds : Keeps(run[q], run'[q]),
         \/ chunks'[p] \in {chunks[p], {}}
         \/ \E q \in RunIds : chunks'[p] = chunks[p] \ Part(p, run[q].wiped)
  PROVE  AtomicOf(p)'
  <1>1. \A d \in Copies(p)' : d = {} \/ \E c, e \in Copies(p) : d \in {c, c \cap e, c \ e}
    BY CopiesInherited
  <1>2. OnlyLeaked(p) => OnlyLeaked(p)'
    BY <1>1 DEF OnlyLeaked, Moves
  <1>3. AllOrNone(p) => AllOrNone(p)'
    <2> SUFFICES ASSUME AllOrNone(p), NEW d \in Copies(p)' PROVE d \in {{}, Batches}
      BY DEF AllOrNone
    <2>1. CASE d = {}
      BY <2>1
    <2>2. CASE d # {}
      <3>1. PICK c \in Copies(p), e \in Copies(p) : d \in {c, c \cap e, c \ e}
        BY <1>1, <2>2
      <3>2. c \in {{}, Batches} /\ e \in {{}, Batches}
        BY DEF AllOrNone
      <3> QED BY <2>2, <3>1, <3>2
    <2> QED BY <2>1, <2>2
  <1>4. run'[p].pc \in Open \cup {"idle"} => run[p].pc \in Open \cup {"idle"}
    BY DEF Moves
  <1>5. run[p].pc \in Open \cup {"idle"} => OnlyLeaked(p)'
    BY <1>2 DEF AtomicOf
  <1>6. run[p].pc \notin Open \cup {"idle"} /\ run'[p].kind # "local"
          => \/ OnlyLeaked(p)'
             \/ run'[p].stray = {} /\ run'[p].pc \notin Open /\ AllOrNone(p)'
    BY <1>2, <1>3, <1>4 DEF AtomicOf, Moves
  <1> QED BY <1>4, <1>5, <1>6 DEF AtomicOf, Moves

\* What a run has committed is not written anew when nothing is added to it.
LEMMA WrittenBefore ==
  ASSUME TypeOK, ChunksOK, NEW q \in RunIds, Moves(run[q], run'[q]), chunks'[q] \subseteq chunks[q], Written(q)'
  PROVE  Written(q)
  <1>1. run[q].pc # "idle"
    BY DEF Written, ChunksOK, InsertsOK
  <1> QED BY <1>1 DEF Written, Moves

LEMMA RewritesInherited ==
  ASSUME TypeOK, NEW q \in RunIds, NEW r \in RunIds, Rewrites(q, r), Moves(run[r], run'[r]),
         chunks'[q] \subseteq chunks[q], Written(q)' => Written(q)
  PROVE  Rewrites(q, r)'
  <1>1. chunks[q] \subseteq Batches
    BY DEF TypeOK
  <1>2. Part(q, Rows) = chunks[q] /\ \A S : Part(q, S \cap Rows) = Part(q, S) \cap chunks[q]
    BY <1>1 DEF Part, Rows, ChunkRows
  <1> SUFFICES ASSUME Written(q)', run'[r].kind = "worker"
               PROVE  /\ run'[r].pc = "wipe" => chunks'[q] \subseteq Part(q, run'[r].snap)
                      /\ run'[r].pc \in {"mark", "work", "failed", "commit"} => chunks'[q] \subseteq Part(q, run'[r].wiped)
    BY DEF Rewrites, Part
  <1>3. run'[r].pc = "wipe" => chunks[q] \subseteq Part(q, run'[r].snap)
    BY <1>2 DEF Moves, Rewrites
  <1>4. ASSUME run'[r].pc \in {"mark", "work", "failed", "commit"} PROVE chunks[q] \subseteq Part(q, run'[r].wiped)
    BY <1>2, <1>4 DEF Moves, Rewrites
  <1> QED BY <1>3, <1>4

\* Steps that add no rows and start no consumer run.
LEMMA SingleInherited ==
  ASSUME TypeOK, ChunksOK, Single, \A p \in RunIds : Moves(run[p], run'[p]) /\ chunks'[p] \subseteq chunks[p],
         \A q, r \in LiveWorkers' : q = r
  PROVE  Single'
  <1>1. \A q \in RunIds : Written(q)' => Written(q)
    BY WrittenBefore
  <1>2. \A q, r \in RunIds : q # r => Rewrites(q, r)'
    BY <1>1, RewritesInherited DEF Single
  <1>3. QueueRewritesOnce'
    BY <1>1 DEF Single, QueueRewritesOnce, Written
  <1> QED BY <1>2, <1>3 DEF Single

\* A run that does not move.
LEMMA StaysMoves ==
  ASSUME Atomic, NEW q \in RunIds
  PROVE  Keeps(run[q], run[q]) /\ Moves(run[q], run[q])
  BY DEF Keeps, Moves, Atomic, AtomicOf

\* A run whose transaction is over.
LEMMA ClosedMoves ==
  ASSUME TypeOK, Atomic, NEW r \in RunIds, InTx(r), NEW pc \in {"handle", "ack", "done"}
  PROVE  Keeps(run[r], Closed(r, pc)) /\ Moves(run[r], Closed(r, pc)) /\ run[r].pc # "idle"
  <1> DEFINE x == Closed(r, pc)
  <1>1. x.kind = run[r].kind /\ x.pc = pc /\ x.snap = {} /\ x.wiped = {}
    BY ClosedType DEF TypeOK, PCs
  <1>2. x.leaked = run[r].leaked
    BY DEF Closed, NoRunYet
  <1>3. run[r].pc \in Open /\ run[r].pc # "idle" /\ run[r].kind # "none"
    BY DEF InTx, Open, Atomic, AtomicOf
  <1> HIDE DEF x
  <1>4. Keeps(run[r], x) /\ Moves(run[r], x)
    BY <1>1, <1>2, <1>3 DEF Keeps, Moves, Open
  <1> QED BY <1>3, <1>4 DEF x

\* One run moves and nothing is committed.
LEMMA OneRunOnward ==
  ASSUME TypeOK, ChunksOK, RunsOK, NEW r \in RunIds, NEW x, run[r].pc # "idle",
         run' = [run EXCEPT ![r] = x], Keeps(run[r], x), Moves(run[r], x), UNCHANGED chunks
  PROVE  RunsOK'
  <1>1. run'[r] = x /\ \A q \in RunIds \ {r} : run'[q] = run[q]
    BY DEF TypeOK
  <1>2. \A q \in RunIds : Keeps(run[q], run'[q]) /\ Moves(run[q], run'[q])
    BY <1>1, StaysMoves DEF RunsOK
  <1>3. Atomic'
    BY <1>2, AtomicInherited DEF RunsOK, Atomic
  <1>4. ASSUME Consumers = 1 PROVE Single'
    <2>1. Single
      BY <1>4 DEF RunsOK
    <2>2. \A q \in RunIds : q \in LiveWorkers' => q \in LiveWorkers
      BY <1>1 DEF LiveWorkers, Moves
    <2>3. \A q, p \in LiveWorkers' : q = p
      BY <2>1, <2>2 DEF Single, LiveWorkers
    <2> QED BY <1>2, <2>1, <2>3, SingleInherited
  <1> QED BY <1>3, <1>4 DEF RunsOK

\* A rollback.
LEMMA RollbackRuns ==
  ASSUME TypeOK, ChunksOK, RunsOK, NEW r \in RunIds, InTx(r), Rollback(r), UNCHANGED chunks
  PROVE  RunsOK'
  <1>1. run' = [run EXCEPT ![r] = Closed(r, "handle")] \/ run' = [run EXCEPT ![r] = Closed(r, "done")]
    BY DEF Rollback
  <1> QED BY <1>1, ClosedMoves, OneRunOnward DEF RunsOK

\* The steps of a run inside its transaction.
LEMMA InTxRuns ==
  ASSUME TypeOK, ChunksOK, RunsOK, NEW r \in RunIds,
         \/ FindDocument(r) \/ ReadFile(r) \/ Wipe(r) \/ MarkProcessing(r)
         \/ (\E b \in Batches : InsertBatch(r, b) \/ BatchFails(r, b))
         \/ PrepareFails(r) \/ MarkFailed(r) \/ MarkReady(r)
  PROVE  RunsOK'
  <1>1. /\ UNCHANGED chunks /\ InTx(r) /\ run[r].pc # "idle" /\ run[r] \in Run /\ run[r].kind # "none"
    BY DEF InTxUnchanged, dbVars, InTx, FindDocument, ReadFile, Wipe, InsertBatch, TypeOK, RunsOK, Atomic, AtomicOf,
           MarkProcessing, BatchFails, PrepareFails, MarkFailed, MarkReady
  <1>2. CASE Rollback(r)
    BY <1>1, <1>2, RollbackRuns
  <1>3. CASE run' = [run EXCEPT ![r] = Closed(r, "ack")]
    BY <1>1, <1>3, ClosedMoves, OneRunOnward DEF RunsOK
  <1>4. ASSUME NEW x, run' = [run EXCEPT ![r] = x], x.kind = run[r].kind, x.leaked = run[r].leaked,
               \/ run[r].pc = "begin" /\ x.pc = "read" /\ x.snap = run[r].snap /\ x.wiped = run[r].wiped
               \/ run[r].pc = "read" /\ x.pc = "wipe" /\ x.snap = Rows /\ x.wiped = run[r].wiped
               \/ run[r].pc = "wipe" /\ x.pc = "mark" /\ x.snap = {} /\ x.wiped = run[r].snap \cap Rows
               \/ /\ run[r].pc \in {"mark", "work", "failed"} /\ x.pc \in {"work", "failed", "commit"}
                  /\ x.snap = run[r].snap /\ x.wiped = run[r].wiped
        PROVE  RunsOK'
    <2>1. Keeps(run[r], x) /\ Moves(run[r], x)
      BY <1>1, <1>4 DEF Keeps, Moves, Open
    <2> QED BY <1>1, <1>4, <2>1, OneRunOnward
  <1>5. CASE FindDocument(r)
    <2>1. ASSUME NEW x, x = [run[r] EXCEPT !.pc = "read"], run' = [run EXCEPT ![r] = x] PROVE RunsOK'
      BY <1>1, <1>4, <1>5, <2>1 DEF FindDocument, Run
    <2> QED BY <1>2, <1>3, <1>5, <2>1 DEF FindDocument, Step
  <1>6. CASE ReadFile(r)
    <2>1. ASSUME NEW x, x = [run[r] EXCEPT !.pc = "wipe", !.snap = Rows], run' = [run EXCEPT ![r] = x] PROVE RunsOK'
      BY <1>1, <1>4, <1>6, <2>1 DEF ReadFile, Run
    <2> QED BY <1>2, <1>6, <2>1 DEF ReadFile
  <1>7. CASE Wipe(r)
    <2>1. ASSUME NEW x, x = [run[r] EXCEPT !.pc = "mark", !.snap = {}, !.wiped = run[r].snap \cap Rows],
                 run' = [run EXCEPT ![r] = x]
          PROVE  RunsOK'
      BY <1>1, <1>4, <1>7, <2>1 DEF Wipe, Run
    <2> QED BY <1>7, <2>1 DEF Wipe
  <1>8. ASSUME run[r].pc \in {"mark", "work", "failed"}, NEW pc \in {"work", "failed", "commit"}, NEW s, NEW x,
               run' = [run EXCEPT ![r] = x],
               \/ x = [run[r] EXCEPT !.pc = pc] \/ x = [run[r] EXCEPT !.pc = pc, !.wrote = s]
               \/ x = [run[r] EXCEPT !.pc = pc, !.stray = s]
               \/ pc = run[r].pc /\ x = [run[r] EXCEPT !.own = s]
        PROVE  RunsOK'
    <2>1. x.kind = run[r].kind /\ x.leaked = run[r].leaked /\ x.pc = pc /\ x.snap = run[r].snap /\ x.wiped = run[r].wiped
      BY <1>1, <1>8 DEF Run
    <2> QED BY <1>4, <1>8, <2>1
  <1>9. CASE MarkProcessing(r) \/ MarkReady(r) \/ MarkFailed(r)
    <2>1. \/ Rollback(r)
          \/ /\ run[r].pc \in {"mark", "work", "failed"}
             /\ \E s \in {"none"} \cup Statuses, pc \in {"work", "commit"} :
                  run' = [run EXCEPT ![r] = [run[r] EXCEPT !.pc = pc, !.wrote = s]]
      BY <1>9 DEF MarkProcessing, MarkFailed, MarkReady, Wrote, Statuses
    <2> QED BY <1>2, <1>8, <2>1
  <1>10. CASE PrepareFails(r)
    BY <1>8, <1>10 DEF PrepareFails, Step
  <1>11. ASSUME NEW b \in Batches, InsertBatch(r, b) \/ BatchFails(r, b) PROVE RunsOK'
    <2>1. CASE InsertBatch(r, b)
      BY <1>2, <1>8, <2>1 DEF InsertBatch
    <2>2. CASE BatchFails(r, b)
      BY <1>8, <2>2 DEF BatchFails
    <2> QED BY <1>11, <2>1, <2>2
  <1> QED BY <1>5, <1>6, <1>7, <1>9, <1>10, <1>11

\* A COMMIT publishes the run's batches, all or none for a consumer run, and the deletion of
\* the rows it wiped: those of every run that had written some.
LEMMA PublishRuns ==
  ASSUME TypeOK, TransactionsOK, ChunksOK, RunsOK, NEW r \in RunIds, run[r].pc = "commit", Publish(r),
         NEW pc \in {"handle", "ack", "done"}, run' = [run EXCEPT ![r] = Closed(r, pc)]
  PROVE  RunsOK'
  <1> DEFINE x == Closed(r, pc)
  <1>1. /\ x.kind = run[r].kind /\ x.pc = pc /\ x.stray = run[r].stray /\ x.leaked = run[r].leaked
        /\ x.snap = {} /\ x.wiped = {}
        /\ Keeps(run[r], x) /\ Moves(run[r], x) /\ InTx(r)
    <2>1. x.kind = run[r].kind /\ x.pc = pc /\ x.snap = {} /\ x.wiped = {} /\ x.stray = run[r].stray
      BY ClosedType DEF TypeOK, PCs
    <2>2. x.leaked = run[r].leaked
      BY DEF Closed, NoRunYet
    <2>3. InTx(r)
      BY DEF InTx
    <2> HIDE DEF x
    <2>4. Keeps(run[r], x) /\ Moves(run[r], x)
      BY <2>3, ClosedMoves DEF RunsOK, x
    <2> QED BY <2>1, <2>2, <2>3, <2>4
  <1>2. run'[r] = x /\ \A q \in RunIds \ {r} : run'[q] = run[q]
    BY DEF TypeOK
  <1> HIDE DEF x
  <1>3. /\ chunks'[r] = run[r].own
        /\ \A q \in RunIds \ {r} : chunks'[q] = chunks[q] \ Part(q, run[r].wiped)
    <2>1. chunks[r] = {} /\ chunks \in [RunIds -> SUBSET Batches]
      BY DEF TypeOK, ChunksOK, InsertsOK
    <2> QED BY <2>1 DEF Publish, Part
  <1>4. \A q \in RunIds : Keeps(run[q], run'[q]) /\ Moves(run[q], run'[q])
    BY <1>1, <1>2, StaysMoves DEF RunsOK
  <1>5. ASSUME NEW p \in RunIds, p # r PROVE AtomicOf(p)'
    BY <1>3, <1>4, <1>5, AtomicInherited DEF RunsOK, Atomic
  <1>6. run[r].kind # "local" => run[r].own = {} \/ (run[r].own = Batches /\ run[r].stray = {})
    <2>1. TxOK(run[r]) /\ InsertsOK(run[r], chunks[r]) /\ run[r].kind \in {"none", "worker", "local"}
          /\ run[r].own \in SUBSET Batches /\ run[r].stray \in SUBSET Batches
      BY DEF TypeOK, Run, TransactionsOK, ChunksOK
    <2>2. run[r].kind # "none"
      BY DEF RunsOK, Atomic, AtomicOf
    <2>3. CASE run[r].wrote = "ready"
      <3>1. run[r].own = Batches
        BY <2>1, <2>3 DEF TxOK
      <3>2. run[r].stray # {} => Batches # {}
        BY <2>1
      <3>3. run[r].own \cup run[r].stray \cup chunks[r] = Batches
        BY <2>1, <3>1 DEF InsertsOK
      <3>4. run[r].stray = {}
        BY <2>1, <3>2, <3>3 DEF InsertsOK
      <3> QED BY <3>1, <3>4
    <2>4. CASE run[r].wrote # "ready" /\ run[r].kind = "worker"
      <3>1. row = "absent"
        BY <2>1, <2>4 DEF TxOK, InsertsOK
      <3> QED BY <2>1, <3>1 DEF TxOK
    <2> QED BY <2>1, <2>2, <2>3, <2>4
  <1>7. AtomicOf(r)'
    <2>1. run[r].leaked = {} /\ run[r].kind # "none" /\ \A c \in Copies(r) : c = {}
      BY DEF RunsOK, Atomic, AtomicOf, OnlyLeaked, Open
    <2>2. ASSUME NEW d \in Copies(r)' PROVE d = {} \/ d = run[r].own
      <3>1. \A q \in RunIds : Part(r, run[q].snap) = {} /\ Part(r, run[q].wiped) = {}
        BY <2>1 DEF Copies
      <3>2. Part(r, {}) = {}
        BY DEF Part
      <3>3. \A q \in RunIds : Part(r, run'[q].snap) = {} /\ Part(r, run'[q].wiped) = {}
        BY <1>1, <1>2, <3>1, <3>2
      <3>4. Copies(r)' = {chunks'[r]} \cup {Part(r, run'[q].snap) : q \in RunIds}
                                      \cup {Part(r, run'[q].wiped) : q \in RunIds}
        BY DEF Copies, Part
      <3> QED BY <1>3, <3>3, <3>4
    <2>3. x.kind # "local" => OnlyLeaked(r)' \/ (x.stray = {} /\ AllOrNone(r)')
      BY <1>1, <1>6, <2>2 DEF OnlyLeaked, AllOrNone
    <2> QED BY <1>1, <1>2, <2>1, <2>3 DEF AtomicOf, Open
  <1>8. ASSUME Consumers = 1 PROVE Single'
    <2>1. Single
      BY <1>8 DEF RunsOK
    <2>2. \A q \in RunIds : q \in LiveWorkers' => q \in LiveWorkers
      BY <1>1, <1>2 DEF LiveWorkers, InTx
    <2>3. \A q, p \in LiveWorkers' : q = p
      BY <2>1, <2>2 DEF Single, LiveWorkers
    <2>4. \A q \in RunIds \ {r} : chunks'[q] \subseteq chunks[q] /\ (Written(q)' => Written(q))
      BY <1>3, <1>4, WrittenBefore
    <2>5. Written(r)' => run[r].kind = "worker"
      <3>1. run[r].kind \in {"worker", "local"}
        BY DEF TypeOK, Run, RunsOK, Atomic, AtomicOf
      <3> QED BY <1>1, <1>2, <3>1 DEF Written
    <2>6. ASSUME NEW q \in RunIds, NEW p \in RunIds, q # p PROVE Rewrites(q, p)'
      <3>1. CASE q # r
        BY <1>4, <2>1, <2>4, <2>6, <3>1, RewritesInherited DEF Single
      <3>2. CASE q = r
        <4> SUFFICES ASSUME Written(r)', run'[p].kind = "worker", run'[p].pc \in {"wipe", "mark", "work", "failed", "commit"}
                     PROVE  FALSE
          BY <3>2 DEF Rewrites
        <4>1. run'[p] = run[p]
          BY <1>2, <2>6, <3>2
        <4>2. p \in LiveWorkers /\ r \in LiveWorkers
          BY <2>5, <4>1 DEF LiveWorkers
        <4> QED BY <2>1, <2>6, <3>2, <4>2 DEF Single
      <3> QED BY <3>1, <3>2
    <2>7. ASSUME NEW q \in RunIds \ {r}, Written(q)', Written(r)' PROVE FALSE
      <3>1. Rewrites(q, r) /\ Written(q) /\ run[r].kind = "worker"
        BY <2>1, <2>4, <2>5, <2>7 DEF Single
      <3>2. chunks[q] \subseteq Part(q, run[r].wiped)
        BY <3>1 DEF Rewrites
      <3>3. chunks'[q] = {}
        BY <1>3, <3>2
      <3> QED BY <2>7, <3>3 DEF Written
    <2>8. ASSUME NEW q \in RunIds, NEW p \in RunIds, q # p, Written(q)', Written(p)' PROVE FALSE
      <3>1. CASE q = r \/ p = r
        BY <2>7, <2>8, <3>1
      <3>2. CASE q # r /\ p # r
        <4>1. Written(q) /\ Written(p)
          BY <2>4, <2>8, <3>2
        <4> QED BY <2>1, <2>8, <4>1 DEF Single, QueueRewritesOnce, Written
      <3> QED BY <3>1, <3>2
    <2>9. QueueRewritesOnce'
      BY <2>8 DEF QueueRewritesOnce, Written
    <2> QED BY <2>3, <2>6, <2>9 DEF Single
  <1> QED BY <1>5, <1>7, <1>8 DEF RunsOK, Atomic

\* A batch in flight when its run failed: inside the transaction it is one of the run's; after
\* it the row is counted as leaked.
LEMMA StrayRuns ==
  ASSUME TypeOK, ChunksOK, RunsOK, NEW r \in RunIds, NEW b \in Batches, StrayInsert(r, b)
  PROVE  RunsOK'
  <1>1. run[r] \in Run /\ run[r].pc # "idle" /\ run[r].kind # "none" /\ b \in run[r].stray
    BY DEF StrayInsert, TypeOK, ChunksOK, InsertsOK, RunsOK, Atomic, AtomicOf
  <1>2. CASE InTx(r) /\ Rollback(r) /\ UNCHANGED chunks
    BY <1>2, RollbackRuns
  <1>3. ASSUME InTx(r), UNCHANGED chunks, NEW x, run' = [run EXCEPT ![r] = x],
               x = [run[r] EXCEPT !.stray = run[r].stray \ {b}, !.own = run[r].own \cup {b}]
        PROVE  RunsOK'
    <2>1. /\ x.kind = run[r].kind /\ x.leaked = run[r].leaked /\ x.pc = run[r].pc
          /\ x.snap = run[r].snap /\ x.wiped = run[r].wiped
      BY <1>1, <1>3 DEF Run
    <2>2. Keeps(run[r], x) /\ Moves(run[r], x)
      BY <1>1, <1>3, <2>1 DEF Keeps, Moves, Open, InTx
    <2> QED BY <1>1, <1>3, <2>2, OneRunOnward
  <1>4. ASSUME ~InTx(r), chunks' = [chunks EXCEPT ![r] = @ \cup {b}], NEW x, run' = [run EXCEPT ![r] = x],
               x = [run[r] EXCEPT !.stray = run[r].stray \ {b}, !.leaked = run[r].leaked \cup {b}]
        PROVE  RunsOK'
    <2>1. /\ x.kind = run[r].kind /\ x.leaked = run[r].leaked \cup {b} /\ x.pc = run[r].pc
          /\ x.snap = run[r].snap /\ x.wiped = run[r].wiped /\ run[r].pc \notin Open \cup {"idle"}
      BY <1>1, <1>4 DEF Run, Open, InTx
    <2>2. /\ run'[r] = x /\ chunks'[r] = chunks[r] \cup {b}
          /\ \A q \in RunIds \ {r} : run'[q] = run[q] /\ chunks'[q] = chunks[q]
      BY <1>4 DEF TypeOK
    <2>3. \A q \in RunIds : run'[q].snap = run[q].snap /\ run'[q].wiped = run[q].wiped
      BY <2>1, <2>2
    <2>4. run[r].kind # "local" => OnlyLeaked(r)
      BY <1>1 DEF RunsOK, Atomic, AtomicOf
    <2>5. ASSUME NEW p \in RunIds, p # r PROVE AtomicOf(p)'
      <3>1. Moves(run[p], run'[p]) /\ AtomicOf(p)
        BY <2>2, <2>5, StaysMoves DEF RunsOK, Atomic
      <3>2. \A q \in RunIds : Keeps(run[q], run'[q])
        BY <2>3 DEF Keeps
      <3> QED BY <2>2, <2>5, <3>1, <3>2, AtomicInherited
    <2>6. AtomicOf(r)'
      <3>1. Copies(r)' = {chunks'[r]} \cup {Part(r, run'[q].snap) : q \in RunIds}
                                      \cup {Part(r, run'[q].wiped) : q \in RunIds}
        BY DEF Copies, Part
      <3>2. ASSUME NEW d \in Copies(r)' PROVE d = chunks[r] \cup {b} \/ d \in Copies(r)
        BY <2>2, <2>3, <3>1 DEF Copies
      <3>3. chunks[r] \in Copies(r)
        BY DEF Copies
      <3>4. x.kind # "local" => OnlyLeaked(r)'
        BY <2>1, <2>2, <2>4, <3>2, <3>3 DEF OnlyLeaked
      <3> QED BY <1>1, <2>1, <2>2, <3>4 DEF AtomicOf
    <2>7. ASSUME Consumers = 1 PROVE Single'
      <3>1. Single
        BY <2>7 DEF RunsOK
      <3>2. \A q \in RunIds : q \in LiveWorkers' => q \in LiveWorkers
        BY <2>1, <2>2 DEF LiveWorkers
      <3>3. \A q, p \in LiveWorkers' : q = p
        BY <3>1, <3>2 DEF Single, LiveWorkers
      <3>4. ~Written(r)'
        <4>1. chunks[r] \in Copies(r)
          BY DEF Copies
        <4> QED BY <2>1, <2>2, <2>4, <4>1 DEF Written, OnlyLeaked
      <3>5. \A q \in RunIds : Written(q)' => q # r /\ Written(q) /\ chunks'[q] = chunks[q]
        BY <2>2, <3>4 DEF Written
      <3>6. ASSUME NEW q \in RunIds, NEW p \in RunIds, q # p PROVE Rewrites(q, p)'
        <4>1. CASE p = r
          BY <2>1, <2>2, <4>1 DEF Rewrites, Open
        <4>2. CASE p # r
          <5>1. Rewrites(q, p) /\ run'[p] = run[p]
            BY <2>2, <3>1, <3>6, <4>2 DEF Single
          <5> QED BY <3>5, <5>1 DEF Rewrites, Part
        <4> QED BY <4>1, <4>2
      <3>7. QueueRewritesOnce'
        <4>1. ASSUME NEW q \in RunIds, NEW p \in RunIds, q # p, Written(q)', Written(p)' PROVE FALSE
          BY <3>1, <3>5, <4>1 DEF Single, QueueRewritesOnce, Written
        <4> QED BY <4>1 DEF QueueRewritesOnce, Written
      <3> QED BY <3>3, <3>6, <3>7 DEF Single
    <2> QED BY <2>5, <2>6, <2>7 DEF RunsOK, Atomic
  <1>5. \/ InTx(r) /\ Rollback(r) /\ UNCHANGED chunks
        \/ /\ InTx(r) /\ UNCHANGED chunks
           /\ run' = [run EXCEPT ![r] = [run[r] EXCEPT !.stray = run[r].stray \ {b}, !.own = run[r].own \cup {b}]]
        \/ /\ ~InTx(r) /\ chunks' = [chunks EXCEPT ![r] = @ \cup {b}]
           /\ run' = [run EXCEPT ![r] = [run[r] EXCEPT !.stray = run[r].stray \ {b}, !.leaked = run[r].leaked \cup {b}]]
    BY DEF StrayInsert
  <1> QED BY <1>2, <1>3, <1>4, <1>5

\* A consumer run starts only when a consumer is free.
LEMMA StartRuns ==
  ASSUME TypeOK, ChunksOK, RunsOK, NEW k \in {"worker", "local"}, NEW a, StartRun(k, a), UNCHANGED chunks,
         k = "worker" => Cardinality(LiveWorkers) < Consumers
  PROVE  RunsOK'
  <1>n. PICK n \in RunIds : n = nruns + 1
    BY IngestionAssumption DEF StartRun, TypeOK, RunIds
  <1>1. run[n].pc = "idle" /\ run[n].leaked = {}
    <2>1. nruns \in Nat /\ n > nruns
      BY <1>n, IngestionAssumption DEF TypeOK
    <2> QED BY <2>1 DEF ChunksOK, RunsOK, Atomic, AtomicOf
  <1> DEFINE x == NewRun(k, a)
  <1>2. x.kind = k /\ x.leaked = {} /\ x.snap = {} /\ x.wiped = {} /\ x.pc = IF k = "worker" THEN "begin" ELSE "mark"
    BY DEF NewRun, NoRunYet
  <1>3. run'[n] = x /\ \A q \in RunIds \ {n} : run'[q] = run[q]
    BY <1>n DEF StartRun, TypeOK
  <1> HIDE DEF x
  <1>4. Keeps(run[n], x) /\ Moves(run[n], x)
    BY <1>1, <1>2 DEF Keeps, Moves, Open
  <1>5. \A q \in RunIds : Keeps(run[q], run'[q]) /\ Moves(run[q], run'[q])
    BY <1>3, <1>4, StaysMoves DEF RunsOK
  <1>6. Atomic'
    BY <1>5, AtomicInherited DEF RunsOK, Atomic
  <1>7. ASSUME Consumers = 1 PROVE Single'
    <2>1. Single
      BY <1>7 DEF RunsOK
    <2>2. ASSUME k = "worker" PROVE LiveWorkers = {}
      <3>1. IsFiniteSet(LiveWorkers)
        <4>1. IsFiniteSet(RunIds)
          BY FS_Interval, IngestionAssumption DEF RunIds
        <4>2. LiveWorkers \subseteq RunIds
          BY DEF LiveWorkers
        <4> QED BY <4>1, <4>2, FS_Subset
      <3>2. Cardinality(LiveWorkers) \in Nat /\ (Cardinality(LiveWorkers) = 0 <=> LiveWorkers = {})
        BY <3>1, FS_CardinalityType, FS_EmptySet
      <3> QED BY <1>7, <2>2, <3>2
    <2>3. \A q \in RunIds : q \in LiveWorkers' => q \in LiveWorkers \/ (q = n /\ k = "worker")
      BY <1>2, <1>3 DEF LiveWorkers
    <2>4. \A q, p \in LiveWorkers' : q = p
      BY <2>1, <2>2, <2>3 DEF Single, LiveWorkers
    <2> QED BY <1>5, <2>1, <2>4, SingleInherited
  <1> QED BY <1>6, <1>7 DEF RunsOK

\* No run moves, and nothing is committed except a deletion of the document.
LEMMA NoRunOnward ==
  ASSUME TypeOK, ChunksOK, RunsOK, UNCHANGED run, \A p \in RunIds : chunks'[p] \in {chunks[p], {}}
  PROVE  RunsOK'
  <1>1. \A q \in RunIds : Keeps(run[q], run'[q]) /\ Moves(run[q], run'[q])
    BY StaysMoves DEF RunsOK
  <1>2. Atomic'
    BY <1>1, AtomicInherited DEF RunsOK, Atomic
  <1>3. ASSUME Consumers = 1 PROVE Single'
    <2>1. Single /\ \A q, p \in LiveWorkers' : q = p
      BY <1>3 DEF RunsOK, Single, LiveWorkers
    <2> QED BY <1>1, <2>1, SingleInherited
  <1> QED BY <1>2, <1>3 DEF RunsOK

\* The death of the process ends every run, its batches in flight included.
LEMMA CrashRuns ==
  ASSUME TypeOK, ChunksOK, RunsOK, Crash
  PROVE  RunsOK'
  <1>1. ASSUME NEW q \in RunIds
        PROVE  /\ Keeps(run[q], run'[q]) /\ Moves(run[q], run'[q])
               /\ run'[q].pc \in {"idle", "done"}
    <2> DEFINE ended(pc) == [Closed(q, pc) EXCEPT !.stray = {}]
    <2>1. ASSUME NEW pc
          PROVE  /\ ended(pc).pc = pc /\ ended(pc).kind = run[q].kind /\ ended(pc).leaked = run[q].leaked
                 /\ ended(pc).stray = {} /\ ended(pc).snap = {} /\ ended(pc).wiped = {}
      BY DEF Closed, NoRunYet
    <2>2. run'[q] = ended(IF run[q].pc = "idle" THEN "idle" ELSE "done")
      BY DEF Crash
    <2> HIDE DEF ended
    <2>3. /\ run'[q].pc = IF run[q].pc = "idle" THEN "idle" ELSE "done"
          /\ run'[q].kind = run[q].kind /\ run'[q].leaked = run[q].leaked /\ run'[q].stray = {}
          /\ run'[q].snap = {} /\ run'[q].wiped = {}
      BY <2>1, <2>2
    <2> QED BY <2>3 DEF Keeps, Moves, Open, RunsOK, Atomic, AtomicOf
  <1>2. UNCHANGED chunks
    BY DEF Crash, dbVars
  <1>3. Atomic'
    BY <1>1, <1>2, AtomicInherited DEF RunsOK, Atomic
  <1>4. ASSUME Consumers = 1 PROVE Single'
    <2>1. \A q, p \in LiveWorkers' : q = p
      BY <1>1 DEF LiveWorkers
    <2> QED BY <1>1, <1>2, <1>4, <2>1, SingleInherited DEF RunsOK
  <1> QED BY <1>3, <1>4 DEF RunsOK

\* The COMMIT, the handling of a failure, the offset, and what takes a run's connection away.
LEMMA EndingRuns ==
  ASSUME TypeOK, TransactionsOK, ChunksOK, RunsOK, NEW r \in RunIds,
         \/ RunCommit(r) \/ Reenqueue(r) \/ ReenqueueFails(r) \/ DeadLetter(r) \/ DeadLetterFails(r)
         \/ Ack(r) \/ ConnectionLost(r) \/ CommitVoided(r) \/ DeadlockAbort(r)
  PROVE  RunsOK'
  <1> USE DEF dbVars
  <1>1. CASE RunCommit(r)
    <2>1. /\ run[r].pc = "commit" /\ Publish(r)
          /\ run' = [run EXCEPT ![r] = Closed(r, "ack")] \/ run' = [run EXCEPT ![r] = Closed(r, "done")]
      BY <1>1 DEF RunCommit
    <2> QED BY <2>1, PublishRuns
  <1>2. CASE Reenqueue(r) \/ ReenqueueFails(r) \/ DeadLetter(r) \/ DeadLetterFails(r) \/ Ack(r)
    <2>1. /\ Step(r, "ack") \/ Step(r, "done")
          /\ run[r].pc = "handle" \/ (run[r].pc = "ack" /\ Step(r, "done"))
          /\ UNCHANGED chunks
      BY <1>2 DEF Reenqueue, ReenqueueFails, DeadLetter, DeadLetterFails, Ack
    <2>2. ASSUME NEW pc \in {"ack", "done"}, NEW x, x = [run[r] EXCEPT !.pc = pc], run' = [run EXCEPT ![r] = x]
          PROVE  RunsOK'
      <3>1. /\ x.pc = pc /\ x.kind = run[r].kind /\ x.leaked = run[r].leaked /\ x.stray = run[r].stray
            /\ x.snap = run[r].snap /\ x.wiped = run[r].wiped
        BY <2>2 DEF TypeOK, Run
      <3>2. run[r].pc \in {"handle", "ack"} /\ run[r].kind # "none"
        BY <2>1 DEF RunsOK, Atomic, AtomicOf
      <3>3. Keeps(run[r], x) /\ Moves(run[r], x)
        BY <3>1, <3>2 DEF Keeps, Moves, Open
      <3> QED BY <2>1, <2>2, <3>2, <3>3, OneRunOnward
    <2> QED BY <2>1, <2>2 DEF Step
  <1>3. CASE ConnectionLost(r)
    <2>1. InTx(r) /\ Rollback(r)
      BY <1>3 DEF ConnectionLost
    <2>2. CASE UNCHANGED chunks
      BY <2>1, <2>2, RollbackRuns
    <2>3. CASE run[r].pc = "commit" /\ Publish(r)
      <3>1. run' = [run EXCEPT ![r] = Closed(r, "handle")] \/ run' = [run EXCEPT ![r] = Closed(r, "done")]
        BY <2>1 DEF Rollback
      <3> QED BY <2>3, <3>1, PublishRuns
    <2> QED BY <1>3, <2>2, <2>3 DEF ConnectionLost
  <1>4. CASE CommitVoided(r)
    <2>1. /\ InTx(r) /\ UNCHANGED chunks
          /\ run' = [run EXCEPT ![r] = Closed(r, "ack")] \/ run' = [run EXCEPT ![r] = Closed(r, "done")]
      BY <1>4 DEF CommitVoided, InTx
    <2> QED BY <2>1, ClosedMoves, OneRunOnward DEF RunsOK
  <1>5. CASE DeadlockAbort(r)
    <2>1. UNCHANGED chunks /\ InTx(r)
      BY <1>5 DEF DeadlockAbort, InTx
    <2>2. CASE Rollback(r)
      BY <2>1, <2>2, RollbackRuns
    <2>3. CASE UNCHANGED run
      BY <2>1, <2>3, NoRunOnward
    <2> QED BY <1>5, <2>2, <2>3 DEF DeadlockAbort
  <1> QED BY <1>1, <1>2, <1>3, <1>4, <1>5

\* The requests, the consumer, and the faults that take no run's connection.
LEMMA RequestRuns ==
  ASSUME TypeOK, ChunksOK, RunsOK,
         \/ UploadSave \/ UploadStep \/ UploadDisconnect \/ RetryCheck \/ RetryDispatch
         \/ DeleteLock \/ DeleteStep \/ DeleteDisconnect \/ Deliver \/ Evict \/ LoseMessages
         \/ Crash
  PROVE  RunsOK'
  <1> USE DEF dbVars, runVars
  <1>1. CASE UploadDispatch \/ RetryDispatch
    <2>1. UNCHANGED chunks /\ (UNCHANGED run \/ StartRun("local", 0))
      BY <1>1 DEF UploadDispatch, RetryDispatch, Dispatch
    <2> QED BY <2>1, StartRuns, NoRunOnward
  <1>2. CASE Deliver
    <2>1. UNCHANGED chunks /\ StartRun("worker", Head(queue)) /\ Cardinality(LiveWorkers) < Consumers
      BY <1>2 DEF Deliver
    <2> QED BY <2>1, StartRuns
  <1>3. CASE \/ UploadSave \/ UploadCreate \/ UploadStray \/ UploadLate \/ UploadCommit
             \/ UploadDisconnect \/ RetryCheck \/ LoseMessages
             \/ DeleteLock \/ DeleteStep \/ DeleteDisconnect \/ Evict
    <2>1. UNCHANGED run /\ \A p \in RunIds : chunks'[p] \in {chunks[p], {}}
      BY <1>3 DEF UploadSave, UploadCreate, UploadStray, UploadLate, UploadCommit, UploadDisconnect, RetryCheck,
           LoseMessages, DeleteLock, DeleteStep, DeleteCascade, DeleteFile, DeleteCommit, DeleteDisconnect, Evict
    <2> QED BY <2>1, NoRunOnward
  <1>4. CASE Crash
    BY <1>4, CrashRuns
  <1> QED BY <1>1, <1>2, <1>3, <1>4 DEF UploadStep

\* Every run is atomic, and with one consumer process none adds to the chunks of another.
LEMMA RunsCorrect == Spec => []RunsOK
  <1>1. Init => RunsOK
    <2> SUFFICES ASSUME Init PROVE RunsOK
      OBVIOUS
    <2>1. \A p \in RunIds : run[p] = NoRunYet /\ chunks[p] = {}
      BY DEF Init
    <2>2. \A p \in RunIds : run[p].kind = "none" /\ run[p].pc = "idle" /\ run[p].leaked = {} /\ run[p].snap = {}
                            /\ run[p].wiped = {}
      BY <2>1 DEF NoRunYet
    <2>3. ASSUME NEW p \in RunIds PROVE OnlyLeaked(p)
      BY <2>1, <2>2 DEF OnlyLeaked, Copies, Part
    <2>4. Atomic
      BY <2>2, <2>3 DEF Atomic, AtomicOf
    <2>5. Single
      BY <2>1, <2>2 DEF Single, LiveWorkers, Rewrites, Written, QueueRewritesOnce
    <2> QED BY <2>4, <2>5 DEF RunsOK
  <1>2. TypeOK /\ TransactionsOK /\ ChunksOK /\ RunsOK /\ [Next]_vars => RunsOK'
    <2> SUFFICES ASSUME TypeOK, TransactionsOK, ChunksOK, RunsOK, [Next]_vars PROVE RunsOK'
      OBVIOUS
    <2>1. CASE UNCHANGED vars
      BY <2>1, NoRunOnward DEF vars
    <2>2. CASE Next
      BY <2>2, InTxRuns, EndingRuns, StrayRuns, RequestRuns DEF Next, RunStep
    <2> QED BY <2>1, <2>2
  <1> QED BY <1>1, <1>2, TypeCorrect, TransactionsCorrect, ChunksCorrect, PTL DEF Spec

\* Whatever fails, is redelivered or retried, a consumer run leaves all of its chunks or none,
\* except for batches that were still in flight when it failed.
THEOREM WorkersAreAtomic == Spec => []WorkerAtomic
  <1>1. RunsOK => WorkerAtomic
    <2> SUFFICES ASSUME RunsOK, NEW r \in RunIds, run[r].kind = "worker"
                 PROVE  chunks[r] \in {{}, Batches} \/ chunks[r] \subseteq run[r].leaked
      BY DEF WorkerAtomic
    <2>1. chunks[r] \in Copies(r)
      BY DEF Copies
    <2> QED BY <2>1 DEF RunsOK, Atomic, AtomicOf, OnlyLeaked, AllOrNone
  <1> QED BY <1>1, RunsCorrect, PTL

\* With one consumer process, redelivery, crashes, evictions and retries never leave a document
\* two sets of chunks from the topic.
THEOREM TopicWritesOnce == Consumers = 1 => (Spec => []QueueRewritesOnce)
  <1> SUFFICES ASSUME Consumers = 1 PROVE Spec => []QueueRewritesOnce
    OBVIOUS
  <1>1. RunsOK => QueueRewritesOnce
    BY DEF RunsOK, Single
  <1> QED BY <1>1, RunsCorrect, PTL

=============================================================================
