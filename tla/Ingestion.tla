----------------------------- MODULE Ingestion -----------------------------
(***************************************************************************)
(* The life of ONE document of the FUGU backend, from POST /documents to   *)
(* its deletion: the upload, retry and delete requests, the Kafka topic    *)
(* document.ingest with its dead-letter topic, the consumer that runs      *)
(* processDocument, the in-process fallback, and the Postgres transactions *)
(* (READ COMMITTED) they run in.  Every statement is keyed by the          *)
(* document's id and the Kafka key is that id, so one document is enough;  *)
(* what other documents' requests can do to this one's connection (see     *)
(* OrgScope) is among the faults.                                          *)
(*                                                                         *)
(* A RUN is one execution of _processAsync inside its own runInOrgScope    *)
(* transaction: a "worker" run is started by the consumer for the message  *)
(* at the head of the topic, a "local" run by _dispatch when the broker    *)
(* refuses the message.  A run's writes are invisible until its COMMIT;    *)
(* what it wrote so far is kept in `run', what is committed in `row',      *)
(* `count' and `chunks'.                                                   *)
(***************************************************************************)
EXTENDS Naturals, Sequences, FiniteSets

CONSTANTS
  Batches,       \* the batches of chunks the parsed text is cut into ({}: empty text)
  MaxAttempts,   \* INGESTION_MAX_ATTEMPTS
  Consumers,     \* processes in the consumer group "ingestion-workers"
  QueueEnabled,  \* INGESTION_QUEUE_ENABLED
  MaxRuns,       \* bound: runs in a behaviour
  MaxRetries,    \* bound: POST /documents/:id/retry requests
  MaxFaults      \* bound: disconnects, crashes, evictions, broker errors, lost messages,
                 \* lost or voided transactions

ASSUME IngestionAssumption ==
  /\ IsFiniteSet(Batches)
  /\ MaxAttempts \in Nat \ {0}
  /\ Consumers \in Nat \ {0}
  /\ QueueEnabled \in BOOLEAN
  /\ MaxRuns \in Nat
  /\ MaxRetries \in Nat
  /\ MaxFaults \in Nat

RunIds == 1..MaxRuns
NoRun == 0

Statuses == {"pending", "processing", "ready", "failed"}

VARIABLES
  row,        \* committed status of the documents row, "absent" when there is none
  count,      \* committed chunk_count, as the set of batches it counts
  chunks,     \* committed document_chunks rows: run that inserted them -> batches
  file,       \* the uploaded file is in the document store
  run,        \* the runs
  nruns,      \* how many runs were started
  queue,      \* topic document.ingest from the committed offset on: attempt numbers
  current,    \* the run that holds the head of the topic, NoRun when it is undelivered
  dlq,        \* a message of the document reached document.ingest.dlq
  abandoned,  \* since the last retry, a job was given up: lost, or ended without a status
  upload,     \* progress of the POST /documents request
  retry,      \* progress of a POST /documents/:id/retry request
  nretries,   \* how many retry requests were made
  del,        \* progress of the DELETE /documents/:id request
  faults      \* how many faults happened

dbVars   == <<row, count, chunks>>
runVars  == <<run, nruns>>
mqVars   == <<queue, current, dlq>>
httpVars == <<upload, retry, nretries, del>>
vars == <<row, count, chunks, file, run, nruns, queue, current, dlq, abandoned,
          upload, retry, nretries, del, faults>>

-----------------------------------------------------------------------------
(* Runs and the locks their transactions hold.                             *)

PCs == {"idle", "begin", "read", "wipe", "mark", "work", "failed", "commit",
        "handle", "ack", "done"}

\* Rows of document_chunks: who inserted them, and their batch.
ChunkRows == RunIds \X Batches

Run == [kind    : {"none", "worker", "local"},
        attempt : 0..MaxAttempts,
        pc      : PCs,
        snap    : SUBSET ChunkRows,       \* rows its DELETE saw
        wiped   : SUBSET ChunkRows,       \* rows it deleted, not yet committed
        own     : SUBSET Batches,         \* batches it inserted, not yet committed
        wrote   : {"none"} \cup Statuses, \* status it wrote, not yet committed
        stray   : SUBSET Batches,         \* batches still in flight after its failure
        leaked  : SUBSET Batches]         \* those inserted after its transaction was over

NoRunYet == [kind |-> "none", attempt |-> 0, pc |-> "idle", snap |-> {}, wiped |-> {},
             own |-> {}, wrote |-> "none", stray |-> {}, leaked |-> {}]

NewRun(k, a) == [NoRunYet EXCEPT !.kind = k, !.attempt = a,
                                 !.pc = IF k = "worker" THEN "begin" ELSE "mark"]

\* The run's transaction is over: COMMIT or ROLLBACK and client.release().
Closed(r, pc) == [NoRunYet EXCEPT !.kind = run[r].kind, !.attempt = run[r].attempt,
                                  !.stray = run[r].stray, !.leaked = run[r].leaked,
                                  !.pc = pc]

InTx(r) == run[r].pc \in {"begin", "read", "wipe", "mark", "work", "failed", "commit"}
LiveWorkers == {r \in RunIds : run[r].kind = "worker" /\ run[r].pc \notin {"idle", "done"}}

Rows == {x \in ChunkRows : x[2] \in chunks[x[1]]}

\* The DELETE request's transaction holds the row lock from its DELETE to its end.
Deleting == del \in {"locked", "deleted", "filed"}

\* UPDATE documents ... WHERE id = $1 does not wait for another row lock.
RowFree(r) == /\ ~Deleting
              /\ \A q \in RunIds \ {r} : run[q].wrote = "none"

\* INSERT INTO document_chunks takes a KEY SHARE lock on the parent row, which only
\* the DELETE of that row conflicts with.
ParentFree == ~Deleting

\* An UPDATE of the status: zero rows (and no lock) when no row is visible.
Wrote(s) == IF row = "absent" THEN "none" ELSE s

-----------------------------------------------------------------------------
Init ==
  /\ row = "absent" /\ count = {} /\ chunks = [r \in RunIds |-> {}]
  /\ file = FALSE
  /\ run = [r \in RunIds |-> NoRunYet] /\ nruns = 0
  /\ queue = <<>> /\ current = NoRun /\ dlq = FALSE
  /\ abandoned = FALSE
  /\ upload = "idle" /\ retry = "idle" /\ nretries = 0 /\ del = "idle"
  /\ faults = 0

Fault == faults < MaxFaults /\ faults' = faults + 1

StartRun(k, a) ==
  /\ nruns < MaxRuns
  /\ nruns' = nruns + 1
  /\ run' = [run EXCEPT ![nruns + 1] = NewRun(k, a)]

\* enqueueIngestion of attempt 1; when it throws (the broker may or may not have
\* taken the message) the document is processed in this process, fire and forget.
Dispatch ==
  \/ /\ QueueEnabled
     /\ queue' = Append(queue, 1)
     /\ UNCHANGED <<run, nruns, faults>>
  \/ /\ QueueEnabled
     /\ Fault
     /\ queue' \in {queue, Append(queue, 1)}
     /\ StartRun("local", 0)
  \/ /\ ~QueueEnabled
     /\ StartRun("local", 0)
     /\ UNCHANGED <<queue, faults>>

-----------------------------------------------------------------------------
(* POST /documents                                                         *)

\* StorageService.save
UploadSave ==
  /\ upload = "idle"
  /\ upload' = "saved"
  /\ file' = TRUE
  /\ UNCHANGED <<dbVars, runVars, mqVars, abandoned, retry, nretries, del, faults>>

\* INSERT INTO documents, in the request's transaction.
UploadCreate ==
  /\ upload = "saved"
  /\ upload' = "created"
  /\ UNCHANGED <<dbVars, file, runVars, mqVars, abandoned, retry, nretries, del, faults>>

\* The client left during the save: the INSERT goes out on the released connection, where
\* it commits by itself, joins the transaction of another request, or is rejected (which
\* ends the handler).
UploadStray ==
  /\ upload = "adrift"
  /\ \/ upload' = "inserted" /\ row' = "pending"
     \/ upload' \in {"joined", "done"} /\ UNCHANGED row
  /\ UNCHANGED <<count, chunks, file, runVars, mqVars, abandoned, retry, nretries, del, faults>>

\* The transaction the INSERT has joined ends.
UploadLate ==
  /\ upload \in {"joined", "sent"}
  /\ \/ /\ row' = "pending"
        /\ upload' = IF upload = "joined" THEN "inserted" ELSE "done"
     \/ /\ UNCHANGED row
        /\ upload' = IF upload = "joined" THEN "gone" ELSE "done"
  /\ UNCHANGED <<count, chunks, file, runVars, mqVars, abandoned, retry, nretries, del, faults>>

\* The job is dispatched before the row is committed, and also when the client is
\* gone, whatever became of the row.
UploadDispatch ==
  /\ upload \in {"created", "joined", "gone", "inserted"}
  /\ upload' = CASE upload = "created" -> "dispatched"
                 [] upload = "joined" -> "sent"
                 [] OTHER -> "done"
  /\ Dispatch
  /\ UNCHANGED <<dbVars, file, current, dlq, abandoned, retry, nretries, del>>

\* res.json(202) ends the response, which commits first.
UploadCommit ==
  /\ upload = "dispatched"
  /\ upload' = "done"
  /\ row' = "pending"
  /\ UNCHANGED <<count, chunks, file, runVars, mqVars, abandoned, retry, nretries, del, faults>>

\* 'close' without an ended response: ROLLBACK and release, while the handler goes on.
UploadDisconnect ==
  /\ upload \in {"saved", "created", "dispatched"}
  /\ Fault
  /\ upload' = CASE upload = "saved" -> "adrift"
                 [] upload = "created" -> "gone"
                 [] OTHER -> "done"
  /\ UNCHANGED <<dbVars, file, runVars, mqVars, abandoned, retry, nretries, del>>

-----------------------------------------------------------------------------
(* POST /documents/:id/retry                                               *)

\* Only the status committed now is tested, and nothing is written; a missing file
\* makes StorageService.read throw and the request fail.
RetryCheck ==
  /\ retry = "idle"
  /\ nretries < MaxRetries
  /\ row \in {"failed", "pending"}
  /\ file
  /\ nretries' = nretries + 1
  /\ retry' = "checked"
  /\ UNCHANGED <<dbVars, file, runVars, mqVars, abandoned, upload, del, faults>>

\* A retry starts a new job, whatever became of the earlier ones.
RetryDispatch ==
  /\ retry = "checked"
  /\ retry' = "idle"
  /\ Dispatch
  /\ abandoned' = FALSE
  /\ UNCHANGED <<dbVars, file, current, dlq, upload, nretries, del>>

-----------------------------------------------------------------------------
(* DELETE /documents/:id                                                   *)

\* DELETE FROM documents: waits for every lock on the row, then holds it.
DeleteLock ==
  /\ del = "idle"
  /\ row # "absent"
  /\ \A r \in RunIds : run[r].wrote = "none" /\ run[r].own = {}
  /\ del' = "locked"
  /\ UNCHANGED <<dbVars, file, runVars, mqVars, abandoned, upload, retry, nretries, faults>>

\* ON DELETE CASCADE removes the chunks: waits for runs that have deleted some of them.
DeleteCascade ==
  /\ del = "locked"
  /\ \A r \in RunIds : run[r].wiped = {}
  /\ del' = "deleted"
  /\ UNCHANGED <<dbVars, file, runVars, mqVars, abandoned, upload, retry, nretries, faults>>

\* StorageService.delete, before the COMMIT; its errors are swallowed (the file stays).
DeleteFile ==
  /\ del = "deleted"
  /\ del' = "filed"
  /\ file' \in {FALSE, file}
  /\ UNCHANGED <<dbVars, runVars, mqVars, abandoned, upload, retry, nretries, faults>>

\* Mutation: the response is never ended, so the transaction never is.
DeleteUnanswered == del = "filed" /\ UNCHANGED vars

DeleteCommit ==
  /\ del = "filed"
  /\ del' = "done"
  /\ row' = "absent" /\ count' = {} /\ chunks' = [r \in RunIds |-> {}]
  /\ UNCHANGED <<file, runVars, mqVars, abandoned, upload, retry, nretries, faults>>

\* The client goes away: ROLLBACK once the DELETE statement is over; the handler goes
\* on and deletes the file all the same.
DeleteDisconnect ==
  /\ del \in {"deleted", "filed"}
  /\ Fault
  /\ del' = "idle"
  /\ file' \in {FALSE, file}
  /\ UNCHANGED <<dbVars, runVars, mqVars, abandoned, upload, retry, nretries>>

-----------------------------------------------------------------------------
(* The consumer: eachMessage -> handleIngestMessage -> processDocument     *)

\* Mutation: eachMessage does not await the handler, so the offset is committed at once
\* and several messages are handled at a time.
DeliverUnawaited ==
  /\ queue # <<>>
  /\ StartRun("worker", Head(queue))
  /\ queue' = Tail(queue)
  /\ UNCHANGED <<dbVars, file, current, dlq, abandoned, httpVars, faults>>

\* The head of the topic goes to a consumer that is not busy.
Deliver ==
  /\ queue # <<>> /\ current = NoRun
  /\ Cardinality(LiveWorkers) < Consumers
  /\ StartRun("worker", Head(queue))
  /\ current' = nruns + 1
  /\ UNCHANGED <<dbVars, file, queue, dlq, abandoned, httpVars, faults>>

Step(r, pc) == run' = [run EXCEPT ![r] = [@ EXCEPT !.pc = pc]]

\* The rest of the state that a step of a run inside its transaction leaves alone.
InTxUnchanged == UNCHANGED <<dbVars, file, nruns, mqVars, httpVars, faults>>

\* The transaction is rolled back and runInOrgScope throws: to handleIngestMessage for
\* a worker, into a log line for a local run.
Rollback(r) ==
  /\ run' = [run EXCEPT ![r] = Closed(r, IF @.kind = "worker" THEN "handle" ELSE "done")]
  /\ abandoned' = (abandoned \/ run[r].kind = "local")

\* Mutation: a document that is not there counts as done (the code did so once).
FindDocumentSilent(r) ==
  /\ run[r].pc = "begin"
  /\ \/ row \in {"absent", "ready"} /\ run' = [run EXCEPT ![r] = Closed(r, "ack")]
     \/ row \in {"pending", "failed"} /\ Step(r, "read")
  /\ UNCHANGED abandoned /\ InTxUnchanged

\* findById: no row -> throw; READY -> return (an empty commit); else go on.
FindDocument(r) ==
  /\ run[r].pc = "begin"
  /\ \/ row = "absent" /\ Rollback(r)
     \/ /\ row = "ready"
        /\ run' = [run EXCEPT ![r] = Closed(r, "ack")]
        /\ UNCHANGED abandoned
     \/ /\ row \notin {"absent", "ready"}
        /\ Step(r, "read")
        /\ UNCHANGED abandoned
  /\ InTxUnchanged

\* StorageService.read, then DELETE FROM document_chunks takes its snapshot.
ReadFile(r) ==
  /\ run[r].pc = "read"
  /\ \/ /\ file
        /\ run' = [run EXCEPT ![r] = [@ EXCEPT !.pc = "wipe", !.snap = Rows]]
        /\ UNCHANGED abandoned
     \/ Rollback(r)
  /\ InTxUnchanged

\* Mutation: the old chunks are deleted on the pool, outside the run's transaction.
WipeAutocommit(r) ==
  /\ run[r].pc = "wipe"
  /\ run' = [run EXCEPT ![r] = [@ EXCEPT !.pc = "mark", !.snap = {}]]
  /\ chunks' = [q \in RunIds |-> {b \in chunks[q] : <<q, b>> \notin run[r].snap}]
  /\ UNCHANGED <<row, count, file, nruns, mqVars, abandoned, httpVars, faults>>

\* The DELETE waits for other transactions that deleted rows of its snapshot; the rows
\* they committed to delete are skipped.
Wipe(r) ==
  /\ run[r].pc = "wipe"
  /\ run[r].snap = {} \/ del \notin {"deleted", "filed"}
  /\ \A q \in RunIds \ {r} : run[q].wiped \cap run[r].snap = {}
  /\ run' = [run EXCEPT ![r] = [@ EXCEPT !.pc = "mark", !.snap = {},
                                          !.wiped = run[r].snap \cap Rows]]
  /\ UNCHANGED abandoned /\ InTxUnchanged

-----------------------------------------------------------------------------
(* _processAsync                                                           *)

\* Mutation: the status is written outside the transaction, to be visible at once.
MarkProcessingAutocommit(r) ==
  /\ run[r].pc = "mark"
  /\ RowFree(r)
  /\ Step(r, "work")
  /\ row' = Wrote("processing")
  /\ UNCHANGED <<count, chunks, file, nruns, mqVars, abandoned, httpVars, faults>>

\* UPDATE documents SET status = 'processing'
MarkProcessing(r) ==
  /\ run[r].pc = "mark"
  /\ RowFree(r)
  /\ run' = [run EXCEPT ![r] = [@ EXCEPT !.pc = "work", !.wrote = Wrote("processing")]]
  /\ UNCHANGED abandoned /\ InTxUnchanged

\* One batch embedded and inserted.  Without a visible parent row the foreign key fails,
\* which aborts the transaction: the UPDATE to 'failed' fails too, all is rolled back.
InsertBatch(r, b) ==
  /\ run[r].pc = "work"
  /\ b \in Batches \ run[r].own
  /\ ParentFree
  /\ \/ /\ row # "absent"
        /\ run' = [run EXCEPT ![r] = [@ EXCEPT !.own = run[r].own \cup {b}]]
        /\ UNCHANGED abandoned
     \/ row = "absent" /\ Rollback(r)
  /\ InTxUnchanged

\* Parsing or the credential lookup throws, or the text has too many chunks.
PrepareFails(r) ==
  /\ run[r].pc = "work"
  /\ run[r].own = {}
  /\ Step(r, "failed")
  /\ UNCHANGED abandoned /\ InTxUnchanged

\* The embedding of batch b throws: Promise.all rejects, but the other workers of
\* mapWithConcurrency go on with the other batches.
BatchFails(r, b) ==
  /\ run[r].pc = "work"
  /\ b \in Batches \ run[r].own
  /\ run' = [run EXCEPT ![r] = [@ EXCEPT !.pc = "failed",
                                          !.stray = Batches \ (run[r].own \cup {b})]]
  /\ UNCHANGED abandoned /\ InTxUnchanged

\* Mutation: processDocument does not read the status back, so 'failed' is committed.
MarkFailedCommitted(r) ==
  /\ run[r].pc = "failed"
  /\ RowFree(r)
  /\ run' = [run EXCEPT ![r] = [@ EXCEPT !.pc = "commit", !.wrote = Wrote("failed")]]
  /\ UNCHANGED abandoned /\ InTxUnchanged

\* catch: UPDATE ... 'failed'.  A local run returns and commits it; processDocument
\* reads it back and throws, which rolls it back with everything else.
MarkFailed(r) ==
  /\ run[r].pc = "failed"
  /\ RowFree(r)
  /\ \/ run[r].kind = "worker" /\ row # "absent" /\ Rollback(r)
     \/ /\ run[r].kind = "local" \/ row = "absent"
        /\ run' = [run EXCEPT ![r] = [@ EXCEPT !.pc = "commit", !.wrote = Wrote("failed")]]
        /\ UNCHANGED abandoned
  /\ InTxUnchanged

\* Mutation: 'ready' is written without waiting for all the batches.
MarkReadyEarly(r) ==
  /\ run[r].pc = "work"
  /\ RowFree(r)
  /\ run' = [run EXCEPT ![r] = [@ EXCEPT !.pc = "commit", !.wrote = Wrote("ready")]]
  /\ UNCHANGED abandoned /\ InTxUnchanged

\* All batches are in: UPDATE chunk_count and status = 'ready'.
MarkReady(r) ==
  /\ run[r].pc = "work"
  /\ run[r].own = Batches
  /\ RowFree(r)
  /\ run' = [run EXCEPT ![r] = [@ EXCEPT !.pc = "commit", !.wrote = Wrote("ready")]]
  /\ UNCHANGED abandoned /\ InTxUnchanged

\* What the COMMIT of run r makes visible.
Publish(r) ==
  /\ row' = IF run[r].wrote = "none" THEN row ELSE run[r].wrote
  /\ count' = IF run[r].wrote = "ready" THEN Batches ELSE count
  /\ chunks' = [q \in RunIds |-> IF q = r THEN chunks[q] \cup run[r].own
                                 ELSE {b \in chunks[q] : <<q, b>> \notin run[r].wiped}]

\* COMMIT of runInOrgScope.  A local run that wrote to a row it could not see ends
\* without a trace.
RunCommit(r) ==
  /\ run[r].pc = "commit"
  /\ Publish(r)
  /\ run' = [run EXCEPT ![r] = Closed(r, IF @.kind = "worker" THEN "ack" ELSE "done")]
  /\ abandoned' = (abandoned \/ (run[r].kind = "local" /\ run[r].wrote = "none"))
  /\ UNCHANGED <<file, nruns, mqVars, httpVars, faults>>

\* A batch in flight when its run failed reaches its INSERT: inside the transaction while
\* that is open; afterwards on the released connection, whatever that is doing by then.
\* There it commits, by itself or with another transaction of the organization (that of the
\* next attempt, say), or it is rejected or rolled back: the step that is never taken.
StrayInsert(r, b) ==
  /\ b \in run[r].stray
  /\ \/ /\ InTx(r) /\ ParentFree /\ row # "absent"
        /\ run' = [run EXCEPT ![r] = [@ EXCEPT !.stray = run[r].stray \ {b},
                                           !.own = run[r].own \cup {b}]]
        /\ UNCHANGED <<chunks, abandoned>>
     \/ /\ InTx(r) /\ ParentFree /\ row = "absent"
        /\ Rollback(r)
        /\ UNCHANGED chunks
     \/ /\ ~InTx(r) /\ ParentFree /\ row # "absent"
        /\ run' = [run EXCEPT ![r] = [@ EXCEPT !.stray = run[r].stray \ {b},
                                           !.leaked = run[r].leaked \cup {b}]]
        /\ chunks' = [chunks EXCEPT ![r] = @ \cup {b}]
        /\ UNCHANGED abandoned
  /\ UNCHANGED <<row, count, file, nruns, mqVars, httpVars, faults>>

-----------------------------------------------------------------------------
(* handleIngestMessage after a failure, and the offset commit              *)

\* Mutation: a failed attempt is logged and its offset committed, nothing else.
ReenqueueForgotten(r) ==
  /\ run[r].pc = "handle"
  /\ run[r].attempt < MaxAttempts
  /\ Step(r, "ack")
  /\ UNCHANGED <<dbVars, file, nruns, mqVars, abandoned, httpVars, faults>>

\* Mutation: one attempt too many.
ReenqueueBeyond(r) ==
  /\ run[r].pc = "handle"
  /\ run[r].attempt <= MaxAttempts
  /\ queue' = Append(queue, run[r].attempt + 1)
  /\ Step(r, "ack")
  /\ UNCHANGED <<dbVars, file, nruns, current, dlq, abandoned, httpVars, faults>>

\* attempt < MAX: publish attempt + 1, then commit the offset.
Reenqueue(r) ==
  /\ run[r].pc = "handle"
  /\ run[r].attempt < MaxAttempts
  /\ queue' = Append(queue, run[r].attempt + 1)
  /\ Step(r, "ack")
  /\ UNCHANGED <<dbVars, file, nruns, current, dlq, abandoned, httpVars, faults>>

\* The publish throws, accepted or not: the handler throws, the offset stays, the
\* message is delivered again.
ReenqueueFails(r) ==
  /\ run[r].pc = "handle"
  /\ run[r].attempt < MaxAttempts
  /\ Fault
  /\ queue' \in {queue, Append(queue, run[r].attempt + 1)}
  /\ Step(r, "done")
  /\ current' = IF current = r THEN NoRun ELSE current
  /\ UNCHANGED <<dbVars, file, nruns, dlq, abandoned, httpVars>>

\* Last attempt: publish to the dead-letter topic.
DeadLetter(r) ==
  /\ run[r].pc = "handle"
  /\ run[r].attempt >= MaxAttempts
  /\ dlq' = TRUE /\ abandoned' = TRUE
  /\ Step(r, "ack")
  /\ UNCHANGED <<dbVars, file, nruns, queue, current, httpVars, faults>>

\* enqueueDlq swallows its error: the job is gone.
DeadLetterFails(r) ==
  /\ run[r].pc = "handle"
  /\ run[r].attempt >= MaxAttempts
  /\ Fault
  /\ abandoned' = TRUE
  /\ Step(r, "ack")
  /\ UNCHANGED <<dbVars, file, nruns, queue, current, dlq, httpVars>>

\* The offset is committed when the run still owns the head of the topic.
Ack(r) ==
  /\ run[r].pc = "ack"
  /\ Step(r, "done")
  /\ \/ current = r /\ queue' = Tail(queue) /\ current' = NoRun
     \/ current # r /\ UNCHANGED <<queue, current>>
  /\ UNCHANGED <<dbVars, file, nruns, dlq, abandoned, httpVars, faults>>

-----------------------------------------------------------------------------
(* Faults                                                                  *)

\* No heartbeat is sent during a message: after sessionTimeout the group takes the
\* partition away while the handler goes on.
Evict ==
  /\ current # NoRun
  /\ Fault
  /\ current' = NoRun
  /\ UNCHANGED <<dbVars, file, runVars, queue, dlq, abandoned, httpVars>>

\* The broker forgets stored messages: a restart loses those at the end of its log that it
\* had not yet written, and a consumer group without a committed offset starts behind all
\* of them (fromBeginning: false).
LoseMessages ==
  /\ queue # <<>>
  /\ Fault
  /\ \E kept \in 0..(Len(queue) - 1) :
       /\ queue' = SubSeq(queue, 1, kept)
       /\ current' = IF kept = 0 THEN NoRun ELSE current
  /\ abandoned' = TRUE
  /\ UNCHANGED <<dbVars, file, runVars, dlq, httpVars>>

\* The connection of a run breaks, possibly after Postgres carried out the COMMIT, or a
\* stray statement of another request aborts the run's transaction and its next one fails.
ConnectionLost(r) ==
  /\ InTx(r)
  /\ Fault
  /\ Rollback(r)
  /\ \/ UNCHANGED dbVars
     \/ run[r].pc = "commit" /\ Publish(r)
  /\ UNCHANGED <<file, nruns, mqVars, httpVars>>

\* The stray statement hits after the run's last one: COMMIT is a ROLLBACK that reports
\* success, and the job counts as done.
CommitVoided(r) ==
  /\ run[r].pc = "commit"
  /\ Fault
  /\ run' = [run EXCEPT ![r] = Closed(r, IF @.kind = "worker" THEN "ack" ELSE "done")]
  /\ abandoned' = TRUE
  /\ UNCHANGED <<dbVars, file, nruns, mqVars, httpVars>>

\* The backend process dies: transactions are rolled back, requests end, the message
\* being handled stays at the head of the topic, local jobs are forgotten, and so is the
\* job of a row that was inserted but not yet dispatched.
Crash ==
  /\ Fault
  /\ run' = [r \in RunIds |->
               [Closed(r, IF run[r].pc = "idle" THEN "idle" ELSE "done") EXCEPT !.stray = {}]]
  /\ current' = NoRun
  /\ upload' = IF upload = "idle" THEN "idle" ELSE "done"
  /\ retry' = "idle"
  /\ del' = IF Deleting THEN "idle" ELSE del
  /\ abandoned' = (\/ abandoned
                   \/ upload = "inserted"
                   \/ \E r \in RunIds : run[r].kind = "local" /\ InTx(r))
  /\ UNCHANGED <<dbVars, file, nruns, queue, dlq, nretries>>

\* DELETE holds the row and waits for the chunks a run deleted, the run waits for the
\* row: Postgres aborts one of the two after deadlock_timeout.
DeadlockAbort(r) ==
  /\ del = "locked" /\ run[r].wiped # {} /\ run[r].pc = "mark"
  /\ \/ del' = "idle" /\ UNCHANGED <<run, abandoned>>
     \/ Rollback(r) /\ UNCHANGED del
  /\ UNCHANGED <<dbVars, file, nruns, mqVars, upload, retry, nretries, faults>>

-----------------------------------------------------------------------------
RunStep(r) ==
  \/ FindDocument(r) \/ ReadFile(r) \/ Wipe(r) \/ MarkProcessing(r)
  \/ \E b \in Batches : InsertBatch(r, b) \/ BatchFails(r, b)
  \/ PrepareFails(r) \/ MarkFailed(r) \/ MarkReady(r) \/ RunCommit(r)
  \/ Reenqueue(r) \/ DeadLetter(r) \/ Ack(r)
  \/ DeadlockAbort(r)

UploadStep == UploadCreate \/ UploadStray \/ UploadLate \/ UploadDispatch \/ UploadCommit
DeleteStep == DeleteCascade \/ DeleteFile \/ DeleteCommit

Next ==
  \/ UploadSave \/ UploadStep \/ UploadDisconnect
  \/ RetryCheck \/ RetryDispatch
  \/ DeleteLock \/ DeleteStep \/ DeleteDisconnect
  \/ Deliver
  \/ \E r \in RunIds : RunStep(r)
  \/ \E r \in RunIds, b \in Batches : StrayInsert(r, b)
  \/ \E r \in RunIds :
       ReenqueueFails(r) \/ DeadLetterFails(r) \/ ConnectionLost(r) \/ CommitVoided(r)
  \/ Evict \/ LoseMessages \/ Crash

\* What the runtime keeps doing: the consumer polls, a run's next await resolves,
\* a request that was received is answered, and Postgres grants a row lock in the order
\* of the waiters, so that deletions tried again and again cannot starve a run (the one
\* strong fairness).  Users and faults have no fairness.
Fairness ==
  /\ WF_vars(UploadStep) /\ WF_vars(RetryDispatch) /\ WF_vars(DeleteStep)
  /\ WF_vars(Deliver)
  /\ \A r \in RunIds : WF_vars(RunStep(r)) /\ SF_vars(MarkProcessing(r))

Spec == Init /\ [][Next]_vars
FairSpec == Spec /\ Fairness

-----------------------------------------------------------------------------
(* Properties                                                              *)

TypeOK ==
  /\ row \in {"absent"} \cup Statuses
  /\ count \in SUBSET Batches
  /\ chunks \in [RunIds -> SUBSET Batches]
  /\ file \in BOOLEAN
  /\ run \in [RunIds -> Run]
  /\ nruns \in 0..MaxRuns
  /\ queue \in Seq(1..MaxAttempts)
  /\ current \in RunIds \cup {NoRun}
  /\ dlq \in BOOLEAN
  /\ abandoned \in BOOLEAN
  /\ upload \in {"idle", "saved", "created", "dispatched", "adrift", "joined", "sent", "gone",
                 "inserted", "done"}
  /\ retry \in {"idle", "checked"}
  /\ nretries \in 0..MaxRetries
  /\ del \in {"idle", "locked", "deleted", "filed", "done"}
  /\ faults \in 0..MaxFaults

\* What an open transaction may hold.  'ready' is written last and only over all batches;
\* 'processing' and 'pending' never reach a COMMIT, nor do deleted chunks without a status;
\* nothing is written of a document that is not there; a deletion under way has waited for
\* the transactions that hold the row or deleted chunks.
TxOK(x) ==
  /\ x.wrote = "ready" => x.own = Batches /\ x.pc = "commit"
  /\ x.wrote = "failed" => x.kind = "local" /\ x.pc = "commit"
  /\ x.pc = "commit" => x.wrote \in {"none", "ready", "failed"}
  /\ x.pc = "commit" /\ x.wrote = "none" => x.wiped = {}
  /\ row = "absent" => x.wrote = "none" /\ x.own = {} /\ x.wiped = {}
  /\ Deleting => x.wrote = "none" /\ x.own = {}
  /\ del \in {"deleted", "filed"} => x.wiped = {}

\* The invariant the others rest on: every transaction is as above, a document that is
\* not there has no chunks, and the row exists only after its INSERT has committed.
TransactionsOK ==
  /\ \A r \in RunIds : TxOK(run[r])
  /\ row = "absent" => \A r \in RunIds : chunks[r] = {}
  /\ upload \notin {"inserted", "done"} => row = "absent"

\* A document that search serves is whole: whenever the committed status is READY, one
\* single run has committed every batch of its chunks, and chunk_count counts them.
ReadyIsComplete ==
  row = "ready" => /\ \E r \in RunIds : chunks[r] = Batches
                   /\ count = Batches

\* A document is never left PENDING with nobody working on it: a message is in the topic,
\* a run is alive, its upload is about to dispatch it, or its last job was given up in a way
\* that a user must answer with a retry: dead-lettered, lost by the broker, in this process
\* or by a voided COMMIT.  A retry starts over: whatever was lost before it, the job that
\* it dispatches is pursued again.
NoOrphanPending ==
  row = "pending" => \/ queue # <<>>
                     \/ \E r \in RunIds : run[r].pc \notin {"idle", "done"}
                     \/ upload = "inserted"
                     \/ abandoned

\* Attempts leave nothing behind: what a consumer run has committed is all of the chunks
\* or none of them, so a retried attempt never adds to a half-written one; only batches
\* that were in flight when it failed can escape its rollback.
WorkerAtomic ==
  \A r \in RunIds : run[r].kind = "worker" =>
    chunks[r] \in {{}, Batches} \/ chunks[r] \subseteq run[r].leaked

\* Redelivery, crashes, evictions and user retries never duplicate chunks as long as
\* every run comes from the topic and one process consumes it, except for those batches.
QueueRewritesOnce ==
  \A q, r \in RunIds :
    q # r /\ chunks[q] \ run[q].leaked # {} /\ chunks[r] \ run[r].leaked # {} =>
      run[q].kind = "local" \/ run[r].kind = "local"

\* document-ingestion.service.ts, 193: processDocument "wipes any previously written chunks
\* (idempotent under at-least-once redelivery)".  When every run came from the topic, the
\* chunks of a READY document come from one of them.
RedeliveryIsIdempotent ==
  row = "ready" /\ (\A r \in RunIds : run[r].kind # "local") =>
    \A q, r \in RunIds : chunks[q] # {} /\ chunks[r] # {} => q = r

\* PROCESSING is a status nobody outside the run's own transaction ever reads.
ProcessingNeverVisible == row # "processing"

\* Only a deletion or a failing in-process run takes READY away from a document; a
\* consumer run never does, however late it is.
ReadyIsSticky ==
  [][row = "ready" /\ row' # "ready" =>
       \/ row' = "absent"
       \/ row' = "failed" /\ \E r \in RunIds :
            run[r].kind = "local" /\ run[r].pc = "commit" /\ run[r].wrote = "failed"]_vars

\* README, Async Ingestion Pipeline, 6: "On error (3 retries exhausted), status -> FAILED,
\* message -> DLQ".  A last attempt that ends in an error does not leave its document PENDING.
ExhaustedIsFailed ==
  [][\A r \in RunIds : run[r].pc = "failed" /\ run[r].attempt = MaxAttempts
                        /\ run'[r].pc = "handle" => row' # "pending"]_vars

\* A PENDING document becomes READY or FAILED, is deleted, or its last job is given up (see
\* NoOrphanPending): a document that was retried does not stay PENDING for ever because of
\* what was lost before.
PendingSettles == row = "pending" ~> (row # "pending" \/ abandoned)

\* A DELETE that took the row lock ends, although it can wait for a run that waits for it.
DeleteEnds == del = "locked" ~> ~Deleting

\* The committed state follows the abstract life cycle of a document.
Searchable == \E r \in RunIds : chunks[r] = Batches
Lifecycle == INSTANCE DocumentLifecycle WITH status <- row, searchable <- Searchable
LifecycleSpec == Lifecycle!Spec

=============================================================================
