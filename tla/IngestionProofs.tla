-------------------------- MODULE IngestionProofs --------------------------
(***************************************************************************)
(* Theorems about Ingestion for every number of batches, attempts,         *)
(* consumers, runs, retries and faults: types, the transaction discipline  *)
(* of the runs as an inductive invariant, and what follows from it: a      *)
(* READY document is complete, PROCESSING is never visible, and READY is   *)
(* taken away only by a deletion or a failing in-process run.              *)
(***************************************************************************)
EXTENDS Ingestion, SequenceTheorems, TLAPS

\* The message a run holds is in the topic: its offset is not committed before Ack.
HeadIsHeld == current # NoRun => queue # <<>>

-----------------------------------------------------------------------------
(* The values of the helpers.                                              *)

\* A run that starts is a run.
LEMMA NewRunType ==
  ASSUME NEW k \in {"worker", "local"}, NEW a \in 0..MaxAttempts
  PROVE  NewRun(k, a) \in Run
  BY DEF NewRun, NoRunYet, Run, PCs, Statuses

\* A run whose transaction ended is a run, and keeps nothing uncommitted.
LEMMA ClosedType ==
  ASSUME run \in [RunIds -> Run], NEW r \in RunIds, NEW pc \in PCs
  PROVE  /\ Closed(r, pc) \in Run
         /\ Closed(r, pc).pc = pc
         /\ Closed(r, pc).kind = run[r].kind
         /\ Closed(r, pc).stray = run[r].stray
         /\ Closed(r, pc).snap = {}
         /\ Closed(r, pc).wiped = {}
         /\ Closed(r, pc).own = {}
         /\ Closed(r, pc).wrote = "none"
  <1>1. run[r] \in Run
    OBVIOUS
  <1> QED BY <1>1 DEF Closed, NoRunYet, Run, Statuses

\* The updates that the steps of a run make to its record give a run again.
LEMMA FieldsType ==
  ASSUME NEW x \in Run
  PROVE  /\ \A pc \in PCs : [x EXCEPT !.pc = pc] \in Run
         /\ \A pc \in PCs, s \in SUBSET ChunkRows : [x EXCEPT !.pc = pc, !.snap = s] \in Run
         /\ \A pc \in PCs, s, w \in SUBSET ChunkRows :
              [x EXCEPT !.pc = pc, !.snap = s, !.wiped = w] \in Run
         /\ \A pc \in PCs, wr \in {"none"} \cup Statuses :
              [x EXCEPT !.pc = pc, !.wrote = wr] \in Run
         /\ \A pc \in PCs, o \in SUBSET Batches : [x EXCEPT !.pc = pc, !.stray = o] \in Run
         /\ \A o \in SUBSET Batches : [x EXCEPT !.own = o] \in Run
         /\ \A o \in SUBSET Batches : [x EXCEPT !.stray = o] \in Run
         /\ \A o, i \in SUBSET Batches : [x EXCEPT !.stray = o, !.own = i] \in Run
         /\ \A o, i \in SUBSET Batches : [x EXCEPT !.stray = o, !.leaked = i] \in Run
  BY DEF Run

\* A run moves from one step to the next.
LEMMA StepType ==
  ASSUME run \in [RunIds -> Run], NEW r \in RunIds, NEW pc \in PCs, Step(r, pc)
  PROVE  run' \in [RunIds -> Run]
  <1>1. [run[r] EXCEPT !.pc = pc] \in Run
    BY FieldsType
  <1> QED BY <1>1 DEF Step

\* What the topic holds: publishing and consuming keep it a sequence of attempts.
LEMMA QueueType ==
  ASSUME NEW S, NEW q \in Seq(S)
  PROVE  /\ \A a \in S : Append(q, a) \in Seq(S) /\ Append(q, a) # <<>>
         /\ q # <<>> => Head(q) \in S /\ Tail(q) \in Seq(S)
  <1>1. \A a \in S : Append(q, a) \in Seq(S) /\ Append(q, a) # <<>>
    BY AppendProperties
  <1>2. q # <<>> => Head(q) \in S /\ Tail(q) \in Seq(S)
    BY HeadTailProperties
  <1> QED BY <1>1, <1>2

\* What a broker that forgets keeps: a first part of the topic.
LEMMA KeptType ==
  ASSUME NEW S, NEW q \in Seq(S), NEW kept \in 0..(Len(q) - 1)
  PROVE  /\ SubSeq(q, 1, kept) \in Seq(S)
         /\ kept # 0 => SubSeq(q, 1, kept) # <<>>
  <1>1. Len(q) \in Nat /\ \A i \in 1..Len(q) : q[i] \in S
    BY LenProperties, ElementOfSeq
  <1>2. kept \in Int /\ 1 \in Int /\ 1..kept \subseteq 1..Len(q)
    BY <1>1
  <1>3. /\ SubSeq(q, 1, kept) \in Seq(S)
        /\ Len(SubSeq(q, 1, kept)) = IF 1 <= kept THEN kept - 1 + 1 ELSE 0
    <2>1. \A i \in 1..kept : q[i] \in S
      BY <1>1, <1>2
    <2> QED BY <1>2, <2>1, SubSeqProperties
  <1>4. kept # 0 => Len(SubSeq(q, 1, kept)) # 0
    BY <1>1, <1>3
  <1>5. Len(<<>>) = 0
    OBVIOUS
  <1> QED BY <1>3, <1>4, <1>5

\* A status written to the row is a status or nothing.
LEMMA WroteType ==
  ASSUME NEW s \in Statuses
  PROVE  Wrote(s) \in {"none"} \cup Statuses
  BY DEF Wrote

\* Starting a run keeps the runs well typed.
LEMMA StartRunType ==
  ASSUME TypeOK, NEW k \in {"worker", "local"}, NEW a \in 0..MaxAttempts,
         StartRun(k, a)
  PROVE  run' \in [RunIds -> Run] /\ nruns' \in 0..MaxRuns /\ nruns + 1 \in RunIds
  BY IngestionAssumption, NewRunType DEF StartRun, TypeOK, RunIds

\* A rollback keeps the runs well typed.
LEMMA RollbackType ==
  ASSUME TypeOK, NEW r \in RunIds, Rollback(r)
  PROVE  run' \in [RunIds -> Run] /\ abandoned' \in BOOLEAN
  <1>1. Closed(r, "handle") \in Run /\ Closed(r, "done") \in Run
    BY ClosedType DEF TypeOK, PCs
  <1>2. abandoned' \in BOOLEAN
    BY DEF Rollback, TypeOK
  <1> QED BY <1>1, <1>2 DEF Rollback, TypeOK

-----------------------------------------------------------------------------
(* Type correctness: one lemma per group of actions.                       *)

\* The requests keep the state well typed.
LEMMA RequestType ==
  ASSUME TypeOK,
         \/ UploadSave \/ UploadStep \/ UploadDisconnect
         \/ RetryCheck \/ RetryDispatch
         \/ DeleteLock \/ DeleteCascade \/ DeleteFile \/ DeleteCommit \/ DeleteDisconnect
  PROVE  TypeOK'
  <1> USE DEF dbVars, runVars, mqVars, httpVars
  <1>1. CASE UploadSave \/ UploadCreate
    BY <1>1 DEF UploadSave, UploadCreate, TypeOK
  <1>2. ASSUME Dispatch
        PROVE  /\ run' \in [RunIds -> Run] /\ nruns' \in 0..MaxRuns
               /\ queue' \in Seq(1..MaxAttempts) /\ faults' \in 0..MaxFaults
    <2>1. queue' \in Seq(1..MaxAttempts)
      <3>1. 1 \in 1..MaxAttempts
        BY IngestionAssumption
      <3>2. queue \in Seq(1..MaxAttempts) /\ Append(queue, 1) \in Seq(1..MaxAttempts)
        BY <3>1, QueueType DEF TypeOK
      <3> QED BY <1>2, <3>2 DEF Dispatch
    <2>2. faults' \in 0..MaxFaults
      BY <1>2, IngestionAssumption DEF Dispatch, Fault, TypeOK
    <2>3. run' \in [RunIds -> Run] /\ nruns' \in 0..MaxRuns
      <3>1. CASE StartRun("local", 0)
        BY <3>1, StartRunType, IngestionAssumption
      <3>2. CASE UNCHANGED <<run, nruns>>
        BY <3>2 DEF TypeOK
      <3> QED BY <1>2, <3>1, <3>2 DEF Dispatch
    <2> QED BY <2>1, <2>2, <2>3
  <1>3. CASE UploadDispatch
    BY <1>2, <1>3 DEF UploadDispatch, TypeOK
  <1>4. CASE UploadCommit
    BY <1>4 DEF UploadCommit, TypeOK, Statuses
  <1>11. CASE UploadStray \/ UploadLate
    BY <1>11 DEF UploadStray, UploadLate, TypeOK, Statuses
  <1>5. CASE UploadDisconnect
    BY <1>5, IngestionAssumption DEF UploadDisconnect, Fault, TypeOK
  <1>6. CASE RetryCheck
    BY <1>6, IngestionAssumption DEF RetryCheck, TypeOK
  <1>7. CASE RetryDispatch
    <2>1. /\ retry' = "idle" /\ abandoned' = FALSE
          /\ UNCHANGED <<row, count, chunks, file, current, dlq, upload, nretries, del>>
      BY <1>7 DEF RetryDispatch
    <2>2. Dispatch
      BY <1>7 DEF RetryDispatch
    <2>3. /\ run' \in [RunIds -> Run] /\ nruns' \in 0..MaxRuns
          /\ queue' \in Seq(1..MaxAttempts) /\ faults' \in 0..MaxFaults
      BY <1>2, <2>2
    <2>4. retry' \in {"idle", "checked"} /\ abandoned' \in BOOLEAN
      BY <2>1
    <2> QED BY <2>1, <2>3, <2>4 DEF TypeOK
  <1>8. CASE DeleteLock \/ DeleteCascade \/ DeleteFile
    <2>1. /\ del' \in {"locked", "deleted", "filed"} /\ file' \in {FALSE, file}
          /\ UNCHANGED <<row, count, chunks, run, nruns, queue, current, dlq, abandoned, upload,
                         retry, nretries, faults>>
      BY <1>8 DEF DeleteLock, DeleteCascade, DeleteFile
    <2>2. file' \in BOOLEAN
      BY <2>1 DEF TypeOK
    <2>3. del' \in {"idle", "locked", "deleted", "filed", "done"}
      BY <2>1
    <2> QED BY <2>1, <2>2, <2>3 DEF TypeOK
  <1>9. CASE DeleteCommit
    BY <1>9 DEF DeleteCommit, TypeOK
  <1>10. CASE DeleteDisconnect
    <2>1. faults' \in 0..MaxFaults
      BY <1>10, IngestionAssumption DEF DeleteDisconnect, Fault, TypeOK
    <2>2. file' \in BOOLEAN
      BY <1>10 DEF DeleteDisconnect, TypeOK
    <2> QED BY <1>10, <2>1, <2>2 DEF DeleteDisconnect, TypeOK
  <1> QED BY <1>1, <1>3, <1>4, <1>5, <1>6, <1>7, <1>8, <1>9, <1>10, <1>11
         DEF UploadStep

\* The steps of a run that write nothing committed keep the state well typed.
LEMMA InTxType ==
  ASSUME TypeOK, NEW r \in RunIds,
         \/ FindDocument(r) \/ ReadFile(r) \/ Wipe(r) \/ MarkProcessing(r)
         \/ (\E b \in Batches : InsertBatch(r, b) \/ BatchFails(r, b))
         \/ PrepareFails(r) \/ MarkFailed(r) \/ MarkReady(r)
  PROVE  TypeOK'
  <1>u. InTxUnchanged
    BY DEF FindDocument, ReadFile, Wipe, MarkProcessing, InsertBatch, BatchFails,
           PrepareFails, MarkFailed, MarkReady
  <1> SUFFICES run' \in [RunIds -> Run] /\ abandoned' \in BOOLEAN
    BY <1>u DEF TypeOK, InTxUnchanged, dbVars, mqVars, httpVars
  <1>a. run \in [RunIds -> Run] /\ run[r] \in Run /\ abandoned \in BOOLEAN
    BY DEF TypeOK
  <1>b. /\ run[r].own \in SUBSET Batches
        /\ run[r].snap \in SUBSET ChunkRows
        /\ Rows \in SUBSET ChunkRows
    BY <1>a DEF Run, Rows
  <1>c. {"ack", "read", "wipe", "mark", "work", "failed", "commit"} \subseteq PCs
    BY DEF PCs
  <1>1. ASSUME Rollback(r)
        PROVE  run' \in [RunIds -> Run] /\ abandoned' \in BOOLEAN
    BY <1>1, RollbackType
  <1>2. CASE FindDocument(r)
    <2>1. Closed(r, "ack") \in Run
      BY <1>a, <1>c, ClosedType
    <2>2. CASE Step(r, "read") /\ UNCHANGED abandoned
      BY <2>2, <1>a, <1>c, StepType
    <2> QED BY <1>a, <1>1, <1>2, <2>1, <2>2 DEF FindDocument
  <1>3. CASE ReadFile(r)
    <2>1. [run[r] EXCEPT !.pc = "wipe", !.snap = Rows] \in Run
      BY <1>a, <1>b, <1>c, FieldsType
    <2> QED BY <1>a, <1>1, <1>3, <2>1 DEF ReadFile
  <1>4. CASE Wipe(r)
    <2>1. [run[r] EXCEPT !.pc = "mark", !.snap = {}, !.wiped = run[r].snap \cap Rows] \in Run
      <3>1. {} \in SUBSET ChunkRows /\ run[r].snap \cap Rows \in SUBSET ChunkRows
        BY <1>b
      <3> QED BY <3>1, <1>a, <1>c, FieldsType
    <2> QED BY <1>a, <1>4, <2>1 DEF Wipe
  <1>5. ASSUME NEW pc \in {"work", "commit"}, NEW s \in Statuses,
               run' = [run EXCEPT ![r] = [@ EXCEPT !.pc = pc, !.wrote = Wrote(s)]]
        PROVE  run' \in [RunIds -> Run]
    <2>1. pc \in PCs /\ Wrote(s) \in {"none"} \cup Statuses
      BY <1>c, WroteType
    <2>2. [run[r] EXCEPT !.pc = pc, !.wrote = Wrote(s)] \in Run
      BY <2>1, <1>a, FieldsType
    <2> QED BY <1>a, <1>5, <2>2
  <1>6. CASE MarkProcessing(r)
    BY <1>5, <1>6, <1>a DEF MarkProcessing, Statuses
  <1>7. ASSUME NEW b \in Batches, InsertBatch(r, b)
        PROVE  run' \in [RunIds -> Run] /\ abandoned' \in BOOLEAN
    <2>1. [run[r] EXCEPT !.own = run[r].own \cup {b}] \in Run
      <3>1. run[r].own \cup {b} \in SUBSET Batches
        BY <1>b
      <3> QED BY <3>1, <1>a, FieldsType
    <2>2. CASE Rollback(r)
      BY <1>1, <2>2
    <2>3. CASE /\ run' = [run EXCEPT ![r] = [@ EXCEPT !.own = run[r].own \cup {b}]]
               /\ UNCHANGED abandoned
      BY <1>a, <2>1, <2>3
    <2> QED BY <1>7, <2>2, <2>3 DEF InsertBatch
  <1>8. ASSUME NEW b \in Batches, BatchFails(r, b)
        PROVE  run' \in [RunIds -> Run] /\ abandoned' \in BOOLEAN
    <2>1. [run[r] EXCEPT !.pc = "failed", !.stray = Batches \ (run[r].own \cup {b})] \in Run
      BY <1>a, <1>c, FieldsType
    <2> QED BY <1>a, <1>8, <2>1 DEF BatchFails
  <1>9. CASE PrepareFails(r)
    BY <1>9, <1>a, <1>c, StepType DEF PrepareFails
  <1>10. CASE MarkFailed(r)
    BY <1>1, <1>5, <1>10, <1>a DEF MarkFailed, Statuses
  <1>11. CASE MarkReady(r)
    BY <1>5, <1>11, <1>a DEF MarkReady, Statuses
  <1> QED BY <1>2, <1>3, <1>4, <1>6, <1>7, <1>8, <1>9, <1>10, <1>11

\* Publishing a run's writes keeps the committed state well typed.
LEMMA PublishType ==
  ASSUME TypeOK, NEW r \in RunIds, Publish(r)
  PROVE  /\ row' \in {"absent"} \cup Statuses
         /\ count' \in SUBSET Batches
         /\ chunks' \in [RunIds -> SUBSET Batches]
  BY DEF Publish, TypeOK, Run

\* Commits, strays, the handling of a message and the faults keep the state well typed.
LEMMA HandlerType ==
  ASSUME TypeOK,
         \/ Deliver \/ Evict \/ LoseMessages \/ Crash
         \/ \E r \in RunIds :
              \/ RunCommit(r) \/ Reenqueue(r) \/ ReenqueueFails(r) \/ DeadLetter(r)
              \/ DeadLetterFails(r) \/ ConnectionLost(r) \/ CommitVoided(r) \/ DeadlockAbort(r)
              \/ \E b \in Batches : StrayInsert(r, b)
  PROVE  TypeOK'
  <1> USE DEF dbVars, runVars, mqVars, httpVars
  <1>0. ASSUME NEW r \in RunIds
        PROVE  /\ Closed(r, "ack") \in Run /\ Closed(r, "done") \in Run
               /\ Closed(r, "idle") \in Run
    BY ClosedType DEF TypeOK, PCs
  <1>1. CASE Deliver
    <2>1. Head(queue) \in 0..MaxAttempts
      <3>1. Head(queue) \in 1..MaxAttempts
        <4>1. queue \in Seq(1..MaxAttempts) /\ queue # <<>>
          BY <1>1 DEF Deliver, TypeOK
        <4> QED BY <4>1, QueueType
      <3> QED BY <3>1, IngestionAssumption
    <2>2. run' \in [RunIds -> Run] /\ nruns' \in 0..MaxRuns /\ nruns + 1 \in RunIds
      BY <1>1, <2>1, StartRunType DEF Deliver
    <2> QED BY <1>1, <2>2 DEF Deliver, TypeOK
  <1>2. CASE Evict
    BY <1>2, IngestionAssumption DEF Evict, Fault, TypeOK
  <1>12. CASE LoseMessages
    <2>1. queue' \in Seq(1..MaxAttempts)
      BY <1>12, KeptType DEF LoseMessages, TypeOK
    <2>2. faults' \in 0..MaxFaults
      BY <1>12, IngestionAssumption DEF LoseMessages, Fault, TypeOK
    <2> QED BY <1>12, <2>1, <2>2 DEF LoseMessages, TypeOK
  <1>3. CASE Crash
    <2>1. ASSUME NEW r \in RunIds, NEW pc \in PCs
          PROVE  [Closed(r, pc) EXCEPT !.stray = {}] \in Run
      BY <2>1, ClosedType, FieldsType DEF TypeOK
    <2>2. run' \in [RunIds -> Run]
      BY <1>3, <2>1 DEF Crash, PCs
    <2>3. faults' \in 0..MaxFaults
      BY <1>3, IngestionAssumption DEF Crash, Fault, TypeOK
    <2> QED BY <1>3, <2>2, <2>3 DEF Crash, TypeOK
  <1>4. ASSUME NEW r \in RunIds, RunCommit(r) PROVE TypeOK'
    BY <1>0, <1>4, PublishType DEF RunCommit, TypeOK
  <1>5. ASSUME NEW r \in RunIds, Reenqueue(r) \/ ReenqueueFails(r) PROVE TypeOK'
    <2>1. run[r].attempt + 1 \in 1..MaxAttempts
      BY <1>5, IngestionAssumption DEF Reenqueue, ReenqueueFails, TypeOK, Run
    <2>2. queue' \in Seq(1..MaxAttempts)
      <3>1. /\ queue \in Seq(1..MaxAttempts)
            /\ Append(queue, run[r].attempt + 1) \in Seq(1..MaxAttempts)
        BY <2>1, QueueType DEF TypeOK
      <3> QED BY <1>5, <3>1 DEF Reenqueue, ReenqueueFails
    <2>3. run' \in [RunIds -> Run]
      BY <1>5, StepType DEF Reenqueue, ReenqueueFails, TypeOK, PCs
    <2>4. faults' \in 0..MaxFaults
      BY <1>5, IngestionAssumption DEF Reenqueue, ReenqueueFails, Fault, TypeOK
    <2> QED BY <1>5, <2>2, <2>3, <2>4 DEF Reenqueue, ReenqueueFails, TypeOK
  <1>6. ASSUME NEW r \in RunIds, DeadLetter(r) \/ DeadLetterFails(r) PROVE TypeOK'
    <2>1. run' \in [RunIds -> Run]
      BY <1>6, StepType DEF DeadLetter, DeadLetterFails, TypeOK, PCs
    <2>2. faults' \in 0..MaxFaults
      BY <1>6, IngestionAssumption DEF DeadLetter, DeadLetterFails, Fault, TypeOK
    <2>3. CASE DeadLetter(r)
      BY <2>1, <2>2, <2>3 DEF DeadLetter, TypeOK
    <2>4. CASE DeadLetterFails(r)
      BY <2>1, <2>2, <2>4 DEF DeadLetterFails, TypeOK
    <2> QED BY <1>6, <2>3, <2>4
  <1>7. ASSUME NEW r \in RunIds, ConnectionLost(r) PROVE TypeOK'
    <2>1. /\ row' \in {"absent"} \cup Statuses
          /\ count' \in SUBSET Batches
          /\ chunks' \in [RunIds -> SUBSET Batches]
      BY <1>7, PublishType DEF ConnectionLost, TypeOK
    <2>2. run' \in [RunIds -> Run] /\ abandoned' \in BOOLEAN
      BY <1>7, RollbackType DEF ConnectionLost
    <2>3. faults' \in 0..MaxFaults
      BY <1>7, IngestionAssumption DEF ConnectionLost, Fault, TypeOK
    <2> QED BY <1>7, <2>1, <2>2, <2>3 DEF ConnectionLost, TypeOK
  <1>8. ASSUME NEW r \in RunIds, DeadlockAbort(r) PROVE TypeOK'
    BY <1>8, RollbackType DEF DeadlockAbort, TypeOK
  <1>9. ASSUME NEW r \in RunIds, NEW b \in Batches, StrayInsert(r, b) PROVE TypeOK'
    <2>1. run' \in [RunIds -> Run] /\ abandoned' \in BOOLEAN
      <3>a. run \in [RunIds -> Run] /\ run[r] \in Run /\ abandoned \in BOOLEAN
        BY DEF TypeOK
      <3>b. /\ run[r].own \cup {b} \in SUBSET Batches /\ run[r].stray \ {b} \in SUBSET Batches
            /\ run[r].leaked \cup {b} \in SUBSET Batches
        BY <3>a DEF Run
      <3>1. /\ [run[r] EXCEPT !.stray = run[r].stray \ {b}, !.leaked = run[r].leaked \cup {b}]
                 \in Run
            /\ [run[r] EXCEPT !.stray = run[r].stray \ {b}, !.own = run[r].own \cup {b}] \in Run
        BY <3>a, <3>b, FieldsType
      <3>2. CASE Rollback(r)
        BY <3>2, RollbackType
      <3>3. CASE /\ run' = [run EXCEPT ![r] = [@ EXCEPT !.stray = run[r].stray \ {b},
                                                  !.own = run[r].own \cup {b}]]
                 /\ UNCHANGED abandoned
        BY <3>a, <3>1, <3>3
      <3>4. CASE /\ run' = [run EXCEPT ![r] = [@ EXCEPT !.stray = run[r].stray \ {b},
                                                  !.leaked = run[r].leaked \cup {b}]]
                 /\ UNCHANGED abandoned
        BY <3>a, <3>1, <3>4
      <3> QED BY <1>9, <3>2, <3>3, <3>4 DEF StrayInsert
    <2>2. chunks' \in [RunIds -> SUBSET Batches]
      <3>1. chunks \in [RunIds -> SUBSET Batches]
        BY DEF TypeOK
      <3>2. [chunks EXCEPT ![r] = @ \cup {b}] \in [RunIds -> SUBSET Batches]
        BY <3>1
      <3>3. chunks' \in {chunks, [chunks EXCEPT ![r] = @ \cup {b}]}
        BY <1>9 DEF StrayInsert
      <3> QED BY <3>1, <3>2, <3>3
    <2>3. UNCHANGED <<row, count, file, nruns, queue, current, dlq, upload, retry,
                      nretries, del, faults>>
      BY <1>9 DEF StrayInsert
    <2> QED BY <2>1, <2>2, <2>3 DEF TypeOK
  <1>10. ASSUME NEW r \in RunIds, CommitVoided(r) PROVE TypeOK'
    <2>1. run' \in [RunIds -> Run]
      BY <1>0, <1>10 DEF CommitVoided, TypeOK
    <2>2. faults' \in 0..MaxFaults
      BY <1>10, IngestionAssumption DEF CommitVoided, Fault, TypeOK
    <2> QED BY <1>10, <2>1, <2>2 DEF CommitVoided, TypeOK
  <1> QED BY <1>1, <1>2, <1>3, <1>4, <1>5, <1>6, <1>7, <1>8, <1>9, <1>10, <1>12

\* Committing an offset keeps the state well typed, when the topic holds the message.
LEMMA AckType ==
  ASSUME TypeOK, HeadIsHeld, NEW r \in RunIds, Ack(r)
  PROVE  TypeOK'
  <1>1. run' \in [RunIds -> Run]
    BY StepType DEF Ack, TypeOK, PCs
  <1>2. queue' \in Seq(1..MaxAttempts) /\ current' \in RunIds \cup {NoRun}
    <2>1. CASE current = r /\ queue' = Tail(queue) /\ current' = NoRun
      <3>1. queue # <<>>
        BY <2>1 DEF HeadIsHeld, NoRun, RunIds
      <3>2. queue \in Seq(1..MaxAttempts) /\ 1 \in 1..MaxAttempts
        BY IngestionAssumption DEF TypeOK
      <3> QED BY <2>1, <3>1, <3>2, QueueType
    <2>2. CASE UNCHANGED <<queue, current>>
      BY <2>2 DEF TypeOK
    <2> QED BY <2>1, <2>2 DEF Ack
  <1> QED BY <1>1, <1>2 DEF Ack, TypeOK, dbVars, httpVars

\* The topic loses its head only when the offset of the run that holds it is committed.
LEMMA HeadIsHeldPreserved ==
  ASSUME TypeOK, HeadIsHeld, Next
  PROVE  HeadIsHeld'
  <1> USE DEF HeadIsHeld, mqVars
  <1>1. ASSUME UNCHANGED current,
               queue' = queue \/ \E a \in 1..MaxAttempts : queue' = Append(queue, a)
        PROVE  HeadIsHeld'
    BY <1>1, QueueType DEF TypeOK
  <1>2. ASSUME current' = NoRun PROVE HeadIsHeld'
    BY <1>2
  <1>3. 1 \in 1..MaxAttempts
    BY IngestionAssumption
  <1>4. CASE UploadDispatch \/ RetryDispatch
    BY <1>1, <1>3, <1>4 DEF UploadDispatch, RetryDispatch, Dispatch
  <1>5. CASE \/ UploadSave \/ UploadCreate \/ UploadStray \/ UploadLate \/ UploadCommit
             \/ UploadDisconnect \/ RetryCheck \/ DeleteLock \/ DeleteStep \/ DeleteDisconnect
    BY <1>1, <1>5 DEF UploadSave, UploadCreate, UploadStray, UploadLate, UploadCommit, UploadDisconnect, RetryCheck, DeleteLock,
         DeleteStep, DeleteCascade, DeleteFile, DeleteCommit, DeleteDisconnect
  <1>6. CASE Deliver
    BY <1>6 DEF Deliver
  <1>7. CASE Evict \/ Crash
    BY <1>2, <1>7 DEF Evict, Crash
  <1>13. CASE LoseMessages
    BY <1>2, <1>13, KeptType DEF LoseMessages, TypeOK
  <1>8. ASSUME NEW r \in RunIds, Reenqueue(r) \/ ReenqueueFails(r) PROVE HeadIsHeld'
    <2>1. run[r].attempt + 1 \in 1..MaxAttempts
      BY <1>8, IngestionAssumption DEF Reenqueue, ReenqueueFails, TypeOK, Run
    <2> QED BY <1>1, <1>2, <1>8, <2>1 DEF Reenqueue, ReenqueueFails
  <1>9. ASSUME NEW r \in RunIds, Ack(r) PROVE HeadIsHeld'
    BY <1>1, <1>2, <1>9 DEF Ack
  <1>10. ASSUME NEW r \in RunIds, DeadLetter(r) \/ DeadLetterFails(r) PROVE HeadIsHeld'
    BY <1>1, <1>10 DEF DeadLetter, DeadLetterFails
  <1>11. ASSUME NEW r \in RunIds, RunCommit(r) \/ ConnectionLost(r) \/ CommitVoided(r)
                  \/ DeadlockAbort(r) \/ \E b \in Batches : StrayInsert(r, b)
         PROVE  HeadIsHeld'
    BY <1>1, <1>11 DEF RunCommit, ConnectionLost, CommitVoided, DeadlockAbort, StrayInsert
  <1>12. ASSUME NEW r \in RunIds, FindDocument(r) \/ ReadFile(r) \/ Wipe(r) \/ MarkProcessing(r)
                  \/ PrepareFails(r) \/ MarkFailed(r) \/ MarkReady(r)
                  \/ \E b \in Batches : InsertBatch(r, b) \/ BatchFails(r, b)
         PROVE  HeadIsHeld'
    <2>1. InTxUnchanged
      BY <1>12 DEF FindDocument, ReadFile, Wipe, MarkProcessing, PrepareFails, MarkFailed,
                   MarkReady, InsertBatch, BatchFails
    <2> QED BY <1>1, <2>1 DEF InTxUnchanged
  <1> QED BY <1>4, <1>5, <1>6, <1>7, <1>8, <1>9, <1>10, <1>11, <1>12, <1>13
          DEF Next, UploadStep, RunStep

\* The two together are inductive.
LEMMA TypeInvariant == Spec => [](TypeOK /\ HeadIsHeld)
  <1> DEFINE TypeInv == TypeOK /\ HeadIsHeld
  <1>1. Init => TypeInv
    <2> SUFFICES ASSUME Init PROVE TypeInv
      OBVIOUS
    <2>1. NoRunYet \in Run
      BY IngestionAssumption DEF NoRunYet, Run, PCs
    <2>2. 0 \in 0..MaxRuns /\ 0 \in 0..MaxRetries /\ 0 \in 0..MaxFaults
      BY IngestionAssumption
    <2>3. <<>> \in Seq(1..MaxAttempts)
      OBVIOUS
    <2> QED BY <2>1, <2>2, <2>3 DEF Init, TypeOK, HeadIsHeld
  <1>2. TypeInv /\ [Next]_vars => TypeInv'
    <2> SUFFICES ASSUME TypeInv, [Next]_vars PROVE TypeInv'
      OBVIOUS
    <2>1. TypeOK'
      <3>1. CASE UNCHANGED vars
        BY <3>1 DEF vars, TypeOK
      <3>2. ASSUME NEW r \in RunIds, Ack(r) PROVE TypeOK'
        BY <3>2, AckType
      <3> QED BY <3>1, <3>2, RequestType, InTxType, HandlerType
              DEF Next, UploadStep, DeleteStep, RunStep
    <2>2. HeadIsHeld'
      BY HeadIsHeldPreserved DEF vars, HeadIsHeld
    <2> QED BY <2>1, <2>2
  <1> QED BY <1>1, <1>2, PTL DEF Spec

\* The topic, the runs, the requests and the committed rows keep their types: attempt
\* numbers stay within INGESTION_MAX_ATTEMPTS although every failure publishes a higher one.
THEOREM TypeCorrect == Spec => []TypeOK
  BY TypeInvariant, PTL

-----------------------------------------------------------------------------
\* The part of the state that TransactionsOK and the committed document read.
docVars == <<row, count, chunks, upload, del>>

-----------------------------------------------------------------------------
(* How the invariant survives: three shapes of step.                       *)

\* A run that has nothing uncommitted satisfies the discipline.
LEMMA ClosedOK ==
  ASSUME TypeOK, NEW r \in RunIds, NEW pc \in PCs \ {"commit"}
  PROVE  TxOK(Closed(r, pc))
  <1>1. /\ Closed(r, pc).own = {} /\ Closed(r, pc).wiped = {}
        /\ Closed(r, pc).wrote = "none" /\ Closed(r, pc).pc = pc
    BY ClosedType DEF TypeOK
  <1> QED BY <1>1 DEF TxOK

\* One run moves to a record that satisfies the discipline; nothing is committed.
LEMMA OneRunMoves ==
  ASSUME TypeOK, TransactionsOK, NEW r \in RunIds, NEW x, TxOK(x),
         run' = [run EXCEPT ![r] = x],
         UNCHANGED docVars
  PROVE  TransactionsOK'
  <1>1. ASSUME NEW q \in RunIds PROVE TxOK(run[q])'
    <2>1. CASE q = r
      <3>1. run'[q] = x
        BY <2>1 DEF TypeOK
      <3> QED BY <3>1 DEF TxOK, Deleting, docVars
    <2>2. CASE q # r
      <3>1. run'[q] = run[q] /\ TxOK(run[q])
        BY <2>2 DEF TypeOK, TransactionsOK
      <3> QED BY <3>1 DEF TxOK, Deleting, docVars
    <2> QED BY <2>1, <2>2
  <1> QED BY <1>1 DEF TransactionsOK, docVars

\* No run moves and nothing is committed.
LEMMA NoRunMoves ==
  ASSUME TransactionsOK, UNCHANGED <<docVars, run>>
  PROVE  TransactionsOK'
  BY DEF TransactionsOK, TxOK, Deleting, docVars

\* A rollback commits nothing.
LEMMA RollbackOK ==
  ASSUME TypeOK, TransactionsOK, NEW r \in RunIds, Rollback(r), UNCHANGED docVars
  PROVE  TransactionsOK'
  <1>1. TxOK(Closed(r, "handle")) /\ TxOK(Closed(r, "done"))
    BY ClosedOK DEF PCs
  <1>2. run' = [run EXCEPT ![r] = IF run[r].kind = "worker" THEN Closed(r, "handle")
                                                            ELSE Closed(r, "done")]
    BY DEF Rollback
  <1> QED BY <1>1, <1>2, OneRunMoves

\* A run outside its COMMIT that moves to another step keeps the discipline.
LEMMA StepOK ==
  ASSUME TypeOK, TransactionsOK, NEW r \in RunIds, NEW pc \in PCs \ {"commit"},
         run[r].pc # "commit", Step(r, pc), UNCHANGED docVars
  PROVE  TransactionsOK'
  <1>1. TxOK([run[r] EXCEPT !.pc = pc])
    BY DEF TypeOK, TransactionsOK, TxOK, Run
  <1> QED BY <1>1, OneRunMoves DEF Step

\* The steps of a run that commit nothing preserve the discipline.
LEMMA InTxOK ==
  ASSUME TypeOK, TransactionsOK, NEW r \in RunIds,
         \/ FindDocument(r) \/ ReadFile(r) \/ Wipe(r) \/ MarkProcessing(r)
         \/ (\E b \in Batches : InsertBatch(r, b) \/ BatchFails(r, b))
         \/ PrepareFails(r) \/ MarkFailed(r) \/ MarkReady(r)
  PROVE  TransactionsOK'
  <1>a. UNCHANGED docVars
    BY DEF docVars, InTxUnchanged, dbVars, httpVars, FindDocument, ReadFile, Wipe, InsertBatch,
           MarkProcessing, BatchFails, PrepareFails, MarkFailed, MarkReady
  <1>b. run[r] \in Run /\ TxOK(run[r]) /\ (row = "absent" => Rows = {})
    <2>1. run[r] \in Run /\ TxOK(run[r])
      BY DEF TypeOK, TransactionsOK
    <2>2. row = "absent" => Rows = {}
      BY DEF TransactionsOK, Rows, ChunkRows
    <2> QED BY <2>1, <2>2
  <1>1. CASE Rollback(r)
    BY <1>1, <1>a, RollbackOK
  <1>2. CASE FindDocument(r)
    <2>1. CASE run' = [run EXCEPT ![r] = Closed(r, "ack")]
      <3>1. TxOK(Closed(r, "ack"))
        BY ClosedOK DEF PCs
      <3> QED BY <2>1, <3>1, <1>a, OneRunMoves
    <2>2. CASE Step(r, "read")
      BY <1>2, <2>2, <1>a, StepOK DEF FindDocument, PCs
    <2> QED BY <1>1, <1>2, <2>1, <2>2 DEF FindDocument
  <1>3. CASE ReadFile(r)
    <2>1. TxOK([run[r] EXCEPT !.pc = "wipe", !.snap = Rows])
      BY <1>3, <1>b DEF ReadFile, TxOK, Run
    <2> QED BY <1>1, <1>3, <2>1, <1>a, OneRunMoves DEF ReadFile
  <1>4. CASE Wipe(r)
    <2>1. TxOK([run[r] EXCEPT !.pc = "mark", !.snap = {}, !.wiped = run[r].snap \cap Rows])
      BY <1>4, <1>b DEF Wipe, TxOK, Run
    <2> QED BY <1>4, <2>1, <1>a, OneRunMoves DEF Wipe
  <1>5. CASE MarkProcessing(r)
    <2>1. TxOK([run[r] EXCEPT !.pc = "work", !.wrote = Wrote("processing")])
      BY <1>5, <1>b DEF MarkProcessing, TxOK, Run, Wrote, RowFree
    <2> QED BY <1>5, <2>1, <1>a, OneRunMoves DEF MarkProcessing
  <1>6. ASSUME NEW b \in Batches, InsertBatch(r, b) PROVE TransactionsOK'
    <2>1. CASE row # "absent" /\ run' = [run EXCEPT ![r] = [@ EXCEPT !.own = run[r].own \cup {b}]]
      <3>1. TxOK([run[r] EXCEPT !.own = run[r].own \cup {b}])
        BY <1>6, <2>1, <1>b DEF InsertBatch, TxOK, Run, ParentFree
      <3> QED BY <2>1, <3>1, <1>a, OneRunMoves
    <2> QED BY <1>1, <1>6, <2>1 DEF InsertBatch
  <1>7. ASSUME NEW b \in Batches, BatchFails(r, b) PROVE TransactionsOK'
    <2>1. TxOK([run[r] EXCEPT !.pc = "failed", !.stray = Batches \ (run[r].own \cup {b})])
      BY <1>7, <1>b DEF BatchFails, TxOK, Run
    <2> QED BY <1>7, <2>1, <1>a, OneRunMoves DEF BatchFails
  <1>8. CASE PrepareFails(r)
    BY <1>8, <1>a, StepOK DEF PrepareFails, PCs
  <1>9. CASE MarkFailed(r)
    <2>1. CASE (run[r].kind = "local" \/ row = "absent")
               /\ run' = [run EXCEPT ![r] = [@ EXCEPT !.pc = "commit", !.wrote = Wrote("failed")]]
      <3>1. TxOK([run[r] EXCEPT !.pc = "commit", !.wrote = Wrote("failed")])
        BY <1>9, <2>1, <1>b DEF MarkFailed, TxOK, Run, Wrote, RowFree
      <3> QED BY <2>1, <3>1, <1>a, OneRunMoves
    <2> QED BY <1>1, <1>9, <2>1 DEF MarkFailed
  <1>10. CASE MarkReady(r)
    <2>1. TxOK([run[r] EXCEPT !.pc = "commit", !.wrote = Wrote("ready")])
      BY <1>10, <1>b DEF MarkReady, TxOK, Run, Wrote, RowFree
    <2> QED BY <1>10, <2>1, <1>a, OneRunMoves DEF MarkReady
  <1> QED BY <1>2, <1>3, <1>4, <1>5, <1>6, <1>7, <1>8, <1>9, <1>10
-----------------------------------------------------------------------------
(* What a COMMIT does, and the rest of Next.                               *)

\* A COMMIT publishes 'ready' with all batches, 'failed' of an in-process run, or nothing;
\* of a document that is not there it publishes nothing at all.
LEMMA PublishOK ==
  ASSUME TypeOK, TransactionsOK, NEW r \in RunIds, run[r].pc = "commit", Publish(r)
  PROVE  /\ row' = row \/ row' = "ready" \/ (row' = "failed" /\ run[r].wrote = "failed")
         /\ row' = "absent" <=> row = "absent"
         /\ row = "absent" => \A q \in RunIds : chunks'[q] = {}
         /\ row' = row \/ run[r].wrote = row'
         /\ ReadyIsComplete => ReadyIsComplete'
  <1>a. TxOK(run[r]) /\ run[r] \in Run /\ chunks \in [RunIds -> SUBSET Batches]
    BY DEF TypeOK, TransactionsOK
  <1>b. /\ run[r].wrote \in {"none", "ready", "failed"}
        /\ run[r].wrote = "ready" => run[r].own = Batches
        /\ run[r].wrote = "none" => run[r].wiped = {}
        /\ row = "absent" => run[r].wrote = "none" /\ run[r].own = {}
        /\ run[r].own \in SUBSET Batches
    BY <1>a DEF TxOK, Run
  <1>1. /\ row' = row \/ row' = "ready" \/ (row' = "failed" /\ run[r].wrote = "failed")
        /\ row' = "absent" <=> row = "absent"
        /\ row' = row \/ run[r].wrote = row'
    BY <1>b DEF Publish
  <1>2. row = "absent" => \A q \in RunIds : chunks'[q] = {}
    BY <1>a, <1>b DEF Publish, TransactionsOK
  <1>3. ASSUME ReadyIsComplete PROVE ReadyIsComplete'
    <2>1. CASE run[r].wrote = "ready"
      <3>1. chunks'[r] = Batches /\ count' = Batches
        BY <2>1, <1>a, <1>b DEF Publish
      <3> QED BY <3>1 DEF ReadyIsComplete
    <2>2. CASE run[r].wrote = "failed"
      BY <2>2 DEF Publish, ReadyIsComplete
    <2>3. CASE run[r].wrote = "none"
      <3>1. row' = row /\ count' = count
        BY <2>3 DEF Publish
      <3>2. ASSUME NEW q \in RunIds, chunks[q] = Batches PROVE chunks'[q] = Batches
        BY <2>3, <3>2, <1>a, <1>b DEF Publish
      <3> QED BY <1>3, <3>1, <3>2 DEF ReadyIsComplete
    <2> QED BY <1>b, <2>1, <2>2, <2>3
  <1> QED BY <1>1, <1>2, <1>3

\* A run that commits, whether or not its client learns of it.
LEMMA CommitOK ==
  ASSUME TypeOK, TransactionsOK, NEW r \in RunIds, run[r].pc = "commit", Publish(r),
         NEW pc \in PCs \ {"commit"}, run' = [run EXCEPT ![r] = Closed(r, pc)],
         UNCHANGED <<upload, del>>
  PROVE  TransactionsOK'
  <1>1. /\ row' = "absent" <=> row = "absent"
        /\ row = "absent" => \A q \in RunIds : chunks'[q] = {}
    BY PublishOK
  <1>2. ASSUME NEW q \in RunIds PROVE TxOK(run[q])'
    <2>1. CASE q = r
      <3>1. TxOK(Closed(r, pc)) /\ run'[q] = Closed(r, pc)
        BY <2>1, ClosedOK DEF TypeOK
      <3> QED BY <3>1, <1>1 DEF TxOK, Deleting
    <2>2. CASE q # r
      <3>1. run'[q] = run[q] /\ TxOK(run[q])
        BY <2>2 DEF TypeOK, TransactionsOK
      <3> QED BY <3>1, <1>1 DEF TxOK, Deleting
    <2> QED BY <2>1, <2>2
  <1> QED BY <1>1, <1>2 DEF TransactionsOK

\* A batch in flight ends in its transaction, or in the open when that is over.
LEMMA StrayOK ==
  ASSUME TypeOK, TransactionsOK, NEW r \in RunIds, NEW b \in Batches, StrayInsert(r, b)
  PROVE  TransactionsOK'
  <1>a. run[r] \in Run /\ TxOK(run[r])
    BY DEF TypeOK, TransactionsOK
  <1>b. UNCHANGED <<row, count, upload, del>>
    BY DEF StrayInsert, httpVars
  <1> DEFINE x == [run[r] EXCEPT !.stray = run[r].stray \ {b},
                                 !.leaked = run[r].leaked \cup {b}]
             y == [run[r] EXCEPT !.stray = run[r].stray \ {b}, !.own = run[r].own \cup {b}]
  <1>1. TxOK(x)
    BY <1>a DEF TxOK, Run
  <1>2. CASE Rollback(r) /\ UNCHANGED chunks
    BY <1>2, <1>b, RollbackOK DEF docVars
  <1>3. CASE ParentFree /\ row # "absent" /\ run' = [run EXCEPT ![r] = y] /\ UNCHANGED chunks
    <2>1. TxOK(y)
      BY <1>3, <1>a DEF TxOK, Run, ParentFree
    <2> HIDE DEF y
    <2> QED BY <1>3, <1>b, <2>1, OneRunMoves DEF docVars
  <1>4. CASE row # "absent" /\ run' = [run EXCEPT ![r] = x]
    <2> HIDE DEF x
    <2>1. ASSUME NEW q \in RunIds PROVE TxOK(run[q])'
      <3>1. TxOK(run'[q])
        BY <1>4, <1>1 DEF TypeOK, TransactionsOK
      <3> QED BY <3>1, <1>b DEF TxOK, Deleting
    <2> QED BY <1>4, <1>b, <2>1 DEF TransactionsOK
  <1> QED BY <1>2, <1>3, <1>4 DEF StrayInsert

\* The requests: a row appears when its INSERT commits, and goes when no transaction
\* holds anything of the document.
LEMMA RequestOK ==
  ASSUME TypeOK, TransactionsOK,
         \/ UploadSave \/ UploadStep \/ UploadDisconnect
         \/ RetryCheck \/ RetryDispatch
         \/ DeleteLock \/ DeleteCascade \/ DeleteFile \/ DeleteCommit \/ DeleteDisconnect
  PROVE  TransactionsOK'
  <1> USE DEF dbVars, runVars, mqVars, httpVars
  <1>1. ASSUME Dispatch, UNCHANGED <<row, chunks, del>>,
               upload' \in {"inserted", "done"} \/ row = "absent" \/ upload' = upload
        PROVE  TransactionsOK'
    <2>1. ASSUME NEW q \in RunIds PROVE TxOK(run'[q])
      <3>1. TxOK(NewRun("local", 0)) /\ TxOK(run[q])
        BY DEF NewRun, NoRunYet, TxOK, TransactionsOK
      <3>2. run' = run \/ run' = [run EXCEPT ![nruns + 1] = NewRun("local", 0)]
        BY <1>1 DEF Dispatch, StartRun
      <3> QED BY <3>1, <3>2 DEF TypeOK
    <2> QED BY <1>1, <2>1 DEF TransactionsOK, TxOK, Deleting
  <1>2. CASE UploadDispatch \/ RetryDispatch
    BY <1>1, <1>2 DEF UploadDispatch, RetryDispatch, TransactionsOK
  <1>3. CASE UploadSave \/ UploadCreate \/ UploadDisconnect \/ RetryCheck
    BY <1>3 DEF UploadSave, UploadCreate, UploadDisconnect, RetryCheck, TransactionsOK, TxOK, Deleting
  <1>4. CASE UploadCommit \/ UploadStray \/ UploadLate
    BY <1>4 DEF UploadCommit, UploadStray, UploadLate, TransactionsOK, TxOK, Deleting
  <1>5. CASE DeleteLock
    BY <1>5 DEF DeleteLock, TransactionsOK, TxOK, Deleting
  <1>6. CASE DeleteCascade \/ DeleteFile \/ DeleteDisconnect
    BY <1>6 DEF DeleteCascade, DeleteFile, DeleteDisconnect, TransactionsOK, TxOK, Deleting
  <1>7. CASE DeleteCommit
    BY <1>7 DEF DeleteCommit, TransactionsOK, TxOK, Deleting
  <1> QED BY <1>2, <1>3, <1>4, <1>5, <1>6, <1>7 DEF UploadStep

\* The consumer, the handling of failures, commits and faults.
LEMMA HandlerOK ==
  ASSUME TypeOK, TransactionsOK,
         \/ Deliver \/ Evict \/ LoseMessages \/ Crash
         \/ \E r \in RunIds :
              \/ RunCommit(r) \/ Reenqueue(r) \/ ReenqueueFails(r) \/ DeadLetter(r)
              \/ DeadLetterFails(r) \/ Ack(r) \/ ConnectionLost(r) \/ CommitVoided(r)
              \/ DeadlockAbort(r)
  PROVE  TransactionsOK'
  <1> USE DEF dbVars, runVars, mqVars, httpVars
  <1>1. CASE Deliver
    <2>1. ASSUME NEW q \in RunIds PROVE TxOK(run'[q])
      <3>1. TxOK(NewRun("worker", Head(queue))) /\ TxOK(run[q])
        BY DEF NewRun, NoRunYet, TxOK, TransactionsOK
      <3>2. run' = [run EXCEPT ![nruns + 1] = NewRun("worker", Head(queue))]
        BY <1>1 DEF Deliver, StartRun
      <3> QED BY <3>1, <3>2 DEF TypeOK
    <2> QED BY <1>1, <2>1 DEF Deliver, TransactionsOK, TxOK, Deleting
  <1>2. CASE Evict \/ LoseMessages
    BY <1>2, NoRunMoves DEF Evict, LoseMessages, docVars
  <1>3. CASE Crash
    <2>1. ASSUME NEW q \in RunIds PROVE TxOK(run'[q])
      <3>1. ASSUME NEW pc \in PCs \ {"commit"}
            PROVE  TxOK([Closed(q, pc) EXCEPT !.stray = {}])
        <4>1. TxOK(Closed(q, pc)) /\ Closed(q, pc) \in Run
          BY ClosedOK, ClosedType DEF TypeOK
        <4> HIDE DEF TypeOK
        <4> QED BY <4>1 DEF TxOK, Run
      <3>2. TxOK([Closed(q, "idle") EXCEPT !.stray = {}])
            /\ TxOK([Closed(q, "done") EXCEPT !.stray = {}])
        BY <3>1 DEF PCs
      <3>3. \/ run'[q] = [Closed(q, "idle") EXCEPT !.stray = {}]
            \/ run'[q] = [Closed(q, "done") EXCEPT !.stray = {}]
        BY <1>3 DEF Crash
      <3> QED BY <3>2, <3>3
    <2> QED BY <1>3, <2>1 DEF Crash, TransactionsOK, TxOK, Deleting
  <1>4. ASSUME NEW r \in RunIds, RunCommit(r) PROVE TransactionsOK'
    <2>1. /\ run[r].pc = "commit" /\ Publish(r) /\ UNCHANGED <<upload, del>>
          /\ \/ run' = [run EXCEPT ![r] = Closed(r, "ack")]
             \/ run' = [run EXCEPT ![r] = Closed(r, "done")]
      BY <1>4 DEF RunCommit
    <2> QED BY <2>1, CommitOK DEF PCs
  <1>5. ASSUME NEW r \in RunIds,
               \/ Reenqueue(r) \/ ReenqueueFails(r) \/ DeadLetter(r) \/ DeadLetterFails(r)
               \/ Ack(r)
        PROVE  TransactionsOK'
    <2>1. /\ Step(r, "ack") \/ Step(r, "done")
          /\ run[r].pc # "commit"
          /\ UNCHANGED docVars
      BY <1>5 DEF Reenqueue, ReenqueueFails, DeadLetter, DeadLetterFails, Ack, docVars
    <2> QED BY <2>1, StepOK DEF PCs
  <1>6. ASSUME NEW r \in RunIds, ConnectionLost(r) PROVE TransactionsOK'
    <2>1. Rollback(r) /\ UNCHANGED <<upload, del>>
      BY <1>6 DEF ConnectionLost
    <2>2. CASE UNCHANGED dbVars
      BY <2>1, <2>2, RollbackOK DEF docVars
    <2>3. CASE run[r].pc = "commit" /\ Publish(r)
      <3>1. \/ run' = [run EXCEPT ![r] = Closed(r, "handle")]
            \/ run' = [run EXCEPT ![r] = Closed(r, "done")]
        BY <2>1 DEF Rollback
      <3> QED BY <2>1, <2>3, <3>1, CommitOK DEF PCs
    <2> QED BY <1>6, <2>2, <2>3 DEF ConnectionLost
  <1>7. ASSUME NEW r \in RunIds, DeadlockAbort(r) PROVE TransactionsOK'
    <2>1. CASE Rollback(r) /\ UNCHANGED del
      BY <1>7, <2>1, RollbackOK DEF DeadlockAbort, docVars
    <2>2. CASE del' = "idle" /\ UNCHANGED <<run, abandoned>>
      BY <1>7, <2>2 DEF DeadlockAbort, TransactionsOK, TxOK, Deleting
    <2> QED BY <1>7, <2>1, <2>2 DEF DeadlockAbort
  <1>8. ASSUME NEW r \in RunIds, CommitVoided(r) PROVE TransactionsOK'
    <2>1. TxOK(Closed(r, "ack")) /\ TxOK(Closed(r, "done"))
      BY ClosedOK DEF PCs
    <2>2. \/ run' = [run EXCEPT ![r] = Closed(r, "ack")]
          \/ run' = [run EXCEPT ![r] = Closed(r, "done")]
      BY <1>8 DEF CommitVoided
    <2>3. UNCHANGED docVars
      BY <1>8 DEF CommitVoided, docVars
    <2> QED BY <2>1, <2>2, <2>3, OneRunMoves
  <1> QED BY <1>1, <1>2, <1>3, <1>4, <1>5, <1>6, <1>7, <1>8

-----------------------------------------------------------------------------
(* The theorems.                                                           *)

\* The transaction discipline holds in every reachable state.
THEOREM TransactionsCorrect == Spec => []TransactionsOK
  <1>1. Init => TransactionsOK
    BY DEF Init, TransactionsOK, TxOK, Deleting, NoRunYet
  <1>2. TypeOK /\ TransactionsOK /\ [Next]_vars => TransactionsOK'
    <2> SUFFICES ASSUME TypeOK, TransactionsOK, [Next]_vars PROVE TransactionsOK'
      OBVIOUS
    <2>1. CASE UNCHANGED vars
      BY <2>1, NoRunMoves DEF vars, docVars
    <2>2. CASE Next
      BY <2>2, RequestOK, HandlerOK, InTxOK, StrayOK DEF Next, UploadStep, DeleteStep, RunStep
    <2> QED BY <2>1, <2>2
  <1> QED BY <1>1, <1>2, TypeCorrect, PTL DEF Spec

\* The row appears, or the transaction that inserted it is rolled back.
Accepted == UploadCommit \/ UploadStray \/ UploadLate

\* Before that there was none, and nothing else of the document changes.
LEMMA AcceptedOK ==
  ASSUME TransactionsOK, Accepted
  PROVE  /\ row = "absent" /\ row' \in {"absent", "pending"} /\ UNCHANGED <<count, chunks>>
         /\ row' = "pending" => upload' \in {"inserted", "done"}
  BY DEF Accepted, UploadCommit, UploadStray, UploadLate, TransactionsOK

\* A step of Next changes the committed document in one of four ways: a COMMIT of a run, that
\* of the row's INSERT, the COMMIT of the deletion, or a stray insert that adds chunks.
LEMMA DocumentChanges ==
  ASSUME TypeOK, Next
  PROVE  \/ UNCHANGED <<row, count, chunks>>
         \/ \E r \in RunIds : run[r].pc = "commit" /\ Publish(r)
         \/ Accepted \/ DeleteCommit
         \/ \E r \in RunIds, b \in Batches : StrayInsert(r, b)
  <1> USE DEF dbVars
  <1>1. ASSUME NEW r \in RunIds, RunStep(r)
        PROVE  UNCHANGED <<row, count, chunks>> \/ (run[r].pc = "commit" /\ Publish(r))
    BY <1>1 DEF RunStep, FindDocument, ReadFile, Wipe, MarkProcessing, InsertBatch, BatchFails,
           PrepareFails, MarkFailed, MarkReady, RunCommit, Reenqueue, DeadLetter, Ack,
           DeadlockAbort, InTxUnchanged
  <1>2. ASSUME NEW r \in RunIds, \/ ReenqueueFails(r) \/ DeadLetterFails(r)
                                 \/ ConnectionLost(r) \/ CommitVoided(r)
        PROVE  UNCHANGED <<row, count, chunks>> \/ (run[r].pc = "commit" /\ Publish(r))
    BY <1>2 DEF ReenqueueFails, DeadLetterFails, ConnectionLost, CommitVoided
  <1>3. CASE \/ UploadSave \/ UploadCreate \/ UploadDispatch \/ UploadDisconnect
             \/ RetryCheck \/ RetryDispatch
             \/ DeleteLock \/ DeleteCascade \/ DeleteFile \/ DeleteDisconnect
             \/ Deliver \/ Evict \/ LoseMessages \/ Crash
    BY <1>3 DEF UploadSave, UploadCreate, UploadDispatch, UploadDisconnect, RetryCheck,
           RetryDispatch, DeleteLock, DeleteCascade, DeleteFile, DeleteDisconnect, Deliver,
           Evict, LoseMessages, Crash
  <1> QED BY <1>1, <1>2, <1>3 DEF Next, UploadStep, DeleteStep, Accepted

\* Whatever crashes, is redelivered or retried: a READY document has all its chunks, from
\* one run, and the right chunk_count.
THEOREM ReadyDocumentsAreComplete == Spec => []ReadyIsComplete
  <1>1. Init => ReadyIsComplete
    BY DEF Init, ReadyIsComplete
  <1>2. TypeOK /\ TransactionsOK /\ ReadyIsComplete /\ [Next]_vars => ReadyIsComplete'
    <2> SUFFICES ASSUME TypeOK, TransactionsOK, ReadyIsComplete, [Next]_vars
                 PROVE  ReadyIsComplete'
      OBVIOUS
    <2>1. CASE UNCHANGED <<row, count, chunks>>
      BY <2>1 DEF ReadyIsComplete
    <2>2. ASSUME NEW r \in RunIds, run[r].pc = "commit", Publish(r) PROVE ReadyIsComplete'
      BY <2>2, PublishOK
    <2>3. CASE Accepted \/ DeleteCommit
      BY <2>3, AcceptedOK DEF DeleteCommit, ReadyIsComplete
    <2>4. ASSUME NEW r \in RunIds, NEW b \in Batches, StrayInsert(r, b) PROVE ReadyIsComplete'
      <3>1. UNCHANGED <<row, count>>
        BY <2>4 DEF StrayInsert
      <3>2. ASSUME NEW q \in RunIds, chunks[q] = Batches PROVE chunks'[q] = Batches
        <4>1. chunks' = chunks \/ chunks' = [chunks EXCEPT ![r] = @ \cup {b}]
          BY <2>4 DEF StrayInsert
        <4> QED BY <4>1, <3>2 DEF TypeOK
      <3> QED BY <3>1, <3>2 DEF ReadyIsComplete
    <2>5. CASE Next
      BY <2>5, DocumentChanges, <2>1, <2>2, <2>3, <2>4
    <2> QED BY <2>1, <2>5 DEF vars
  <1> QED BY <1>1, <1>2, TypeCorrect, TransactionsCorrect, PTL DEF Spec

\* No reader outside the run's transaction ever finds PROCESSING, the status the frontend
\* polls for.
THEOREM ProcessingIsNeverVisible == Spec => []ProcessingNeverVisible
  <1>1. Init => ProcessingNeverVisible
    BY DEF Init, ProcessingNeverVisible
  <1>2. TypeOK /\ TransactionsOK /\ ProcessingNeverVisible /\ [Next]_vars
          => ProcessingNeverVisible'
    <2> SUFFICES ASSUME TypeOK, TransactionsOK, ProcessingNeverVisible, Next
                 PROVE  ProcessingNeverVisible'
      BY DEF vars, ProcessingNeverVisible
    <2>1. ASSUME NEW r \in RunIds, run[r].pc = "commit", Publish(r)
          PROVE  ProcessingNeverVisible'
      BY <2>1, PublishOK DEF ProcessingNeverVisible
    <2> QED BY <2>1, DocumentChanges, AcceptedOK
            DEF DeleteCommit, StrayInsert, ProcessingNeverVisible
  <1> QED BY <1>1, <1>2, TypeCorrect, TransactionsCorrect, PTL DEF Spec

\* A consumer run, however late or repeated, never takes READY away from a document.
THEOREM ReadyStays == Spec => ReadyIsSticky
  <1>1. TypeOK /\ TransactionsOK /\ [Next]_vars =>
          [row = "ready" /\ row' # "ready" =>
             \/ row' = "absent"
             \/ row' = "failed" /\ \E r \in RunIds :
                  run[r].kind = "local" /\ run[r].pc = "commit" /\ run[r].wrote = "failed"]_vars
    <2> SUFFICES ASSUME TypeOK, TransactionsOK, Next, row = "ready", row' # "ready"
                 PROVE  \/ row' = "absent"
                        \/ row' = "failed" /\ \E r \in RunIds :
                             run[r].kind = "local" /\ run[r].pc = "commit"
                             /\ run[r].wrote = "failed"
      OBVIOUS
    <2>1. ASSUME NEW r \in RunIds, run[r].pc = "commit", Publish(r)
          PROVE  row' = "failed" /\ run[r].wrote = "failed" /\ run[r].kind = "local"
      <3>1. row' = "failed" /\ run[r].wrote = "failed"
        BY <2>1, PublishOK
      <3> QED BY <3>1 DEF TransactionsOK, TxOK
    <2>2. ~Accepted
      BY AcceptedOK
    <2> QED BY <2>1, <2>2, DocumentChanges DEF DeleteCommit, StrayInsert
  <1> QED BY <1>1, TypeCorrect, TransactionsCorrect, PTL DEF Spec, ReadyIsSticky

=============================================================================
