-------------------------- MODULE BootstrapProofs --------------------------
(***************************************************************************)
(* For every set of tables and writes, every MaxEvents and every fault:    *)
(* only a persisted snapshot makes a stream repeat rows, a table marked    *)
(* complete has its snapshot sealed, batches marked as bootstrap hold rows *)
(* of the snapshot they name, and between snapshot and stream no row is    *)
(* missed.  The properties name their exceptions, the result sets that     *)
(* break off unnoticed among them.                                         *)
(***************************************************************************)
EXTENDS Bootstrap, BatcherProofs

\* The actions of BootNext.
LEMMA BootCases ==
    ASSUME BootNext
    PROVE  \/ \E t \in Table : Write(t) \/ Register(t)
           \/ \E t \in Table : MarkInProgress(t) \/ MarkInProgressFails(t)
           \/ \E w \in todo : RecordRow(w)
           \/ OpenSnapshot \/ ReadFails \/ CloseFailed \/ FlushSnapshot
           \/ MarkComplete \/ MarkCompleteFails
           \/ StartStream \/ RecordWrite \/ SkipWrite \/ WriteFails
           \/ Shutdown \/ BatcherStep \/ ProcessEnds \/ Restart
  BY DEF BootNext, MainStep

\* What broke off or was not loaded stays on record.
LEMMA LossesGrow ==
    ASSUME [BootNext]_allvars
    PROVE  /\ cut \subseteq cut' /\ missed \subseteq missed'
           /\ ~ FlushSnapshot => cut' = cut
  BY BootCases
     DEF Write, Register, MarkInProgress, MarkInProgressFails, TakePending, RecordRow, OpenSnapshot,
         ReadFails, CloseFailed, ReportFailure, FlushSnapshot, MarkComplete, MarkCompleteFails,
         StartStream, RecordWrite, SkipWrite, WriteFails, Shutdown, BatcherStep, ProcessEnds,
         Restart, StartDaemon, allvars, bootvars, notes

\* The daemon's steps are steps of the batcher.
LEMMA BootStepIsBatcherStep == BootTypeOK /\ RunnerState /\ [BootNext]_allvars => [BNext]_bvars
<1> SUFFICES ASSUME BootTypeOK, RunnerState, BootNext PROVE [BNext]_bvars
  BY DEF allvars
<1>1. ASSUME NEW t \in Table, Write(t) \/ Register(t) \/ MarkInProgress(t) \/ MarkInProgressFails(t)
      PROVE  UNCHANGED bvars
  BY <1>1 DEF Write, Register, MarkInProgress, MarkInProgressFails, TakePending
<1>2. ASSUME NEW w \in todo, RecordRow(w) PROVE BNext
  <2>1. [write |-> w, origin |-> "bootstrap"] \in Change /\ BootPosition \in Position
    BY BootstrapAssumption DEF BootTypeOK
  <2> QED
    BY <1>2, <2>1 DEF RecordRow, BNext
<1>3. CASE OpenSnapshot
  <2>1. table \in Table
    BY <1>3 DEF OpenSnapshot, BootTypeOK, RunnerState
  <2> QED
    BY <1>3, <2>1 DEF OpenSnapshot, BNext
<1>4. CASE ReadFails \/ MarkComplete \/ MarkCompleteFails \/ StartStream \/ SkipWrite
  BY <1>4 DEF ReadFails, MarkComplete, MarkCompleteFails, StartStream, SkipWrite
<1>5. CASE CloseFailed \/ FlushSnapshot \/ WriteFails
  BY <1>5 DEF CloseFailed, FlushSnapshot, WriteFails, BNext
<1>6. CASE RecordWrite
  <2>1. received + 1 \in 1..MaxWrites
    BY <1>6, BootstrapAssumption DEF RecordWrite, AtWrite, BootTypeOK
  <2>2. [write |-> received + 1, origin |-> "live"] \in Change /\ received + 1 \in Position
    BY <2>1, BootstrapAssumption
  <2> QED
    BY <1>6, <2>2 DEF RecordWrite, BNext
<1>7. CASE Shutdown \/ BatcherStep \/ ProcessEnds \/ Restart
  BY <1>7 DEF Shutdown, BatcherStep, ProcessEnds, Restart, StartDaemon, BNext
<1> QED
  BY BootCases, <1>1, <1>2, <1>3, <1>4, <1>5, <1>6, <1>7

(***************************************************************************)
(* Types.                                                                  *)
(***************************************************************************)

LEMMA StreamFromType ==
    ASSUME BootTypeOK
    PROVE  StreamFrom(resume) \in 0..MaxWrites
  BY BootstrapAssumption DEF StreamFrom, BootTypeOK

LEMMA BootLatestType ==
    ASSUME TypeOK, BatchesOrdered
    PROVE  LatestCheckpoint \in Position \cup {NoPosition}
<1>1. CASE DOMAIN auditBatches = {}
  BY <1>1 DEF LatestCheckpoint
<1>2. CASE DOMAIN auditBatches # {}
  <2> DEFINE last == CHOOSE b \in DOMAIN auditBatches : \A c \in DOMAIN auditBatches : c <= b
  <2>1. last \in DOMAIN auditBatches
    BY <1>2 DEF BatchesOrdered
  <2>2. LatestCheckpoint = auditBatches[last].pos
    BY <1>2 DEF LatestCheckpoint
  <2> QED
    BY <2>1, <2>2 DEF TypeOK, BatchRow
<1> QED
  BY <1>1, <1>2

LEMMA BootTypeOKInductive ==
    ASSUME BootTypeOK, TypeOK', BatchesOrdered, RunnerState, BootNext
    PROVE  BootTypeOK'
<1> USE BootstrapAssumption, BatcherAssumption
<1>0. TypeOK
  BY DEF BootTypeOK
<1>1. ASSUME NEW t \in Table, Write(t) PROVE BootTypeOK'
  <2>1. writes' \in Seq(Table) /\ Len(writes') = Len(writes) + 1
    BY <1>1 DEF Write, BootTypeOK
  <2>2. Len(writes') \in 1..MaxWrites
    BY <1>1, <2>1 DEF Write, BootTypeOK
  <2> QED
    BY <1>1, <2>1, <2>2 DEF Write, BootTypeOK, running, notes
<1>2. ASSUME NEW t \in Table, Register(t) PROVE BootTypeOK'
  BY <1>2 DEF Register, BootTypeOK, running, notes
<1>3. ASSUME NEW t \in Table, MarkInProgress(t) \/ MarkInProgressFails(t) PROVE BootTypeOK'
  BY <1>3 DEF MarkInProgress, MarkInProgressFails, TakePending, BootTypeOK, notes
<1>4. ASSUME NEW w \in todo, RecordRow(w) PROVE BootTypeOK'
  BY <1>4 DEF RecordRow, BootTypeOK, mysql, notes
<1>5. CASE OpenSnapshot
  <2>1. RowsOf(table) \subseteq 1..MaxWrites
    BY DEF RowsOf, BootTypeOK
  <2> QED
    BY <1>5, <2>1 DEF OpenSnapshot, BootTypeOK, mysql
<1>6. CASE ReadFails \/ CloseFailed
  <2>1. table \in Table
    BY <1>6 DEF ReadFails, CloseFailed, RunnerState, BootTypeOK
  <2> QED
    BY <1>6, <2>1 DEF ReadFails, CloseFailed, Leave, ReportFailure, BootTypeOK, mysql
<1>7. CASE FlushSnapshot
  <2>1. table \in Table
    BY <1>7 DEF FlushSnapshot, RunnerState, BootTypeOK
  <2> QED
    BY <1>7, <2>1 DEF FlushSnapshot, BootTypeOK, mysql
<1>8. CASE MarkComplete \/ MarkCompleteFails
  BY <1>8 DEF MarkComplete, MarkCompleteFails, Leave, BootTypeOK, notes
<1>9. CASE StartStream
  BY <1>9, StreamFromType DEF StartStream, BootTypeOK, mysql, notes
<1>10. CASE RecordWrite \/ SkipWrite
  <2>1. received + 1 \in 0..MaxWrites
    BY <1>10 DEF RecordWrite, SkipWrite, AtWrite, BootTypeOK
  <2> QED
    BY <1>10, <2>1 DEF RecordWrite, SkipWrite, BootTypeOK, mysql, notes
<1>11. CASE WriteFails \/ Shutdown \/ BatcherStep
  BY <1>11 DEF WriteFails, Shutdown, BatcherStep, BootTypeOK, bootvars, mysql, running, notes
<1>12. CASE ProcessEnds
  BY <1>12 DEF ProcessEnds, BootTypeOK, mysql, notes, NoStream
<1>13. CASE Restart
  <2>1. resume' \in Position \cup {NoPosition}
    BY <1>0, <1>13, BootLatestType DEF Restart, StartDaemon
  <2>2. table' = NoTable
    BY <1>13 DEF Restart, StartDaemon, NewBatcher, RunnerState
  <2> QED
    BY <1>13, <2>1, <2>2
       DEF Restart, StartDaemon, BootTypeOK, Registered, NotStarted, Complete, mysql
<1> QED
  BY BootCases, <1>1, <1>2, <1>3, <1>4, <1>5, <1>6, <1>7, <1>8, <1>9, <1>10, <1>11, <1>12, <1>13

(***************************************************************************)
(* What a step of the batcher does to the rows of a snapshot.              *)
(***************************************************************************)

\* Both stores only grow, and batch ids too.
LEMMA StoresGrow ==
    ASSUME IndInv, [BNext]_bvars
    PROVE  /\ auditRecords \subseteq auditRecords'
           /\ DOMAIN checkpoints \subseteq DOMAIN checkpoints'
           /\ batchID' \in {batchID, batchID + 1}
           /\ DOMAIN auditBatches' \in {DOMAIN auditBatches, DOMAIN auditBatches \cup {batchID}}
<1>1. CASE Committed /\ batchID' = batchID
  BY <1>1 DEF Committed, With
<1>2. CASE PutCommitted /\ batchID' \in {batchID, batchID + 1}
  BY <1>2 DEF PutCommitted, With
<1>3. CASE UNCHANGED durable /\ batchID' \in {batchID, batchID + 1}
  BY <1>3 DEF durable
<1> QED
  BY <1>1, <1>2, <1>3
     DEF BNext, AddRecord, SetBootstrapMode, Flush, TakeError, CancelCtx, Close, TimerFire,
         Enter, CloseEmpty, CloseBegin, CloseStep, CloseFails, SignOK, SignFails, CreateBatchOK,
         CreateBatchAckLost, CreateBatchFails, PutCheckpointOK, PutCheckpointChmodFails,
         PutCheckpointFails, Crash, Exit, Halt, NewBatcher, bvars, volatile, durable

LEMMA SealedStays ==
    ASSUME IndInv, [BNext]_bvars, NEW w, Sealed(w, "bootstrap")
    PROVE  Sealed(w, "bootstrap")'
<1>1. auditRecords \subseteq auditRecords' /\ DOMAIN checkpoints \subseteq DOMAIN checkpoints'
  BY StoresGrow
<1> QED
  BY <1>1 DEF Sealed

\* While the process lives a buffered row stays in the buffer until the
\* close that seals it.
LEMMA BufferedOrSealed ==
    ASSUME IndInv, [BNext]_bvars, up', NEW w, Buffered(w)
    PROVE  Buffered(w)' \/ Sealed(w, "bootstrap")'
<1>1. CASE records' = records
  BY <1>1 DEF Buffered
<1>2. ASSUME NEW c \in Change, NEW p \in Position, AddRecord(c, p)
      PROVE  Buffered(w)'
  <2> DEFINE rec == [change |-> c, batch |-> batchID, leaf |-> Len(records)]
  <2>1. records' = Append(records, rec)
    BY <1>2 DEF AddRecord
  <2>2. records \in Seq(Record) /\ rec \in Record
    BY DEF IndInv, TypeOK, Record, BatchId
  <2>3. Len(records') = Len(records) + 1 /\ \A i \in 1..Len(records) : records'[i] = records[i]
    BY <2>1, <2>2
  <2>4. PICK i \in 1..Len(records) : records[i].change = [write |-> w, origin |-> "bootstrap"]
    BY DEF Buffered
  <2>5. i \in 1..Len(records') /\ records'[i] = records[i]
    BY <2>2, <2>3
  <2> QED
    BY <2>4, <2>5 DEF Buffered
<1>3. CASE PutCheckpointOK
  <2>1. PICK i \in 1..Len(records) : records[i].change = [write |-> w, origin |-> "bootstrap"]
    BY DEF Buffered
  <2>2. records[i] \in auditRecords /\ records[i].batch = batchID
    BY <1>3 DEF PutCheckpointOK, IndInv, CloseProgress, BufferIndexed
  <2>3. auditRecords' = auditRecords /\ batchID \in DOMAIN checkpoints'
    BY <1>3 DEF PutCheckpointOK, PutCommitted, With
  <2> QED
    BY <2>1, <2>2, <2>3 DEF Sealed
<1>4. CASE Crash \/ Exit
  BY <1>4 DEF Crash, Exit, Halt
<1>5. CASE ~ (\E c \in Change, p \in Position : AddRecord(c, p))
           /\ ~ PutCheckpointOK /\ ~ Crash /\ ~ Exit
  <2>1. records' = records
    BY <1>5
     DEF BNext, SetBootstrapMode, Flush, TakeError, CancelCtx, Close, TimerFire,
         Enter, CloseEmpty, CloseBegin, CloseStep, CloseFails, SignOK, SignFails, CreateBatchOK,
         CreateBatchAckLost, CreateBatchFails, PutCheckpointChmodFails,
         PutCheckpointFails, NewBatcher, bvars, volatile
  <2> QED
    BY <2>1, <1>1
<1> QED
  BY <1>2, <1>3, <1>4, <1>5

\* A Flush that has returned without an error leaves an empty buffer.
LEMMA ReadyMeansEmpty ==
    ASSUME IndInv, BatcherStep, call' = "ready"
    PROVE  records' = <<>> \/ (call = "ready" /\ records' = records)
<1>1. CASE TimerFire \/ SignOK \/ CreateBatchOK
  BY <1>1 DEF TimerFire, SignOK, CreateBatchOK
<1>2. ASSUME NEW w \in {"run", "timer"}, Enter(w)
      PROVE  records' = <<>> \/ (call = "ready" /\ records' = records)
  BY <1>2 DEF Enter, CloseEmpty, CloseBegin
<1>3. CASE PutCheckpointOK
  BY <1>3 DEF PutCheckpointOK
<1>4. CASE CloseFails
  BY <1>4 DEF CloseFails, Returned
<1> QED
  BY <1>1, <1>2, <1>3, <1>4
     DEF BatcherStep, CloseStep, SignFails, CreateBatchAckLost, CreateBatchFails,
         PutCheckpointChmodFails, PutCheckpointFails

(***************************************************************************)
(* The inductive invariant.                                                *)
(***************************************************************************)

LEMMA BatchesOrderedInductive ==
    ASSUME IndInv, BatchesOrdered, [BNext]_bvars
    PROVE  BatchesOrdered'
<1>1. batchID \in Nat /\ DOMAIN auditBatches \subseteq Nat
  BY DEF IndInv, TypeOK, BatchId
<1>2. batchID' \in Nat /\ batchID' >= batchID
  BY <1>1, StoresGrow
<1>3. CASE DOMAIN auditBatches' = DOMAIN auditBatches
  BY <1>1, <1>2, <1>3 DEF BatchesOrdered
<1>4. CASE DOMAIN auditBatches' = DOMAIN auditBatches \cup {batchID}
  BY <1>1, <1>2, <1>4 DEF BatchesOrdered
<1> QED
  BY <1>3, <1>4, StoresGrow

LEMMA RunnerStateInductive ==
    ASSUME BootTypeOK, RunnerState, BootNext
    PROVE  RunnerState'
<1> USE BatcherAssumption
<1>1. ASSUME NEW t \in Table, Write(t) \/ Register(t) PROVE RunnerState'
  BY <1>1 DEF Write, Register, RunnerState, BootTypeOK, running, bvars, volatile
<1>2. ASSUME NEW t \in Table, MarkInProgress(t) \/ MarkInProgressFails(t) PROVE RunnerState'
  BY <1>2 DEF MarkInProgress, MarkInProgressFails, TakePending, RunnerState, BootTypeOK, bvars,
              volatile
<1>3. ASSUME NEW w \in todo, RecordRow(w) PROVE RunnerState'
  BY <1>3 DEF RecordRow, AddRecord, RunnerState, mysql
<1>4. CASE OpenSnapshot \/ FlushSnapshot
  BY <1>4 DEF OpenSnapshot, SetBootstrapMode, FlushSnapshot, Flush, RunnerState, mysql
<1>5. CASE ReadFails \/ CloseFailed \/ MarkComplete \/ MarkCompleteFails
  BY <1>5 DEF ReadFails, CloseFailed, MarkComplete, MarkCompleteFails, Leave, RunnerState
<1>6. CASE StartStream \/ RecordWrite \/ SkipWrite
  BY <1>6 DEF StartStream, RecordWrite, SkipWrite, AtWrite, RunnerState
<1>7. CASE WriteFails \/ Shutdown
  BY <1>7 DEF WriteFails, Shutdown, RunnerState, bootvars, running
<1>8. CASE BatcherStep
  <2>1. up' = up
    BY <1>8 DEF BatcherStep, TimerFire, Enter, CloseEmpty, CloseBegin, CloseStep, CloseFails,
                SignOK, SignFails, CreateBatchOK, CreateBatchAckLost, CreateBatchFails,
                PutCheckpointOK, PutCheckpointChmodFails, PutCheckpointFails
  <2> QED
    BY <1>8, <2>1 DEF BatcherStep, RunnerState, bootvars, running, mysql
<1>9. CASE ProcessEnds
  BY <1>9 DEF ProcessEnds, RunnerState
<1>10. CASE Restart
  BY <1>10 DEF Restart, StartDaemon, NewBatcher, RunnerState, mysql
<1> QED
  BY BootCases, <1>1, <1>2, <1>3, <1>4, <1>5, <1>6, <1>7, <1>8, <1>9, <1>10

\* The rows of the running snapshot: none is lost on its way to the seal.
LEMMA SnapshotKeptInductive ==
    ASSUME IndInv, BootTypeOK, RunnerState, SnapshotKept,
           [BNext]_bvars, RunnerState', BootNext
    PROVE  SnapshotKept'
<1> SUFFICES ASSUME bstep' \in {"rows", "complete"} PROVE SnapshotKept'
  BY DEF SnapshotKept
<1>0. table' # NoTable /\ up'
  BY DEF RunnerState
<1>1. ASSUME image' = image, table' = table, bstep \in {"rows", "complete"}, todo' = todo
      PROVE  \/ table' \in cut'
             \/ \A w \in image'[table'] : w \in todo' \/ Buffered(w)' \/ Sealed(w, "bootstrap")'
  BY <1>0, <1>1, BufferedOrSealed, SealedStays, LossesGrow DEF SnapshotKept
<1>2. ASSUME UNCHANGED <<bstep, todo, table, image, call, records>> PROVE SnapshotKept'
  BY <1>1, <1>2 DEF SnapshotKept
<1>3. ASSUME NEW t \in Table, Write(t) \/ Register(t) PROVE SnapshotKept'
  BY <1>2, <1>3 DEF Write, Register, running, notes, bvars, volatile
<1>4. ASSUME NEW t \in Table, MarkInProgress(t) \/ MarkInProgressFails(t) PROVE FALSE
  BY <1>4 DEF MarkInProgress, MarkInProgressFails, TakePending
<1>5. ASSUME NEW w \in todo, RecordRow(w) PROVE SnapshotKept'
  <2> DEFINE rec == [change |-> [write |-> w, origin |-> "bootstrap"],
                     batch |-> batchID, leaf |-> Len(records)]
  <2>1. records' = Append(records, rec) /\ bstep = "rows" /\ bstep' = "rows"
        /\ todo' = todo \ {w} /\ table' = table /\ image' = image
    BY <1>5 DEF RecordRow, AddRecord, notes
  <2>2. Len(records) \in Nat /\ Len(records') = Len(records) + 1
        /\ records'[Len(records) + 1] = rec
    <3>1. records \in Seq(Record) /\ Len(records) \in Nat
      BY DEF IndInv, TypeOK
    <3>2. [write |-> w, origin |-> "bootstrap"] \in Change
      BY BootstrapAssumption DEF BootTypeOK
    <3>3. rec \in Record
      BY <3>1, <3>2 DEF Record, BatchId, IndInv, TypeOK
    <3> QED
      BY <3>1, <3>3, <2>1
  <2>3. Buffered(w)'
    <3>1. Len(records) + 1 \in 1..Len(records')
      BY <2>2
    <3> QED
      BY <2>2, <3>1 DEF Buffered
  <2> QED
    BY <1>0, <2>1, <2>3, BufferedOrSealed, SealedStays, LossesGrow DEF SnapshotKept
<1>6. CASE OpenSnapshot
  <2>1. table \in Table /\ table' = table /\ todo' = RowsOf(table) /\ bstep' = "rows"
        /\ image' = [image EXCEPT ![table] = RowsOf(table)]
    BY <1>6 DEF OpenSnapshot, RunnerState, BootTypeOK
  <2>2. image'[table'] = todo'
    BY <2>1 DEF BootTypeOK
  <2> QED
    BY <2>1, <2>2 DEF SnapshotKept
<1>7. CASE ReadFails \/ CloseFailed \/ MarkComplete \/ MarkCompleteFails
  BY <1>0, <1>7 DEF ReadFails, CloseFailed, MarkComplete, MarkCompleteFails, Leave
<1>8. CASE FlushSnapshot
  <2>1. todo' = {} /\ bstep = "rows" /\ table' = table /\ image' = image
        /\ call' = "closing" /\ (todo # {} => table' \in cut')
    BY <1>8 DEF FlushSnapshot, Flush
  <2> QED
    BY <1>1, <2>1 DEF SnapshotKept
<1>9. CASE StartStream \/ RecordWrite \/ SkipWrite
  BY <1>9 DEF StartStream, RecordWrite, SkipWrite, AtWrite
<1>10. CASE WriteFails \/ Shutdown
  BY <1>10 DEF WriteFails, Shutdown, bootvars, running
<1>11. CASE BatcherStep
  <2>1. UNCHANGED <<bstep, todo, table, image>>
    BY <1>11 DEF BatcherStep, bootvars, running, notes
  <2>2. bstep = "complete" /\ call' = "ready" => records' = <<>>
    BY <1>11, ReadyMeansEmpty DEF SnapshotKept
  <2> QED
    BY <1>1, <2>1, <2>2 DEF SnapshotKept
<1>12. CASE ProcessEnds
  BY <1>0, <1>12 DEF ProcessEnds
<1>13. CASE Restart
  BY <1>0, <1>13 DEF Restart, StartDaemon, NewBatcher, RunnerState
<1> QED
  BY BootCases, <1>3, <1>4, <1>5, <1>6, <1>7, <1>8, <1>9, <1>10, <1>11, <1>12, <1>13

LEMMA CompleteIsSealedInductive ==
    ASSUME IndInv, BootTypeOK, RunnerState, SnapshotKept, CompleteIsSealed,
           [BNext]_bvars, BootNext
    PROVE  CompleteIsSealed'
<1> USE BatcherAssumption
<1>1. ASSUME NEW t \in Table \ cut', image'[t] = image[t], status[t] = "complete"
      PROVE  \A w \in image'[t] : Sealed(w, "bootstrap")'
  BY <1>1, SealedStays, LossesGrow DEF CompleteIsSealed, Complete
<1>2. ASSUME UNCHANGED image, \A t \in Table : status'[t] = "complete" => status[t] = "complete"
      PROVE  CompleteIsSealed'
  BY <1>1, <1>2 DEF CompleteIsSealed, Complete
<1>3. ASSUME NEW t \in Table,
             Write(t) \/ Register(t) \/ MarkInProgress(t) \/ MarkInProgressFails(t)
      PROVE  CompleteIsSealed'
  <2>1. UNCHANGED image /\ \A u \in Table : status'[u] = "complete" => status[u] = "complete"
    BY <1>3 DEF Write, Register, MarkInProgress, MarkInProgressFails, TakePending, notes, BootTypeOK
  <2> QED
    BY <1>2, <2>1
<1>4. CASE OpenSnapshot
  <2>1. status' = status /\ status[table] # "complete"
        /\ \A t \in Table : t # table => image'[t] = image[t]
    BY <1>4 DEF OpenSnapshot, RunnerState, BootTypeOK, mysql
  <2> QED
    BY <1>1, <2>1 DEF CompleteIsSealed, Complete
<1>5. CASE MarkComplete \/ MarkCompleteFails
  <2>1. /\ table \in Table /\ bstep = "complete" /\ records = <<>> /\ todo = {}
        /\ image' = image /\ \A t \in Table : t # table => status'[t] = status[t]
    BY <1>5 DEF MarkComplete, MarkCompleteFails, RunnerState, SnapshotKept, BootTypeOK, notes
  <2>2. table \in cut \/ \A w \in image[table] : Sealed(w, "bootstrap")
    <3>1. ASSUME NEW w, Buffered(w) PROVE FALSE
      BY <2>1, <3>1 DEF Buffered
    <3> QED
      BY <2>1, <3>1 DEF SnapshotKept
  <2>3. table \in cut' \/ \A w \in image[table] : Sealed(w, "bootstrap")'
    BY <2>2, SealedStays, LossesGrow
  <2> QED
    BY <1>1, <2>1, <2>3 DEF CompleteIsSealed, Complete
<1>6. CASE \/ \E w \in todo : RecordRow(w)
           \/ ReadFails \/ CloseFailed \/ FlushSnapshot
           \/ StartStream \/ RecordWrite \/ SkipWrite \/ WriteFails
           \/ Shutdown \/ BatcherStep \/ ProcessEnds \/ Restart
  <2>1. UNCHANGED <<image, status>>
    BY <1>6 DEF RecordRow, ReadFails, CloseFailed, ReportFailure, FlushSnapshot, StartStream,
                RecordWrite, SkipWrite, WriteFails, Shutdown, BatcherStep, ProcessEnds,
                Restart, StartDaemon, bootvars, mysql, notes
  <2> QED
    BY <1>2, <2>1
<1> QED
  BY BootCases, <1>3, <1>4, <1>5, <1>6

LEMMA BootCoreInductive ==
    ASSUME BootCore, [BootNext]_allvars
    PROVE  BootCore' /\ [BNext]_bvars
<1>1. [BNext]_bvars
  BY BootStepIsBatcherStep DEF BootCore
<1>2. TypeOK' /\ IndInv'
  BY <1>1, TypeOKInductive, IndInvInductive DEF BootCore, IndInv
<1>3. BatchesOrdered'
  BY <1>1, BatchesOrderedInductive DEF BootCore
<1>4. CASE BootNext
  BY <1>1, <1>2, <1>3, <1>4, BootTypeOKInductive, RunnerStateInductive DEF BootCore
<1>5. CASE UNCHANGED allvars
  <2>1. UNCHANGED <<writes, status, scope, pending, table, bstep, todo, resume, received,
                    alerted, image, cut, missed, up>>
    BY <1>5 DEF allvars, bvars, bootvars, mysql, running, notes, volatile
  <2>2. BootTypeOK' /\ RunnerState'
    BY <1>2, <2>1 DEF BootCore, BootTypeOK, RunnerState
  <2> QED
    BY <1>1, <1>2, <1>3, <2>2 DEF BootCore
<1> QED
  BY <1>4, <1>5

LEMMA BootIndInvInductive ==
    ASSUME BootIndInv, [BootNext]_allvars
    PROVE  BootIndInv'
<1>1. BootCore' /\ [BNext]_bvars
  BY BootCoreInductive DEF BootIndInv
<1>2. CASE BootNext
  <2>1. SnapshotKept'
    BY <1>1, <1>2, SnapshotKeptInductive DEF BootIndInv, BootCore
  <2>2. CompleteIsSealed'
    BY <1>1, <1>2, CompleteIsSealedInductive DEF BootIndInv, BootCore
  <2> QED
    BY <1>1, <2>1, <2>2 DEF BootIndInv
<1>3. CASE UNCHANGED allvars
  <2>1. UNCHANGED <<status, table, bstep, todo, image, cut, call, records, auditRecords,
                    checkpoints>>
    BY <1>3 DEF allvars, bvars, bootvars, mysql, running, notes, volatile, durable
  <2>2. SnapshotKept' /\ CompleteIsSealed'
    BY <2>1 DEF BootIndInv, SnapshotKept, CompleteIsSealed, Complete, Buffered, Sealed
  <2> QED
    BY <1>1, <2>2 DEF BootIndInv
<1> QED
  BY <1>2, <1>3

LEMMA BootIndInvInit == BootInit => BootIndInv
<1> SUFFICES ASSUME BootInit PROVE BootIndInv
  OBVIOUS
<1> USE BootstrapAssumption, BatcherAssumption
<1>1. IndInv /\ TypeOK
  BY IndInvInit DEF BootInit, IndInv
<1>2. writes \in Seq(Table) /\ Len(writes) = Expired
  BY DEF BootInit
<1>3. BootTypeOK
  BY <1>1, <1>2 DEF BootInit, BootTypeOK, Registered, NotStarted, NoStream
<1>4. DOMAIN auditBatches = {}
  BY DEF BootInit, Init, NoRows
<1> QED
  BY <1>1, <1>3, <1>4
     DEF BootInit, BootIndInv, BootCore, BatchesOrdered, RunnerState, SnapshotKept,
         CompleteIsSealed, Complete

(***************************************************************************)
(* The theorems.                                                           *)
(***************************************************************************)

\* The invariant holds in every state the daemon reaches.
THEOREM BootInductive == BootSpec => []BootIndInv
<1>1. BootIndInv /\ [BootNext]_allvars => BootIndInv'
  BY BootIndInvInductive
<1> QED
  BY <1>1, BootIndInvInit, PTL DEF BootSpec

\* The part that does not speak of snapshots: the batcher's invariant, the types, the
\* order of the batches and where the runner is.
THEOREM BootCoreHolds == BootSpec => []BootCore
<1>1. BootInit => BootCore
  BY BootIndInvInit DEF BootIndInv
<1>2. BootCore /\ [BootNext]_allvars => BootCore'
  BY BootCoreInductive
<1> QED
  BY <1>1, <1>2, PTL DEF BootSpec

\* All variables of the bootstrapping daemon keep their types; that the latest
\* checkpoint is a position rests on the order of the batches.
THEOREM BootTypeCorrect == BootSpec => []BootTypeOK
<1>1. BootCore => BootTypeOK
  BY DEF BootCore
<1> QED
  BY <1>1, BootCoreHolds, PTL

\* A table marked complete has every row of its snapshot in a sealed batch,
\* whatever close failed, whichever goroutine closed and whenever the
\* process died, unless its result set broke off.
THEOREM CompleteTablesSealed == BootSpec => []CompleteIsSealed
<1>1. BootIndInv => CompleteIsSealed
  BY DEF BootIndInv, BootCore
<1> QED
  BY <1>1, BootInductive, PTL

(***************************************************************************)
(* What a step of the daemon does to the buffer and to the source.         *)
(***************************************************************************)

\* A step of the batcher's own goroutines commits the buffer, empties it once
\* it is stored, or leaves it alone.
LEMMA BatcherStepCases ==
    ASSUME IndInv, BatcherStep
    PROVE  /\ up /\ up' /\ UNCHANGED bootvars /\ lastPosition' = lastPosition
           /\ \/ UNCHANGED <<records, bootstrap, auditBatches, auditRecords>>
              \/ Committed /\ step = "create" /\ UNCHANGED <<records, bootstrap, batchID>>
              \/ /\ records' = <<>> /\ bootstrap' = NoTable
                 /\ UNCHANGED <<auditBatches, auditRecords>>
                 /\ \A i \in 1..Len(records) : records[i] \in auditRecords
<1>1. CASE PutCheckpointOK
  BY <1>1 DEF PutCheckpointOK, PutCommitted, IndInv, CloseProgress, BatcherStep
<1>2. CASE ~ PutCheckpointOK
  BY <1>2 DEF BatcherStep, TimerFire, Enter, Entering, CloseEmpty, CloseBegin, CloseStep, CloseFails,
              SignOK, SignFails, CreateBatchOK, CreateBatchAckLost, CreateBatchFails,
              PutCheckpointChmodFails, PutCheckpointFails, PutCommitted, durable
<1> QED
  BY <1>1, <1>2

\* The other steps do not touch what is buffered or stored.
LEMMA QuietSteps ==
    ASSUME [BootNext]_allvars, ~ \E w \in todo : RecordRow(w), ~ RecordWrite, ~ OpenSnapshot,
           ~ BatcherStep, ~ ProcessEnds
    PROVE  UNCHANGED <<records, lastPosition, bootstrap, auditBatches, auditRecords>>
<1>1. CASE \/ \E t \in Table : \/ Write(t) \/ Register(t) \/ MarkInProgress(t)
                               \/ MarkInProgressFails(t)
           \/ ReadFails \/ MarkComplete \/ MarkCompleteFails \/ StartStream \/ SkipWrite
           \/ UNCHANGED allvars
  <2>1. UNCHANGED bvars
    BY <1>1 DEF Write, Register, MarkInProgress, MarkInProgressFails, TakePending, ReadFails,
                MarkComplete, MarkCompleteFails, StartStream, SkipWrite, allvars
  <2> QED
    BY <2>1 DEF bvars, volatile, durable
<1>2. CASE CloseFailed \/ FlushSnapshot \/ WriteFails \/ Shutdown \/ Restart
  BY <1>2 DEF CloseFailed, WriteFails, TakeError, FlushSnapshot, Flush, Shutdown, CancelCtx,
              Close, Restart, StartDaemon, NewBatcher, durable
<1> QED
  BY BootCases, <1>1, <1>2

\* Writes are only appended, and an alert is not taken back.
LEMMA WritesGrow ==
    ASSUME BootTypeOK, [BootNext]_allvars
    PROVE  /\ Len(writes) \in Nat /\ Len(writes') \in Nat /\ Len(writes) <= Len(writes')
           /\ \A w \in 1..Len(writes) : writes'[w] = writes[w]
           /\ alerted \subseteq alerted'
<1>1. writes \in Seq(Table)
  BY DEF BootTypeOK
<1>2. ASSUME NEW t \in Table, Write(t)
      PROVE  /\ Len(writes) \in Nat /\ Len(writes') \in Nat /\ Len(writes) <= Len(writes')
             /\ \A w \in 1..Len(writes) : writes'[w] = writes[w]
             /\ alerted \subseteq alerted'
  BY <1>1, <1>2 DEF Write, notes
<1>3. CASE ~ \E t \in Table : Write(t)
  <2>1. writes' = writes /\ alerted \subseteq alerted'
    BY <1>3, BootCases
       DEF Register, MarkInProgress, MarkInProgressFails, TakePending, RecordRow, OpenSnapshot,
           ReadFails, CloseFailed, ReportFailure, FlushSnapshot, MarkComplete, MarkCompleteFails,
           StartStream, RecordWrite, SkipWrite, WriteFails, Shutdown, BatcherStep, ProcessEnds,
           Restart, StartDaemon, allvars, bootvars, mysql, notes
  <2> QED
    BY <1>1, <2>1
<1> QED
  BY <1>2, <1>3

\* A row a table has now it had before, or it was written in this step.
LEMMA RowsGrow ==
    ASSUME BootTypeOK, [BootNext]_allvars, NEW t
    PROVE  /\ RowsOf(t) \subseteq RowsOf(t)'
           /\ \A w \in RowsOf(t)' : w \in RowsOf(t) \/ w > Len(writes)
  BY WritesGrow DEF RowsOf

\* Only the first read of a snapshot sets an image.
LEMMA ImageSteps ==
    ASSUME [BootNext]_allvars, ~ OpenSnapshot
    PROVE  image' = image
  BY BootCases
     DEF Write, Register, MarkInProgress, MarkInProgressFails, TakePending, RecordRow,
         ReadFails, CloseFailed, ReportFailure, FlushSnapshot, MarkComplete, MarkCompleteFails,
         StartStream, RecordWrite, SkipWrite, WriteFails, Shutdown, BatcherStep, ProcessEnds,
         Restart, StartDaemon, allvars, bootvars, notes

\* What a record added to the buffer looks like.
LEMMA BufferGrows ==
    ASSUME IndInv, NEW c, NEW p, AddRecord(c, p)
    PROVE  /\ Len(records) \in Nat /\ Len(records') = Len(records) + 1
           /\ records'[Len(records) + 1].change = c
           /\ \A i \in 1..Len(records) : records'[i] = records[i]
           /\ lastPosition' = p
           /\ UNCHANGED <<up, bootstrap, auditBatches, auditRecords>>
<1> DEFINE rec == [change |-> c, batch |-> batchID, leaf |-> Len(records)]
<1>1. records' = Append(records, rec)
  BY DEF AddRecord
<1>2. records \in Seq(Record) /\ rec.change = c
  BY DEF IndInv, TypeOK
<1> HIDE DEF rec
<1>3. /\ Len(records) \in Nat /\ Len(records') = Len(records) + 1
      /\ records'[Len(records) + 1] = rec
      /\ \A i \in 1..Len(records) : records'[i] = records[i]
  BY <1>1, <1>2
<1> QED
  BY <1>2, <1>3 DEF AddRecord, durable

\* The trail in terms of the buffer.
LEMMA TrailType ==
    ASSUME IndInv
    PROVE  /\ Trail = auditRecords \cup {records[i] : i \in 1..Len(records)}
           /\ \A r \in Trail : r.change.write \in 1..MaxWrites
<1>1. DOMAIN records = 1..Len(records) /\ Trail \subseteq Record
  BY DEF IndInv, TypeOK, Trail
<1> QED
  BY <1>1, BootstrapAssumption DEF Trail, Record

(***************************************************************************)
(* The bootstrap mark.                                                     *)
(***************************************************************************)

LEMMA PendingInductive ==
    ASSUME BootTypeOK, RunnerState, PendingIsNotStarted, [BootNext]_allvars
    PROVE  PendingIsNotStarted'
<1>1. ASSUME NEW t \in Table, Register(t) \/ MarkInProgress(t) \/ MarkInProgressFails(t)
      PROVE  PendingIsNotStarted'
  BY <1>1 DEF Register, MarkInProgress, MarkInProgressFails, TakePending, PendingIsNotStarted,
              NotStarted, BootTypeOK, running
<1>2. CASE MarkComplete \/ MarkCompleteFails
  BY <1>2 DEF MarkComplete, MarkCompleteFails, Leave, PendingIsNotStarted, NotStarted,
              BootTypeOK, RunnerState
<1>3. CASE ProcessEnds \/ Restart
  BY <1>3 DEF ProcessEnds, Restart, StartDaemon, PendingIsNotStarted, NotStarted, mysql
<1>4. CASE UNCHANGED <<status, pending>>
  BY <1>4 DEF PendingIsNotStarted, NotStarted
<1> QED
  BY <1>1, <1>2, <1>3, <1>4, BootCases
     DEF Write, RecordRow, OpenSnapshot, ReadFails, CloseFailed, Leave, FlushSnapshot, StartStream,
         RecordWrite, SkipWrite, WriteFails, Shutdown, BatcherStep, allvars, bootvars, running, mysql

\* A snapshot is taken of a table that has none.
LEMMA SnapshotBegins ==
    ASSUME BootTypeOK, RunnerState, OpenSnapshot
    PROVE  table \in Table /\ table \in Unbegun /\ table \notin Unbegun'
<1>1. /\ table \in Table /\ status[table] = "in_progress" /\ bstep = "begin"
      /\ bstep' = "rows" /\ status' = status
  BY DEF OpenSnapshot, RunnerState, BootTypeOK, mysql
<1> QED
  BY <1>1 DEF Unbegun

\* No table goes back to a state before its snapshot.
LEMMA UnbegunShrinks ==
    ASSUME BootTypeOK, RunnerState, PendingIsNotStarted, [BootNext]_allvars
    PROVE  Unbegun' \subseteq Unbegun
<1>1. ASSUME NEW t \in Table, Register(t) PROVE Unbegun' \subseteq Unbegun
  BY <1>1 DEF Register, Unbegun, BootTypeOK, running
<1>2. ASSUME NEW t \in Table, MarkInProgress(t) PROVE Unbegun' \subseteq Unbegun
  <2>1. status[t] = "not_started"
    BY <1>2 DEF MarkInProgress, TakePending, PendingIsNotStarted, NotStarted
  <2> QED
    BY <1>2, <2>1 DEF MarkInProgress, TakePending, Unbegun, BootTypeOK
<1>3. ASSUME NEW t \in Table, MarkInProgressFails(t) PROVE Unbegun' \subseteq Unbegun
  BY <1>3 DEF MarkInProgressFails, TakePending, Unbegun, BootTypeOK
<1>4. CASE OpenSnapshot
  BY <1>4, SnapshotBegins DEF OpenSnapshot, Unbegun, mysql
<1>5. CASE ReadFails \/ CloseFailed
  BY <1>5 DEF ReadFails, CloseFailed, Leave, Unbegun, mysql
<1>6. CASE MarkComplete \/ MarkCompleteFails
  BY <1>6 DEF MarkComplete, MarkCompleteFails, Leave, Unbegun, BootTypeOK
<1>7. CASE FlushSnapshot \/ StartStream \/ ProcessEnds
  BY <1>7 DEF FlushSnapshot, StartStream, ProcessEnds, Unbegun, mysql
<1>8. CASE UNCHANGED <<status, bstep, table>>
  BY <1>8 DEF Unbegun
<1> QED
  BY <1>1, <1>2, <1>3, <1>4, <1>5, <1>6, <1>7, <1>8, BootCases
     DEF Write, RecordRow, RecordWrite, SkipWrite, WriteFails, Shutdown, BatcherStep, Restart, StartDaemon,
         allvars, bootvars, running, mysql

LEMMA UnmarkedInductive ==
    ASSUME BootIndInv, PendingIsNotStarted, UnbegunIsUnmarked, [BootNext]_allvars
    PROVE  UnbegunIsUnmarked'
<1> USE BatcherAssumption
<1>1. BootTypeOK /\ RunnerState /\ IndInv
  BY DEF BootIndInv, BootCore
<1> SUFFICES ASSUME NEW t \in Unbegun'
             PROVE  /\ image'[t] = {} /\ bootstrap' # t
                    /\ \A b \in DOMAIN auditBatches' : auditBatches'[b].boot # t
  BY DEF UnbegunIsUnmarked
<1>2. t \in Unbegun /\ (OpenSnapshot => t # table)
  BY <1>1, UnbegunShrinks, SnapshotBegins
<1>3. /\ t \in Table /\ t # NoTable /\ image[t] = {} /\ bootstrap # t
      /\ \A b \in DOMAIN auditBatches : auditBatches[b].boot # t
  BY <1>2 DEF UnbegunIsUnmarked, Unbegun
<1>4. CASE OpenSnapshot
  BY <1>1, <1>2, <1>3, <1>4 DEF OpenSnapshot, SetBootstrapMode, durable, BootTypeOK
<1>5. CASE BatcherStep
  <2>1. image' = image
    BY <1>1, <1>5, BatcherStepCases DEF bootvars, notes
  <2>2. CASE Committed /\ bootstrap' = bootstrap
    BY <1>3, <2>1, <2>2 DEF Committed, With, CurrentRow
  <2> QED
    BY <1>1, <1>3, <1>5, <2>1, <2>2, BatcherStepCases
<1>6. CASE (\E w \in todo : RecordRow(w)) \/ RecordWrite
  BY <1>3, <1>6 DEF RecordRow, RecordWrite, AddRecord, durable, notes
<1>7. CASE ProcessEnds
  BY <1>3, <1>7 DEF ProcessEnds, Crash, Exit, Halt, durable, notes
<1>8. CASE /\ ~ OpenSnapshot /\ ~ BatcherStep /\ ~ ProcessEnds
           /\ ~ (\E w \in todo : RecordRow(w)) /\ ~ RecordWrite
  BY <1>3, <1>8, ImageSteps, QuietSteps
<1> QED
  BY <1>4, <1>5, <1>6, <1>7, <1>8

LEMMA ImageIsRowsInductive ==
    ASSUME BootIndInv, ImageIsRows, [BootNext]_allvars
    PROVE  ImageIsRows'
<1>1. BootTypeOK /\ RunnerState
  BY DEF BootIndInv, BootCore
<1>2. CASE OpenSnapshot
  <2>1. /\ table \in Table /\ image' = [image EXCEPT ![table] = RowsOf(table)]
        /\ table' = table /\ todo' = RowsOf(table)
    BY <1>1, <1>2, SnapshotBegins DEF OpenSnapshot
  <2>2. \A t \in Table : image'[t] \subseteq RowsOf(t)
    BY <1>1, <2>1 DEF ImageIsRows, BootTypeOK
  <2>3. \A t \in Table : image'[t] \subseteq RowsOf(t)'
    BY <1>1, <2>2, RowsGrow
  <2>4. todo' \subseteq image'[table']
    BY <1>1, <2>1 DEF BootTypeOK
  <2> QED
    BY <2>3, <2>4 DEF ImageIsRows
<1>3. CASE ~ OpenSnapshot
  <2>1. image' = image
    BY <1>3, ImageSteps
  <2>2. \A t \in Table : image'[t] \subseteq RowsOf(t)'
    BY <1>1, <2>1, RowsGrow DEF ImageIsRows
  <2>3. bstep' = "rows" => bstep = "rows" /\ table' = table /\ todo' \subseteq todo
    BY <1>3, BootCases
       DEF Write, Register, MarkInProgress, MarkInProgressFails, TakePending, RecordRow,
           ReadFails, CloseFailed, Leave, FlushSnapshot, MarkComplete, MarkCompleteFails,
           StartStream, RecordWrite, SkipWrite, WriteFails, Shutdown, BatcherStep, ProcessEnds,
           Restart, StartDaemon, allvars, bootvars, running
  <2> QED
    BY <2>1, <2>2, <2>3 DEF ImageIsRows
<1> QED
  BY <1>2, <1>3

LEMMA TrailIsWrittenInductive ==
    ASSUME BootIndInv, ImageIsRows, TrailIsWritten, [BootNext]_allvars, IndInv'
    PROVE  TrailIsWritten'
<1>1. IndInv /\ BootTypeOK /\ RunnerState
  BY DEF BootIndInv, BootCore
<1>2. \A r \in Trail : r.change.write \in Nat /\ r.change.write <= Len(writes')
  BY <1>1, TrailType, WritesGrow DEF TrailIsWritten
<1>3. ASSUME Trail' \subseteq Trail PROVE TrailIsWritten'
  BY <1>2, <1>3 DEF TrailIsWritten
<1>4. ASSUME NEW c, NEW p, AddRecord(c, p), c.write <= Len(writes')
      PROVE  TrailIsWritten'
  <2>1. /\ Len(records) \in Nat /\ Len(records') = Len(records) + 1
        /\ records'[Len(records) + 1].change = c
        /\ \A i \in 1..Len(records) : records'[i] = records[i]
        /\ auditRecords' = auditRecords
    BY <1>1, <1>4, BufferGrows
  <2>2. Trail' = auditRecords' \cup {records'[i] : i \in 1..Len(records')}
    <3>1. DOMAIN records' = 1..Len(records')
      BY DEF IndInv, TypeOK
    <3> QED
      BY <3>1 DEF Trail
  <2>3. ASSUME NEW i \in 1..Len(records') PROVE records'[i].change.write <= Len(writes')
    <3>1. i = Len(records) + 1 \/ i \in 1..Len(records)
      BY <2>1
    <3>2. \A j \in 1..Len(records) : records[j] \in Trail
      BY <1>1, TrailType
    <3> QED
      BY <1>2, <1>4, <2>1, <3>1, <3>2
  <2>4. \A r \in auditRecords' : r.change.write <= Len(writes')
    BY <1>2, <2>1 DEF Trail
  <2> QED
    BY <2>2, <2>3, <2>4 DEF TrailIsWritten
<1>5. ASSUME NEW w \in todo, RecordRow(w) PROVE TrailIsWritten'
  <2>1. w \in RowsOf(table)
    BY <1>1, <1>5 DEF RecordRow, ImageIsRows, RunnerState, BootTypeOK
  <2>2. w <= Len(writes')
    BY <1>1, <2>1, WritesGrow DEF RowsOf
  <2> QED
    BY <1>4, <1>5, <2>2 DEF RecordRow
<1>6. CASE RecordWrite
  <2>1. received + 1 <= Len(writes')
    BY <1>1, <1>6, WritesGrow DEF RecordWrite, AtWrite, BootTypeOK
  <2> QED
    BY <1>4, <1>6, <2>1 DEF RecordWrite
<1>7. CASE OpenSnapshot
  BY <1>3, <1>7 DEF OpenSnapshot, SetBootstrapMode, durable, Trail
<1>8. CASE BatcherStep
  <2>1. CASE Committed /\ records' = records
    BY <1>3, <2>1 DEF Committed, Trail
  <2>2. CASE auditRecords' = auditRecords /\ (records' = <<>> \/ records' = records)
    BY <1>3, <2>2 DEF Trail
  <2> QED
    BY <1>1, <1>8, <2>1, <2>2, BatcherStepCases
<1>9. CASE ProcessEnds
  BY <1>3, <1>9 DEF ProcessEnds, Crash, Exit, Halt, durable, Trail
<1>10. CASE /\ ~ OpenSnapshot /\ ~ BatcherStep /\ ~ ProcessEnds
            /\ ~ (\E w \in todo : RecordRow(w)) /\ ~ RecordWrite
  BY <1>3, <1>10, QuietSteps DEF Trail
<1> QED
  BY <1>5, <1>6, <1>7, <1>8, <1>9, <1>10

LEMMA BufferIsOfSnapshotInductive ==
    ASSUME BootIndInv, ImageIsRows, TrailIsWritten, BufferIsOfSnapshot, [BootNext]_allvars
    PROVE  BufferIsOfSnapshot'
<1>1. IndInv /\ BootTypeOK /\ RunnerState /\ SnapshotKept
  BY DEF BootIndInv, BootCore
<1>2. ASSUME NEW i \in 1..Len(records)
      PROVE  /\ records[i].change.write \in 1..Len(writes)
             /\ writes'[records[i].change.write] = writes[records[i].change.write]
  <2>1. records[i] \in Trail
    BY <1>1, TrailType
  <2>2. records[i].change.write \in 1..Len(writes)
    BY <1>1, <2>1, TrailType, WritesGrow DEF TrailIsWritten
  <2> QED
    BY <1>1, <2>2, WritesGrow
<1>3. ASSUME records' = records, image' = image,
             \/ bstep' = bstep /\ table' = table
             \/ bstep = "idle" /\ bstep' = "begin"
             \/ bstep = "rows" /\ bstep' = "complete" /\ table' = table
      PROVE  BufferIsOfSnapshot'
  BY <1>1, <1>2, <1>3, WritesGrow DEF BufferIsOfSnapshot, OfSnapshot
<1>4. CASE records' = <<>> \/ bstep' = "stream"
  BY <1>4 DEF BufferIsOfSnapshot
<1>5. ASSUME NEW t \in Table,
             Write(t) \/ Register(t) \/ MarkInProgress(t) \/ MarkInProgressFails(t)
      PROVE  BufferIsOfSnapshot'
  BY <1>3, <1>5 DEF Write, Register, MarkInProgress, MarkInProgressFails, TakePending, running,
                    notes, bvars, volatile
<1>6. ASSUME NEW w \in todo, RecordRow(w) PROVE BufferIsOfSnapshot'
  <2> DEFINE c == [write |-> w, origin |-> "bootstrap"]
  <2>1. /\ Len(records) \in Nat /\ Len(records') = Len(records) + 1
        /\ records'[Len(records) + 1].change = c
        /\ \A i \in 1..Len(records) : records'[i] = records[i]
    BY <1>1, <1>6, BufferGrows DEF RecordRow
  <2>2. UNCHANGED <<bstep, table, image, writes, alerted>> /\ bstep = "rows"
    BY <1>6 DEF RecordRow, mysql, notes
  <2>3. OfSnapshot(c, table)
    BY <2>2 DEF OfSnapshot, ImageIsRows
  <2>4. ASSUME NEW i \in 1..Len(records')
        PROVE  \/ writes[records'[i].change.write] \in alerted
               \/ OfSnapshot(records'[i].change, table)
    <3>1. i = Len(records) + 1 \/ i \in 1..Len(records)
      BY <2>1
    <3> QED
      BY <2>1, <2>2, <2>3, <3>1 DEF BufferIsOfSnapshot
  <2> QED
    BY <2>2, <2>4 DEF BufferIsOfSnapshot, OfSnapshot
<1>7. CASE OpenSnapshot
  <2>1. /\ bstep = "begin" /\ UNCHANGED <<records, writes, alerted>>
    BY <1>7 DEF OpenSnapshot, SetBootstrapMode, mysql
  <2> QED
    BY <2>1 DEF BufferIsOfSnapshot
<1>8. CASE ReadFails \/ CloseFailed
  <2>1. /\ bstep # "stream" /\ table \in Table /\ table \in alerted'
        /\ UNCHANGED <<records, writes>>
    BY <1>1, <1>8 DEF ReadFails, CloseFailed, TakeError, ReportFailure, RunnerState, BootTypeOK,
                      mysql, bvars, volatile
  <2>2. ASSUME NEW i \in 1..Len(records) PROVE writes[records[i].change.write] \in alerted'
    <3>1. CASE OfSnapshot(records[i].change, table)
      BY <2>1, <3>1 DEF OfSnapshot, ImageIsRows, RowsOf
    <3> QED
      BY <1>1, <2>1, <3>1, WritesGrow DEF BufferIsOfSnapshot
  <2> QED
    BY <2>1, <2>2 DEF BufferIsOfSnapshot
<1>9. CASE FlushSnapshot
  BY <1>3, <1>9 DEF FlushSnapshot, Flush, notes
<1>10. CASE MarkComplete \/ MarkCompleteFails
  <2>1. records' = <<>>
    BY <1>1, <1>10 DEF MarkComplete, MarkCompleteFails, SnapshotKept, bvars, volatile
  <2> QED
    BY <2>1, <1>4
<1>11. CASE StartStream \/ RecordWrite \/ SkipWrite \/ WriteFails \/ Shutdown
  BY <1>4, <1>11 DEF StartStream, RecordWrite, SkipWrite, AtWrite, WriteFails, Shutdown, bootvars,
                     running
<1>12. CASE BatcherStep
  <2>1. UNCHANGED <<bstep, table, image>> /\ (records' = records \/ records' = <<>>)
    BY <1>1, <1>12, BatcherStepCases DEF bootvars, running, notes
  <2> QED
    BY <1>3, <1>4, <2>1
<1>13. CASE ProcessEnds \/ Restart
  BY <1>1, <1>4, <1>13 DEF ProcessEnds, Crash, Exit, Halt, Restart, StartDaemon, NewBatcher, IndInv,
                           DownIsEmpty
<1>14. CASE UNCHANGED allvars
  BY <1>3, <1>14 DEF allvars, bootvars, running, notes, bvars, volatile
<1> QED
  BY BootCases, <1>5, <1>6, <1>7, <1>8, <1>9, <1>10, <1>11, <1>12, <1>13, <1>14

LEMMA ModeInductive ==
    ASSUME BootIndInv, ModeIsOfSnapshot, [BootNext]_allvars
    PROVE  ModeIsOfSnapshot'
<1>1. IndInv /\ BootTypeOK /\ RunnerState /\ SnapshotKept
  BY DEF BootIndInv, BootCore
<1>2. ASSUME UNCHANGED <<bootstrap, image, bstep, table, todo, records>> PROVE ModeIsOfSnapshot'
  BY <1>1, <1>2, WritesGrow, LossesGrow DEF ModeIsOfSnapshot, Buffered
<1>3. CASE bootstrap' = NoTable
  BY <1>3 DEF ModeIsOfSnapshot
<1>4. ASSUME UNCHANGED <<bootstrap, image>>, bootstrap # NoTable,
             image[bootstrap] = {} \/ bootstrap \in cut' \/ bootstrap \in alerted'
      PROVE  ModeIsOfSnapshot'
  BY <1>4 DEF ModeIsOfSnapshot
<1>5. ASSUME UNCHANGED <<bootstrap, image>>, bstep \notin {"rows", "complete"}
      PROVE  ModeIsOfSnapshot'
  BY <1>1, <1>5, WritesGrow, LossesGrow DEF ModeIsOfSnapshot
<1>6. ASSUME NEW t \in Table,
             Write(t) \/ Register(t) \/ MarkInProgress(t) \/ MarkInProgressFails(t)
      PROVE  ModeIsOfSnapshot'
  BY <1>2, <1>5, <1>6 DEF Write, Register, MarkInProgress, MarkInProgressFails, TakePending,
                          running, notes, bvars, volatile
<1>7. ASSUME NEW w \in todo, RecordRow(w) PROVE ModeIsOfSnapshot'
  <2>1. /\ Len(records) \in Nat /\ Len(records') = Len(records) + 1
        /\ records'[Len(records) + 1].change = [write |-> w, origin |-> "bootstrap"]
        /\ \A i \in 1..Len(records) : records'[i] = records[i]
        /\ bootstrap' = bootstrap
    BY <1>1, <1>7, BufferGrows DEF RecordRow
  <2>2. UNCHANGED <<bstep, table, image, alerted>> /\ todo' = todo \ {w}
    BY <1>7 DEF RecordRow, notes
  <2>3. Buffered(w)'
    <3>1. Len(records) + 1 \in 1..Len(records')
      BY <2>1
    <3> QED
      BY <2>1, <3>1 DEF Buffered
  <2>4. ASSUME NEW v, Buffered(v) PROVE Buffered(v)'
    <3>1. PICK i \in 1..Len(records) : records[i].change = [write |-> v, origin |-> "bootstrap"]
      BY <2>4 DEF Buffered
    <3>2. i \in 1..Len(records') /\ records'[i] = records[i]
      BY <2>1
    <3> QED
      BY <3>1, <3>2 DEF Buffered
  <2> QED
    BY <2>1, <2>2, <2>3, <2>4, LossesGrow DEF ModeIsOfSnapshot
<1>8. CASE OpenSnapshot
  <2>1. /\ table' = table /\ bstep' = "rows" /\ bootstrap' = table
        /\ todo' = RowsOf(table) /\ image'[table] = RowsOf(table)
    BY <1>1, <1>8, SnapshotBegins DEF OpenSnapshot, SetBootstrapMode, BootTypeOK
  <2> QED
    BY <2>1 DEF ModeIsOfSnapshot
<1>9. CASE ReadFails \/ CloseFailed
  <2>1. UNCHANGED <<bootstrap, image>> /\ table \in alerted'
    BY <1>9 DEF ReadFails, CloseFailed, TakeError, ReportFailure, bvars, volatile
  <2>2. bootstrap # NoTable =>
            image[bootstrap] = {} \/ bootstrap \in cut' \/ bootstrap \in alerted'
    BY <1>1, <2>1, WritesGrow, LossesGrow DEF ModeIsOfSnapshot
  <2> QED
    BY <1>3, <1>4, <2>1, <2>2
<1>10. CASE FlushSnapshot
  <2>1. /\ bstep = "rows" /\ bstep' = "complete" /\ todo' = {}
        /\ todo # {} => table \in cut'
        /\ UNCHANGED <<table, image, alerted, bootstrap, records>>
    BY <1>10 DEF FlushSnapshot, Flush
  <2> QED
    BY <2>1, LossesGrow DEF ModeIsOfSnapshot, Buffered
<1>11. CASE MarkComplete \/ MarkCompleteFails
  <2>1. /\ records = <<>> /\ todo = {} /\ UNCHANGED <<bootstrap, image, alerted>>
    BY <1>1, <1>11 DEF MarkComplete, MarkCompleteFails, SnapshotKept, notes, bvars, volatile
  <2>2. ASSUME NEW w PROVE ~ Buffered(w)
    BY <2>1 DEF Buffered
  <2>3. bootstrap # NoTable =>
            image[bootstrap] = {} \/ bootstrap \in cut' \/ bootstrap \in alerted'
    BY <2>1, <2>2, LossesGrow DEF ModeIsOfSnapshot
  <2> QED
    BY <1>3, <1>4, <2>1, <2>3
<1>12. CASE StartStream \/ SkipWrite \/ RecordWrite \/ WriteFails \/ Shutdown
  BY <1>5, <1>12 DEF StartStream, SkipWrite, RecordWrite, AddRecord, AtWrite, WriteFails, TakeError,
                     Shutdown, CancelCtx, Close, bootvars, notes, bvars, volatile
<1>13. CASE BatcherStep
  BY <1>1, <1>2, <1>3, <1>13, BatcherStepCases DEF bootvars, running, notes
<1>14. CASE ProcessEnds
  BY <1>3, <1>14 DEF ProcessEnds, Crash, Exit, Halt
<1>15. CASE Restart \/ UNCHANGED allvars
  BY <1>2, <1>15 DEF Restart, StartDaemon, NewBatcher, allvars, bootvars, running, notes, bvars, volatile
<1> QED
  BY BootCases, <1>6, <1>7, <1>8, <1>9, <1>10, <1>11, <1>12, <1>13, <1>14, <1>15

\* What a close commits under a mark belongs to it.
LEMMA CommittedIsOfSnapshot ==
    ASSUME BootIndInv, BufferIsOfSnapshot, ModeIsOfSnapshot, bootstrap # NoTable,
           NEW i \in 1..Len(records)
    PROVE  \/ OfSnapshot(records[i].change, bootstrap)
           \/ image[bootstrap] = {} \/ bootstrap \in cut \/ bootstrap \in alerted
           \/ writes[records[i].change.write] \in alerted
  BY DEF BufferIsOfSnapshot, ModeIsOfSnapshot

LEMMA MarkedInductive ==
    ASSUME BootIndInv, MarkInv, [BootNext]_allvars
    PROVE  MarkedIsSnapshot'
<1>1. IndInv /\ BootTypeOK /\ RunnerState
  BY DEF BootIndInv, BootCore
<1> DEFINE Fits(c, t) == \/ c.origin = "bootstrap" /\ c.write \in image[t]
                         \/ image[t] = {} \/ t \in cut \/ t \in alerted
                         \/ writes[c.write] \in alerted
<1>2. ASSUME NEW r \in Trail PROVE writes'[r.change.write] = writes[r.change.write]
  <2>1. r.change.write \in 1..Len(writes)
    BY <1>1, TrailType, WritesGrow DEF MarkInv, TrailIsWritten
  <2> QED
    BY <1>1, <2>1, WritesGrow
<1>3. \A r \in auditRecords : r.batch \in DOMAIN auditBatches
                              /\ auditBatches[r.batch].boot \in Table \cup {NoTable}
  BY <1>1 DEF IndInv, StoredUnderItsRoot, TypeOK, BatchRow
<1>4. ASSUME NEW r \in auditRecords, auditBatches[r.batch].boot # NoTable
      PROVE  Fits(r.change, auditBatches[r.batch].boot)'
  <2> DEFINE t == auditBatches[r.batch].boot
  <2>1. Fits(r.change, t) /\ t \in Table
    BY <1>3, <1>4 DEF MarkInv, MarkedIsSnapshot
  <2>2. image'[t] = image[t]
    <3>1. CASE OpenSnapshot
      <4>1. table # t
        BY <1>1, <1>3, <1>4, <3>1, SnapshotBegins DEF MarkInv, UnbegunIsUnmarked
      <4> QED
        BY <1>1, <2>1, <3>1, <4>1 DEF OpenSnapshot, BootTypeOK
    <3> QED
      BY <3>1, ImageSteps
  <2>3. writes'[r.change.write] = writes[r.change.write] /\ alerted \subseteq alerted'
    BY <1>1, <1>2, WritesGrow DEF Trail
  <2>4. UNCHANGED auditBatches \/ Committed
    <3>1. CASE BatcherStep
      BY <1>1, <3>1, BatcherStepCases
    <3>2. CASE OpenSnapshot \/ RecordWrite \/ ProcessEnds \/ \E w \in todo : RecordRow(w)
      BY <3>2 DEF OpenSnapshot, SetBootstrapMode, RecordWrite, RecordRow, AddRecord, ProcessEnds,
                  Crash, Exit, Halt, durable
    <3> QED
      BY <3>1, <3>2, QuietSteps
  <2>5. auditBatches'[r.batch] = auditBatches[r.batch]
    BY <1>3, <2>4 DEF Committed, With
  <2> QED
    BY <2>1, <2>2, <2>3, <2>5, LossesGrow
<1>5. ASSUME auditRecords' \subseteq auditRecords, UNCHANGED auditBatches PROVE MarkedIsSnapshot'
  BY <1>4, <1>5 DEF MarkedIsSnapshot
<1>6. CASE BatcherStep
  <2>1. CASE Committed /\ UNCHANGED <<records, bootstrap, batchID>>
    <3>1. UNCHANGED <<image, cut, alerted, writes>>
      BY <1>1, <1>6, BatcherStepCases DEF bootvars, notes, mysql
    <3>2. /\ auditRecords' = auditRecords \cup {records[i] : i \in 1..Len(records)}
          /\ auditBatches'[batchID].boot = bootstrap
          /\ batchID \notin DOMAIN auditBatches
          /\ \A b \in DOMAIN auditBatches : auditBatches'[b] = auditBatches[b]
      BY <1>1, <2>1 DEF Committed, With, CurrentRow, IndInv, TypeOK
    <3>3. ASSUME NEW r \in auditRecords', auditBatches'[r.batch].boot # NoTable
          PROVE  Fits(r.change, auditBatches'[r.batch].boot)
      <4>1. CASE r \in auditRecords
        BY <1>3, <3>2, <3>3, <4>1 DEF MarkInv, MarkedIsSnapshot
      <4>2. ASSUME NEW i \in 1..Len(records), r = records[i]
            PROVE  Fits(r.change, auditBatches'[r.batch].boot)
        <5>1. auditBatches'[r.batch].boot = bootstrap
          BY <1>1, <3>2, <4>2 DEF IndInv, BufferIndexed
        <5> QED
          BY <3>3, <4>2, <5>1, CommittedIsOfSnapshot DEF MarkInv, OfSnapshot
      <4> QED
        BY <3>2, <4>1, <4>2
    <3> QED
      BY <3>1, <3>3 DEF MarkedIsSnapshot
  <2> QED
    BY <1>1, <1>5, <1>6, <2>1, BatcherStepCases
<1>7. CASE OpenSnapshot \/ RecordWrite \/ ProcessEnds \/ \E w \in todo : RecordRow(w)
  BY <1>5, <1>7 DEF OpenSnapshot, SetBootstrapMode, RecordWrite, RecordRow, AddRecord, ProcessEnds,
                    Crash, Exit, Halt, durable
<1> QED
  BY <1>5, <1>6, <1>7, QuietSteps

LEMMA MarkInvInductive ==
    ASSUME BootIndInv, MarkInv, [BootNext]_allvars, BootIndInv'
    PROVE  MarkInv'
<1>1. BootTypeOK /\ RunnerState /\ IndInv'
  BY DEF BootIndInv, BootCore
<1>2. PendingIsNotStarted' /\ UnbegunIsUnmarked'
  BY <1>1, PendingInductive, UnmarkedInductive DEF MarkInv
<1>3. ImageIsRows' /\ TrailIsWritten'
  BY <1>1, ImageIsRowsInductive, TrailIsWrittenInductive DEF MarkInv
<1>4. BufferIsOfSnapshot' /\ ModeIsOfSnapshot'
  BY BufferIsOfSnapshotInductive, ModeInductive DEF MarkInv
<1>5. MarkedIsSnapshot'
  BY MarkedInductive
<1> QED
  BY <1>2, <1>3, <1>4, <1>5 DEF MarkInv

LEMMA MarkInvInit == BootInit => MarkInv
<1> SUFFICES ASSUME BootInit PROVE MarkInv
  OBVIOUS
<1> USE BatcherAssumption
<1>1. /\ records = <<>> /\ auditRecords = {} /\ DOMAIN auditBatches = {} /\ bootstrap = NoTable
      /\ \A t \in Table : image[t] = {}
  BY DEF BootInit, Init, NoRows
<1>2. Trail = {}
  BY <1>1 DEF Trail
<1> QED
  BY <1>1, <1>2
     DEF BootInit, MarkInv, PendingIsNotStarted, UnbegunIsUnmarked, Unbegun, ImageIsRows,
         TrailIsWritten, BufferIsOfSnapshot, ModeIsOfSnapshot, MarkedIsSnapshot

\* The bootstrap mark of a stored batch can be trusted, but for a snapshot that
\* was empty or broke off and a reported failure: whichever goroutine closes, and although
\* the mode is a flag of the buffer that failed and empty closes leave set.
THEOREM MarkIsTrusted == BootSpec => []MarkedIsSnapshot
<1>1. BootIndInv /\ MarkInv /\ [BootNext]_allvars /\ BootIndInv' => MarkInv'
  BY MarkInvInductive
<1>2. MarkInv => MarkedIsSnapshot
  BY DEF MarkInv
<1> QED
  BY <1>1, <1>2, MarkInvInit, BootInductive, PTL DEF BootSpec

(***************************************************************************)
(* Snapshot and stream.                                                    *)
(***************************************************************************)

\* Nothing leaves the trail while the process lives.
LEMMA BootTrailStays ==
    ASSUME BootIndInv, [BootNext]_allvars, ~ ProcessEnds
    PROVE  Trail \subseteq Trail'
<1>1. IndInv /\ BootTypeOK /\ RunnerState
  BY DEF BootIndInv, BootCore
<1>2. ASSUME NEW c, NEW p, AddRecord(c, p) PROVE Trail \subseteq Trail'
  <2>1. auditRecords' = auditRecords
    BY <1>2 DEF AddRecord, durable
  <2>2. records \in Seq(Record)
    BY <1>1 DEF IndInv, TypeOK
  <2>3. ASSUME NEW i \in DOMAIN records PROVE i \in DOMAIN records' /\ records'[i] = records[i]
    BY <1>2, <2>2 DEF AddRecord
  <2> QED
    BY <2>1, <2>3 DEF Trail
<1>3. CASE (\E w \in todo : RecordRow(w)) \/ RecordWrite
  BY <1>2, <1>3 DEF RecordRow, RecordWrite
<1>4. CASE OpenSnapshot
  BY <1>4 DEF OpenSnapshot, SetBootstrapMode, durable, Trail
<1>5. CASE BatcherStep
  <2>1. CASE Committed /\ records' = records
    BY <2>1 DEF Committed, Trail
  <2>2. CASE auditRecords' = auditRecords /\ records' = records
    BY <2>2 DEF Trail
  <2>3. CASE /\ auditRecords' = auditRecords
             /\ \A i \in 1..Len(records) : records[i] \in auditRecords
    BY <1>1, <2>3, TrailType DEF Trail
  <2> QED
    BY <1>1, <1>5, <2>1, <2>2, <2>3, BatcherStepCases
<1>6. CASE /\ ~ OpenSnapshot /\ ~ BatcherStep
           /\ ~ (\E w \in todo : RecordRow(w)) /\ ~ RecordWrite
  BY <1>6, QuietSteps DEF Trail
<1> QED
  BY <1>3, <1>4, <1>5, <1>6

\* The checkpoint a daemon finds is the position of a stored batch.
LEMMA LatestIsReached ==
    ASSUME BatchesOrdered, LatestCheckpoint \in 1..MaxWrites
    PROVE  Reached(LatestCheckpoint)
<1>1. DOMAIN auditBatches # {}
  <2>1. DOMAIN auditBatches = {} => LatestCheckpoint = NoPosition
    BY DEF LatestCheckpoint
  <2>2. LatestCheckpoint # NoPosition
    BY BootstrapAssumption
  <2> QED
    BY <2>1, <2>2
<1> DEFINE last == CHOOSE b \in DOMAIN auditBatches : \A c \in DOMAIN auditBatches : c <= b
<1>2. last \in DOMAIN auditBatches
  BY <1>1 DEF BatchesOrdered
<1>3. LatestCheckpoint = auditBatches[last].pos
  BY <1>1 DEF LatestCheckpoint
<1> QED
  BY <1>2, <1>3 DEF Reached

\* Positions are added by a commit, which adds the last one recorded.
LEMMA ReachedSteps ==
    ASSUME BootCore, [BootNext]_allvars, NEW p
    PROVE  /\ Reached(p) => Reached(p)'
           /\ Reached(p)' => Reached(p) \/ (BatcherStep /\ Committed /\ p = lastPosition)
<1>1. IndInv
  BY DEF BootCore
<1>2. UNCHANGED auditBatches \/ (BatcherStep /\ Committed)
  <2>1. CASE BatcherStep
    BY <1>1, <2>1, BatcherStepCases
  <2>2. CASE OpenSnapshot \/ RecordWrite \/ ProcessEnds \/ \E w \in todo : RecordRow(w)
    BY <2>2 DEF OpenSnapshot, SetBootstrapMode, RecordWrite, RecordRow, AddRecord, ProcessEnds,
                Crash, Exit, Halt, durable
  <2> QED
    BY <2>1, <2>2, QuietSteps
<1>3. CASE UNCHANGED auditBatches
  BY <1>3 DEF Reached
<1>4. CASE BatcherStep /\ Committed
  BY <1>4 DEF Reached, Committed, With, CurrentRow
<1> QED
  BY <1>2, <1>3, <1>4

LEMMA CompleteIsInScopeInductive ==
    ASSUME BootTypeOK, RunnerState, IndInv, CompleteIsInScope, [BootNext]_allvars
    PROVE  CompleteIsInScope'
<1> USE BatcherAssumption
<1>1. ASSUME NEW t \in Table,
             Write(t) \/ Register(t) \/ MarkInProgress(t) \/ MarkInProgressFails(t)
      PROVE  CompleteIsInScope'
  <2>1. UNCHANGED <<scope, missed, up>>
    BY <1>1 DEF Write, Register, MarkInProgress, MarkInProgressFails, TakePending, running, notes,
                bvars, volatile
  <2>2. \A u \in Table : status'[u] = "complete" => status[u] = "complete"
    BY <1>1 DEF Write, Register, MarkInProgress, MarkInProgressFails, BootTypeOK
  <2> QED
    BY <2>1, <2>2 DEF CompleteIsInScope, Complete
<1>2. CASE MarkComplete \/ MarkCompleteFails
  <2>1. UNCHANGED <<scope, missed, up>> /\ table \in scope
    BY <1>2 DEF MarkComplete, MarkCompleteFails, Leave, BootTypeOK, RunnerState, notes, bvars,
                volatile
  <2>2. \A u \in Table : u = table \/ status'[u] = status[u]
    BY <1>2 DEF MarkComplete, MarkCompleteFails, BootTypeOK
  <2> QED
    BY <2>1, <2>2 DEF CompleteIsInScope, Complete
<1>3. CASE ProcessEnds
  BY <1>3 DEF ProcessEnds, Crash, Exit, Halt, CompleteIsInScope
<1>4. CASE Restart
  BY <1>4 DEF Restart, StartDaemon, CompleteIsInScope, Complete, Registered, mysql
<1>5. CASE UNCHANGED <<status, scope>> /\ (up' => up)
  BY <1>5, LossesGrow DEF CompleteIsInScope, Complete
<1>6. CASE BatcherStep
  BY <1>5, <1>6, BatcherStepCases DEF bootvars, running, mysql
<1>7. CASE \/ \E w \in todo : RecordRow(w)
           \/ OpenSnapshot \/ ReadFails \/ CloseFailed \/ FlushSnapshot \/ StartStream
           \/ RecordWrite \/ SkipWrite \/ WriteFails \/ Shutdown \/ UNCHANGED allvars
  <2>1. UNCHANGED <<status, scope>>
    BY <1>7 DEF RecordRow, OpenSnapshot, ReadFails, CloseFailed, Leave, FlushSnapshot, StartStream,
                RecordWrite, SkipWrite, WriteFails, Shutdown, allvars, bootvars, running, mysql
  <2>2. up' = up
    BY <1>7 DEF RecordRow, AddRecord, OpenSnapshot, SetBootstrapMode, ReadFails, CloseFailed,
                FlushSnapshot, Flush, StartStream, RecordWrite, SkipWrite, WriteFails, TakeError,
                Shutdown, CancelCtx, Close, allvars, bvars, volatile
  <2> QED
    BY <1>5, <2>1, <2>2
<1> QED
  BY BootCases, <1>1, <1>2, <1>3, <1>4, <1>6, <1>7

LEMMA PositionsInductive ==
    ASSUME BootCore, PositionsAreWritten, [BootNext]_allvars
    PROVE  PositionsAreWritten'
<1> USE BootstrapAssumption
<1>1. /\ IndInv /\ BootTypeOK /\ RunnerState /\ BatchesOrdered
      /\ received \in Nat /\ Len(writes) \in Nat /\ Len(writes') \in Nat
      /\ Len(writes) <= Len(writes')
  BY WritesGrow DEF BootCore, BootTypeOK
<1>2. \A p \in 1..MaxWrites : Reached(p)' => p <= Len(writes')
  <2> SUFFICES ASSUME NEW p \in 1..MaxWrites, Reached(p)' PROVE p <= Len(writes')
    OBVIOUS
  <2>1. CASE Reached(p)
    BY <1>1, <2>1 DEF PositionsAreWritten
  <2>2. CASE p = lastPosition
    BY <1>1, <2>2 DEF PositionsAreWritten
  <2> QED
    BY <2>1, <2>2, ReachedSteps
<1>3. Expired <= Len(writes')
  BY <1>1 DEF PositionsAreWritten
<1> DEFINE Resumes == resume \in 1..MaxWrites => Reached(resume)
           Recent == \/ lastPosition \in {NoPosition, BootPosition}
                     \/ bstep = "stream" /\ lastPosition \in 1..received
<1>4. resume' = resume => Resumes'
  BY ReachedSteps DEF PositionsAreWritten
<1>5. ASSUME received' <= Len(writes'), Resumes', Recent' PROVE PositionsAreWritten'
  BY <1>2, <1>3, <1>5 DEF PositionsAreWritten
<1>6. ASSUME UNCHANGED <<received, resume, lastPosition>>, bstep = "stream" => bstep' = "stream"
      PROVE  PositionsAreWritten'
  <2>1. received' <= Len(writes')
    BY <1>1, <1>6 DEF PositionsAreWritten
  <2>2. Recent'
    BY <1>6 DEF PositionsAreWritten
  <2> QED
    BY <1>4, <1>5, <1>6, <2>1, <2>2
<1>7. ASSUME NEW w \in todo, RecordRow(w) PROVE PositionsAreWritten'
  <2>1. UNCHANGED <<received, resume>> /\ lastPosition' = BootPosition
    BY <1>7 DEF RecordRow, AddRecord
  <2> QED
    BY <1>1, <1>4, <1>5, <2>1 DEF PositionsAreWritten
<1>8. CASE StartStream
  <2>1. received' = StreamFrom(resume) /\ resume' = resume /\ bstep' = "stream" /\ bstep = "idle"
        /\ lastPosition' = lastPosition
    BY <1>8 DEF StartStream, bvars, volatile
  <2>2. received' <= Len(writes)
    BY <1>1, <2>1 DEF StreamFrom, PositionsAreWritten, BootTypeOK
  <2>3. lastPosition' \in {NoPosition, BootPosition}
    BY <2>1 DEF PositionsAreWritten
  <2>4. received' \in 0..MaxWrites
    BY <1>1, <2>1, StreamFromType
  <2> QED
    BY <1>1, <1>4, <1>5, <2>1, <2>2, <2>3, <2>4
<1>9. CASE RecordWrite \/ SkipWrite
  <2>1. /\ received' = received + 1 /\ received + 1 <= Len(writes) /\ resume' = resume
        /\ bstep = "stream" /\ bstep' = "stream"
        /\ lastPosition' \in {lastPosition, received + 1}
    BY <1>1, <1>9 DEF RecordWrite, SkipWrite, AtWrite, AddRecord, bvars, volatile
  <2>2. Recent'
    BY <1>1, <2>1 DEF PositionsAreWritten
  <2> QED
    BY <1>1, <1>4, <1>5, <2>1, <2>2
<1>10. CASE ProcessEnds
  <2>1. received' = 0 /\ resume' = 0 /\ lastPosition' = NoPosition
    BY <1>10 DEF ProcessEnds, Crash, Exit, Halt, NoStream
  <2> QED
    BY <1>1, <1>5, <2>1
<1>11. CASE Restart
  <2>1. resume' = LatestCheckpoint /\ UNCHANGED <<received, lastPosition, bstep, auditBatches>>
    BY <1>11 DEF Restart, StartDaemon, NewBatcher, durable
  <2>2. Resumes'
    BY <1>1, <2>1, LatestIsReached DEF Reached
  <2> QED
    BY <1>1, <1>5, <2>1, <2>2 DEF PositionsAreWritten
<1>12. CASE BatcherStep
  BY <1>1, <1>6, <1>12, BatcherStepCases DEF bootvars, running
<1>13. CASE OpenSnapshot
  BY <1>6, <1>13 DEF OpenSnapshot, SetBootstrapMode
<1>14. CASE /\ ~ OpenSnapshot /\ ~ BatcherStep /\ ~ ProcessEnds
            /\ ~ (\E w \in todo : RecordRow(w)) /\ ~ RecordWrite
            /\ ~ StartStream /\ ~ SkipWrite /\ ~ Restart
  <2>1. lastPosition' = lastPosition
    BY <1>14, QuietSteps
  <2>2. UNCHANGED <<received, resume>> /\ (bstep = "stream" => bstep' = "stream")
    BY <1>1, <1>14, BootCases
       DEF Write, Register, MarkInProgress, MarkInProgressFails, TakePending, ReadFails,
           CloseFailed, Leave, RunnerState, FlushSnapshot, MarkComplete, MarkCompleteFails,
           WriteFails, Shutdown, allvars, bootvars, running
  <2> QED
    BY <1>6, <2>1, <2>2
<1> QED
  BY <1>7, <1>8, <1>9, <1>10, <1>11, <1>12, <1>13, <1>14

\* A row is out of a later stream's reach from a commit on, or it was already.
LEMMA GoneSteps ==
    ASSUME BootIndInv, PositionsAreWritten, [BootNext]_allvars, NEW t, NEW w \in Gone(t)'
    PROVE  \/ w \in Gone(t)
           \/ /\ BatcherStep /\ Committed /\ bstep = "stream"
              /\ w \in RowsOf(t) /\ w <= received
<1> USE BootstrapAssumption
<1>1. BootTypeOK /\ IndInv /\ Len(writes) \in Nat /\ received \in Nat
  BY WritesGrow DEF BootIndInv, BootCore, BootTypeOK
<1>2. w \in RowsOf(t)' /\ w \in Nat
  BY DEF Gone, RowsOf
<1>3. CASE w <= Expired
  BY <1>1, <1>2, <1>3, RowsGrow DEF Gone, PositionsAreWritten
<1>4. ASSUME NEW p \in 1..MaxWrites, w <= p, Reached(p) PROVE w \in Gone(t)
  BY <1>1, <1>2, <1>4, RowsGrow DEF Gone, PositionsAreWritten
<1>5. ASSUME NEW p \in 1..MaxWrites, w <= p, BatcherStep, Committed, p = lastPosition
      PROVE  bstep = "stream" /\ w \in RowsOf(t) /\ w <= received
  <2>1. bstep = "stream" /\ p <= received /\ received <= Len(writes)
    BY <1>5 DEF PositionsAreWritten
  <2>2. w <= received /\ w <= Len(writes)
    BY <1>1, <1>2, <1>5, <2>1
  <2> QED
    BY <1>1, <1>2, <2>1, <2>2, RowsGrow
<1> QED
  BY <1>3, <1>4, <1>5, ReachedSteps DEF Gone, BootIndInv

LEMMA SnapshotHoldsGoneInductive ==
    ASSUME BootIndInv, PositionsAreWritten, SnapshotHoldsGone, [BootNext]_allvars
    PROVE  SnapshotHoldsGone'
<1> SUFFICES ASSUME bstep' \in {"rows", "complete"}, NEW w \in Gone(table)'
             PROVE  w \in image'[table']
  BY DEF SnapshotHoldsGone
<1>1. BootTypeOK /\ RunnerState
  BY DEF BootIndInv, BootCore
<1>2. CASE OpenSnapshot
  <2>1. image'[table'] = RowsOf(table) /\ table' = table /\ writes' = writes
    BY <1>1, <1>2, SnapshotBegins DEF OpenSnapshot, BootTypeOK, mysql
  <2> QED
    BY <2>1 DEF Gone, RowsOf
<1>3. CASE ~ OpenSnapshot
  <2>1. bstep \in {"rows", "complete"} /\ table' = table
    BY <1>3, BootCases
       DEF Write, Register, MarkInProgress, MarkInProgressFails, TakePending, RecordRow,
           ReadFails, CloseFailed, Leave, FlushSnapshot, MarkComplete, MarkCompleteFails,
           StartStream, RecordWrite, SkipWrite, AtWrite, WriteFails, Shutdown, BatcherStep,
           ProcessEnds, Restart, StartDaemon, allvars, bootvars, running
  <2>2. w \in Gone(table)
    <3>1. PICK t : t = table
      OBVIOUS
    <3>2. w \in Gone(t)'
      BY <2>1, <3>1 DEF Gone, RowsOf
    <3>3. w \in Gone(t)
      BY <2>1, <3>2, GoneSteps
    <3> QED
      BY <3>1, <3>3
  <2>3. image' = image
    BY <1>3, ImageSteps
  <2> QED
    BY <2>1, <2>2, <2>3 DEF SnapshotHoldsGone
<1> QED
  BY <1>2, <1>3

\* Only BootstrapTable completes a table, and only the one it works on.
LEMMA CompletionSteps ==
    ASSUME BootTypeOK, RunnerState, [BootNext]_allvars, NEW t \in Table, status'[t] = "complete"
    PROVE  \/ status[t] = "complete"
           \/ (MarkComplete \/ MarkCompleteFails) /\ t = table /\ bstep = "complete"
<1>1. ASSUME NEW u \in Table, Register(u) \/ MarkInProgress(u) \/ MarkInProgressFails(u)
      PROVE  status[t] = "complete"
  BY <1>1 DEF Register, MarkInProgress, MarkInProgressFails, TakePending, BootTypeOK
<1>2. CASE MarkComplete \/ MarkCompleteFails
  BY <1>2 DEF MarkComplete, MarkCompleteFails, BootTypeOK
<1>3. CASE status' = status
  BY <1>3
<1> QED
  BY <1>1, <1>2, <1>3, BootCases
     DEF Write, RecordRow, OpenSnapshot, ReadFails, CloseFailed, FlushSnapshot, StartStream,
         RecordWrite, SkipWrite, WriteFails, Shutdown, BatcherStep, ProcessEnds, Restart, StartDaemon,
         allvars, bootvars, mysql

LEMMA GoneIsStoredInductive ==
    ASSUME BootIndInv, BootIndInv', CapturedInv, [BootNext]_allvars
    PROVE  GoneIsStored'
<1>1. /\ BootTypeOK /\ RunnerState /\ IndInv /\ CompleteIsSealed'
      /\ PositionsAreWritten /\ GoneIsStored /\ CompleteIsCaptured /\ SnapshotHoldsGone
  BY DEF BootIndInv, BootCore, CapturedInv
<1>2. auditRecords \subseteq auditRecords'
  BY <1>1, BootStepIsBatcherStep, StoresGrow
<1> SUFFICES ASSUME NEW t \in Table, status'[t] = "complete", t \notin cut' \cup missed',
                    NEW w \in Gone(t)'
             PROVE  \E r \in auditRecords' : r.change.write = w
  BY DEF GoneIsStored, Complete
<1>0. t \notin cut \cup missed
  BY LossesGrow
<1>3. CASE (MarkComplete \/ MarkCompleteFails) /\ t = table /\ bstep = "complete"
  <2>1. w \in Gone(t)
    BY <1>1, <1>3, GoneSteps
  <2>2. w \in image'[t]
    BY <1>1, <1>3, <2>1 DEF SnapshotHoldsGone, MarkComplete, MarkCompleteFails, notes
  <2>3. Sealed(w, "bootstrap")'
    BY <1>1, <2>2 DEF CompleteIsSealed, Complete
  <2> QED
    BY <2>3 DEF Sealed
<1>4. CASE status[t] = "complete"
  <2>1. CASE w \in Gone(t)
    BY <1>0, <1>1, <1>2, <1>4, <2>1 DEF GoneIsStored, Complete
  <2>2. CASE BatcherStep /\ Committed /\ bstep = "stream" /\ w \in RowsOf(t) /\ w <= received
    <3>1. up
      BY <1>1, <2>2, BatcherStepCases
    <3>2. PICK r \in Trail : r.change.write = w
      BY <1>0, <1>1, <1>4, <2>2, <3>1 DEF CompleteIsCaptured, Complete
    <3>3. r \in auditRecords'
      BY <2>2 DEF Committed, Trail
    <3> QED
      BY <3>2, <3>3
  <2> QED
    BY <1>1, <2>1, <2>2, GoneSteps
<1> QED
  BY <1>1, <1>3, <1>4, CompletionSteps

LEMMA CapturedInductive ==
    ASSUME BootIndInv, CapturedInv, [BootNext]_allvars, IndInv'
    PROVE  CompleteIsCaptured'
<1> USE BootstrapAssumption
<1>1. /\ BootTypeOK /\ RunnerState /\ IndInv /\ CompleteIsInScope
      /\ PositionsAreWritten /\ GoneIsStored /\ CompleteIsCaptured
      /\ received \in Nat /\ Len(writes) \in Nat
  BY WritesGrow DEF BootIndInv, BootCore, CapturedInv, BootTypeOK
<1> SUFFICES ASSUME up', bstep' = "stream", NEW t \in Table, status'[t] = "complete",
                    t \notin cut' \cup missed', NEW w \in RowsOf(t)', w <= received'
             PROVE  \E r \in Trail' : r.change.write = w
  BY DEF CompleteIsCaptured, Complete
<1>0. t \notin cut \cup missed
  BY LossesGrow
<1>2. ~ ProcessEnds /\ ~ MarkComplete /\ ~ MarkCompleteFails
  BY DEF ProcessEnds, MarkComplete, MarkCompleteFails, Leave
<1>3. status[t] = "complete" /\ Trail \subseteq Trail' /\ w \in Nat
  BY <1>1, <1>2, CompletionSteps, BootTrailStays DEF RowsOf
<1>4. CASE StartStream
  <2>1. received' = StreamFrom(resume)
    BY <1>4 DEF StartStream
  <2>2. CASE received' = Expired
    <3>1. w <= Len(writes)
      BY <1>1, <1>3, <2>2 DEF PositionsAreWritten
    <3>2. w \in RowsOf(t)
      BY <1>1, <1>3, <3>1, RowsGrow
    <3>3. w \in Gone(t)
      BY <2>2, <3>2 DEF Gone
    <3> QED
      BY <1>0, <1>1, <1>3, <3>3 DEF GoneIsStored, Complete, Trail
  <2>3. CASE received' = resume /\ resume \in 1..MaxWrites
    <3>1. Reached(resume) /\ resume <= Len(writes)
      BY <2>3 , <1>1 DEF PositionsAreWritten
    <3>2. w <= Len(writes)
      BY <1>1, <1>3, <2>3, <3>1
    <3>3. w \in RowsOf(t)
      BY <1>1, <1>3, <3>2, RowsGrow
    <3>4. w \in Gone(t)
      BY <2>3, <3>1, <3>3 DEF Gone
    <3> QED
      BY <1>0, <1>1, <1>3, <3>4 DEF GoneIsStored, Complete, Trail
  <2> QED
    BY <1>1, <2>1, <2>2, <2>3 DEF StreamFrom, BootTypeOK
<1>5. ASSUME up, bstep = "stream", w <= received PROVE \E r \in Trail' : r.change.write = w
  <2>1. w \in RowsOf(t)
    BY <1>1, <1>3, <1>5, RowsGrow DEF PositionsAreWritten
  <2> QED
    BY <1>0, <1>1, <1>3, <1>5, <2>1 DEF CompleteIsCaptured, Complete
<1>6. CASE RecordWrite \/ SkipWrite
  <2>1. /\ up /\ bstep = "stream" /\ received' = received + 1 /\ received + 1 <= Len(writes)
        /\ writes' = writes
    BY <1>1, <1>6 DEF RecordWrite, SkipWrite, AtWrite, mysql
  <2>2. CASE w = received + 1
    <3>1. writes[received + 1] = t /\ t \in scope
      BY <1>0, <1>1, <1>3, <2>1, <2>2 DEF RowsOf, CompleteIsInScope, Complete
    <3>2. AddRecord([write |-> received + 1, origin |-> "live"], received + 1)
      BY <1>6, <3>1 DEF RecordWrite, SkipWrite
    <3>3. /\ Len(records') = Len(records) + 1 /\ Len(records) \in Nat
          /\ records'[Len(records) + 1].change = [write |-> received + 1, origin |-> "live"]
      BY <1>1, <3>2, BufferGrows
    <3>4. Len(records) + 1 \in DOMAIN records'
      BY <3>3 DEF IndInv, TypeOK
    <3> QED
      BY <2>2, <3>3, <3>4 DEF Trail
  <2> QED
    BY <1>1, <1>3, <1>5, <2>1, <2>2
<1>7. CASE ~ StartStream /\ ~ RecordWrite /\ ~ SkipWrite
  <2>1. bstep = "stream" /\ received' = received
    BY <1>2, <1>7, BootCases
       DEF Write, Register, MarkInProgress, MarkInProgressFails, TakePending, RecordRow,
           OpenSnapshot, ReadFails, CloseFailed, Leave, FlushSnapshot, WriteFails, Shutdown,
           BatcherStep, Restart, StartDaemon, allvars, bootvars, running
  <2>2. up
    BY <2>1 DEF CapturedInv, StreamIsUp
  <2> QED
    BY <1>5, <2>1, <2>2
<1> QED
  BY <1>4, <1>6, <1>7

LEMMA StreamIsUpInductive ==
    ASSUME IndInv, StreamIsUp, [BootNext]_allvars
    PROVE  StreamIsUp'
<1>1. CASE StartStream \/ RecordWrite \/ SkipWrite
  BY <1>1 DEF StartStream, RecordWrite, SkipWrite, AtWrite, AddRecord, StreamIsUp, bvars, volatile
<1>2. CASE WriteFails \/ Shutdown
  BY <1>2 DEF WriteFails, TakeError, Shutdown, CancelCtx, Close, CanCall, StreamIsUp
<1>3. CASE BatcherStep
  BY <1>3, BatcherStepCases DEF StreamIsUp
<1>4. CASE bstep' # "stream"
  BY <1>4 DEF StreamIsUp
<1>5. ASSUME NEW t \in Table,
             Write(t) \/ Register(t) \/ MarkInProgress(t) \/ MarkInProgressFails(t)
      PROVE  StreamIsUp'
  BY <1>5 DEF Write, Register, MarkInProgress, MarkInProgressFails, TakePending, StreamIsUp,
              running, bvars, volatile
<1>6. CASE Restart \/ UNCHANGED allvars
  BY <1>6 DEF Restart, StartDaemon, NewBatcher, StreamIsUp, allvars, bootvars, running, bvars, volatile
<1> QED
  BY BootCases, <1>1, <1>2, <1>3, <1>4, <1>5, <1>6
     DEF RecordRow, OpenSnapshot, ReadFails, CloseFailed, Leave, FlushSnapshot, MarkComplete,
         MarkCompleteFails, ProcessEnds

LEMMA CapturedInvInductive ==
    ASSUME BootIndInv, CapturedInv, [BootNext]_allvars, BootIndInv'
    PROVE  CapturedInv'
<1>1. BootTypeOK /\ RunnerState /\ IndInv /\ IndInv'
  BY DEF BootIndInv, BootCore
<1>2. StreamIsUp' /\ CompleteIsInScope'
  BY <1>1, StreamIsUpInductive, CompleteIsInScopeInductive DEF CapturedInv
<1>3. PositionsAreWritten'
  BY PositionsInductive DEF CapturedInv, BootIndInv
<1>4. SnapshotHoldsGone' /\ GoneIsStored' /\ CompleteIsCaptured'
  BY <1>1, SnapshotHoldsGoneInductive, GoneIsStoredInductive, CapturedInductive DEF CapturedInv
<1> QED
  BY <1>2, <1>3, <1>4 DEF CapturedInv

LEMMA CapturedInvInit == BootInit => CapturedInv
<1> SUFFICES ASSUME BootInit PROVE CapturedInv
  OBVIOUS
<1> USE BootstrapAssumption
<1>1. /\ DOMAIN auditBatches = {} /\ lastPosition = NoPosition /\ bstep = "idle"
      /\ received = 0 /\ resume = 0 /\ scope = Registered
      /\ \A t \in Table : status[t] \in {"none", "not_started"}
  BY DEF BootInit, Init, NoRows, NoStream
<1>2. Len(writes) = Expired
  BY DEF BootInit
<1>3. PositionsAreWritten
  BY <1>1, <1>2 DEF PositionsAreWritten, Reached
<1> QED
  BY <1>1, <1>3
     DEF CapturedInv, StreamIsUp, CompleteIsInScope, Complete, SnapshotHoldsGone, GoneIsStored,
         CompleteIsCaptured

\* Snapshot and stream leave no hole: every row of a bootstrapped table that
\* the stream has passed is in the trail, although the stream resumes at the
\* position read before the snapshots, at the oldest file if the last batch
\* was a snapshot's, and although a crash drops what was only buffered.
\* Tables whose snapshot broke off, or that a start did not load after they
\* were complete, are excepted.
THEOREM CompleteTablesCaptured == BootSpec => []CompleteIsCaptured
<1>1. BootIndInv /\ CapturedInv /\ [BootNext]_allvars /\ BootIndInv' => CapturedInv'
  BY CapturedInvInductive
<1>2. CapturedInv => CompleteIsCaptured
  BY DEF CapturedInv
<1> QED
  BY <1>1, <1>2, CapturedInvInit, BootInductive, PTL DEF BootSpec

(***************************************************************************)
(* Streams that do not repeat themselves.                                  *)
(***************************************************************************)

\* Types that the order arguments below need as numbers.
LEMMA LiveNumbers ==
    ASSUME BootCore, ~ Reached(BootPosition)
    PROVE  /\ received \in Nat /\ Expired \in Nat /\ batchID \in Nat
           /\ resume # BootPosition => resume \in Nat
           /\ lastPosition # BootPosition => lastPosition \in Nat
           /\ \A b \in DOMAIN auditBatches : b \in Nat /\ auditBatches[b].pos \in Nat
           /\ \A r \in Trail : r.change.write \in Nat
<1> USE BootstrapAssumption
<1>1. received \in Nat /\ Expired \in Nat /\ (resume # BootPosition => resume \in Nat)
  BY DEF BootCore, BootTypeOK
<1>2. batchID \in Nat /\ (lastPosition # BootPosition => lastPosition \in Nat)
  BY DEF BootCore, IndInv, TypeOK, BatchId
<1>3. \A b \in DOMAIN auditBatches : b \in Nat /\ auditBatches[b].pos \in Nat
  BY DEF BootCore, IndInv, TypeOK, BatchRow, BatchId, Reached
<1>4. \A r \in Trail : r.change.write \in Nat
  BY TrailType DEF BootCore
<1> QED
  BY <1>1, <1>2, <1>3, <1>4

\* Without a snapshot's batch the position of the last batch is the largest.
LEMMA LatestIsBeyond ==
    ASSUME BootCore, ~ Reached(BootPosition), PositionsGrow
    PROVE  /\ LatestCheckpoint # BootPosition
           /\ \A b \in DOMAIN auditBatches : auditBatches[b].pos <= LatestCheckpoint
<1>1. CASE DOMAIN auditBatches = {}
  BY <1>1, BootstrapAssumption DEF LatestCheckpoint
<1>2. CASE DOMAIN auditBatches # {}
  <2> DEFINE last == CHOOSE b \in DOMAIN auditBatches : \A c \in DOMAIN auditBatches : c <= b
  <2>1. last \in DOMAIN auditBatches /\ \A c \in DOMAIN auditBatches : c <= last
    BY <1>2 DEF BootCore, BatchesOrdered
  <2>2. LatestCheckpoint = auditBatches[last].pos
    BY <1>2 DEF LatestCheckpoint
  <2> HIDE DEF last
  <2> QED
    BY <2>1, <2>2 DEF PositionsGrow, Reached
<1> QED
  BY <1>1, <1>2

\* Everything the stream has recorded lies behind it.
LEMMA LiveIsBehind ==
    ASSUME BootCore, ~ Reached(BootPosition), PositionsAreWritten, PositionCoversLive,
           StreamIsBeyond, up, bstep = "stream", NEW r \in Trail, Live(r)
    PROVE  r.change.write <= received
<1>1. r.change.write \in Nat /\ received \in Nat
  BY LiveNumbers
<1>2. CASE r \in auditRecords
  <2>1. r.batch \in DOMAIN auditBatches
    BY <1>2 DEF BootCore, IndInv, StoredUnderItsRoot
  <2>2. r.change.write <= auditBatches[r.batch].pos /\ auditBatches[r.batch].pos <= received
    BY <1>2, <2>1 DEF PositionCoversLive, StreamIsBeyond
  <2>3. auditBatches[r.batch].pos \in Nat
    BY <2>1, LiveNumbers
  <2> QED
    BY <1>1, <2>2, <2>3
<1>3. ASSUME NEW i \in 1..Len(records), r = records[i] PROVE r.change.write <= received
  <2>1. lastPosition # BootPosition /\ r.change.write <= lastPosition
    BY <1>3 DEF PositionCoversLive
  <2>2. lastPosition = 0 \/ lastPosition \in 1..received
    BY <2>1, BootstrapAssumption DEF PositionsAreWritten
  <2> QED
    BY <1>1, <2>1, <2>2
<1> QED
  BY <1>2, <1>3, TrailType DEF BootCore

\* Steps that leave buffer and stores alone: the stream may only go on, or be
\* started where it is to resume.
LEMMA OnceQuietly ==
    ASSUME BootCore, ~ Reached(BootPosition),
           PositionsGrow, PositionCoversLive, StreamIsBeyond, StreamedOnce,
           UNCHANGED <<records, lastPosition, auditBatches, auditRecords>>,
           bstep = "stream" => bstep' = "stream" \/ records = <<>>,
           resume' # BootPosition,
           up' => \A b \in DOMAIN auditBatches :
                    auditBatches[b].pos <= IF bstep' = "stream" THEN received' ELSE resume'
    PROVE  PositionsGrow' /\ PositionCoversLive' /\ StreamIsBeyond' /\ StreamedOnce'
<1>1. Trail' = Trail
  BY DEF Trail
<1>2. PositionsGrow' /\ StreamedOnce'
  BY <1>1 DEF PositionsGrow, StreamedOnce
<1>3. PositionCoversLive'
  BY DEF PositionCoversLive, Live
<1>4. StreamIsBeyond'
  BY DEF StreamIsBeyond
<1> QED
  BY <1>2, <1>3, <1>4

\* A row of a snapshot is added; from then on the buffer ends with a snapshot.
LEMMA OnceRecordRow ==
    ASSUME BootCore, ~ Reached(BootPosition),
           PositionsGrow, PositionCoversLive, StreamIsBeyond, StreamedOnce,
           NEW w \in todo, RecordRow(w)
    PROVE  PositionsGrow' /\ PositionCoversLive' /\ StreamIsBeyond' /\ StreamedOnce'
<1> DEFINE c == [write |-> w, origin |-> "bootstrap"]
<1>1. /\ bstep = "rows" /\ bstep' = "rows" /\ UNCHANGED <<resume, received>>
      /\ AddRecord(c, BootPosition)
  BY DEF RecordRow
<1>2. /\ Len(records) \in Nat /\ Len(records') = Len(records) + 1
      /\ records'[Len(records) + 1].change = c
      /\ \A i \in 1..Len(records) : records'[i] = records[i]
      /\ lastPosition' = BootPosition
      /\ UNCHANGED <<up, auditBatches, auditRecords>>
  BY <1>1, BufferGrows DEF BootCore
<1>3. c.origin = "bootstrap"
  OBVIOUS
<1> HIDE DEF c
<1>4. \A i \in 1..Len(records') : ~ Live(records'[i])
  BY <1>1, <1>2, <1>3 DEF PositionCoversLive, Live
<1>5. Live(records'[Len(records) + 1]) = FALSE
  BY <1>2, <1>3 DEF Live
<1>6. PositionCoversLive'
  BY <1>2, <1>4 DEF PositionCoversLive, Live
<1>7. PositionsGrow' /\ StreamIsBeyond'
  BY <1>1, <1>2 DEF PositionsGrow, StreamIsBeyond
<1>8. \A r \in Trail' : Live(r) => r \in Trail
  <2>1. DOMAIN records' = 1..Len(records')
    BY BootCoreInductive DEF BootCore, IndInv, TypeOK, BootNext, MainStep
  <2> QED
    BY <1>2, <1>4, <2>1 DEF Trail
<1>9. StreamedOnce'
  BY <1>8 DEF StreamedOnce, Live
<1> QED
  BY <1>6, <1>7, <1>9

\* The stream records the row it is at, which is later than all before.
LEMMA OnceRecordWrite ==
    ASSUME BootCore, ~ Reached(BootPosition), PositionsAreWritten,
           PositionsGrow, PositionCoversLive, StreamIsBeyond, StreamedOnce, RecordWrite
    PROVE  PositionsGrow' /\ PositionCoversLive' /\ StreamIsBeyond' /\ StreamedOnce'
<1> DEFINE c == [write |-> received + 1, origin |-> "live"]
<1>1. /\ up /\ bstep = "stream" /\ bstep' = "stream" /\ resume' = resume
      /\ received' = received + 1 /\ received \in Nat
      /\ AddRecord(c, received + 1)
  BY LiveNumbers DEF RecordWrite, AtWrite
<1>2. /\ Len(records) \in Nat /\ Len(records') = Len(records) + 1
      /\ records'[Len(records) + 1].change = c
      /\ \A i \in 1..Len(records) : records'[i] = records[i]
      /\ lastPosition' = received + 1
      /\ UNCHANGED <<up, auditBatches, auditRecords>>
  BY <1>1, BufferGrows DEF BootCore
<1>3. c.write = received + 1
  OBVIOUS
<1> HIDE DEF c
<1>4. \A r \in Trail : Live(r) => r.change.write <= received
  BY <1>1, LiveIsBehind
<1>5. \A i \in 1..Len(records) : records[i] \in Trail
  BY TrailType DEF BootCore
<1>6. received + 1 # BootPosition
  BY <1>1, BootstrapAssumption
<1>7. PositionCoversLive'
  <2>1. ASSUME NEW i \in 1..Len(records'), Live(records'[i])
        PROVE  records'[i].change.write <= received + 1
    <3>1. i \in 1..Len(records) \/ i = Len(records) + 1
      BY <1>2
    <3>2. CASE i \in 1..Len(records)
      <4>1. records[i].change.write <= received /\ records[i].change.write \in Nat
        BY <1>2, <1>4, <1>5, <2>1, <3>2, LiveNumbers
      <4> QED
        BY <1>1, <1>2, <3>2, <4>1
    <3>3. CASE i = Len(records) + 1
      BY <1>1, <1>2, <1>3, <3>3
    <3> QED
      BY <3>1, <3>2, <3>3
  <2> QED
    BY <1>1, <1>2, <1>6, <2>1 DEF PositionCoversLive, Live
<1>8. \A b \in DOMAIN auditBatches : auditBatches[b].pos <= received + 1
  <2> TAKE b \in DOMAIN auditBatches
  <2>1. auditBatches[b].pos <= received /\ auditBatches[b].pos \in Nat
    BY <1>1, LiveNumbers DEF StreamIsBeyond
  <2> QED
    BY <1>1, <2>1
<1>9. PositionsGrow' /\ StreamIsBeyond'
  BY <1>1, <1>2, <1>8 DEF PositionsGrow, StreamIsBeyond
<1>10. PICK rec : Trail' = Trail \cup {rec} /\ rec.change = c
  <2>1. DOMAIN records' = 1..Len(records')
    BY BootCoreInductive DEF BootCore, IndInv, TypeOK, BootNext, MainStep
  <2>2. DOMAIN records = 1..Len(records)
    BY DEF BootCore, IndInv, TypeOK
  <2>3. Trail' = Trail \cup {records'[Len(records) + 1]}
    BY <1>2, <2>1, <2>2 DEF Trail
  <2> QED
    BY <1>2, <2>3
<1>11. \A r \in Trail : Live(r) => r.change # c
  BY <1>1, <1>3, <1>4, LiveNumbers
<1>12. StreamedOnce'
  BY <1>10, <1>11 DEF StreamedOnce, Live
<1> QED
  BY <1>7, <1>9, <1>12

\* CreateBatch commits a batch that ends with a streamed row: it is the
\* largest, and so is its position.
LEMMA OnceCommit ==
    ASSUME BootCore, ~ Reached(BootPosition), PositionsAreWritten, ClosingHasRecords,
           PositionsGrow, PositionCoversLive, StreamIsBeyond, StreamedOnce,
           Committed, step = "create", up, up',
           UNCHANGED <<records, lastPosition, batchID, bstep, received, resume>>,
           ~ Reached(BootPosition)'
    PROVE  PositionsGrow' /\ PositionCoversLive' /\ StreamIsBeyond' /\ StreamedOnce'
<1>1. /\ DOMAIN auditBatches' = DOMAIN auditBatches \cup {batchID}
      /\ batchID \notin DOMAIN auditBatches
      /\ auditBatches'[batchID].pos = lastPosition
      /\ \A b \in DOMAIN auditBatches : auditBatches'[b] = auditBatches[b]
      /\ auditRecords' = auditRecords \cup {records[i] : i \in DOMAIN records}
  BY DEF Committed, With, CurrentRow
<1>2. lastPosition # BootPosition /\ lastPosition \in Nat /\ records # <<>>
  BY <1>1, LiveNumbers DEF Reached, ClosingHasRecords
<1>3. \A b \in DOMAIN auditBatches :
        /\ b \in Nat /\ b <= batchID /\ auditBatches[b].pos <= lastPosition
        /\ auditBatches[b].pos \in Nat
  BY <1>2, LiveNumbers DEF StreamIsBeyond, BootCore, BatchesOrdered
<1>4. PositionsGrow'
  <2> SUFFICES ASSUME NEW b \in DOMAIN auditBatches', NEW c \in DOMAIN auditBatches', b <= c
               PROVE  auditBatches'[b].pos <= auditBatches'[c].pos
    BY DEF PositionsGrow
  <2>1. CASE b \in DOMAIN auditBatches /\ c \in DOMAIN auditBatches
    BY <1>1, <2>1 DEF PositionsGrow
  <2>2. CASE c = batchID
    BY <1>1, <1>2, <1>3, <2>2
  <2>3. CASE b = batchID /\ c \in DOMAIN auditBatches
    BY <1>1, <1>3, <2>3, LiveNumbers
  <2> QED
    BY <1>1, <2>1, <2>2, <2>3
<1>5. PositionCoversLive'
  <2>1. ASSUME NEW r \in auditRecords', Live(r)
        PROVE  r.change.write <= auditBatches'[r.batch].pos
    <3>1. CASE r \in auditRecords
      BY <1>1, <2>1, <3>1 DEF BootCore, IndInv, StoredUnderItsRoot, PositionCoversLive
    <3>2. ASSUME NEW i \in DOMAIN records, r = records[i]
          PROVE  r.change.write <= auditBatches'[r.batch].pos
      <4>1. i \in 1..Len(records)
        BY DEF BootCore, IndInv, TypeOK
      <4>2. r.batch = batchID
        BY <3>2, <4>1 DEF BootCore, IndInv, BufferIndexed
      <4>3. r.change.write <= lastPosition
        BY <2>1, <3>2, <4>1 DEF PositionCoversLive
      <4> QED
        BY <1>1, <4>2, <4>3
    <3> QED
      BY <1>1, <3>1, <3>2
  <2> QED
    BY <2>1 DEF PositionCoversLive, Live
<1>6. StreamIsBeyond'
  <2>1. lastPosition <= IF bstep = "stream" THEN received ELSE resume
    <3>1. lastPosition = 0 \/ (bstep = "stream" /\ lastPosition \in 1..received)
      BY <1>2, BootstrapAssumption DEF PositionsAreWritten
    <3>2. received \in Nat /\ resume \in Nat
      BY LiveNumbers DEF StreamIsBeyond
    <3> QED
      BY <3>1, <3>2
  <2> QED
    BY <1>1, <1>2, <1>3, <2>1 DEF StreamIsBeyond
<1>7. Trail' = Trail
  BY <1>1 DEF Trail
<1> QED
  BY <1>4, <1>5, <1>6, <1>7 DEF StreamedOnce

\* The stream starts where it is to resume, or goes past a row.
LEMMA OnceStreaming ==
    ASSUME BootCore, ~ Reached(BootPosition),
           PositionsGrow, PositionCoversLive, StreamIsBeyond, StreamedOnce,
           StartStream \/ SkipWrite
    PROVE  PositionsGrow' /\ PositionCoversLive' /\ StreamIsBeyond' /\ StreamedOnce'
<1>1. /\ UNCHANGED <<records, lastPosition, auditBatches, auditRecords, resume>>
      /\ up /\ bstep' = "stream"
  BY DEF StartStream, SkipWrite, AtWrite, bvars, volatile, durable
<1>2. /\ received \in Nat /\ resume \in Nat /\ resume # BootPosition /\ Expired \in Nat
      /\ \A b \in DOMAIN auditBatches : auditBatches[b].pos \in Nat
  BY LiveNumbers DEF StreamIsBeyond
<1>3. \A b \in DOMAIN auditBatches : auditBatches[b].pos <= received'
  <2> TAKE b \in DOMAIN auditBatches
  <2>1. CASE StartStream
    <3>1. auditBatches[b].pos <= resume
      BY <1>1, <2>1 DEF StartStream, StreamIsBeyond
    <3>2. resume <= received'
      BY <1>2, <2>1, BootstrapAssumption DEF StartStream, StreamFrom
    <3>3. received' \in Nat
      BY <2>1, StreamFromType, BootstrapAssumption DEF StartStream, BootCore
    <3> QED
      BY <1>2, <3>1, <3>2, <3>3
  <2>2. CASE SkipWrite
    <3>1. auditBatches[b].pos <= received /\ received' = received + 1
      BY <1>1, <2>2 DEF SkipWrite, AtWrite, StreamIsBeyond
    <3> QED
      BY <1>2, <3>1
  <2> QED
    BY <2>1, <2>2
<1> QED
  BY <1>1, <1>2, <1>3, OnceQuietly

\* A close by either goroutine.
LEMMA OnceBatcher ==
    ASSUME BootCore, ~ Reached(BootPosition), PositionsAreWritten, ClosingHasRecords,
           PositionsGrow, PositionCoversLive, StreamIsBeyond, StreamedOnce,
           BatcherStep, ~ Reached(BootPosition)'
    PROVE  PositionsGrow' /\ PositionCoversLive' /\ StreamIsBeyond' /\ StreamedOnce'
<1>1. IndInv
  BY DEF BootCore
<1>2. up /\ up' /\ UNCHANGED <<lastPosition, bstep, received, resume>>
  BY <1>1, BatcherStepCases DEF bootvars, running
<1>3. CASE UNCHANGED <<records, auditBatches, auditRecords>>
  <2>1. \A b \in DOMAIN auditBatches :
            auditBatches[b].pos <= IF bstep' = "stream" THEN received' ELSE resume'
    BY <1>2 DEF StreamIsBeyond
  <2>2. resume' # BootPosition
    BY <1>2 DEF StreamIsBeyond
  <2> QED
    BY <1>2, <1>3, <2>1, <2>2, OnceQuietly
<1>4. CASE Committed /\ step = "create" /\ UNCHANGED <<records, batchID>>
  BY <1>2, <1>4, OnceCommit
<1>5. CASE /\ records' = <<>> /\ UNCHANGED <<auditBatches, auditRecords>>
           /\ \A i \in 1..Len(records) : records[i] \in auditRecords
  <2>1. Trail' \subseteq Trail
    BY <1>5 DEF Trail
  <2>2. StreamedOnce' /\ PositionsGrow'
    BY <1>5, <2>1 DEF StreamedOnce, PositionsGrow
  <2>3. PositionCoversLive' /\ StreamIsBeyond'
    BY <1>2, <1>5 DEF PositionCoversLive, StreamIsBeyond, Live
  <2> QED
    BY <2>2, <2>3
<1> QED
  BY <1>1, <1>3, <1>4, <1>5, BatcherStepCases

\* The process ends and loses its buffer, or starts and reads the checkpoint.
LEMMA OnceProcess ==
    ASSUME BootCore, ~ Reached(BootPosition), StreamIsUp,
           PositionsGrow, PositionCoversLive, StreamIsBeyond, StreamedOnce,
           ProcessEnds \/ Restart
    PROVE  PositionsGrow' /\ PositionCoversLive' /\ StreamIsBeyond' /\ StreamedOnce'
<1>1. CASE ProcessEnds
  <2>1. /\ UNCHANGED <<auditBatches, auditRecords>> /\ up' = FALSE
        /\ records' = <<>> /\ resume' = NoPosition
    BY <1>1 DEF ProcessEnds, Crash, Exit, Halt, durable
  <2>2. Trail' \subseteq Trail
    BY <2>1 DEF Trail
  <2>3. StreamedOnce' /\ PositionsGrow'
    BY <2>1, <2>2 DEF StreamedOnce, PositionsGrow
  <2>4. PositionCoversLive' /\ StreamIsBeyond'
    BY <2>1, BootstrapAssumption DEF PositionCoversLive, StreamIsBeyond, Live
  <2> QED
    BY <2>3, <2>4
<1>2. CASE Restart
  <2>1. /\ ~ up /\ resume' = LatestCheckpoint
        /\ UNCHANGED <<records, lastPosition, auditBatches, auditRecords, bstep>>
    BY <1>2 DEF Restart, StartDaemon, NewBatcher, durable
  <2>2. bstep # "stream"
    BY <2>1 DEF StreamIsUp
  <2> QED
    BY <2>1, <2>2, LatestIsBeyond, OnceQuietly
<1> QED
  BY <1>1, <1>2

\* The remaining steps leave the stream where it is.
LEMMA OnceOtherwise ==
    ASSUME BootCore, ~ Reached(BootPosition), [BootNext]_allvars,
           PositionsGrow, PositionCoversLive, StreamIsBeyond, StreamedOnce,
           ~ \E w \in todo : RecordRow(w), ~ RecordWrite, ~ StartStream, ~ SkipWrite,
           ~ BatcherStep, ~ ProcessEnds, ~ Restart
    PROVE  PositionsGrow' /\ PositionCoversLive' /\ StreamIsBeyond' /\ StreamedOnce'
<1>1. RunnerState
  BY DEF BootCore
<1>2. UNCHANGED <<records, lastPosition, auditBatches, auditRecords>>
  <2>1. CASE OpenSnapshot
    BY <2>1 DEF OpenSnapshot, SetBootstrapMode, durable
  <2> QED
    BY <2>1, QuietSteps
<1>3. UNCHANGED <<received, resume>> /\ (bstep = "stream" <=> bstep' = "stream")
  BY <1>1, BootCases
     DEF Write, Register, MarkInProgress, MarkInProgressFails, TakePending, OpenSnapshot,
         ReadFails, CloseFailed, Leave, RunnerState, FlushSnapshot, MarkComplete,
         MarkCompleteFails, WriteFails, Shutdown, allvars, bootvars, running
<1>4. up' = up
  <2>1. CASE \/ \E t \in Table : \/ Write(t) \/ Register(t) \/ MarkInProgress(t)
                                 \/ MarkInProgressFails(t)
             \/ ReadFails \/ MarkComplete \/ MarkCompleteFails \/ UNCHANGED allvars
    BY <2>1 DEF Write, Register, MarkInProgress, MarkInProgressFails, TakePending, ReadFails,
                MarkComplete, MarkCompleteFails, allvars, bvars, volatile
  <2>2. CASE OpenSnapshot \/ CloseFailed \/ FlushSnapshot \/ WriteFails \/ Shutdown
    BY <2>2 DEF OpenSnapshot, SetBootstrapMode, CloseFailed, WriteFails, TakeError,
                FlushSnapshot, Flush, Shutdown, CancelCtx, Close
  <2> QED
    BY BootCases, <2>1, <2>2
<1>5. resume' # BootPosition
  BY <1>3 DEF StreamIsBeyond
<1>6. up' => \A b \in DOMAIN auditBatches :
                auditBatches[b].pos <= IF bstep' = "stream" THEN received' ELSE resume'
  BY <1>3, <1>4 DEF StreamIsBeyond
<1> QED
  BY <1>2, <1>3, <1>5, <1>6, OnceQuietly

LEMMA OnceInductive ==
    ASSUME BootCore, OnceInv, [BootNext]_allvars
    PROVE  OnceInv'
<1>1. [BNext]_bvars /\ IndInv
  BY BootCoreInductive DEF BootCore
<1>2. StreamIsUp' /\ PositionsAreWritten'
  BY <1>1, StreamIsUpInductive, PositionsInductive DEF OnceInv
<1>3. ClosingHasRecords'
  BY <1>1, ClosingStaysFilled DEF IndInv, OnceInv
<1>4. ASSUME ~ Reached(BootPosition)'
      PROVE  PositionsGrow' /\ PositionCoversLive' /\ StreamIsBeyond' /\ StreamedOnce'
  <2>1. ~ Reached(BootPosition)
    BY <1>4, ReachedSteps
  <2>2. /\ PositionsGrow /\ PositionCoversLive /\ StreamIsBeyond /\ StreamedOnce
        /\ StreamIsUp /\ PositionsAreWritten /\ ClosingHasRecords
    BY <2>1 DEF OnceInv
  <2>3. CASE \E w \in todo : RecordRow(w)
    BY <2>1, <2>2, <2>3, OnceRecordRow
  <2>4. CASE RecordWrite
    BY <2>1, <2>2, <2>4, OnceRecordWrite
  <2>5. CASE StartStream \/ SkipWrite
    BY <2>1, <2>2, <2>5, OnceStreaming
  <2>6. CASE BatcherStep
    BY <1>4, <2>1, <2>2, <2>6, OnceBatcher
  <2>7. CASE ProcessEnds \/ Restart
    BY <2>1, <2>2, <2>7, OnceProcess
  <2> QED
    BY <2>1, <2>2, <2>3, <2>4, <2>5, <2>6, <2>7, OnceOtherwise
<1> QED
  BY <1>2, <1>3, <1>4 DEF OnceInv

LEMMA OnceInvInit == BootInit => OnceInv
<1> SUFFICES ASSUME BootInit PROVE OnceInv
  OBVIOUS
<1>1. /\ DOMAIN auditBatches = {} /\ auditRecords = {} /\ records = <<>> /\ step = "none"
      /\ resume = NoPosition
  BY DEF BootInit, Init, NoRows
<1>2. StreamIsUp /\ PositionsAreWritten
  BY CapturedInvInit DEF CapturedInv
<1>3. PositionsGrow /\ PositionCoversLive /\ StreamIsBeyond
  BY <1>1, BootstrapAssumption DEF PositionsGrow, PositionCoversLive, StreamIsBeyond
<1>4. StreamedOnce
  BY <1>1 DEF StreamedOnce, Trail
<1> QED
  BY <1>1, <1>2, <1>3, <1>4 DEF OnceInv, ClosingHasRecords

\* No row is streamed into the trail twice as long as no batch that ended with
\* a snapshot is persisted, whatever fails and however often the daemon dies:
\* the position {bootstrap, 0} of such a batch is the only way back.
THEOREM RepeatsNeedSnapshots == BootSpec => []OnlySnapshotsRepeat
<1>1. BootCore /\ OnceInv /\ [BootNext]_allvars => OnceInv'
  BY OnceInductive
<1>2. OnceInv => OnlySnapshotsRepeat
  BY DEF OnceInv, OnlySnapshotsRepeat
<1> QED
  BY <1>1, <1>2, OnceInvInit, BootCoreHolds, PTL DEF BootSpec
=============================================================================
