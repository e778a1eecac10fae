--------------------------- MODULE BatcherProofs ---------------------------
(***************************************************************************)
(* Proofs about Batcher for every MaxEvents, every set of faults and every *)
(* value of the bounds.                                                    *)
(***************************************************************************)
EXTENDS Batcher, TLAPS

\* The actions of BNext, grouped as the proofs below split them.
LEMMA NextCases ==
    ASSUME BNext
    PROVE  \/ \E c \in Change, p \in Position : AddRecord(c, p)
           \/ \E t \in Table : SetBootstrapMode(t)
           \/ Flush \/ TakeError \/ CancelCtx \/ Close \/ TimerFire
           \/ \E w \in {"run", "timer"} : CloseEmpty(w)
           \/ \E w \in {"run", "timer"} : CloseBegin(w)
           \/ SignOK \/ SignFails
           \/ CreateBatchOK \/ CreateBatchAckLost \/ CreateBatchFails
           \/ PutCheckpointOK \/ PutCheckpointChmodFails \/ PutCheckpointFails
           \/ Crash \/ Exit \/ NewBatcher
  BY DEF BNext, CloseStep, Enter

\* A call of the Run goroutine always returns to one of its resting states.
LEMMA ReturnedType ==
    ASSUME NEW w, NEW result \in {"ready", "failed"}, TypeOK, Returned(w, result)
    PROVE  /\ call' \in {"ready", "failed", "closing", "shutdown", "done"}
           /\ call \in {"shutdown", "done"} =>
                 call' \in {"shutdown", "done", "ready", "failed"}
  BY DEF TypeOK, Returned

\* Adding a row of the right type keeps a table well typed.
LEMMA WithType ==
    ASSUME NEW rows, NEW b \in BatchId, NEW row \in BatchRow,
           DOMAIN rows \subseteq BatchId,
           \A x \in DOMAIN rows : rows[x] \in BatchRow
    PROVE  /\ DOMAIN With(rows, b, row) = DOMAIN rows \cup {b}
           /\ DOMAIN With(rows, b, row) \subseteq BatchId
           /\ \A x \in DOMAIN With(rows, b, row) : With(rows, b, row)[x] \in BatchRow
           /\ With(rows, b, row)[b] = row
           /\ \A x \in DOMAIN rows : x # b => With(rows, b, row)[x] = rows[x]
  BY DEF With

\* A row made from the buffer is well typed and has the buffer as its root.
LEMMA CurrentRowType ==
    ASSUME TypeOK
    PROVE  /\ CurrentRow \in BatchRow
           /\ CurrentRow.root = records
  BY DEF TypeOK, CurrentRow, BatchRow

\* Every action of the batcher keeps its variables well typed.
LEMMA TypeOKInductive == TypeOK /\ [BNext]_bvars => TypeOK'
<1> SUFFICES ASSUME TypeOK, [BNext]_bvars PROVE TypeOK'
  OBVIOUS
<1>1. ASSUME NEW c \in Change, NEW p \in Position, AddRecord(c, p) PROVE TypeOK'
  <2> DEFINE rec == [change |-> c, batch |-> batchID, leaf |-> Len(records)]
  <2>1. rec \in Record
    BY DEF TypeOK, Record
  <2>2. records' = Append(records, rec) /\ accepted' = accepted \cup {rec}
    BY <1>1 DEF AddRecord
  <2> HIDE DEF rec
  <2>3. records' \in Seq(Record) /\ accepted' \subseteq Record
    BY <2>1, <2>2 DEF TypeOK
  <2>4. call' \in {"ready", "closing"}
    BY <1>1 DEF AddRecord
  <2> QED
    BY <1>1, <2>3, <2>4 DEF AddRecord, TypeOK, durable
<1>2. CASE \E t \in Table : SetBootstrapMode(t)
  BY <1>2 DEF SetBootstrapMode, TypeOK, durable, history
<1>3. CASE Flush \/ TakeError
  BY <1>3 DEF Flush, TakeError, TypeOK, durable, history
<1>4. CASE CancelCtx
  BY <1>4 DEF CancelCtx, TypeOK, durable, history
<1>5. CASE Close
  BY <1>5 DEF Close, TypeOK, durable, history
<1>6. CASE TimerFire
  <2>1. callbacks' \in Nat
    BY <1>6 DEF TimerFire, TypeOK
  <2> QED
    BY <1>6, <2>1 DEF TimerFire, TypeOK, durable, history
<1>7. ASSUME NEW w \in {"run", "timer"}, CloseEmpty(w) PROVE TypeOK'
  <2>1. callbacks' \in Nat
    BY <1>7 DEF CloseEmpty, Entering, TypeOK
  <2> QED
    BY <1>7, <2>1, ReturnedType DEF CloseEmpty, TypeOK, durable, history
<1>8. ASSUME NEW w \in {"run", "timer"}, CloseBegin(w) PROVE TypeOK'
  <2>1. callbacks' \in Nat
    BY <1>8 DEF CloseBegin, Entering, TypeOK
  <2> QED
    BY <1>8, <2>1 DEF CloseBegin, TypeOK, durable, history
<1>9. CASE SignOK
  BY <1>9 DEF SignOK, TypeOK, durable, history
<1>10. ASSUME Committed
       PROVE  /\ DOMAIN auditBatches' \subseteq BatchId
              /\ \A b \in DOMAIN auditBatches' : auditBatches'[b] \in BatchRow
              /\ auditRecords' \subseteq Record
              /\ checkpoints' = checkpoints
  <2>1. {records[i] : i \in DOMAIN records} \subseteq Record
    BY DEF TypeOK
  <2>2. /\ DOMAIN auditBatches' \subseteq BatchId
        /\ \A b \in DOMAIN auditBatches' : auditBatches'[b] \in BatchRow
    BY <1>10, WithType, CurrentRowType DEF Committed, TypeOK
  <2> QED
    BY <1>10, <2>1, <2>2 DEF Committed, TypeOK
<1>11. ASSUME PutCommitted
       PROVE  /\ DOMAIN checkpoints' \subseteq BatchId
              /\ \A b \in DOMAIN checkpoints' : checkpoints'[b] \in BatchRow
              /\ auditBatches' = auditBatches /\ auditRecords' = auditRecords
  BY <1>11, WithType, CurrentRowType DEF PutCommitted, TypeOK
<1>12. CASE SignFails
  BY <1>12, ReturnedType DEF SignFails, CloseFails, TypeOK, durable
<1>13. CASE CreateBatchOK
  BY <1>13, <1>10 DEF CreateBatchOK, TypeOK, history
<1>14. CASE CreateBatchAckLost
  BY <1>14, <1>10, ReturnedType DEF CreateBatchAckLost, CloseFails, TypeOK
<1>15. CASE CreateBatchFails
  BY <1>15, ReturnedType DEF CreateBatchFails, CloseFails, TypeOK, durable
<1>16. CASE PutCheckpointOK
  <2>1. batchID' \in BatchId /\ records' \in Seq(Record)
    BY <1>16 DEF PutCheckpointOK, TypeOK, BatchId
  <2> QED
    BY <1>16, <1>11, <2>1, ReturnedType DEF PutCheckpointOK, TypeOK
<1>17. CASE PutCheckpointChmodFails
  BY <1>17, <1>11, ReturnedType DEF PutCheckpointChmodFails, CloseFails, TypeOK
<1>18. CASE PutCheckpointFails
  BY <1>18, ReturnedType DEF PutCheckpointFails, CloseFails, TypeOK, durable
<1>19. CASE Halt
  <2>1. records' \in Seq(Record) /\ callbacks' \in Nat
    BY <1>19 DEF Halt
  <2> QED
    BY <1>19, <2>1 DEF Halt, TypeOK, durable
<1>20. CASE NewBatcher
  <2>1. batchID' \in BatchId
    BY <1>20 DEF NewBatcher, TypeOK, BatchId
  <2> QED
    BY <1>20, <2>1 DEF NewBatcher, TypeOK, durable, history
<1>21. CASE UNCHANGED bvars
  BY <1>21 DEF bvars, volatile, durable, history, TypeOK
<1> QED
  BY NextCases, <1>1, <1>2, <1>3, <1>4, <1>5, <1>6, <1>7, <1>8, <1>9, <1>12,
     <1>13, <1>14, <1>15, <1>16, <1>17, <1>18, <1>19, <1>20, <1>21
     DEF Crash, Exit

\* A new batcher has the right types.
LEMMA TypeOKInit == Init => TypeOK
<1> SUFFICES ASSUME Init PROVE TypeOK
  OBVIOUS
<1>1. DOMAIN NoRows = {}
  BY DEF NoRows
<1>2. records \in Seq(Record) /\ batchID \in BatchId /\ callbacks \in Nat
  BY DEF Init, BatchId
<1> QED
  BY <1>1, <1>2 DEF Init, TypeOK

\* Type correctness of the batcher, its two stores and its history.
THEOREM TypeCorrect == Spec => []TypeOK
  BY TypeOKInit, TypeOKInductive, PTL DEF Spec

-----------------------------------------------------------------------------
(***************************************************************************)
(* Safety.  Most steps leave the buffer, the stores and the history of     *)
(* accepted records alone; the lemma below settles those at once.          *)
(***************************************************************************)
\* A step that leaves the buffer, both stores and the history alone.
LEMMA FrameKeepsIndInv ==
    ASSUME IndInv, TypeOK',
           UNCHANGED <<up, batchID, records, lastPosition, bootstrap,
                       auditBatches, auditRecords, checkpoints, accepted, halted>>,
           step' = "none" <=> holder' = "none",
           step' = "put" => step = "put",
           step' # "none" => up
    PROVE  IndInv'
<1>1. CurrentRow' = CurrentRow
  BY DEF CurrentRow
<1> QED
  BY <1>1 DEF IndInv, BufferIndexed, CloseProgress, DownIsEmpty, AcceptedIsKept,
              StoredUnderItsRoot, CheckpointAgrees, UnsealedOnlyAtEnd

\* The buffer's records, as a set, are exactly its leaves.
LEMMA BufferLeaves ==
    ASSUME IndInv
    PROVE  /\ DOMAIN records = 1..Len(records)
           /\ Len(records) \in Nat
           /\ \A r \in {records[i] : i \in DOMAIN records} :
                 /\ r.batch = batchID
                 /\ r.leaf + 1 \in DOMAIN records
                 /\ records[r.leaf + 1] = r
  BY DEF IndInv, TypeOK, BufferIndexed

\* A committed CreateBatch keeps what the stores say of each other.
LEMMA CommittedKeeps ==
    ASSUME IndInv, TypeOK', Committed,
           UNCHANGED <<up, batchID, records, lastPosition, bootstrap, accepted, halted>>
    PROVE  /\ BufferIndexed' /\ AcceptedIsKept' /\ StoredUnderItsRoot'
           /\ CheckpointAgrees' /\ UnsealedOnlyAtEnd'
           /\ batchID' \in DOMAIN auditBatches'
           /\ auditBatches'[batchID'] = CurrentRow'
           /\ \A i \in 1..Len(records') : records'[i] \in auditRecords'
<1> DEFINE new == With(auditBatches, batchID, CurrentRow)
<1>1. auditBatches' = new /\ batchID \notin DOMAIN auditBatches
  BY DEF Committed
<1>2. /\ DOMAIN new = DOMAIN auditBatches \cup {batchID}
      /\ new[batchID] = CurrentRow
      /\ \A x \in DOMAIN auditBatches : new[x] = auditBatches[x]
  BY <1>1 DEF With
<1> HIDE DEF new
<1>3. auditRecords' = auditRecords \cup {records[i] : i \in DOMAIN records}
  BY DEF Committed
<1>4. CurrentRow' = CurrentRow /\ CurrentRow.root = records
  BY DEF CurrentRow
<1>5. checkpoints' = checkpoints
  BY DEF Committed
<1>6. BufferIndexed'
  BY DEF IndInv, BufferIndexed
<1>7. StoredUnderItsRoot'
  <2> SUFFICES ASSUME NEW r \in auditRecords'
               PROVE  /\ r.batch \in DOMAIN auditBatches'
                      /\ r.leaf + 1 \in DOMAIN auditBatches'[r.batch].root
                      /\ auditBatches'[r.batch].root[r.leaf + 1] = r
    BY DEF StoredUnderItsRoot
  <2>1. CASE r \in auditRecords
    BY <2>1, <1>1, <1>2 DEF IndInv, StoredUnderItsRoot
  <2>2. CASE r \in {records[i] : i \in DOMAIN records}
    BY <2>2, <1>1, <1>2, <1>4, BufferLeaves
  <2> QED
    BY <2>1, <2>2, <1>3
<1>8. AcceptedIsKept'
  BY <1>1, <1>2, <1>3 DEF IndInv, AcceptedIsKept
<1>9. CheckpointAgrees'
  BY <1>1, <1>2, <1>5 DEF IndInv, CheckpointAgrees
<1>10. UnsealedOnlyAtEnd'
  BY <1>1, <1>2, <1>5 DEF IndInv, UnsealedOnlyAtEnd
<1>11. /\ batchID' \in DOMAIN auditBatches'
       /\ auditBatches'[batchID'] = CurrentRow'
  BY <1>1, <1>2, <1>4
<1>12. \A i \in 1..Len(records') : records'[i] \in auditRecords'
  BY <1>3, BufferLeaves
<1> QED
  BY <1>6, <1>7, <1>8, <1>9, <1>10, <1>11, <1>12

\* A checkpoint that reaches its place states what the batch row states.
LEMMA PutCommittedKeeps ==
    ASSUME IndInv, PutCommitted, step = "put"
    PROVE  /\ CheckpointAgrees'
           /\ DOMAIN checkpoints' = DOMAIN checkpoints \cup {batchID}
<1>1. /\ checkpoints' = With(checkpoints, batchID, CurrentRow)
      /\ auditBatches' = auditBatches
  BY DEF PutCommitted
<1>2. batchID \in DOMAIN auditBatches /\ auditBatches[batchID] = CurrentRow
  BY DEF IndInv, CloseProgress
<1> QED
  BY <1>1, <1>2 DEF With, IndInv, CheckpointAgrees

\* Every action of the batcher preserves the inductive invariant.
LEMMA IndInvInductive == IndInv /\ TypeOK' /\ [BNext]_bvars => IndInv'
<1> SUFFICES ASSUME IndInv, TypeOK', [BNext]_bvars PROVE IndInv'
  OBVIOUS
<1>1. TypeOK /\ (step = "none" <=> holder = "none")
  BY DEF IndInv, CloseProgress
<1>2. ASSUME NEW c \in Change, NEW p \in Position, AddRecord(c, p) PROVE IndInv'
  <2> DEFINE rec == [change |-> c, batch |-> batchID, leaf |-> Len(records)]
  <2>1. /\ records' = Append(records, rec) /\ accepted' = accepted \cup {rec}
        /\ UNCHANGED <<up, batchID, step, holder, halted, auditBatches,
                       auditRecords, checkpoints>>
        /\ up /\ holder = "none"
    BY <1>2 DEF AddRecord, CanCall, durable
  <2>2. rec.batch = batchID /\ rec.leaf = Len(records)
    OBVIOUS
  <2>3. rec \in Record /\ Len(records) \in Nat /\ records \in Seq(Record)
    BY <1>1 DEF TypeOK, Record
  <2> HIDE DEF rec
  <2>4. /\ Len(records') = Len(records) + 1
        /\ DOMAIN records' = 1..(Len(records) + 1)
        /\ DOMAIN records = 1..Len(records)
        /\ records'[Len(records) + 1] = rec
        /\ \A i \in 1..Len(records) : records'[i] = records[i]
    BY <2>1, <2>3
  <2>5. BufferIndexed'
    BY <2>1, <2>2, <2>3, <2>4 DEF IndInv, BufferIndexed
  <2>6. AcceptedIsKept'
    <3> SUFFICES ASSUME NEW r \in accepted'
                 PROVE
        \/ r.batch = batchID' /\ r.leaf + 1 \in DOMAIN records' /\ records'[r.leaf + 1] = r
        \/ /\ r.batch \in DOMAIN auditBatches'
           /\ r.leaf + 1 \in DOMAIN auditBatches'[r.batch].root
           /\ auditBatches'[r.batch].root[r.leaf + 1] = r
           /\ r \in auditRecords'
      BY DEF AcceptedIsKept
    <3>1. CASE r = rec
      BY <3>1, <2>1, <2>2, <2>3, <2>4
    <3>2. CASE r \in accepted
      BY <3>2, <2>1, <2>3, <2>4 DEF IndInv, AcceptedIsKept
    <3> QED
      BY <3>1, <3>2, <2>1
  <2> QED
    BY <1>1, <2>1, <2>5, <2>6 DEF IndInv, CloseProgress, DownIsEmpty,
       StoredUnderItsRoot, CheckpointAgrees, UnsealedOnlyAtEnd
<1>3. ASSUME NEW t \in Table, SetBootstrapMode(t) PROVE IndInv'
  <2>1. /\ UNCHANGED <<up, batchID, records, lastPosition, holder, step, auditBatches,
                       auditRecords, checkpoints, accepted, halted>>
        /\ holder = "none" /\ up
    BY <1>3 DEF SetBootstrapMode, CanCall, durable, history
  <2> QED
    BY <1>1, <2>1 DEF IndInv, BufferIndexed, CloseProgress, DownIsEmpty, AcceptedIsKept,
       StoredUnderItsRoot, CheckpointAgrees, UnsealedOnlyAtEnd
<1>4. CASE Flush \/ TakeError
  BY <1>4, <1>1, FrameKeepsIndInv DEF Flush, TakeError, CanCall, durable, history
<1>5. CASE CancelCtx
  BY <1>5, <1>1, FrameKeepsIndInv DEF CancelCtx, durable, history
<1>6. CASE Close
  BY <1>6, <1>1, FrameKeepsIndInv DEF Close, CanCall, durable, history
<1>7. CASE TimerFire
  BY <1>7, <1>1, FrameKeepsIndInv DEF TimerFire, durable, history
<1>8. ASSUME NEW w \in {"run", "timer"}, CloseEmpty(w) PROVE IndInv'
  BY <1>8, <1>1, FrameKeepsIndInv DEF CloseEmpty, Entering, durable, history
<1>9. ASSUME NEW w \in {"run", "timer"}, CloseBegin(w) PROVE IndInv'
  BY <1>9, <1>1, FrameKeepsIndInv DEF CloseBegin, Entering, durable, history
<1>10. CASE SignOK
  BY <1>10, <1>1, FrameKeepsIndInv DEF SignOK, durable, history
<1>11. CASE CloseFails /\ UNCHANGED durable
  BY <1>11, FrameKeepsIndInv DEF CloseFails, durable
<1>12. CASE CreateBatchOK
  <2>1. /\ UNCHANGED <<up, batchID, records, lastPosition, bootstrap, accepted, halted, holder>>
        /\ up /\ step = "create" /\ step' = "put" /\ Committed
    BY <1>12 DEF CreateBatchOK, history
  <2> QED
    BY <1>1, <2>1, CommittedKeeps DEF IndInv, CloseProgress, DownIsEmpty
<1>13. CASE CreateBatchAckLost
  <2>1. /\ UNCHANGED <<up, batchID, records, lastPosition, bootstrap, accepted, halted>>
        /\ up /\ step' = "none" /\ holder' = "none" /\ Committed
    BY <1>13 DEF CreateBatchAckLost, CloseFails
  <2> QED
    BY <2>1, CommittedKeeps DEF IndInv, CloseProgress, DownIsEmpty
<1>14. CASE PutCheckpointOK
  <2>1. /\ UNCHANGED <<up, lastPosition, accepted, halted, auditBatches, auditRecords>>
        /\ up /\ step = "put" /\ step' = "none" /\ holder' = "none"
        /\ records' = <<>> /\ batchID' = batchID + 1
        /\ PutCommitted
    BY <1>14 DEF PutCheckpointOK, PutCommitted
  <2>2. BufferIndexed' /\ StoredUnderItsRoot'
    BY <2>1 DEF IndInv, BufferIndexed, StoredUnderItsRoot
  <2>3. UnsealedOnlyAtEnd'
    BY <2>1, PutCommittedKeeps DEF IndInv, UnsealedOnlyAtEnd
  <2>4. AcceptedIsKept'
    <3>1. /\ batchID \in DOMAIN auditBatches /\ auditBatches[batchID].root = records
          /\ \A i \in 1..Len(records) : records[i] \in auditRecords
          /\ DOMAIN records = 1..Len(records)
      BY <2>1, BufferLeaves DEF IndInv, CloseProgress, CurrentRow
    <3> QED
      BY <2>1, <3>1 DEF IndInv, AcceptedIsKept
  <2> QED
    BY <2>1, <2>2, <2>3, <2>4, PutCommittedKeeps DEF IndInv, CloseProgress, DownIsEmpty
<1>15. CASE PutCheckpointChmodFails
  <2>1. /\ UNCHANGED <<up, batchID, records, lastPosition, bootstrap, accepted, halted,
                       auditBatches, auditRecords>>
        /\ up /\ step = "put" /\ step' = "none" /\ holder' = "none" /\ PutCommitted
    BY <1>15 DEF PutCheckpointChmodFails, CloseFails, PutCommitted
  <2>2. UnsealedOnlyAtEnd' /\ CheckpointAgrees'
    BY <2>1, PutCommittedKeeps DEF IndInv, UnsealedOnlyAtEnd
  <2> QED
    BY <2>1, <2>2 DEF IndInv, BufferIndexed, CloseProgress, DownIsEmpty, AcceptedIsKept,
       StoredUnderItsRoot
<1>16. CASE Halt
  BY <1>16 DEF Halt, durable, IndInv, BufferIndexed, CloseProgress, DownIsEmpty,
     AcceptedIsKept, StoredUnderItsRoot, CheckpointAgrees, UnsealedOnlyAtEnd
<1>17. CASE NewBatcher
  <2>1. /\ UNCHANGED <<records, accepted, halted, step, holder, auditBatches, auditRecords,
                       checkpoints>>
        /\ up' = TRUE /\ batchID' = batchID + 1
        /\ records = <<>> /\ accepted = {} /\ batchID \in halted /\ step = "none"
    BY <1>17 DEF NewBatcher, IndInv, DownIsEmpty, durable, history
  <2> QED
    BY <1>1, <2>1 DEF IndInv, BufferIndexed, CloseProgress, DownIsEmpty,
     AcceptedIsKept, StoredUnderItsRoot, CheckpointAgrees, UnsealedOnlyAtEnd
<1>18. CASE UNCHANGED bvars
  BY <1>18, FrameKeepsIndInv, <1>1 DEF bvars, volatile, durable, history, IndInv, DownIsEmpty
<1> QED
  BY NextCases, <1>2, <1>3, <1>4, <1>5, <1>6, <1>7, <1>8, <1>9, <1>10, <1>11, <1>12,
     <1>13, <1>14, <1>15, <1>16, <1>17, <1>18
     DEF SignFails, CreateBatchFails, PutCheckpointFails, Crash, Exit

\* A new batcher satisfies the inductive invariant.
LEMMA IndInvInit == Init => IndInv
<1>1. DOMAIN NoRows = {}
  BY DEF NoRows
<1> QED
  BY <1>1, TypeOKInit
     DEF Init, IndInv, BufferIndexed, CloseProgress, DownIsEmpty, AcceptedIsKept,
         StoredUnderItsRoot, CheckpointAgrees, UnsealedOnlyAtEnd

\* The inductive invariant holds in every reachable state.
THEOREM Inductive == Spec => []IndInv
  BY IndInvInit, IndInvInductive, TypeCorrect, PTL DEF Spec

\* No record AddRecord accepted is lost or renumbered while the process
\* lives, whichever steps of CloseCurrentBatch fail and are retried.
THEOREM AcceptedRecordsKept == Spec => []AcceptedIsKept
  BY Inductive, PTL DEF IndInv

\* Every stored record is a leaf, at its index, of the root its batch was
\* signed with.
THEOREM StoredRecordsUnderRoot == Spec => []StoredUnderItsRoot
  BY Inductive, PTL DEF IndInv

\* A WORM checkpoint and the Postgres row of its batch never disagree.
THEOREM CheckpointsAgree == Spec => []CheckpointAgrees
  BY Inductive, PTL DEF IndInv

\* A process leaves at most its last batch without a checkpoint.
THEOREM UnsealedAtEnd == Spec => []UnsealedOnlyAtEnd
  BY Inductive, PTL DEF IndInv

-----------------------------------------------------------------------------
(***************************************************************************)
(* What holds as long as no close has failed.                              *)
(***************************************************************************)

\* Only a failed close can leave an open batch without a timer.
THEOREM TimerStaysAlive == Spec => []TimerIsAlive
<1>1. Init => TimerIsAlive
  BY DEF Init, TimerIsAlive
<1>2. TypeOK /\ CloseProgress /\ TimerIsAlive /\ [BNext]_bvars => TimerIsAlive'
  <2> SUFFICES ASSUME TypeOK, CloseProgress, TimerIsAlive, [BNext]_bvars
               PROVE  TimerIsAlive'
    OBVIOUS
  <2>1. ASSUME NEW c \in Change, NEW p \in Position, AddRecord(c, p) PROVE TimerIsAlive'
    BY <2>1 DEF AddRecord, CanCall, TimerIsAlive, ShouldClose
  <2>2. ASSUME NEW t \in Table, SetBootstrapMode(t) PROVE TimerIsAlive'
    BY <2>2 DEF SetBootstrapMode, CanCall, TimerIsAlive, history
  <2>3. CASE Flush \/ TakeError
    BY <2>3 DEF Flush, TakeError, CanCall, TimerIsAlive, history
  <2>4. CASE CancelCtx
    BY <2>4 DEF CancelCtx, TimerIsAlive, history
  <2>5. CASE Close
    BY <2>5 DEF Close, TimerIsAlive
  <2>6. CASE TimerFire
    BY <2>6 DEF TimerFire, TimerIsAlive, TypeOK
  <2>7. ASSUME NEW w \in {"run", "timer"}, CloseEmpty(w) PROVE TimerIsAlive'
    BY <2>7 DEF CloseEmpty, TimerIsAlive
  <2>8. ASSUME NEW w \in {"run", "timer"}, CloseBegin(w) PROVE TimerIsAlive'
    BY <2>8 DEF CloseBegin, Entering, TimerIsAlive, history
  <2>9. CASE SignOK \/ CreateBatchOK
    BY <2>9 DEF SignOK, CreateBatchOK, TimerIsAlive, history
  <2>10. CASE CloseFails
    BY <2>10 DEF CloseFails, TimerIsAlive
  <2>11. CASE PutCheckpointOK
    BY <2>11 DEF PutCheckpointOK, TimerIsAlive
  <2>12. CASE Halt
    BY <2>12 DEF Halt, TimerIsAlive
  <2>13. CASE NewBatcher
    BY <2>13 DEF NewBatcher, TimerIsAlive
  <2>14. CASE UNCHANGED bvars
    BY <2>14 DEF bvars, volatile, history, TimerIsAlive
  <2> QED
    BY NextCases, <2>1, <2>2, <2>3, <2>4, <2>5, <2>6, <2>7, <2>8, <2>9, <2>10, <2>11,
       <2>12, <2>13, <2>14
       DEF SignFails, CreateBatchAckLost, CreateBatchFails, PutCheckpointChmodFails,
           PutCheckpointFails, Crash, Exit
<1> QED
  BY <1>1, <1>2, Inductive, PTL DEF Spec, IndInv

\* Only a failed close can let the buffer grow beyond MaxEvents.
THEOREM BufferStaysWithinLimit == Spec => []BufferWithinLimit
<1> USE BatcherAssumption
<1>1. Init => BufferHasRoom
  BY DEF Init, BufferHasRoom
<1>2. TypeOK /\ CloseProgress /\ BufferHasRoom /\ [BNext]_bvars => BufferHasRoom'
  <2> SUFFICES ASSUME TypeOK, CloseProgress, BufferHasRoom, [BNext]_bvars
               PROVE  BufferHasRoom'
    OBVIOUS
  <2>1. ASSUME NEW c \in Change, NEW p \in Position, AddRecord(c, p) PROVE BufferHasRoom'
    <3>1. /\ Len(records') = Len(records) + 1
          /\ failed' = failed
          /\ call \in {"ready", "failed"}
          /\ call' = IF Len(records') >= MaxEvents THEN "closing" ELSE "ready"
          /\ Len(records) \in Nat
      BY <2>1 DEF AddRecord, CanCall, TypeOK, ShouldClose
    <3> QED
      BY <3>1 DEF BufferHasRoom
  <2>2. ASSUME NEW t \in Table, SetBootstrapMode(t) PROVE BufferHasRoom'
    BY <2>2 DEF SetBootstrapMode, CanCall, BufferHasRoom, history
  <2>3. CASE Flush \/ TakeError
    BY <2>3 DEF Flush, TakeError, CanCall, BufferHasRoom, history
  <2>4. CASE CancelCtx
    BY <2>4 DEF CancelCtx, BufferHasRoom, history
  <2>5. CASE Close
    BY <2>5 DEF Close, BufferHasRoom, history
  <2>6. CASE TimerFire
    BY <2>6 DEF TimerFire, BufferHasRoom, history
  <2>7. ASSUME NEW w \in {"run", "timer"}, CloseEmpty(w) PROVE BufferHasRoom'
    BY <2>7 DEF CloseEmpty, BufferHasRoom
  <2>8. ASSUME NEW w \in {"run", "timer"}, CloseBegin(w) PROVE BufferHasRoom'
    BY <2>8 DEF CloseBegin, BufferHasRoom, history
  <2>9. CASE SignOK \/ CreateBatchOK
    BY <2>9 DEF SignOK, CreateBatchOK, BufferHasRoom, history
  <2>10. CASE CloseFails
    BY <2>10 DEF CloseFails, BufferHasRoom
  <2>11. CASE PutCheckpointOK
    BY <2>11 DEF PutCheckpointOK, BufferHasRoom
  <2>12. CASE Halt
    BY <2>12 DEF Halt, BufferHasRoom
  <2>13. CASE NewBatcher
    BY <2>13 DEF NewBatcher, BufferHasRoom, history
  <2>14. CASE UNCHANGED bvars
    BY <2>14 DEF bvars, volatile, history, BufferHasRoom
  <2> QED
    BY NextCases, <2>1, <2>2, <2>3, <2>4, <2>5, <2>6, <2>7, <2>8, <2>9, <2>10, <2>11,
       <2>12, <2>13, <2>14
       DEF SignFails, CreateBatchAckLost, CreateBatchFails, PutCheckpointChmodFails,
           PutCheckpointFails, Crash, Exit
<1>3. BufferHasRoom => BufferWithinLimit
  BY DEF BufferHasRoom, BufferWithinLimit
<1> QED
  BY <1>1, <1>2, <1>3, Inductive, PTL DEF Spec, IndInv

-----------------------------------------------------------------------------
(***************************************************************************)
(* The trail.                                                              *)
(***************************************************************************)

\* CloseCurrentBatch goes on with a buffer that is not empty, and nobody
\* empties it meanwhile.
LEMMA ClosingStaysFilled ==
    ASSUME CloseProgress, ClosingHasRecords, [BNext]_bvars
    PROVE  ClosingHasRecords'
<1>1. ASSUME NEW c \in Change, NEW p \in Position, AddRecord(c, p) PROVE step' = "none"
  BY <1>1 DEF AddRecord, CanCall, CloseProgress
<1>2. CASE UNCHANGED <<step, records>>
  BY <1>2 DEF ClosingHasRecords
<1>3. ASSUME NEW w \in {"run", "timer"}, CloseBegin(w) PROVE ClosingHasRecords'
  BY <1>3 DEF CloseBegin, ClosingHasRecords
<1>4. CASE SignOK \/ CreateBatchOK
  BY <1>4 DEF SignOK, CreateBatchOK, ClosingHasRecords
<1>5. CASE CloseFails \/ PutCheckpointOK \/ Halt
  BY <1>5 DEF CloseFails, PutCheckpointOK, Halt, ClosingHasRecords
<1>6. CASE \/ \E t \in Table : SetBootstrapMode(t)
           \/ Flush \/ TakeError \/ CancelCtx \/ Close \/ TimerFire \/ NewBatcher
           \/ \E w \in {"run", "timer"} : CloseEmpty(w)
           \/ UNCHANGED bvars
  <2>1. UNCHANGED <<step, records>>
    BY <1>6 DEF SetBootstrapMode, Flush, TakeError, CancelCtx, Close, TimerFire, NewBatcher,
                CloseEmpty, bvars, volatile
  <2> QED
    BY <1>2, <2>1
<1> QED
  BY NextCases, <1>1, <1>3, <1>4, <1>5, <1>6
     DEF SignFails, CreateBatchAckLost, CreateBatchFails, PutCheckpointChmodFails,
         PutCheckpointFails, Crash, Exit, ClosingHasRecords

\* A commit adds the current batch with the records of the buffer, and what
\* was there before stays.
LEMMA CommitSeals ==
    ASSUME IndInv, records # <<>>, Committed, UNCHANGED <<batchID, records>>
    PROVE  AT!Seal
<1> DEFINE new == {records[i] : i \in DOMAIN records}
<1>1. /\ batchID \notin DOMAIN auditBatches
      /\ DOMAIN auditBatches' = DOMAIN auditBatches \cup {batchID}
      /\ auditRecords' = auditRecords \cup new
  BY DEF Committed, With
<1>2. /\ DOMAIN records = 1..Len(records) /\ Len(records) \in Nat
      /\ \A r \in new : r.batch = batchID
  BY BufferLeaves DEF IndInv, BufferIndexed
<1>3. \A r \in auditRecords : r.batch \in DOMAIN auditBatches
  BY DEF IndInv, StoredUnderItsRoot
<1>4. new # {}
  <2>1. records \in Seq(Record)
    BY DEF IndInv, TypeOK
  <2>2. Len(records) > 0
    BY <2>1
  <2>3. records[1] \in new
    BY <1>2, <2>2
  <2> QED
    BY <2>3
<1>5. \A b \in DOMAIN auditBatches :
         {r \in auditRecords' : r.batch = b} = {r \in auditRecords : r.batch = b}
  BY <1>1, <1>2
<1>6. {r \in auditRecords' : r.batch = batchID} = new
  BY <1>1, <1>2, <1>3
<1>7. DOMAIN Stored = DOMAIN auditBatches /\ DOMAIN Stored' = DOMAIN auditBatches \cup {batchID}
  BY <1>1 DEF Stored
<1>8. Stored'[batchID] = new
  BY <1>1, <1>6 DEF Stored
<1>9. \A b \in DOMAIN auditBatches : Stored'[b] = Stored[b]
  BY <1>1, <1>5 DEF Stored
<1>10. Stored' = [x \in DOMAIN Stored \cup {batchID} |->
                     IF x = batchID THEN Stored'[batchID] ELSE Stored[x]]
  <2>1. Stored' = [x \in DOMAIN auditBatches' |-> Stored'[x]]
    BY DEF Stored
  <2> QED
    BY <1>1, <1>7, <1>9, <2>1
<1>11. batchID \in DOMAIN Stored' \ DOMAIN Stored /\ Stored'[batchID] # {}
  BY <1>1, <1>4, <1>7, <1>8
<1> QED
  BY <1>10, <1>11 DEF AT!Seal

\* The rows of Postgres are an append-only trail, for all limits, faults,
\* interleavings and restarts: no retry of a close changes what was committed.
THEOREM BatcherRefinesTrail == Spec => BatcherKeepsTrail
<1>1. Init => AT!TrailInit /\ ClosingHasRecords
  <2> SUFFICES ASSUME Init PROVE Stored = [b \in {} |-> {}] /\ ClosingHasRecords
    BY DEF AT!TrailInit
  <2>1. DOMAIN auditBatches = {}
    BY DEF Init, NoRows
  <2> QED
    BY <2>1 DEF Init, Stored, ClosingHasRecords
<1>2. IndInv /\ ClosingHasRecords /\ [BNext]_bvars => ClosingHasRecords'
  BY ClosingStaysFilled DEF IndInv
<1>3. IndInv /\ ClosingHasRecords /\ [BNext]_bvars => [AT!Seal]_Stored
  <2> SUFFICES ASSUME IndInv, ClosingHasRecords, [BNext]_bvars PROVE [AT!Seal]_Stored
    OBVIOUS
  <2>1. CASE CreateBatchOK \/ CreateBatchAckLost
    <3>1. Committed /\ step = "create" /\ UNCHANGED <<batchID, records>>
      BY <2>1 DEF CreateBatchOK, CreateBatchAckLost, CloseFails
    <3> QED
      BY <3>1, CommitSeals DEF ClosingHasRecords
  <2>2. CASE UNCHANGED <<auditBatches, auditRecords>>
    BY <2>2 DEF Stored
  <2>3. CASE \/ \E c \in Change, p \in Position : AddRecord(c, p)
             \/ \E t \in Table : SetBootstrapMode(t)
             \/ Flush \/ TakeError \/ CancelCtx \/ Close \/ TimerFire \/ NewBatcher
             \/ \E w \in {"run", "timer"} : CloseEmpty(w) \/ CloseBegin(w)
             \/ UNCHANGED bvars
    <3>1. UNCHANGED <<auditBatches, auditRecords>>
      BY <2>3 DEF AddRecord, SetBootstrapMode, Flush, TakeError, CancelCtx, Close, TimerFire,
                  NewBatcher, CloseEmpty, CloseBegin, bvars, durable
    <3> QED
      BY <2>2, <3>1
  <2>4. CASE \/ SignOK \/ SignFails \/ CreateBatchFails \/ PutCheckpointOK
             \/ PutCheckpointChmodFails \/ PutCheckpointFails \/ Crash \/ Exit
    <3>1. UNCHANGED <<auditBatches, auditRecords>>
      BY <2>4 DEF SignOK, SignFails, CreateBatchFails, PutCheckpointOK, PutCommitted,
                  PutCheckpointChmodFails, PutCheckpointFails, Crash, Exit, Halt, durable
    <3> QED
      BY <2>2, <3>1
  <2> QED
    BY NextCases, <2>1, <2>3, <2>4
<1> QED
  BY <1>1, <1>2, <1>3, Inductive, PTL DEF Spec, BatcherKeepsTrail, AT!TrailSpec
=============================================================================
