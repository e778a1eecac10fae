--------------------------- MODULE PipelineProofs ---------------------------
(***************************************************************************)
(* Proofs about Pipeline for every set of transactions, every MaxEvents    *)
(* and every set of faults: what the daemon records is in commit order and *)
(* free of duplicates over any number of failures and restarts, and it     *)
(* never asks its source to go back further than it resumed before.        *)
(***************************************************************************)
EXTENDS Pipeline, BatcherProofs, WellFoundedInduction

\* A non-empty set of indices has a largest element.
LEMMA LargestExists ==
    ASSUME NEW n \in Nat, NEW H, H \subseteq 1..n, H # {}
    PROVE  \E k \in H : \A l \in H : l <= k
<1> DEFINE T == {n - k : k \in H}
           R == OpToRel(<, Nat)
<1> HIDE DEF R
<1>1. T \subseteq Nat /\ T # {}
  <2>1. \A k \in H : n - k \in Nat
    OBVIOUS
  <2>2. PICK k \in H : TRUE
    OBVIOUS
  <2>3. n - k \in T
    BY <2>2
  <2> QED
    BY <2>1, <2>3
<1>2. IsWellFoundedOn(R, Nat)
  BY NatLessThanWellFounded DEF R
<1>3. \A x, y \in Nat : <<y, x>> \in R <=> y < x
  BY DEF OpToRel, R
<1>4. PICK x \in T : \A y \in T : ~ (<<y, x>> \in R)
  <2> HIDE DEF T
  <2> QED BY <1>1, <1>2, WFMin
<1>5. PICK k \in H : x = n - k
  OBVIOUS
<1>6. ASSUME NEW l \in H PROVE l <= k
  <2>1. n - l \in T
    OBVIOUS
  <2>2. ~ (n - l < n - k)
    BY <2>1, <1>1, <1>3, <1>4, <1>5
  <2> QED
    BY <2>2
<1> QED
  BY <1>6

\* And a smallest one.
LEMMA SmallestExists ==
    ASSUME NEW n \in Nat, NEW H, H \subseteq 1..n, H # {}
    PROVE  \E k \in H : \A l \in H : k <= l
<1> DEFINE T == {n + 1 - k : k \in H}
<1>1. T \subseteq 1..n
  OBVIOUS
<1>2. T # {}
  <2>1. PICK k \in H : TRUE
    OBVIOUS
  <2>2. n + 1 - k \in T
    BY <2>1
  <2> QED
    BY <2>2
<1>3. PICK x \in T : \A y \in T : y <= x
  <2> HIDE DEF T
  <2> QED BY <1>1, <1>2, LargestExists
<1>4. PICK k \in H : x = n + 1 - k
  OBVIOUS
<1>5. ASSUME NEW l \in H PROVE k <= l
  <2>1. n + 1 - l \in T
    OBVIOUS
  <2>2. n + 1 - l <= n + 1 - k
    BY <1>3, <1>4, <2>1
  <2> QED
    BY <2>2
<1> QED
  BY <1>5

\* A context row that names a user has a type, the default one if it is empty.
LEMMA AttributionType ==
    ASSUME NEW txn \in Transactions, NEW t
    PROVE  CorrelateTransaction(txn, t) \in ActorAttribution
<1> DEFINE naming == {k \in DOMAIN txn : /\ txn[k].kind = "context" /\ txn[k].action = "insert"
                                         /\ NamedColumns /\ txn[k].user # ""}
           k == CHOOSE m \in naming : \A l \in naming : m <= l
<1>1. txn \in Seq(SourceChange)
  BY PipelineAssumption
<1>2. /\ Len(txn) \in Nat /\ naming \subseteq 1..Len(txn)
      /\ \A m \in naming : txn[m] \in SourceChange
  <2>1. /\ Len(txn) \in Nat /\ DOMAIN txn = 1..Len(txn)
        /\ \A m \in DOMAIN txn : txn[m] \in SourceChange
    <3> HIDE DEF naming
    <3> QED BY <1>1
  <2>2. naming \subseteq DOMAIN txn
    OBVIOUS
  <2> HIDE DEF naming
  <2> QED
    BY <2>1, <2>2
<1>3. CASE naming # {}
  <2>1. k \in naming
    <3> HIDE DEF naming
    <3>1. \E l \in naming : \A m \in naming : l <= m
      BY <1>2, <1>3, SmallestExists
    <3> QED
      BY <3>1
  <2>2. txn[k] \in SourceChange
    <3> HIDE DEF k, naming
    <3> QED BY <1>2, <2>1
  <2>3. txn[k].type \in ActorType \cup {""}
    <3> HIDE DEF k, naming
    <3> QED BY <2>2 DEF SourceChange
  <2>4. CorrelateTransaction(txn, t) =
            [user |-> "known", type |-> IF txn[k].type = "" THEN "USER" ELSE txn[k].type]
    BY <1>3 DEF CorrelateTransaction
  <2> HIDE DEF k, naming
  <2> DEFINE type == IF txn[k].type = "" THEN "USER" ELSE txn[k].type
  <2>5. type \in ActorType
    BY <2>3 DEF ActorType
  <2>6. CorrelateTransaction(txn, t) = [user |-> "known", type |-> type]
    BY <2>4
  <2> HIDE DEF type
  <2> QED
    BY <2>5, <2>6 DEF ActorAttribution
<1>4. CASE naming = {}
  BY <1>4 DEF CorrelateTransaction, ActorAttribution, ActorType
<1> QED
  BY <1>3, <1>4

\* The actions of Next, grouped by what they touch.
LEMMA PipelineCases ==
    ASSUME Next
    PROVE  \/ \E txn \in Transactions : SourceCommit(txn)
           \/ ReceiveTransaction \/ SkipChange \/ RecordChange
           \/ FinishTransaction \/ BuildRecordFails \/ AddRecordFails
           \/ StopRun \/ BatcherStep
           \/ \E t \in Table : CooldownExpires(t)
           \/ ProcessEnds
           \/ \E loaded \in SUBSET Table : StartDaemon(loaded)
  BY DEF Next, ProcessTransactionStep

\* What the loop hands to AddRecord is a change and a position of the stream.
LEMMA RecordedChangeType ==
    ASSUME PIndInv, RecordChange
    PROVE  /\ tx \in Position /\ row \in 1..MaxRows
           /\ \E actor \in ActorAttribution :
                 /\ [tx |-> tx, row |-> row, actor |-> actor] \in Change
                 /\ AddRecord([tx |-> tx, row |-> row, actor |-> actor], tx)
<1> USE PipelineAssumption
<1>1. /\ tx \in 1..MaxTxs /\ row \in Nat /\ row >= 1
      /\ binlog[tx] \in Transactions /\ row <= Len(binlog[tx])
  <2>1. tx # 0 /\ row <= Len(binlog[tx])
    BY DEF RecordChange, AtChange
  <2>2. tx = received /\ row >= 1
    BY <2>1 DEF PIndInv, LoopPosition
  <2>3. binlog \in Seq(Transactions) /\ received \in 0..Len(binlog) /\ tx \in 0..MaxTxs
        /\ row \in Nat
    BY DEF PIndInv, PTypeOK
  <2> QED
    BY <2>1, <2>2, <2>3
<1>2. row \in 1..MaxRows
  <2>1. Len(binlog[tx]) <= MaxRows /\ Len(binlog[tx]) \in Nat
    BY <1>1
  <2> QED
    BY <1>1, <2>1
<1>3. \E actor \in ActorAttribution : AddRecord([tx |-> tx, row |-> row, actor |-> actor], tx)
  <2> DEFINE actor == CorrelateTransaction(binlog[tx], binlog[tx][row].table)
  <2>1. actor \in ActorAttribution
    BY <1>1, AttributionType
  <2> QED
    BY <2>1 DEF RecordChange
<1> QED
  BY <1>1, <1>2, <1>3

\* Every step of the pipeline is a step of the batcher or leaves it alone.
LEMMA StepIsBatcherStep == PIndInv /\ [Next]_vars => [BNext]_bvars
<1> SUFFICES ASSUME PIndInv, [Next]_vars PROVE [BNext]_bvars
  OBVIOUS
<1>1. CASE \E txn \in Transactions : SourceCommit(txn)
  BY <1>1 DEF SourceCommit
<1>2. CASE ReceiveTransaction \/ SkipChange \/ FinishTransaction \/ BuildRecordFails
  BY <1>2 DEF ReceiveTransaction, SkipChange, FinishTransaction, BuildRecordFails
<1>3. CASE RecordChange
  BY <1>3, RecordedChangeType DEF BNext
<1>4. CASE AddRecordFails
  BY <1>4 DEF AddRecordFails, BNext
<1>5. CASE StopRun
  BY <1>5 DEF StopRun, BNext
<1>6. CASE BatcherStep
  BY <1>6 DEF BatcherStep, BNext
<1>7. CASE \E t \in Table : CooldownExpires(t)
  BY <1>7 DEF CooldownExpires
<1>8. CASE ProcessEnds
  BY <1>8 DEF ProcessEnds, BNext
<1>9. CASE \E loaded \in SUBSET Table : StartDaemon(loaded)
  BY <1>9 DEF StartDaemon, BNext
<1>10. CASE UNCHANGED vars
  BY <1>10 DEF vars
<1> QED
  BY PipelineCases, <1>1, <1>2, <1>3, <1>4, <1>5, <1>6, <1>7, <1>8, <1>9, <1>10

\* The position of the batch closed last bounds every persisted position.
LEMMA LatestIsLargest ==
    ASSUME PIndInv
    PROVE  /\ LatestCheckpoint \in 0..Len(binlog)
           /\ \A b \in DOMAIN auditBatches : auditBatches[b].pos <= LatestCheckpoint
           /\ DOMAIN auditBatches # {} =>
                 \E b \in DOMAIN auditBatches : LatestCheckpoint = auditBatches[b].pos
<1> USE PipelineAssumption
<1>1. \A b \in DOMAIN auditBatches : auditBatches[b].pos \in 0..MaxTxs
  BY DEF PIndInv, IndInv, TypeOK, BatchRow
<1>2. Len(binlog) \in Nat
  BY DEF PIndInv, PTypeOK
<1>3. CASE DOMAIN auditBatches = {}
  BY <1>3, <1>2 DEF LatestCheckpoint
<1>4. CASE DOMAIN auditBatches # {}
  <2> DEFINE last == CHOOSE b \in DOMAIN auditBatches : \A c \in DOMAIN auditBatches : c <= b
  <2>1. last \in DOMAIN auditBatches /\ \A c \in DOMAIN auditBatches : c <= last
    BY <1>4 DEF PIndInv, BatchesOrdered
  <2>2. LatestCheckpoint = auditBatches[last].pos
    BY <1>4 DEF LatestCheckpoint
  <2> HIDE DEF last
  <2> QED
    BY <1>1, <1>2, <2>1, <2>2 DEF PIndInv, PositionsOrdered, StreamIsAhead
<1> QED
  BY <1>3, <1>4

\* Applying a transaction's configuration changes yields a configuration.
LEMMA ReconfiguredType ==
    ASSUME NEW config \in [Table -> Policy], NEW txn \in Transactions
    PROVE  Reconfigured(config, txn) \in [Table -> Policy]
<1>1. txn \in Seq(SourceChange) /\ DOMAIN txn = 1..Len(txn) /\ Len(txn) \in Nat
  BY PipelineAssumption
<1> SUFFICES ASSUME NEW t \in Table PROVE Reconfigured(config, txn)[t] \in Policy
  BY DEF Reconfigured
<1> DEFINE hits == {k \in DOMAIN txn : txn[k].kind = "config" /\ txn[k].table = t}
           best == CHOOSE k \in hits : \A l \in hits : l <= k
<1>2. Reconfigured(config, txn)[t] = IF hits = {} THEN config[t] ELSE txn[best].policy
  BY DEF Reconfigured
<1>3. ASSUME hits # {} PROVE txn[best].policy \in Policy
  <2>1. hits \subseteq 1..Len(txn)
    BY <1>1
  <2>2. \E k \in hits : \A l \in hits : l <= k
    <3> HIDE DEF hits
    <3> QED
      BY <1>1, <1>3, <2>1, LargestExists
  <2>3. best \in hits
    <3> HIDE DEF hits
    <3> QED
      BY <2>2
  <2>4. best \in DOMAIN txn
    BY <2>3
  <2> HIDE DEF best
  <2>5. txn[best] \in SourceChange
    BY <1>1, <2>4
  <2> QED
    BY <2>5 DEF SourceChange
<1> QED
  BY <1>2, <1>3

\* Type correctness of the pipeline's variables is preserved.
LEMMA PTypeOKInductive == PIndInv /\ [Next]_vars => PTypeOK'
<1> SUFFICES ASSUME PIndInv, [Next]_vars PROVE PTypeOK'
  OBVIOUS
<1> USE PipelineAssumption
<1>1. PTypeOK
  BY DEF PIndInv
<1>2. ASSUME NEW txn \in Transactions, SourceCommit(txn) PROVE PTypeOK'
  <2>1. binlog' = Append(binlog, txn) /\ Len(binlog) < MaxTxs
        /\ mysqlConfig' = Reconfigured(mysqlConfig, txn)
        /\ UNCHANGED <<tables, received, tx, row, cooldown, alerts, errored, blind>>
    BY <1>2 DEF SourceCommit, progress, alerting, phistory
  <2>2. binlog' \in Seq(Transactions) /\ Len(binlog') = Len(binlog) + 1
    BY <1>1, <2>1 DEF PTypeOK
  <2>3. mysqlConfig' \in [Table -> Policy]
    BY <1>1, <2>1, ReconfiguredType DEF PTypeOK
  <2> QED
    BY <1>1, <2>1, <2>2, <2>3 DEF PTypeOK
<1>3. CASE ReceiveTransaction
  <2>1. /\ received' = received + 1 /\ tx' = received + 1 /\ row' = 1
        /\ received < Len(binlog)
        /\ tables' = IF NamedColumns THEN Reconfigured(tables, binlog[received + 1]) ELSE tables
        /\ UNCHANGED <<binlog, mysqlConfig, cooldown, alerts, errored, blind>>
    BY <1>3 DEF ReceiveTransaction, HandleConfigChanges, source, alerting, phistory
  <2>2. received + 1 \in 1..Len(binlog) /\ binlog[received + 1] \in Transactions
        /\ Len(binlog) \in Nat
    BY <1>1, <2>1 DEF PTypeOK
  <2>3. tables' \in [Table -> Policy]
    BY <1>1, <2>1, <2>2, ReconfiguredType DEF PTypeOK
  <2> QED
    BY <1>1, <2>1, <2>2, <2>3 DEF PTypeOK
<1>4. CASE SkipChange
  <2>1. row' \in Nat
    BY <1>1, <1>4 DEF SkipChange, PTypeOK
  <2> QED
    BY <1>1, <1>4, <2>1 DEF SkipChange, PTypeOK, source, alerting, phistory
<1>5. CASE RecordChange
  <2>1. tx \in 1..MaxTxs /\ row \in 1..MaxRows
    BY <1>5, RecordedChangeType
  <2>2. row' \in Nat
    BY <1>5, <2>1 DEF RecordChange
  <2>3. cooldown' \subseteq Table /\ alerts' \subseteq (1..MaxTxs) \X (1..MaxRows)
    <3> DEFINE t == binlog[tx][row].table
    <3>1. t \in Table
      <4>1. binlog[tx] \in Seq(SourceChange) /\ row <= Len(binlog[tx])
        BY <1>1, <1>5, <2>1 DEF RecordChange, AtChange, PTypeOK, PIndInv, LoopPosition
      <4>2. binlog[tx][row] \in SourceChange
        BY <2>1, <4>1
      <4> QED
        BY <4>2 DEF SourceChange
    <3>2. UNCHANGED alerting \/ (cooldown' = cooldown \cup {t} /\ alerts' = alerts \cup {<<tx, row>>})
      BY <1>5 DEF RecordChange, Trigger
    <3> QED
      BY <1>1, <2>1, <3>1, <3>2 DEF alerting, PTypeOK
  <2> QED
    BY <1>1, <1>5, <2>2, <2>3 DEF RecordChange, PTypeOK, source, phistory
<1>6. CASE FinishTransaction
  BY <1>1, <1>6 DEF FinishTransaction, PTypeOK, source, alerting, phistory
<1>7. CASE Abandon /\ tx # 0
  BY <1>1, <1>7 DEF Abandon, PTypeOK, source, alerting
<1>8. CASE UNCHANGED pvars
  BY <1>1, <1>8 DEF pvars, source, progress, alerting, phistory, PTypeOK
<1>9. CASE \E t \in Table : CooldownExpires(t)
  <2>1. cooldown' \subseteq cooldown /\ alerts' \subseteq alerts
    BY <1>9 DEF CooldownExpires, AlertsOn
  <2> QED
    BY <1>1, <1>9, <2>1 DEF CooldownExpires, PTypeOK, source, progress, phistory
<1>10. CASE ProcessEnds
  BY <1>1, <1>10 DEF ProcessEnds, PTypeOK, source, phistory
<1>11. ASSUME NEW loaded \in SUBSET Table, StartDaemon(loaded) PROVE PTypeOK'
  <2>1. received' \in 0..Len(binlog)
    BY <1>11, LatestIsLargest DEF StartDaemon
  <2>2. tables' \in [Table -> Policy]
    BY <1>1, <1>11 DEF StartDaemon, PTypeOK, Policy
  <2>3. blind' \in BOOLEAN
    BY <1>11 DEF StartDaemon
  <2> QED
    BY <1>1, <1>11, <2>1, <2>2, <2>3 DEF StartDaemon, PTypeOK, source, alerting
<1> QED
  BY PipelineCases, <1>2, <1>3, <1>4, <1>5, <1>6, <1>7, <1>8, <1>9, <1>10, <1>11
     DEF BuildRecordFails, AddRecordFails, AtChange, StopRun, BatcherStep, vars

-----------------------------------------------------------------------------
(***************************************************************************)
(* The inductive invariant, one kind of step at a time.                    *)
(***************************************************************************)

\* Types that the order arguments below need as numbers.
LEMMA Numbers ==
    ASSUME PIndInv
    PROVE  /\ batchID \in Nat /\ received \in Nat /\ tx \in Nat /\ row \in Nat
           /\ lastPosition \in Nat /\ Len(binlog) \in Nat /\ Len(records) \in Nat
           /\ DOMAIN records = 1..Len(records)
           /\ \A b \in DOMAIN auditBatches : b \in Nat /\ auditBatches[b].pos \in Nat
           /\ \A r \in Trail : /\ r.batch \in Nat /\ r.leaf \in Nat
                              /\ r.change.tx \in Nat \ {0} /\ r.change.row \in Nat
<1> USE PipelineAssumption
<1>1. /\ batchID \in Nat /\ received \in Nat /\ tx \in Nat /\ row \in Nat
      /\ lastPosition \in Nat /\ Len(binlog) \in Nat /\ Len(records) \in Nat
      /\ DOMAIN records = 1..Len(records)
  BY DEF PIndInv, PTypeOK, IndInv, TypeOK, BatchId
<1>2. \A b \in DOMAIN auditBatches : b \in Nat /\ auditBatches[b].pos \in Nat
  BY DEF PIndInv, IndInv, TypeOK, BatchRow, BatchId
<1>3. Trail \subseteq Record
  BY DEF PIndInv, IndInv, TypeOK, Trail
<1>4. \A r \in Record : /\ r.batch \in Nat /\ r.leaf \in Nat
                        /\ r.change.tx \in Nat \ {0} /\ r.change.row \in Nat
  BY DEF Record, BatchId
<1> QED
  BY <1>1, <1>2, <1>3, <1>4

\* Steps that leave buffer and stores alone: the stream and the loop may
\* only move forward.
LEMMA QuietStep ==
    ASSUME PIndInv, IndInv', PTypeOK', LoopPosition',
           UNCHANGED <<up, batchID, records, lastPosition, auditBatches, auditRecords>>,
           step' # "none" => step # "none" \/ records # <<>>,
           received' >= received, Len(binlog') >= Len(binlog),
           tx' = 0 \/ tx' > received \/ (tx' = tx /\ row' >= row)
    PROVE  PIndInv'
<1>1. Trail' = Trail
  BY DEF Trail
<1>2. ClosingIsNonEmpty' /\ BatchesOrdered' /\ PositionsOrdered' /\ PositionCoversRecords'
      /\ OpenBatchIsPrefix'
  BY DEF PIndInv, ClosingIsNonEmpty, BatchesOrdered, PositionsOrdered,
         PositionCoversRecords, OpenBatchIsPrefix
<1>3. RecordedInCommitOrder'
  BY <1>1 DEF PIndInv, RecordedInCommitOrder
<1>4. received' \in Nat /\ Len(binlog') \in Nat /\ tx' \in Nat /\ row' \in Nat
  BY PipelineAssumption DEF PTypeOK
<1>5. StreamIsAhead'
  BY <1>4, Numbers DEF PIndInv, StreamIsAhead
<1>6. TrailIsBehind'
  <2> SUFFICES ASSUME up, NEW r \in Trail
               PROVE  r.change.tx <= received' /\ (r.change.tx = tx' => r.change.row < row')
    BY <1>1 DEF TrailIsBehind
  <2>1. r.change.tx <= received /\ (r.change.tx = tx => r.change.row < row)
    BY DEF PIndInv, TrailIsBehind
  <2> QED
    BY <1>4, <2>1, Numbers
<1> QED
  BY <1>2, <1>3, <1>5, <1>6 DEF PIndInv

\* The loop records the change it is at.
LEMMA RecordStep ==
    ASSUME PIndInv, IndInv', PTypeOK', RecordChange
    PROVE  PIndInv'
<1>1. PICK actor \in ActorAttribution : AddRecord([tx |-> tx, row |-> row, actor |-> actor], tx)
  BY RecordedChangeType
<1> DEFINE rec == [change |-> [tx |-> tx, row |-> row, actor |-> actor],
                   batch |-> batchID, leaf |-> Len(records)]
<1>2. /\ records' = Append(records, rec) /\ lastPosition' = tx
      /\ UNCHANGED <<up, batchID, step, auditBatches, auditRecords>>
      /\ up /\ step = "none"
  BY <1>1 DEF AddRecord, CanCall, durable, PIndInv, IndInv, CloseProgress
<1>3. /\ rec.change.tx = tx /\ rec.change.row = row
      /\ rec.batch = batchID /\ rec.leaf = Len(records)
  OBVIOUS
<1>4. /\ row' = row + 1 /\ UNCHANGED <<received, tx, binlog>>
      /\ tx # 0 /\ tx = received
  BY DEF RecordChange, AtChange, source, PIndInv, LoopPosition
<1> HIDE DEF rec
<1>5. /\ Len(records') = Len(records) + 1
      /\ DOMAIN records' = 1..(Len(records) + 1)
      /\ records'[Len(records) + 1] = rec
      /\ \A i \in 1..Len(records) : records'[i] = records[i]
  BY <1>2 DEF PIndInv, IndInv, TypeOK, IndInv, BufferIndexed
<1>6. Trail' = Trail \cup {rec}
  BY <1>2, <1>5, Numbers DEF Trail
<1>7. \A r \in Trail : /\ r.change.tx <= tx
                       /\ r.change.tx = tx => r.change.row < row
  BY <1>2, <1>4 DEF PIndInv, TrailIsBehind
<1>8. \A r \in Trail : r.batch < batchID \/ (r.batch = batchID /\ r.leaf < Len(records))
  <2>1. ASSUME NEW i \in DOMAIN records
        PROVE  records[i].batch = batchID /\ records[i].leaf < Len(records)
    <3>1. /\ records[i].batch = batchID /\ records[i].leaf + 1 = i
          /\ i <= Len(records) /\ i \in Nat
      BY Numbers DEF PIndInv, IndInv, BufferIndexed
    <3>2. records[i] \in Trail
      BY DEF Trail
    <3> QED
      BY <3>1, <3>2, Numbers
  <2>2. ASSUME NEW r \in auditRecords
        PROVE  r.batch < batchID \/ (r.batch = batchID /\ r.leaf < Len(records))
    <3>1. /\ r.batch \in DOMAIN auditBatches /\ r.batch <= batchID
          /\ r.leaf + 1 \in DOMAIN auditBatches[r.batch].root
      BY DEF PIndInv, IndInv, StoredUnderItsRoot, BatchesOrdered
    <3>2. auditBatches[r.batch].root \in Seq(Record)
      BY <3>1 DEF PIndInv, IndInv, TypeOK, BatchRow
    <3>3. r \in Trail
      BY DEF Trail
    <3>4. CASE r.batch = batchID
      <4>1. Len(auditBatches[batchID].root) <= Len(records)
        BY <3>1, <3>4, <1>2 DEF PIndInv, OpenBatchIsPrefix
      <4>2. r.leaf + 1 <= Len(auditBatches[batchID].root)
            /\ Len(auditBatches[batchID].root) \in Nat
        BY <3>1, <3>2, <3>4
      <4> QED
        BY <3>3, <3>4, <4>1, <4>2, Numbers
    <3> QED
      BY <3>1, <3>3, <3>4, Numbers
  <2> QED
    BY <2>1, <2>2 DEF Trail
<1>9. RecordedInCommitOrder'
  <2> SUFFICES ASSUME NEW r \in Trail', NEW s \in Trail', Before(r, s)
               PROVE  CommittedBefore(r.change, s.change)
    BY DEF RecordedInCommitOrder
  <2>1. CASE r \in Trail /\ s \in Trail
    BY <2>1 DEF PIndInv, RecordedInCommitOrder
  <2>2. CASE r \in Trail /\ s = rec
    BY <2>2, <1>3, <1>7, Numbers DEF CommittedBefore
  <2>3. CASE r = rec /\ s \in Trail
    BY <2>3, <1>3, <1>8, Numbers DEF Before
  <2>4. CASE r = rec /\ s = rec
    BY <2>4, <1>3, Numbers DEF Before
  <2> QED
    BY <2>1, <2>2, <2>3, <2>4, <1>6
<1>10. LoopPosition' /\ ClosingIsNonEmpty' /\ BatchesOrdered' /\ PositionsOrdered'
  BY <1>2, <1>4, Numbers
     DEF PIndInv, LoopPosition, ClosingIsNonEmpty, BatchesOrdered, PositionsOrdered
<1>11. StreamIsAhead'
  BY <1>2, <1>4, Numbers DEF PIndInv, StreamIsAhead
<1>12. PositionCoversRecords'
  <2>1. \A i \in 1..Len(records) : records[i].change.tx <= tx
    BY <1>7, Numbers DEF Trail
  <2> QED
    BY <1>2, <1>3, <1>5, <2>1, Numbers DEF PIndInv, PositionCoversRecords
<1>13. TrailIsBehind'
  BY <1>3, <1>4, <1>6, <1>7, Numbers DEF TrailIsBehind
<1>14. OpenBatchIsPrefix'
  <2> SUFFICES ASSUME batchID \in DOMAIN auditBatches
               PROVE  /\ Len(auditBatches[batchID].root) <= Len(records')
                      /\ \A i \in 1..Len(auditBatches[batchID].root) :
                            auditBatches[batchID].root[i] = records'[i]
    BY <1>2 DEF OpenBatchIsPrefix
  <2>1. /\ Len(auditBatches[batchID].root) <= Len(records)
        /\ \A i \in 1..Len(auditBatches[batchID].root) :
              auditBatches[batchID].root[i] = records[i]
    BY <1>2 DEF PIndInv, OpenBatchIsPrefix
  <2>2. Len(auditBatches[batchID].root) \in Nat
    BY DEF PIndInv, IndInv, TypeOK, BatchRow
  <2> QED
    BY <1>5, <2>1, <2>2, Numbers
<1> QED
  BY <1>9, <1>10, <1>11, <1>12, <1>13, <1>14 DEF PIndInv

\* CreateBatch commits: the new batch is the largest and the farthest.
LEMMA CommitStep ==
    ASSUME PIndInv, IndInv', PTypeOK', Committed, up, step = "create",
           UNCHANGED <<up, batchID, records, lastPosition>>, UNCHANGED pvars
    PROVE  PIndInv'
<1>1. /\ auditBatches' = With(auditBatches, batchID, CurrentRow)
      /\ batchID \notin DOMAIN auditBatches
      /\ auditRecords' = auditRecords \cup {records[i] : i \in DOMAIN records}
  BY DEF Committed
<1>2. /\ DOMAIN auditBatches' = DOMAIN auditBatches \cup {batchID}
      /\ auditBatches'[batchID] = CurrentRow
      /\ \A b \in DOMAIN auditBatches : auditBatches'[b] = auditBatches[b]
  BY <1>1 DEF With
<1>3. CurrentRow.pos = lastPosition /\ CurrentRow.root = records
  BY DEF CurrentRow
<1>4. UNCHANGED <<received, tx, row, binlog>> /\ records # <<>>
  BY DEF pvars, source, progress, PIndInv, ClosingIsNonEmpty
<1>5. Trail' = Trail
  BY <1>1 DEF Trail
<1>6. LoopPosition' /\ ClosingIsNonEmpty' /\ RecordedInCommitOrder' /\ TrailIsBehind'
  BY <1>4, <1>5
     DEF PIndInv, LoopPosition, ClosingIsNonEmpty, RecordedInCommitOrder, TrailIsBehind
<1>7. \A b \in DOMAIN auditBatches : b <= batchID /\ auditBatches[b].pos <= lastPosition
  BY <1>4 DEF PIndInv, BatchesOrdered, StreamIsAhead
<1>8. BatchesOrdered'
  <2>1. \A b \in DOMAIN auditBatches' : b <= batchID
    BY <1>2, <1>7, Numbers
  <2> QED
    BY <1>2, <2>1 DEF BatchesOrdered
<1>9. PositionsOrdered'
  <2> SUFFICES ASSUME NEW b \in DOMAIN auditBatches', NEW c \in DOMAIN auditBatches', b <= c
               PROVE  auditBatches'[b].pos <= auditBatches'[c].pos
    BY DEF PositionsOrdered
  <2>1. CASE b \in DOMAIN auditBatches /\ c \in DOMAIN auditBatches
    BY <2>1, <1>2 DEF PIndInv, PositionsOrdered
  <2>2. CASE c = batchID
    BY <2>2, <1>2, <1>3, <1>7, Numbers
  <2>3. CASE b = batchID /\ c \in DOMAIN auditBatches
    BY <2>3, <1>1, <1>7, Numbers
  <2> QED
    BY <2>1, <2>2, <2>3, <1>2
<1>10. StreamIsAhead'
  <2>1. lastPosition <= received /\ received <= Len(binlog)
    BY DEF PIndInv, StreamIsAhead, PTypeOK
  <2> QED
    BY <1>2, <1>3, <1>4, <2>1, Numbers DEF PIndInv, StreamIsAhead
<1>11. PositionCoversRecords'
  <2>1. \A i \in 1..Len(records) : records[i].change.tx <= lastPosition
    BY DEF PIndInv, PositionCoversRecords
  <2>2. ASSUME NEW r \in auditRecords'
        PROVE  r.change.tx <= auditBatches'[r.batch].pos
    <3>1. CASE r \in auditRecords
      BY <3>1, <1>2 DEF PIndInv, IndInv, StoredUnderItsRoot, PositionCoversRecords
    <3>2. CASE r \in {records[i] : i \in DOMAIN records}
      <4>1. r.batch = batchID
        BY <3>2, BufferLeaves DEF PIndInv
      <4> QED
        BY <3>2, <4>1, <1>2, <1>3, <2>1, Numbers
    <3> QED
      BY <3>1, <3>2, <1>1
  <2> QED
    BY <2>1, <2>2 DEF PositionCoversRecords
<1>12. OpenBatchIsPrefix'
  BY <1>2, <1>3, Numbers DEF OpenBatchIsPrefix
<1> QED
  BY <1>6, <1>8, <1>9, <1>10, <1>11, <1>12 DEF PIndInv

\* The checkpoint is written: the buffer's records are all persisted.
LEMMA SealStep ==
    ASSUME PIndInv, IndInv', PTypeOK', PutCheckpointOK, UNCHANGED pvars
    PROVE  PIndInv'
<1>1. /\ UNCHANGED <<up, lastPosition, auditBatches, auditRecords>>
      /\ up /\ step = "put" /\ step' = "none"
      /\ records' = <<>> /\ batchID' = batchID + 1
  BY DEF PutCheckpointOK, PutCommitted
<1>2. UNCHANGED <<received, tx, row, binlog>>
  BY DEF pvars, source, progress
<1>3. Trail' = auditRecords /\ auditRecords \subseteq Trail
  BY <1>1 DEF Trail
<1>4. RecordedInCommitOrder' /\ TrailIsBehind'
  BY <1>1, <1>2, <1>3 DEF PIndInv, RecordedInCommitOrder, TrailIsBehind
<1>5. \A b \in DOMAIN auditBatches : b <= batchID /\ b # batchID + 1
  BY Numbers DEF PIndInv, BatchesOrdered
<1>6. LoopPosition' /\ ClosingIsNonEmpty' /\ PositionsOrdered' /\ StreamIsAhead'
      /\ PositionCoversRecords'
  BY <1>1, <1>2 DEF PIndInv, LoopPosition, ClosingIsNonEmpty, PositionsOrdered, StreamIsAhead,
                    PositionCoversRecords
<1>7. BatchesOrdered'
  BY <1>1, <1>5, Numbers DEF PIndInv, BatchesOrdered
<1>8. OpenBatchIsPrefix'
  BY <1>1, <1>5 DEF OpenBatchIsPrefix
<1> QED
  BY <1>4, <1>6, <1>7, <1>8 DEF PIndInv

\* The process ends: only the stores remain.
LEMMA EndStep ==
    ASSUME PIndInv, IndInv', PTypeOK', ProcessEnds
    PROVE  PIndInv'
<1> USE PipelineAssumption
<1>1. /\ UNCHANGED <<batchID, auditBatches, auditRecords, binlog>>
      /\ up' = FALSE /\ step' = "none" /\ records' = <<>> /\ lastPosition' = 0
      /\ received' = 0 /\ tx' = 0
  BY DEF ProcessEnds, Crash, Exit, Halt, durable, source
<1>2. Trail' = auditRecords /\ auditRecords \subseteq Trail
  BY <1>1 DEF Trail
<1>3. RecordedInCommitOrder'
  BY <1>2 DEF PIndInv, RecordedInCommitOrder
<1> QED
  BY <1>1, <1>3
     DEF PIndInv, LoopPosition, ClosingIsNonEmpty, BatchesOrdered, PositionsOrdered,
         StreamIsAhead, PositionCoversRecords, TrailIsBehind, OpenBatchIsPrefix

\* A new process resumes behind everything that is persisted.
LEMMA StartStep ==
    ASSUME PIndInv, IndInv', PTypeOK', NEW loaded, StartDaemon(loaded)
    PROVE  PIndInv'
<1> USE PipelineAssumption
<1>1. /\ UNCHANGED <<records, lastPosition, step, auditBatches, auditRecords, binlog, tx, row>>
      /\ batchID' = batchID + 1 /\ up' = TRUE /\ received' = LatestCheckpoint
      /\ ~ up
  BY DEF StartDaemon, NewBatcher, durable, source
<1>2. records = <<>> /\ step = "none" /\ tx = 0
  BY <1>1 DEF PIndInv, IndInv, DownIsEmpty, LoopPosition
<1>3. Trail' = auditRecords /\ Trail = auditRecords
  BY <1>1, <1>2 DEF Trail
<1>4. RecordedInCommitOrder'
  BY <1>3 DEF PIndInv, RecordedInCommitOrder
<1>5. /\ LatestCheckpoint \in 0..Len(binlog)
      /\ \A b \in DOMAIN auditBatches : auditBatches[b].pos <= LatestCheckpoint
  BY LatestIsLargest
<1>6. lastPosition = 0
  BY <1>1 DEF PIndInv, StreamIsAhead
<1>7. LoopPosition' /\ ClosingIsNonEmpty' /\ PositionsOrdered'
  BY <1>1, <1>2 DEF PIndInv, LoopPosition, ClosingIsNonEmpty, PositionsOrdered
<1>8. \A b \in DOMAIN auditBatches : b <= batchID /\ b # batchID + 1 /\ b <= batchID + 1
  BY Numbers DEF PIndInv, BatchesOrdered
<1>9. BatchesOrdered' /\ OpenBatchIsPrefix'
  BY <1>1, <1>8 DEF PIndInv, BatchesOrdered, OpenBatchIsPrefix
<1>10. StreamIsAhead'
  BY <1>1, <1>2, <1>5, <1>6 DEF PIndInv, StreamIsAhead
<1>11. PositionCoversRecords'
  BY <1>1 DEF PIndInv, PositionCoversRecords
<1>12. TrailIsBehind'
  <2> SUFFICES ASSUME NEW r \in auditRecords
               PROVE  r.change.tx <= LatestCheckpoint /\ r.change.tx # 0
    BY <1>1, <1>2, <1>3 DEF TrailIsBehind
  <2>1. r.batch \in DOMAIN auditBatches
    BY DEF PIndInv, IndInv, StoredUnderItsRoot
  <2>2. r.change.tx <= auditBatches[r.batch].pos
    BY DEF PIndInv, PositionCoversRecords
  <2>3. r.change.tx \in Nat \ {0} /\ auditBatches[r.batch].pos \in Nat
    BY <1>3, <2>1, Numbers
  <2> QED
    BY <1>5, <2>1, <2>2, <2>3
<1> QED
  BY <1>4, <1>7, <1>9, <1>10, <1>11, <1>12 DEF PIndInv

\* A step of Next keeps the inductive invariant.
LEMMA PIndInvInductive == PIndInv /\ [Next]_vars => PIndInv'
<1> SUFFICES ASSUME PIndInv, [Next]_vars PROVE PIndInv'
  OBVIOUS
<1>1. IndInv'
  BY StepIsBatcherStep, TypeOKInductive, IndInvInductive DEF PIndInv, IndInv
<1>2. PTypeOK'
  BY PTypeOKInductive
<1>3. /\ received \in Nat /\ tx \in Nat /\ row \in Nat /\ Len(binlog) \in Nat
      /\ LoopPosition
  BY Numbers DEF PIndInv
<1>4. ASSUME NEW txn \in Transactions, SourceCommit(txn) PROVE PIndInv'
  <2>1. /\ UNCHANGED bvars /\ UNCHANGED progress
        /\ binlog' = Append(binlog, txn)
    BY <1>4 DEF SourceCommit
  <2>2. Len(binlog') = Len(binlog) + 1
    BY <2>1 DEF PIndInv, PTypeOK
  <2> QED
    BY <1>1, <1>2, <1>3, <2>1, <2>2, QuietStep
       DEF bvars, volatile, durable, progress, LoopPosition
<1>5. CASE ReceiveTransaction
  <2>1. UNCHANGED bvars /\ UNCHANGED binlog /\ up
        /\ received' = received + 1 /\ tx' = received + 1 /\ row' = 1
    BY <1>5 DEF ReceiveTransaction, source
  <2> QED
    BY <1>1, <1>2, <1>3, <2>1, QuietStep DEF bvars, volatile, durable, LoopPosition
<1>6. CASE SkipChange
  <2>1. UNCHANGED bvars /\ UNCHANGED <<binlog, received, tx>> /\ row' = row + 1
    BY <1>6 DEF SkipChange, source
  <2> QED
    BY <1>1, <1>2, <1>3, <2>1, QuietStep DEF bvars, volatile, durable, LoopPosition
<1>7. CASE FinishTransaction \/ BuildRecordFails
  <2>1. UNCHANGED bvars /\ UNCHANGED <<binlog, received>> /\ tx' = 0
    BY <1>7 DEF FinishTransaction, BuildRecordFails, Abandon, source
  <2> QED
    BY <1>1, <1>2, <1>3, <2>1, QuietStep DEF bvars, volatile, durable, LoopPosition
<1>8. CASE RecordChange
  BY <1>1, <1>2, <1>8, RecordStep
<1>9. CASE AddRecordFails
  <2>1. UNCHANGED <<binlog, received>> /\ tx' = 0
    BY <1>9 DEF AddRecordFails, Abandon, source
  <2>2. UNCHANGED <<up, batchID, records, lastPosition, step, auditBatches, auditRecords>>
    BY <1>9 DEF AddRecordFails, TakeError, durable
  <2> QED
    BY <1>1, <1>2, <1>3, <2>1, <2>2, QuietStep DEF LoopPosition
<1>10. ASSUME UNCHANGED pvars,
              UNCHANGED <<up, batchID, records, lastPosition, auditBatches, auditRecords>>,
              step' # "none" => step # "none" \/ records # <<>>
       PROVE  PIndInv'
  <2>1. UNCHANGED <<binlog, received, tx, row>>
    BY <1>10 DEF pvars, source, progress
  <2> QED
    BY <1>1, <1>2, <1>3, <1>10, <2>1, QuietStep DEF LoopPosition
<1>11. CASE StopRun
  BY <1>10, <1>11 DEF StopRun, Close, durable
<1>12. CASE BatcherStep
  <2>1. UNCHANGED pvars
    BY <1>12 DEF BatcherStep
  <2>2. CASE TimerFire \/ CancelCtx
    BY <1>10, <2>1, <2>2 DEF TimerFire, CancelCtx, durable
  <2>3. CASE Enter("run") \/ Enter("timer")
    BY <1>10, <2>1, <2>3 DEF Enter, CloseEmpty, CloseBegin, durable
  <2>4. CASE SignOK \/ SignFails \/ CreateBatchFails \/ PutCheckpointFails
    BY <1>10, <2>1, <2>4
       DEF SignOK, SignFails, CreateBatchFails, PutCheckpointFails, CloseFails, durable
  <2>5. CASE PutCheckpointChmodFails
    BY <1>10, <2>1, <2>5 DEF PutCheckpointChmodFails, PutCommitted, CloseFails
  <2>6. CASE CreateBatchOK
    BY <1>1, <1>2, <2>1, <2>6, CommitStep DEF CreateBatchOK
  <2>7. CASE CreateBatchAckLost
    BY <1>1, <1>2, <2>1, <2>7, CommitStep DEF CreateBatchAckLost, CloseFails
  <2>8. CASE PutCheckpointOK
    BY <1>1, <1>2, <2>1, <2>8, SealStep
  <2> QED
    BY <1>12, <2>2, <2>3, <2>4, <2>5, <2>6, <2>7, <2>8 DEF BatcherStep, CloseStep
<1>13. CASE \E t \in Table : CooldownExpires(t)
  <2>1. UNCHANGED bvars /\ UNCHANGED <<binlog, received, tx, row>>
    BY <1>13 DEF CooldownExpires, source, progress
  <2> QED
    BY <1>1, <1>2, <1>3, <2>1, QuietStep DEF bvars, volatile, durable, LoopPosition
<1>14. CASE ProcessEnds
  BY <1>1, <1>2, <1>14, EndStep
<1>15. ASSUME NEW loaded \in SUBSET Table, StartDaemon(loaded) PROVE PIndInv'
  BY <1>1, <1>2, <1>15, StartStep
<1>16. CASE UNCHANGED vars
  BY <1>10, <1>16 DEF vars, bvars, volatile, durable
<1> QED
  BY PipelineCases, <1>4, <1>5, <1>6, <1>7, <1>8, <1>9, <1>11, <1>12, <1>13, <1>14, <1>15, <1>16

\* The initial state.
LEMMA PIndInvInit == PInit => PIndInv
<1> SUFFICES ASSUME PInit PROVE PIndInv
  OBVIOUS
<1> USE PipelineAssumption
<1>1. IndInv
  BY IndInvInit DEF PInit
<1>2. PTypeOK
  <2>1. binlog \in Seq(Transactions) /\ Len(binlog) = 0
    BY DEF PInit
  <2>2. received \in 0..Len(binlog) /\ Len(binlog) <= MaxTxs /\ tx \in 0..MaxTxs /\ row \in Nat
    BY <2>1 DEF PInit
  <2> QED
    BY <2>1, <2>2 DEF PInit, PTypeOK
<1>3. Trail = {} /\ DOMAIN auditBatches = {} /\ auditRecords = {}
  BY DEF PInit, Init, Trail, NoRows
<1> QED
  BY <1>1, <1>2, <1>3
     DEF PInit, Init, PIndInv, LoopPosition, ClosingIsNonEmpty, BatchesOrdered,
         PositionsOrdered, StreamIsAhead, PositionCoversRecords, TrailIsBehind,
         OpenBatchIsPrefix, RecordedInCommitOrder

-----------------------------------------------------------------------------
(***************************************************************************)
(* The theorems.                                                           *)
(***************************************************************************)

\* The invariant holds in every state of the daemon.
THEOREM PipelineInductive == PSpec => []PIndInv
  BY PIndInvInit, PIndInvInductive, PTL DEF PSpec

\* The pipeline's variables have their types.
THEOREM PipelineTypeCorrect == PSpec => []PTypeOK
<1>1. PIndInv => PTypeOK
  BY DEF PIndInv
<1> QED
  BY <1>1, PipelineInductive, PTL

\* The trail lists changes in commit order and none twice, for any number of
\* failed closes, crashes and restarts.
THEOREM TrailInCommitOrder == PSpec => []RecordedInCommitOrder
<1>1. PIndInv => RecordedInCommitOrder
  BY DEF PIndInv
<1> QED
  BY <1>1, PipelineInductive, PTL

\* What the batcher alone guarantees, the daemon that contains it does too.
LEMMA DaemonRunsBatcher == PSpec => Spec
<1>1. PInit => Init
  BY DEF PInit
<1> QED
  BY <1>1, StepIsBatcherStep, PipelineInductive, PTL DEF PSpec, Spec

\* The daemon as a whole keeps the trail: whatever its loop does, each step
\* leaves Postgres as it is or seals one more batch.
THEOREM DaemonKeepsTrail == PSpec => BatcherKeepsTrail
  BY DaemonRunsBatcher, BatcherRefinesTrail, PTL

\* LatestIsLargest as a formula, so that it can be used of the next state.
LEMMA LatestBounds ==
    PIndInv => /\ LatestCheckpoint \in Nat
               /\ \A b \in DOMAIN auditBatches : auditBatches[b].pos <= LatestCheckpoint
  BY LatestIsLargest, Numbers

\* A running daemon's stream is not behind the position it would resume at.
LEMMA LatestIsBehind ==
    ASSUME PIndInv, up
    PROVE  LatestCheckpoint <= received
<1>1. CASE DOMAIN auditBatches = {}
  BY <1>1, PipelineAssumption, Numbers DEF LatestCheckpoint
<1>2. CASE DOMAIN auditBatches # {}
  <2>1. PICK b \in DOMAIN auditBatches : LatestCheckpoint = auditBatches[b].pos
    BY <1>2, LatestIsLargest
  <2>2. auditBatches[b].pos <= received
    BY DEF PIndInv, StreamIsAhead
  <2> QED
    BY <2>1, <2>2
<1> QED
  BY <1>1, <1>2

\* Only a commit of CreateBatch changes audit_batches.
LEMMA BatchRowsChange == BNext => UNCHANGED auditBatches \/ Committed
  BY DEF BNext, AddRecord, SetBootstrapMode, Flush, TakeError, CancelCtx, Close, TimerFire,
         Enter, CloseEmpty, CloseBegin, CloseStep, SignOK, SignFails, CreateBatchOK,
         CreateBatchAckLost, CreateBatchFails, PutCheckpointOK, PutCheckpointChmodFails,
         PutCheckpointFails, PutCommitted, Crash, Exit, Halt, NewBatcher, durable

\* A restart never resumes before the position an earlier one would have.
THEOREM ResumePositionGrows == PSpec => ResumeNeverMovesBack
<1>1. ASSUME PIndInv, PIndInv', [Next]_vars,
             PIndInv' => (/\ LatestCheckpoint \in Nat
                          /\ \A b \in DOMAIN auditBatches :
                                 auditBatches[b].pos <= LatestCheckpoint)'
      PROVE  LatestCheckpoint' >= LatestCheckpoint
  <2>1. LatestCheckpoint \in Nat
    BY <1>1, LatestBounds
  <2>2. UNCHANGED auditBatches \/ Committed
    BY <1>1, StepIsBatcherStep, BatchRowsChange DEF bvars, durable
  <2>3. CASE UNCHANGED auditBatches
    <3>1. LatestCheckpoint' = LatestCheckpoint
      BY <2>3 DEF LatestCheckpoint
    <3> QED
      BY <2>1, <3>1
  <2>4. CASE Committed
    <3>1. /\ DOMAIN auditBatches \subseteq DOMAIN auditBatches'
          /\ \A b \in DOMAIN auditBatches : auditBatches'[b] = auditBatches[b]
      BY <2>4 DEF Committed, With
    <3>2. CASE DOMAIN auditBatches = {}
      BY <1>1, <3>2, PipelineAssumption DEF LatestCheckpoint
    <3>3. CASE DOMAIN auditBatches # {}
      <4>1. PICK b \in DOMAIN auditBatches : LatestCheckpoint = auditBatches[b].pos
        BY <1>1, <3>3, LatestIsLargest
      <4> QED
        BY <1>1, <2>1, <3>1, <4>1
    <3> QED
      BY <3>2, <3>3
  <2> QED
    BY <2>2, <2>3, <2>4
<1> QED
  BY <1>1, LatestBounds, PipelineInductive, PTL DEF PSpec, ResumeNeverMovesBack

-----------------------------------------------------------------------------
(***************************************************************************)
(* The daemon against its source.                                          *)
(***************************************************************************)

\* The first k elements of a sequence.
LEMMA PrefixProperties ==
    ASSUME NEW S, NEW s \in Seq(S), NEW k \in 0..Len(s)
    PROVE  /\ SubSeq(s, 1, k) \in Seq(S) /\ Len(SubSeq(s, 1, k)) = k
           /\ \A i \in 1..k : SubSeq(s, 1, k)[i] = s[i]
  OBVIOUS

\* Sequences of the same elements are the same.
LEMMA SameElements ==
    ASSUME NEW S, NEW s \in Seq(S), NEW t \in Seq(S), Len(s) = Len(t),
           \A i \in 1..Len(s) : s[i] = t[i]
    PROVE  s = t
  OBVIOUS

\* A prefix of a prefix is a prefix.
LEMMA PrefixOfPrefix ==
    ASSUME NEW S, NEW s \in Seq(S), NEW n \in 0..Len(s), NEW k \in 0..n
    PROVE  SubSeq(SubSeq(s, 1, n), 1, k) = SubSeq(s, 1, k)
<1> DEFINE p == SubSeq(s, 1, n)
           q == SubSeq(p, 1, k)
           r == SubSeq(s, 1, k)
<1>1. p \in Seq(S) /\ Len(p) = n /\ \A i \in 1..n : p[i] = s[i]
  BY PrefixProperties
<1>2. k \in 0..Len(s)
  OBVIOUS
<1>3. r \in Seq(S) /\ Len(r) = k /\ \A i \in 1..k : r[i] = s[i]
  BY <1>2, PrefixProperties
<1> HIDE DEF p, r
<1>4. q \in Seq(S) /\ Len(q) = k /\ \A i \in 1..k : q[i] = p[i]
  BY <1>1, PrefixProperties
<1> HIDE DEF q
<1>5. \A i \in 1..k : q[i] = r[i]
  BY <1>1, <1>3, <1>4
<1>6. q = r
  BY <1>3, <1>4, <1>5, SameElements
<1> QED
  BY <1>6 DEF p, q, r

\* A prefix grows by the element behind it.
LEMMA PrefixGrows ==
    ASSUME NEW S, NEW s \in Seq(S), NEW n \in 0..Len(s), n < Len(s)
    PROVE  SubSeq(s, 1, n + 1) = Append(SubSeq(s, 1, n), s[n + 1])
<1> DEFINE p == SubSeq(s, 1, n)
           q == SubSeq(s, 1, n + 1)
<1>1. p \in Seq(S) /\ Len(p) = n /\ \A i \in 1..n : p[i] = s[i]
  BY PrefixProperties
<1>2. n + 1 \in 0..Len(s) /\ s[n + 1] \in S
  OBVIOUS
<1>3. q \in Seq(S) /\ Len(q) = n + 1 /\ \A i \in 1..(n + 1) : q[i] = s[i]
  BY <1>2, PrefixProperties
<1> HIDE DEF p, q
<1>4. /\ Append(p, s[n + 1]) \in Seq(S) /\ Len(Append(p, s[n + 1])) = n + 1
      /\ Append(p, s[n + 1])[n + 1] = s[n + 1]
      /\ \A i \in 1..n : Append(p, s[n + 1])[i] = p[i]
  BY <1>1, <1>2
<1>5. \A i \in 1..(n + 1) : q[i] = Append(p, s[n + 1])[i]
  <2> TAKE i \in 1..(n + 1)
  <2>1. i \in 1..n \/ i = n + 1
    OBVIOUS
  <2> QED
    BY <1>1, <1>3, <1>4, <2>1
<1>6. q = Append(p, s[n + 1])
  BY <1>3, <1>4, <1>5, SameElements
<1> QED
  BY <1>6 DEF p, q

\* A prefix does not change when something is appended.
LEMMA PrefixStays ==
    ASSUME NEW S, NEW s \in Seq(S), NEW n \in 0..Len(s), NEW e \in S
    PROVE  SubSeq(Append(s, e), 1, n) = SubSeq(s, 1, n)
<1> DEFINE a == Append(s, e)
           p == SubSeq(s, 1, n)
           q == SubSeq(a, 1, n)
<1>1. a \in Seq(S) /\ Len(a) = Len(s) + 1 /\ \A i \in 1..Len(s) : a[i] = s[i]
  OBVIOUS
<1>2. p \in Seq(S) /\ Len(p) = n /\ \A i \in 1..n : p[i] = s[i]
  BY PrefixProperties
<1> HIDE DEF a, p
<1>3. n \in 0..Len(a)
  BY <1>1
<1>4. q \in Seq(S) /\ Len(q) = n /\ \A i \in 1..n : q[i] = a[i]
  BY <1>1, <1>3, PrefixProperties
<1> HIDE DEF q
<1>5. \A i \in 1..n : q[i] = p[i]
  BY <1>1, <1>2, <1>4
<1>6. q = p
  BY <1>2, <1>4, <1>5, SameElements
<1> QED
  BY <1>6 DEF a, p, q

\* Where the stream stands, or will be resumed.
StreamPosition == IF up THEN received ELSE LatestCheckpoint

\* Steps that leave stream and stores alone.
LEMMA StreamStays ==
    ASSUME UNCHANGED <<binlog, up, received, auditBatches>>
    PROVE  UNCHANGED PS!svars
<1>1. LatestCheckpoint' = LatestCheckpoint
  BY DEF LatestCheckpoint
<1>2. UNCHANGED <<binlog, Followed>>
  BY <1>1 DEF Followed
<1> QED
  BY <1>2 DEF PS!svars

\* Every step of the daemon is a step of its source or leaves it alone.
LEMMA StepIsStreamStep ==
    PIndInv /\ [Next]_vars => [PS!Commits \/ PS!Delivers \/ PS!Resumes]_(PS!svars)
<1> SUFFICES ASSUME PIndInv, [Next]_vars
             PROVE  [PS!Commits \/ PS!Delivers \/ PS!Resumes]_(PS!svars)
  OBVIOUS
<1>1. /\ binlog \in Seq(Transactions) /\ Len(binlog) \in Nat /\ received \in 0..Len(binlog)
      /\ LatestCheckpoint \in 0..Len(binlog) /\ StreamPosition \in 0..Len(binlog)
  BY LatestIsLargest DEF PIndInv, PTypeOK, StreamPosition
<1>2. Followed = SubSeq(binlog, 1, StreamPosition)
  BY DEF Followed, StreamPosition
<1>3. ASSUME NEW txn \in Transactions, SourceCommit(txn) PROVE PS!Commits
  <2>1. binlog' = Append(binlog, txn) /\ UNCHANGED <<up, received, auditBatches>>
    BY <1>3 DEF SourceCommit, bvars, volatile, durable, progress
  <2>2. LatestCheckpoint' = LatestCheckpoint
    BY <2>1 DEF LatestCheckpoint
  <2>3. Followed' = SubSeq(Append(binlog, txn), 1, StreamPosition)
    BY <2>1, <2>2 DEF Followed, StreamPosition
  <2>4. Followed' = Followed
    BY <1>1, <1>2, <2>3, PrefixStays
  <2>5. /\ Len(Append(binlog, txn)) = Len(binlog) + 1
        /\ Append(binlog, txn)[Len(binlog) + 1] = txn
    BY <1>1
  <2> QED
    BY <2>1, <2>4, <2>5 DEF PS!Commits
<1>4. CASE ReceiveTransaction
  <2>1. /\ up /\ received < Len(binlog) /\ received' = received + 1
        /\ UNCHANGED <<binlog, up>>
    BY <1>4 DEF ReceiveTransaction, bvars, volatile, source
  <2>2. Followed = SubSeq(binlog, 1, received) /\ Followed' = SubSeq(binlog, 1, received + 1)
    BY <2>1 DEF Followed
  <2>3. Followed' = Append(Followed, binlog[received + 1])
    BY <1>1, <2>1, <2>2, PrefixGrows
  <2>4. Len(Followed) = received
    BY <1>1, <2>2, PrefixProperties
  <2>5. PS!Delivers
    BY <2>1, <2>3, <2>4 DEF PS!Delivers
  <2> QED
    BY <2>5
<1>5. CASE SkipChange \/ FinishTransaction \/ BuildRecordFails
  <2>1. UNCHANGED <<binlog, up, received, auditBatches>>
    BY <1>5 DEF SkipChange, FinishTransaction, BuildRecordFails, Abandon, bvars, volatile,
                durable, source
  <2> QED
    BY <2>1, StreamStays
<1>6. CASE RecordChange
  <2>1. UNCHANGED <<up, auditBatches>>
    <3>1. PICK actor \in ActorAttribution : AddRecord([tx |-> tx, row |-> row, actor |-> actor], tx)
      BY <1>6, RecordedChangeType
    <3> QED
      BY <3>1 DEF AddRecord, durable
  <2>2. UNCHANGED <<binlog, received>>
    BY <1>6 DEF RecordChange, source
  <2> QED
    BY <2>1, <2>2, StreamStays
<1>7. CASE AddRecordFails
  <2>1. UNCHANGED <<binlog, up, received, auditBatches>>
    BY <1>7 DEF AddRecordFails, Abandon, TakeError, durable, source
  <2> QED
    BY <2>1, StreamStays
<1>8. CASE StopRun
  <2>1. UNCHANGED <<binlog, up, received, auditBatches>>
    BY <1>8 DEF StopRun, Close, durable, pvars, source, progress
  <2> QED
    BY <2>1, StreamStays
<1>9. CASE BatcherStep
  <2>1. UNCHANGED <<binlog, received>>
    BY <1>9 DEF BatcherStep, pvars, source, progress
  <2>2. UNCHANGED up
    BY <1>9 DEF BatcherStep, TimerFire, Enter, CloseEmpty, CloseBegin, CancelCtx, CloseStep,
                SignOK, SignFails, CreateBatchOK, CreateBatchAckLost, CreateBatchFails,
                PutCheckpointOK, PutCheckpointChmodFails, PutCheckpointFails, PutCommitted,
                CloseFails
  <2>3. CASE up
    <3>1. UNCHANGED <<binlog, Followed>>
      BY <2>1, <2>2, <2>3 DEF Followed
    <3> QED
      BY <3>1 DEF PS!svars
  <2>4. CASE ~ up
    <3>1. UNCHANGED auditBatches
      BY <1>9, <2>4 DEF BatcherStep, TimerFire, Enter, CloseEmpty, CloseBegin, CancelCtx,
                        CloseStep, SignOK, SignFails, CreateBatchOK, CreateBatchAckLost,
                        CreateBatchFails, PutCheckpointOK, PutCheckpointChmodFails,
                        PutCheckpointFails, PutCommitted, CloseFails, durable
    <3> QED
      BY <2>1, <2>2, <3>1, StreamStays
  <2> QED
    BY <2>3, <2>4
<1>10. CASE \E t \in Table : CooldownExpires(t)
  <2>1. UNCHANGED <<binlog, up, received, auditBatches>>
    BY <1>10 DEF CooldownExpires, bvars, volatile, durable, source, progress
  <2> QED
    BY <2>1, StreamStays
<1>11. CASE ProcessEnds
  <2>1. up /\ up' = FALSE /\ UNCHANGED <<binlog, auditBatches>>
    BY <1>11 DEF ProcessEnds, Crash, Exit, Halt, durable, source
  <2>2. LatestCheckpoint' = LatestCheckpoint
    BY <2>1 DEF LatestCheckpoint
  <2>3. Followed = SubSeq(binlog, 1, received) /\ Followed' = SubSeq(binlog, 1, LatestCheckpoint)
    BY <2>1, <2>2 DEF Followed
  <2>4. LatestCheckpoint \in 0..received
    BY <1>1, <2>1, LatestIsBehind
  <2>5. Followed' = SubSeq(Followed, 1, LatestCheckpoint)
    BY <1>1, <2>3, <2>4, PrefixOfPrefix
  <2>6. Len(Followed) = received
    BY <1>1, <2>3, PrefixProperties
  <2>7. PS!Resumes
    BY <2>1, <2>4, <2>5, <2>6 DEF PS!Resumes
  <2> QED
    BY <2>7
<1>12. ASSUME NEW loaded \in SUBSET Table, StartDaemon(loaded) PROVE UNCHANGED PS!svars
  <2>1. ~ up /\ up' = TRUE /\ received' = LatestCheckpoint /\ UNCHANGED binlog
    BY <1>12 DEF StartDaemon, NewBatcher, source
  <2>2. UNCHANGED <<binlog, Followed>>
    BY <2>1 DEF Followed
  <2> QED
    BY <2>2 DEF PS!svars
<1>13. CASE UNCHANGED vars
  <2>1. UNCHANGED <<binlog, up, received, auditBatches>>
    BY <1>13 DEF vars, pvars, bvars, volatile, durable, source, progress
  <2> QED
    BY <2>1, StreamStays
<1> QED
  BY PipelineCases, <1>3, <1>4, <1>5, <1>6, <1>7, <1>8, <1>9, <1>10, <1>11, <1>12, <1>13

\* The daemon lives on what ChangeSource promises: each transaction is the one
\* behind the last, a process that ends is resumed behind a transaction the
\* stream had come to, and one that starts is exactly there.
THEOREM DaemonFollowsSource == PSpec => RunsOnChangeSource
<1>1. PInit => PS!SourceInit
  <2> SUFFICES ASSUME PInit PROVE binlog = <<>> /\ Followed = <<>>
    BY DEF PS!SourceInit
  <2>1. /\ binlog = <<>> /\ received = 0 /\ LatestCheckpoint = 0
    BY PipelineAssumption DEF PInit, Init, NoRows, LatestCheckpoint
  <2>2. Followed = SubSeq(<<>>, 1, 0)
    BY <2>1 DEF Followed
  <2> QED
    BY <2>1, <2>2
<1> QED
  BY <1>1, StepIsStreamStep, PipelineInductive, PTL DEF PSpec, RunsOnChangeSource, PS!SourceSpec
=============================================================================
