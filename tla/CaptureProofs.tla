---------------------------- MODULE CaptureProofs ----------------------------
(***************************************************************************)
(* What is in the trail of Pipeline, proved for every set of transactions  *)
(* and of faults: which rows may be missing from it, and that nobody is    *)
(* left untold of the unattributed ones.                                   *)
(***************************************************************************)
EXTENDS PipelineProofs

(***************************************************************************)
(* What a step does to the binlog, the trail and the loop.                 *)
(***************************************************************************)

\* The binlog only grows at its end.
LEMMA BinlogGrows ==
    ASSUME PIndInv, [Next]_vars
    PROVE  /\ Len(binlog) \in Nat /\ Len(binlog') \in Nat /\ Len(binlog) <= Len(binlog')
           /\ \A i \in 1..Len(binlog) : binlog'[i] = binlog[i]
<1>1. binlog \in Seq(Transactions)
  BY DEF PIndInv, PTypeOK
<1>2. ASSUME NEW txn \in Transactions, SourceCommit(txn)
      PROVE  /\ Len(binlog) \in Nat /\ Len(binlog') \in Nat /\ Len(binlog) <= Len(binlog')
             /\ \A i \in 1..Len(binlog) : binlog'[i] = binlog[i]
  BY <1>1, <1>2 DEF SourceCommit
<1>3. CASE ~ \E txn \in Transactions : SourceCommit(txn)
  <2>1. binlog' = binlog
    BY <1>3, PipelineCases
       DEF ReceiveTransaction, SkipChange, RecordChange, FinishTransaction, BuildRecordFails,
           AddRecordFails, Abandon, StopRun, BatcherStep, CooldownExpires, ProcessEnds,
           StartDaemon, source, pvars, vars
  <2> QED
    BY <1>1, <2>1
<1> QED
  BY <1>2, <1>3

\* What is recorded was committed, also where the stream has gone back.
LEMMA TrailIsCommitted ==
    ASSUME PIndInv, NEW r \in Trail
    PROVE  r.change.tx \in 1..Len(binlog)
<1>1. r.change.tx \in Nat \ {0} /\ Len(binlog) \in Nat /\ received \in Nat
  BY Numbers
<1>2. CASE up
  BY <1>1, <1>2 DEF PIndInv, TrailIsBehind, PTypeOK
<1>3. CASE ~ up
  <2>1. r \in auditRecords
    BY <1>3 DEF Trail, PIndInv, IndInv, DownIsEmpty
  <2>2. r.batch \in DOMAIN auditBatches /\ r.change.tx <= auditBatches[r.batch].pos
    BY <2>1 DEF PIndInv, IndInv, StoredUnderItsRoot, PositionCoversRecords
  <2>3. auditBatches[r.batch].pos <= Len(binlog) /\ auditBatches[r.batch].pos \in Nat
    BY <2>2, Numbers DEF PIndInv, StreamIsAhead
  <2> QED
    BY <1>1, <2>2, <2>3
<1> QED
  BY <1>2, <1>3

\* The loop adds one record.
LEMMA TrailOfRecord ==
    ASSUME PIndInv, RecordChange
    PROVE  \E rec : /\ Trail' = Trail \cup {rec}
                    /\ rec.change = [tx |-> tx, row |-> row,
                                     actor |-> CorrelateTransaction(binlog[tx], binlog[tx][row].table)]
                    /\ records' = Append(records, rec)
<1> DEFINE actor == CorrelateTransaction(binlog[tx], binlog[tx][row].table)
           rec == [change |-> [tx |-> tx, row |-> row, actor |-> actor],
                   batch |-> batchID, leaf |-> Len(records)]
<1>1. records' = Append(records, rec) /\ UNCHANGED auditRecords
  BY DEF RecordChange, AddRecord, durable
<1>2. records \in Seq(Record)
  BY DEF PIndInv, IndInv, TypeOK
<1>3. rec.change = [tx |-> tx, row |-> row, actor |-> actor]
  OBVIOUS
<1> HIDE DEF rec
<1>4. DOMAIN records' = DOMAIN records \cup {Len(records) + 1}
      /\ records'[Len(records) + 1] = rec
      /\ \A i \in DOMAIN records : records'[i] = records[i]
  BY <1>1, <1>2
<1>5. Trail' = Trail \cup {rec}
  BY <1>1, <1>4 DEF Trail
<1> QED
  BY <1>1, <1>3, <1>5

\* Nothing else adds to the trail, and only the end of a process takes
\* something out of it.
LEMMA TrailOtherwise ==
    ASSUME PIndInv, [Next]_vars, ~ RecordChange, ~ ProcessEnds
    PROVE  Trail' = Trail
<1>1. ASSUME UNCHANGED <<records, auditRecords>> PROVE Trail' = Trail
  BY <1>1 DEF Trail
<1>2. CASE \/ \E txn \in Transactions : SourceCommit(txn)
           \/ ReceiveTransaction \/ SkipChange \/ FinishTransaction \/ BuildRecordFails
           \/ \E t \in Table : CooldownExpires(t)
  BY <1>1, <1>2 DEF SourceCommit, ReceiveTransaction, SkipChange, FinishTransaction,
                    BuildRecordFails, CooldownExpires, bvars, volatile, durable
<1>3. CASE AddRecordFails \/ StopRun \/ \E loaded \in SUBSET Table : StartDaemon(loaded)
  BY <1>1, <1>3 DEF AddRecordFails, TakeError, StopRun, Close, StartDaemon, NewBatcher, durable
<1>4. CASE BatcherStep
  <2>1. CASE Committed /\ records' = records
    BY <2>1 DEF Trail, Committed
  <2>2. CASE PutCheckpointOK
    <3>1. records' = <<>> /\ auditRecords' = auditRecords
      BY <2>2 DEF PutCheckpointOK, PutCommitted
    <3>2. \A i \in DOMAIN records : records[i] \in auditRecords
      BY <2>2, Numbers DEF PutCheckpointOK, PIndInv, IndInv, CloseProgress
    <3> QED
      BY <3>1, <3>2 DEF Trail
  <2>3. CASE ~ (Committed /\ records' = records) /\ ~ PutCheckpointOK
    <3>1. UNCHANGED <<records, auditRecords>>
      BY <1>4, <2>3
         DEF BatcherStep, TimerFire, Enter, CloseEmpty, CloseBegin, CancelCtx, CloseStep,
             SignOK, SignFails, CloseFails, CreateBatchOK, CreateBatchAckLost, CreateBatchFails,
             PutCheckpointChmodFails, PutCheckpointFails, PutCommitted, durable
    <3> QED
      BY <1>1, <3>1
  <2> QED
    BY <2>1, <2>2, <2>3
<1>5. CASE UNCHANGED vars
  BY <1>1, <1>5 DEF vars, bvars, volatile, durable
<1> QED
  BY PipelineCases, <1>2, <1>3, <1>4, <1>5

\* While a process runs the loop moves on.  But for RecordChange nothing raises
\* an alert, and a table in its cooldown keeps the alerts it had.
LEMMA LoopAdvances ==
    ASSUME PIndInv, [Next]_vars, ~ RecordChange, ~ ProcessEnds,
           ~ \E loaded \in SUBSET Table : StartDaemon(loaded)
    PROVE  /\ up' = up /\ alerts' \subseteq alerts /\ cooldown' \subseteq cooldown
           /\ \A a \in alerts : binlog[a[1]][a[2]].table \in cooldown' => a \in alerts'
           /\ received' >= received /\ received \in Nat /\ received' \in Nat
           /\ tx' = 0 \/ tx' > received \/ (tx' = tx /\ row' >= row)
           /\ row \in Nat /\ row' \in Nat
<1>1. received \in Nat /\ row \in Nat /\ tx \in Nat
  BY Numbers
<1>2. CASE \E txn \in Transactions : SourceCommit(txn)
  BY <1>1, <1>2 DEF SourceCommit, progress, alerting, bvars, volatile
<1>3. CASE ReceiveTransaction \/ SkipChange
  BY <1>1, <1>3 DEF ReceiveTransaction, SkipChange, alerting, bvars, volatile
<1>4. CASE FinishTransaction \/ BuildRecordFails
  BY <1>1, <1>4 DEF FinishTransaction, BuildRecordFails, Abandon, alerting, bvars, volatile
<1>5. CASE AddRecordFails
  BY <1>1, <1>5 DEF AddRecordFails, Abandon, TakeError, alerting
<1>6. CASE StopRun
  BY <1>1, <1>6 DEF StopRun, Close, pvars, progress, alerting
<1>7. CASE BatcherStep
  <2>1. up' = up
    BY <1>7
       DEF BatcherStep, TimerFire, Enter, CloseEmpty, CloseBegin, CancelCtx, CloseStep,
           SignOK, SignFails, CloseFails, CreateBatchOK, CreateBatchAckLost, CreateBatchFails,
           PutCheckpointOK, PutCheckpointChmodFails, PutCheckpointFails
  <2> QED
    BY <1>1, <1>7, <2>1 DEF BatcherStep, pvars, progress, alerting
<1>8. CASE \E t \in Table : CooldownExpires(t)
  BY <1>1, <1>8 DEF CooldownExpires, AlertsOn, progress, bvars, volatile
<1>9. CASE UNCHANGED vars
  BY <1>1, <1>9 DEF vars, pvars, progress, alerting, bvars, volatile
<1> QED
  BY PipelineCases, <1>2, <1>3, <1>4, <1>5, <1>6, <1>7, <1>8, <1>9

(***************************************************************************)
(* Alerts.                                                                 *)
(***************************************************************************)

\* The change a record or an alert is about does not change.
LEMMA AlertsStay ==
    ASSUME PIndInv, [Next]_vars, AlertsAreCommitted, NEW a \in alerts
    PROVE  a[1] \in Nat /\ a[2] \in Nat /\ binlog'[a[1]] = binlog[a[1]]
<1>1. a[1] \in Nat \ {0} /\ a[2] \in Nat
  BY PipelineAssumption DEF PIndInv, PTypeOK
<1>2. a[1] <= Len(binlog)
  BY DEF AlertsAreCommitted
<1> QED
  BY <1>1, <1>2, BinlogGrows

\* RecordChange raises an alert if it has to and the table is not in its
\* cooldown.
LEMMA AlertsOfRecord ==
    ASSUME PIndInv, AlertInv, RecordChange
    PROVE  /\ AlertInv'
           /\ \A r \in Trail' \ Trail : Unattributed(r.change.actor) =>
                 \E a \in alerts' :
                     /\ binlog[a[1]][a[2]].table = binlog[r.change.tx][r.change.row].table
                     /\ a[1] < r.change.tx \/ (a[1] = r.change.tx /\ a[2] <= r.change.row)
<1> DEFINE t == binlog[tx][row].table
<1>1. tx \in Nat \ {0} /\ row \in Nat /\ tx = received /\ received <= Len(binlog) /\ up
      /\ Len(binlog) \in Nat
  BY Numbers DEF RecordChange, AtChange, PIndInv, LoopPosition, PTypeOK
<1>2. UNCHANGED <<binlog, received, tx>> /\ row' = row + 1 /\ up'
  BY <1>1 DEF RecordChange, AddRecord, source
<1>3. PICK rec : /\ Trail' = Trail \cup {rec}
                 /\ rec.change = [tx |-> tx, row |-> row,
                                  actor |-> CorrelateTransaction(binlog[tx], t)]
  BY TrailOfRecord
<1>4. \/ cooldown' = cooldown /\ alerts' = alerts
         /\ (Unattributed(rec.change.actor) => t \in cooldown)
      \/ cooldown' = cooldown \cup {t} /\ alerts' = alerts \cup {<<tx, row>>}
  BY <1>3 DEF RecordChange, Trigger, alerting
<1>5. \A a \in alerts : a[1] \in Nat /\ a[2] \in Nat
  BY PipelineAssumption DEF PIndInv, PTypeOK
<1>6. alerts \subseteq alerts'
  BY <1>4
<1> HIDE DEF t
<1>7. AlertsAreCommitted'
  BY <1>1, <1>2, <1>4 DEF AlertInv, AlertsAreCommitted
<1>8. CooldownWasAlerted'
  <2> SUFFICES ASSUME NEW u \in cooldown'
               PROVE  \E a \in alerts' : /\ binlog[a[1]][a[2]].table = u
                                         /\ a[1] <= received
                                         /\ a[1] = tx => a[2] < row + 1
    BY <1>2 DEF CooldownWasAlerted
  <2>1. CASE u \in cooldown
    <3>1. PICK a \in alerts : /\ binlog[a[1]][a[2]].table = u
                              /\ a[1] <= received
                              /\ a[1] = tx => a[2] < row
      BY <2>1 DEF AlertInv, CooldownWasAlerted
    <3> QED
      BY <1>1, <1>5, <1>6, <3>1
  <2>2. CASE u = t /\ <<tx, row>> \in alerts'
    <3> DEFINE a == <<tx, row>>
    <3>1. a[1] = tx /\ a[2] = row
      OBVIOUS
    <3>2. binlog[a[1]][a[2]].table = u
      BY <2>2, <3>1 DEF t
    <3> QED
      BY <1>1, <2>2, <3>1, <3>2
  <2> QED
    BY <1>4, <2>1, <2>2
<1>9. ASSUME Unattributed(rec.change.actor)
      PROVE  \E a \in alerts' :
                /\ binlog[a[1]][a[2]].table = binlog[rec.change.tx][rec.change.row].table
                /\ a[1] < rec.change.tx \/ (a[1] = rec.change.tx /\ a[2] <= rec.change.row)
  <2>1. rec.change.tx = tx /\ rec.change.row = row
    BY <1>3
  <2>2. t \in cooldown'
    BY <1>4, <1>9
  <2>3. PICK a \in alerts' : /\ binlog[a[1]][a[2]].table = t
                             /\ a[1] <= received
                             /\ a[1] = tx => a[2] < row + 1
    BY <1>2, <1>8, <2>2 DEF CooldownWasAlerted
  <2>4. a[1] \in Nat /\ a[2] \in Nat
    <3>1. <<tx, row>>[1] = tx /\ <<tx, row>>[2] = row
      OBVIOUS
    <3> QED
      BY <1>1, <1>4, <1>5, <3>1
  <2>5. a[1] < tx \/ (a[1] = tx /\ a[2] <= row)
    BY <1>1, <2>3, <2>4
  <2> QED
    BY <2>1, <2>3, <2>5 DEF t
<1> QED
  BY <1>3, <1>7, <1>8, <1>9 DEF AlertInv

LEMMA AlertInvInductive == PIndInv /\ AlertInv /\ [Next]_vars => AlertInv'
<1> SUFFICES ASSUME PIndInv, AlertInv, [Next]_vars, ~ RecordChange PROVE AlertInv'
  BY AlertsOfRecord
<1>1. \A a \in alerts : a[1] \in Nat /\ a[2] \in Nat /\ binlog'[a[1]] = binlog[a[1]]
  BY AlertsStay DEF AlertInv
<1>2. alerts' \subseteq alerts
  <2>1. CASE ProcessEnds \/ \E loaded \in SUBSET Table : StartDaemon(loaded)
    BY <2>1 DEF ProcessEnds, StartDaemon, alerting
  <2> QED
    BY <2>1, LoopAdvances
<1>3. AlertsAreCommitted'
  BY <1>1, <1>2, BinlogGrows DEF AlertInv, AlertsAreCommitted
<1>4. CooldownWasAlerted'
  <2>1. CASE ProcessEnds
    BY <2>1 DEF ProcessEnds, CooldownWasAlerted
  <2>2. ASSUME NEW loaded \in SUBSET Table, StartDaemon(loaded) PROVE CooldownWasAlerted'
    <3>1. ~ up /\ cooldown' = cooldown
      BY <2>2 DEF StartDaemon, NewBatcher, alerting
    <3> QED
      BY <3>1 DEF AlertInv, CooldownWasAlerted
  <2>3. CASE ~ ProcessEnds /\ ~ \E loaded \in SUBSET Table : StartDaemon(loaded)
    <3> SUFFICES ASSUME NEW t \in cooldown'
                 PROVE  up' /\ \E a \in alerts' : /\ binlog'[a[1]][a[2]].table = t
                                                  /\ a[1] <= received'
                                                  /\ a[1] = tx' => a[2] < row'
      BY DEF CooldownWasAlerted
    <3>1. /\ up' = up /\ t \in cooldown
          /\ \A a \in alerts : binlog[a[1]][a[2]].table = t => a \in alerts'
          /\ received' >= received /\ received \in Nat /\ received' \in Nat
          /\ tx' = 0 \/ tx' > received \/ (tx' = tx /\ row' >= row)
          /\ row \in Nat /\ row' \in Nat
      BY <2>3, LoopAdvances
    <3>2. PICK a \in alerts : /\ binlog[a[1]][a[2]].table = t
                              /\ a[1] <= received
                              /\ a[1] = tx => a[2] < row
      BY <3>1 DEF AlertInv, CooldownWasAlerted
    <3>3. a[1] # 0
      BY PipelineAssumption DEF PIndInv, PTypeOK
    <3>4. a[1] <= received' /\ (a[1] = tx' => a[2] < row')
      BY <1>1, <3>1, <3>2, <3>3
    <3> QED
      BY <1>1, <1>2, <3>1, <3>2, <3>4 DEF AlertInv, CooldownWasAlerted
  <2> QED
    BY <2>1, <2>2, <2>3
<1> QED
  BY <1>3, <1>4 DEF AlertInv

\* No unattributed change enters the trail untold: the running process has
\* dispatched an alert on its table, for that change or for an earlier one less
\* than a cooldown ago.  A cooldown that ends lets the next alert through,
\* and a process that starts owes its own.
THEOREM UnattributedAlerted == PSpec => UnattributedIsAlerted
<1>1. PInit => AlertInv
  BY DEF PInit, AlertInv, AlertsAreCommitted, CooldownWasAlerted
<1>2. ASSUME PIndInv, AlertInv, [Next]_vars
      PROVE  \A r \in Trail' \ Trail : Unattributed(r.change.actor) =>
                \E a \in alerts' :
                    /\ binlog[a[1]][a[2]].table = binlog[r.change.tx][r.change.row].table
                    /\ a[1] < r.change.tx \/ (a[1] = r.change.tx /\ a[2] <= r.change.row)
  <2>1. CASE RecordChange
    BY <1>2, <2>1, AlertsOfRecord
  <2>2. CASE ~ RecordChange
    <3>1. CASE ProcessEnds
      BY <3>1 DEF ProcessEnds, Crash, Exit, Halt, durable, Trail
    <3> QED
      BY <1>2, <2>2, <3>1, TrailOtherwise
  <2> QED
    BY <2>1, <2>2
<1>3. PSpec => []AlertInv
  BY <1>1, AlertInvInductive, PipelineInductive, PTL DEF PSpec
<1> QED
  BY <1>2, <1>3, PipelineInductive, PTL DEF PSpec, UnattributedIsAlerted

(***************************************************************************)
(* Gaps.                                                                   *)
(***************************************************************************)

\* What is recorded stays so until the process ends.
LEMMA TrailGrows ==
    ASSUME PIndInv, [Next]_vars, ~ ProcessEnds
    PROVE  /\ Trail \subseteq Trail'
           /\ \A i, k : Recorded(i, k) => Recorded(i, k)'
<1>1. Trail \subseteq Trail'
  <2>1. CASE RecordChange
    BY <2>1, TrailOfRecord
  <2> QED
    BY <2>1, TrailOtherwise
<1> QED
  BY <1>1 DEF Recorded

\* What is accounted for stays so until the process ends.
LEMMA AccountedStays ==
    ASSUME PIndInv, [Next]_vars, ~ ProcessEnds, NEW i, NEW k, Accounted(i, k)
    PROVE  Accounted(i, k)'
<1>1. Trail \subseteq Trail'
  BY TrailGrows
<1>2. errored \subseteq errored'
  BY PipelineCases
     DEF SourceCommit, ReceiveTransaction, SkipChange, RecordChange, FinishTransaction,
         BuildRecordFails, AddRecordFails, Abandon, StopRun, BatcherStep, CooldownExpires,
         StartDaemon, phistory, pvars, vars
<1>3. \A b \in DOMAIN auditBatches : b \in DOMAIN auditBatches' /\ auditBatches'[b] = auditBatches[b]
  <2>1. UNCHANGED auditBatches \/ Committed
    BY StepIsBatcherStep, BatchRowsChange DEF bvars, durable
  <2> QED
    BY <2>1 DEF Committed, With
<1> QED
  BY <1>1, <1>2, <1>3 DEF Accounted, Recorded

\* A configuration change of a transaction the source may commit leaves a
\* steady table in scope.
LEMMA SteadyStays ==
    ASSUME NEW config \in [Table -> Policy], NEW txn \in Transactions,
           NEW t \in SteadyTables, config[t] # "off"
    PROVE  Reconfigured(config, txn)[t] # "off"
<1> DEFINE hits == {k \in DOMAIN txn : txn[k].kind = "config" /\ txn[k].table = t}
           best == CHOOSE k \in hits : \A l \in hits : l <= k
<1>1. t \in Table /\ Reconfigured(InitConfig, txn)[t] # "off"
  BY DEF SteadyTables
<1>2. Reconfigured(InitConfig, txn)[t] = IF hits = {} THEN InitConfig[t] ELSE txn[best].policy
  BY <1>1 DEF Reconfigured
<1>3. Reconfigured(config, txn)[t] = IF hits = {} THEN config[t] ELSE txn[best].policy
  BY <1>1 DEF Reconfigured
<1> QED
  BY <1>1, <1>2, <1>3

LEMMA SteadyInductive ==
    ASSUME PIndInv, SteadyIsInScope, [Next]_vars
    PROVE  SteadyIsInScope'
<1>1. mysqlConfig \in [Table -> Policy] /\ tables \in [Table -> Policy]
  BY DEF PIndInv, PTypeOK
<1>2. ASSUME NEW txn \in Transactions, SourceCommit(txn) PROVE SteadyIsInScope'
  <2>1. mysqlConfig' = Reconfigured(mysqlConfig, txn) /\ UNCHANGED <<tables, blind>>
    BY <1>2 DEF SourceCommit, phistory
  <2> QED
    BY <1>1, <2>1, SteadyStays DEF SteadyIsInScope
<1>3. CASE ReceiveTransaction
  <2>1. UNCHANGED <<mysqlConfig, blind>> /\ received + 1 \in 1..Len(binlog)
        /\ tables' = IF NamedColumns THEN Reconfigured(tables, binlog[received + 1]) ELSE tables
    BY <1>3, Numbers DEF ReceiveTransaction, HandleConfigChanges, source, phistory
  <2>2. binlog[received + 1] \in Transactions
    BY <2>1 DEF PIndInv, PTypeOK
  <2> QED
    BY <1>1, <2>1, <2>2, SteadyStays DEF SteadyIsInScope
<1>4. ASSUME NEW loaded \in SUBSET Table, StartDaemon(loaded) PROVE SteadyIsInScope'
  <2>1. mysqlConfig' = mysqlConfig
        /\ tables' = [t \in Table |-> IF t \in loaded THEN mysqlConfig[t] ELSE "off"]
        /\ blind' = (blind \/ loaded # Table)
    BY <1>4 DEF StartDaemon, source
  <2>2. SteadyTables \subseteq Table
    BY DEF SteadyTables
  <2> QED
    BY <2>1, <2>2 DEF SteadyIsInScope
<1>5. CASE /\ ~ \E txn \in Transactions : SourceCommit(txn)
           /\ ~ ReceiveTransaction /\ ~ \E loaded \in SUBSET Table : StartDaemon(loaded)
  <2>1. UNCHANGED <<mysqlConfig, tables, blind>>
    BY <1>5, PipelineCases
       DEF SkipChange, RecordChange, FinishTransaction, BuildRecordFails, AddRecordFails,
           Abandon, StopRun, BatcherStep, CooldownExpires, ProcessEnds, source, phistory,
           pvars, vars
  <2> QED
    BY <2>1 DEF SteadyIsInScope
<1> QED
  BY <1>2, <1>3, <1>4, <1>5

\* What is only in the buffer does not lie before a persisted position.
LEMMA BufferAheadInductive ==
    ASSUME PIndInv, BufferIsAhead, [Next]_vars
    PROVE  BufferIsAhead'
<1>1. CASE RecordChange
  <2>1. PICK rec : /\ rec.change = [tx |-> tx, row |-> row,
                                    actor |-> CorrelateTransaction(binlog[tx], binlog[tx][row].table)]
                   /\ records' = Append(records, rec)
    BY <1>1, TrailOfRecord
  <2>2. UNCHANGED <<auditBatches, auditRecords>> /\ tx = received /\ up
    BY <1>1 DEF RecordChange, AtChange, AddRecord, durable, PIndInv, LoopPosition
  <2>3. \A b \in DOMAIN auditBatches : auditBatches[b].pos <= rec.change.tx
    BY <2>1, <2>2 DEF PIndInv, StreamIsAhead
  <2>4. /\ Len(records') = Len(records) + 1 /\ Len(records) \in Nat
        /\ records'[Len(records) + 1] = rec
        /\ \A i \in 1..Len(records) : records'[i] = records[i]
    BY <2>1 DEF PIndInv, IndInv, TypeOK
  <2> QED
    BY <2>2, <2>3, <2>4 DEF BufferIsAhead
<1>2. CASE Committed /\ records' = records
  BY <1>2, Numbers DEF Committed, BufferIsAhead
<1>3. CASE records' = <<>>
  BY <1>3 DEF BufferIsAhead
<1>4. CASE UNCHANGED <<records, auditBatches, auditRecords>>
  BY <1>4 DEF BufferIsAhead
<1> QED
  BY <1>1, <1>2, <1>3, <1>4, PipelineCases
     DEF SourceCommit, ReceiveTransaction, SkipChange, FinishTransaction, BuildRecordFails,
         AddRecordFails, TakeError, StopRun, Close, CooldownExpires, ProcessEnds, Crash, Exit,
         Halt, StartDaemon, NewBatcher,
         BatcherStep, TimerFire, Enter, CloseEmpty, CloseBegin, CancelCtx, CloseStep,
         SignOK, SignFails, CloseFails, CreateBatchOK, CreateBatchAckLost, CreateBatchFails,
         PutCheckpointOK, PutCheckpointChmodFails, PutCheckpointFails, PutCommitted,
         vars, bvars, volatile, durable

\* Transactions the daemon is done with are in the binlog.
LEMMA PassedIsCommitted ==
    ASSUME PIndInv
    PROVE  Passed \subseteq 1..Len(binlog) /\ tx \in 0..Len(binlog)
<1>1. received \in 0..Len(binlog) /\ Len(binlog) \in Nat /\ tx \in Nat
  BY Numbers DEF PIndInv, PTypeOK
<1>2. LatestCheckpoint \in 0..Len(binlog)
  BY LatestIsLargest
<1> QED
  BY <1>1, <1>2 DEF Passed, PIndInv, LoopPosition

\* The rows due of a committed transaction do not change.
LEMMA DueStays ==
    ASSUME PIndInv, [Next]_vars, NEW i \in 1..Len(binlog)
    PROVE  DueRows(i)' = DueRows(i)
<1>1. binlog'[i] = binlog[i]
  BY BinlogGrows
<1> QED
  BY <1>1 DEF DueRows, SteadyTables, Reconfigured

LEMMA LoopAccountedInductive ==
    ASSUME PIndInv, SteadyIsInScope, LoopIsAccounted, [Next]_vars
    PROVE  LoopIsAccounted'
<1> SUFFICES ASSUME ~ blind', tx' # 0, NEW k \in DueRows(tx)', k < row'
             PROVE  Accounted(tx, k)'
  BY DEF LoopIsAccounted
<1>1. row \in Nat /\ tx \in 0..Len(binlog) /\ Len(binlog) \in Nat
  BY Numbers, PassedIsCommitted
<1>2. ~ blind
  BY PipelineCases
     DEF SourceCommit, ReceiveTransaction, SkipChange, RecordChange, FinishTransaction,
         BuildRecordFails, AddRecordFails, Abandon, StopRun, BatcherStep, CooldownExpires,
         ProcessEnds, StartDaemon, phistory, pvars, vars
<1>3. ASSUME tx' = tx, ~ ProcessEnds
      PROVE  /\ k \in DueRows(tx) /\ k \in Nat
             /\ k < row => Accounted(tx, k)'
  <2>1. tx \in 1..Len(binlog) /\ tx # 0
    BY <1>1, <1>3
  <2>2. k \in DueRows(tx)
    BY <2>1, <1>3, DueStays
  <2>3. binlog[tx] \in Seq(SourceChange)
    BY <2>1, PipelineAssumption DEF PIndInv, PTypeOK
  <2>4. k \in Nat
    BY <2>2, <2>3 DEF DueRows
  <2>5. k < row => Accounted(tx, k)
    BY <1>2, <2>1, <2>2 DEF LoopIsAccounted
  <2> QED
    BY <1>3, <2>2, <2>4, <2>5, AccountedStays
<1>4. CASE RecordChange
  <2>1. tx' = tx /\ row' = row + 1 /\ tx # 0
    BY <1>4 DEF RecordChange, AtChange
  <2>2. ~ ProcessEnds
    BY <2>1, <1>1 DEF ProcessEnds
  <2>3. PICK rec : /\ Trail' = Trail \cup {rec}
                   /\ rec.change = [tx |-> tx, row |-> row,
                                    actor |-> CorrelateTransaction(binlog[tx], binlog[tx][row].table)]
    BY <1>4, TrailOfRecord
  <2>4. \E r \in Trail' : r.change.tx = tx' /\ r.change.row = row
    BY <2>1, <2>3
  <2>5. k < row \/ k = row
    BY <1>1, <1>3, <2>1, <2>2
  <2>6. k = row => Accounted(tx, k)'
    BY <2>4 DEF Accounted, Recorded
  <2>7. k < row => Accounted(tx, k)'
    BY <1>3, <2>1, <2>2
  <2> QED
    BY <2>5, <2>6, <2>7
<1>5. CASE SkipChange
  <2>1. tx' = tx /\ row' = row + 1 /\ ~ ProcessEnds /\ ~ Audited(binlog[tx][row])
    BY <1>1, <1>5 DEF SkipChange, AtChange, ProcessEnds
  <2>2. k # row
    BY <1>2, <1>3, <2>1 DEF DueRows, Audited, SteadyIsInScope
  <2> QED
    BY <1>1, <1>3, <2>1, <2>2
<1>6. CASE ReceiveTransaction
  <2>1. row' = 1 /\ tx' = received + 1 /\ binlog' = binlog /\ received + 1 \in 1..Len(binlog)
    BY <1>6, Numbers DEF ReceiveTransaction, source
  <2>2. binlog[tx'] \in Seq(SourceChange)
    BY <2>1, PipelineAssumption DEF PIndInv, PTypeOK
  <2>3. k \in 1..Len(binlog[tx'])
    BY <2>1, <2>2 DEF DueRows
  <2> QED
    BY <2>1, <2>2, <2>3
<1>7. CASE FinishTransaction \/ BuildRecordFails \/ AddRecordFails \/ ProcessEnds
  BY <1>7 DEF FinishTransaction, BuildRecordFails, AddRecordFails, Abandon, ProcessEnds
<1>8. CASE \E loaded \in SUBSET Table : StartDaemon(loaded)
  BY <1>8 DEF StartDaemon, NewBatcher, PIndInv, LoopPosition
<1>9. CASE UNCHANGED <<tx, row>> /\ ~ ProcessEnds
  BY <1>3, <1>9
<1>10. CASE \/ \E txn \in Transactions : SourceCommit(txn)
            \/ StopRun \/ BatcherStep \/ \E t \in Table : CooldownExpires(t)
            \/ UNCHANGED vars
  <2>1. UNCHANGED <<tx, row>>
    BY <1>10 DEF SourceCommit, StopRun, BatcherStep, CooldownExpires, progress, pvars, vars
  <2> QED
    BY <1>7, <1>9, <2>1
<1> QED
  BY PipelineCases, <1>4, <1>5, <1>6, <1>7, <1>8, <1>10

\* A transaction a running process is done with stays accounted for.
LEMMA PassedStays ==
    ASSUME PIndInv, GapsAreInsideTransactions, [Next]_vars, ~ ProcessEnds,
           ~ blind, NEW i \in Passed, NEW k \in DueRows(i)'
    PROVE  Accounted(i, k)'
<1>1. i \in 1..Len(binlog)
  BY PassedIsCommitted
<1>2. k \in DueRows(i)
  BY <1>1, DueStays
<1>3. Accounted(i, k)
  BY <1>2 DEF GapsAreInsideTransactions
<1> QED
  BY <1>3, AccountedStays

\* The transaction the loop leaves is accounted for: all of its rows have
\* gone by, or it is reported.
LEMMA LeftIsAccounted ==
    ASSUME PIndInv, LoopIsAccounted, ~ blind,
           FinishTransaction \/ BuildRecordFails \/ AddRecordFails,
           NEW k \in DueRows(tx)
    PROVE  Accounted(tx, k) \/ tx \in errored'
<1>1. tx \in 1..Len(binlog) /\ row \in Nat
  BY PassedIsCommitted, Numbers DEF FinishTransaction, BuildRecordFails, AddRecordFails, AtChange
<1>2. binlog[tx] \in Seq(SourceChange)
  BY <1>1, PipelineAssumption DEF PIndInv, PTypeOK
<1>3. CASE FinishTransaction
  <2>1. k \in 1..Len(binlog[tx]) /\ row > Len(binlog[tx]) /\ Len(binlog[tx]) \in Nat
    BY <1>2, <1>3 DEF DueRows, FinishTransaction
  <2>2. k < row /\ tx # 0
    BY <1>1, <2>1
  <2> QED
    BY <2>2 DEF LoopIsAccounted
<1>4. CASE BuildRecordFails \/ AddRecordFails
  BY <1>4 DEF BuildRecordFails, AddRecordFails, Abandon
<1> QED
  BY <1>3, <1>4

\* When a process ends, what it recorded and did not persist is of the last
\* persisted position or later.
LEMMA GapsAtProcessEnd ==
    ASSUME PIndInv, BufferIsAhead, LoopIsAccounted, GapsAreInsideTransactions, ProcessEnds
    PROVE  GapsAreInsideTransactions'
<1>1. /\ up /\ ~ up' /\ UNCHANGED <<binlog, errored, blind, auditBatches, auditRecords>>
      /\ records' = <<>>
  BY DEF ProcessEnds, Crash, Exit, Halt, durable, source, phistory
<1>2. LatestCheckpoint' = LatestCheckpoint
  BY <1>1 DEF LatestCheckpoint
<1> SUFFICES ASSUME ~ blind, NEW i \in 1..LatestCheckpoint, NEW k \in DueRows(i)
             PROVE  Accounted(i, k)'
  <2>1. ASSUME NEW i PROVE DueRows(i)' = DueRows(i)
    BY <1>1 DEF DueRows, SteadyTables, Reconfigured
  <2>2. Passed' = 1..LatestCheckpoint
    BY <1>1, <1>2 DEF Passed
  <2> QED
    BY <1>1, <2>1, <2>2 DEF GapsAreInsideTransactions
<1>3. /\ LatestCheckpoint \in Nat
      /\ DOMAIN auditBatches = {} => LatestCheckpoint = 0
      /\ \A b \in DOMAIN auditBatches :
            auditBatches[b].pos \in Nat /\ auditBatches[b].pos <= LatestCheckpoint
      /\ DOMAIN auditBatches # {} =>
            \E b \in DOMAIN auditBatches : auditBatches[b].pos = LatestCheckpoint
  <2>1. DOMAIN auditBatches = {} => LatestCheckpoint = 0
    BY PipelineAssumption DEF LatestCheckpoint
  <2> QED
    BY <2>1, LatestIsLargest, Numbers
<1>4. PICK last \in DOMAIN auditBatches : auditBatches[last].pos = LatestCheckpoint
  <2>1. LatestCheckpoint # 0
    BY <1>3
  <2> QED
    BY <1>3, <2>1
<1>5. CASE i = LatestCheckpoint
  BY <1>1, <1>4, <1>5 DEF Accounted
<1>6. CASE i # LatestCheckpoint
  <2>1. i < LatestCheckpoint /\ LatestCheckpoint <= received /\ received \in Nat
    BY <1>1, <1>3, <1>4, <1>6, Numbers DEF PIndInv, StreamIsAhead
  <2>2. i \in Passed
    BY <1>1, <1>3, <2>1 DEF Passed
  <2>3. Accounted(i, k)
    BY <2>2 DEF GapsAreInsideTransactions
  <2>4. ASSUME NEW r \in Trail, r.change.tx = i PROVE r \in auditRecords
    <3>1. CASE r \in auditRecords
      BY <3>1
    <3>2. ASSUME NEW n \in 1..Len(records), r = records[n] PROVE r \in auditRecords
      BY <1>3, <1>4, <2>1, <2>4, <3>2 DEF BufferIsAhead
    <3> QED
      BY <3>1, <3>2 DEF Trail, PIndInv, IndInv, TypeOK
  <2>5. auditRecords \subseteq Trail'
    BY <1>1 DEF Trail
  <2>6. CASE Recorded(i, k)
    BY <2>4, <2>5, <2>6 DEF Accounted, Recorded
  <2>7. CASE i \in errored \/ \E b \in DOMAIN auditBatches : auditBatches[b].pos = i
    BY <1>1, <2>7 DEF Accounted
  <2> QED
    BY <2>3, <2>6, <2>7 DEF Accounted
<1> QED
  BY <1>5, <1>6

\* Only the loop and the start of a process change what the daemon is done
\* with.
LEMMA PassedUnchanged ==
    ASSUME PIndInv, [Next]_vars, ~ ProcessEnds, ~ FinishTransaction, ~ BuildRecordFails,
           ~ AddRecordFails, ~ ReceiveTransaction,
           ~ \E loaded \in SUBSET Table : StartDaemon(loaded)
    PROVE  Passed' = Passed
<1>1. CASE UNCHANGED <<up, tx, received>> /\ LatestCheckpoint' = LatestCheckpoint
  BY <1>1 DEF Passed
<1>2. CASE UNCHANGED <<up, tx, received>> /\ up
  BY <1>2 DEF Passed
<1>3. CASE \/ \E txn \in Transactions : SourceCommit(txn)
           \/ \E t \in Table : CooldownExpires(t)
           \/ UNCHANGED vars
  <2>1. UNCHANGED <<up, tx, received, auditBatches>>
    BY <1>3 DEF SourceCommit, CooldownExpires, progress, pvars, vars, bvars, volatile, durable
  <2> QED
    BY <1>1, <2>1 DEF LatestCheckpoint
<1>4. CASE SkipChange \/ RecordChange
  BY <1>2, <1>4 DEF SkipChange, RecordChange, AtChange, AddRecord, bvars, volatile
<1>5. CASE StopRun \/ BatcherStep
  <2>1. UNCHANGED <<tx, received>>
    BY <1>5 DEF StopRun, BatcherStep, pvars, progress
  <2>2. UNCHANGED up
    BY <1>5
       DEF StopRun, Close, BatcherStep, TimerFire, Enter, CloseEmpty, CloseBegin, CancelCtx,
           CloseStep, SignOK, SignFails, CloseFails, CreateBatchOK, CreateBatchAckLost,
           CreateBatchFails, PutCheckpointOK, PutCheckpointChmodFails, PutCheckpointFails
  <2>3. up \/ UNCHANGED auditBatches
    BY <1>5
       DEF StopRun, Close, BatcherStep, TimerFire, Enter, CloseEmpty, CloseBegin, CancelCtx,
           CloseStep, SignOK, SignFails, CloseFails, CreateBatchOK, CreateBatchAckLost,
           CreateBatchFails, PutCheckpointOK, PutCheckpointChmodFails, PutCheckpointFails,
           PutCommitted, durable
  <2>4. UNCHANGED auditBatches => LatestCheckpoint' = LatestCheckpoint
    BY DEF LatestCheckpoint
  <2>5. CASE up
    BY <1>2, <2>1, <2>2, <2>5
  <2> QED
    BY <1>1, <2>1, <2>2, <2>3, <2>4, <2>5
<1> QED
  BY PipelineCases, <1>3, <1>4, <1>5

LEMMA GapsInductive ==
    ASSUME PIndInv, LoopIsAccounted, BufferIsAhead, GapsAreInsideTransactions, [Next]_vars
    PROVE  GapsAreInsideTransactions'
<1>1. CASE ProcessEnds
  BY <1>1, GapsAtProcessEnd
<1> SUFFICES ASSUME ~ ProcessEnds, ~ blind', NEW i \in Passed', NEW k \in DueRows(i)'
             PROVE  Accounted(i, k)'
  BY <1>1 DEF GapsAreInsideTransactions
<1>2. ~ blind
  BY PipelineCases
     DEF SourceCommit, ReceiveTransaction, SkipChange, RecordChange, FinishTransaction,
         BuildRecordFails, AddRecordFails, Abandon, StopRun, BatcherStep, CooldownExpires,
         StartDaemon, phistory, pvars, vars
<1>3. CASE i \in Passed
  BY <1>2, <1>3, PassedStays
<1>4. tx \in 0..Len(binlog) /\ Len(binlog) \in Nat /\ received \in Nat
      /\ (tx # 0 => up /\ tx = received)
  BY PassedIsCommitted, Numbers DEF PIndInv, LoopPosition
<1>5. CASE FinishTransaction \/ BuildRecordFails \/ AddRecordFails
  <2>1. tx' = 0 /\ received' = received /\ up' = up /\ tx # 0
    BY <1>5 DEF FinishTransaction, BuildRecordFails, AtChange, AddRecordFails, TakeError,
                Abandon, bvars, volatile
  <2>2. i \in Passed \/ i = tx
    BY <1>4, <2>1 DEF Passed
  <2>3. CASE i = tx
    <3>1. k \in DueRows(tx)
      BY <1>4, <2>1, <2>3, DueStays
    <3>2. CASE tx \in errored'
      BY <2>3, <3>2 DEF Accounted
    <3>3. CASE Accounted(tx, k)
      BY <2>3, <3>3, AccountedStays
    <3> QED
      BY <1>2, <1>5, <3>1, <3>2, <3>3, LeftIsAccounted
  <2> QED
    BY <1>3, <2>2, <2>3
<1>6. ASSUME NEW loaded \in SUBSET Table, StartDaemon(loaded) PROVE i \in Passed
  <2>1. ~ up /\ up' /\ tx' = tx /\ received' = LatestCheckpoint
    BY <1>6 DEF StartDaemon, NewBatcher
  <2> QED
    BY <1>4, <2>1 DEF Passed
<1>7. CASE ReceiveTransaction
  <2>1. up /\ up' /\ tx = 0 /\ tx' # 0 /\ received' = received + 1
    BY <1>4, <1>7 DEF ReceiveTransaction, bvars, volatile
  <2> QED
    BY <1>3, <1>4, <2>1 DEF Passed
<1>8. CASE ~ FinishTransaction /\ ~ BuildRecordFails /\ ~ AddRecordFails /\ ~ ReceiveTransaction
           /\ ~ \E loaded \in SUBSET Table : StartDaemon(loaded)
  BY <1>3, <1>8, PassedUnchanged
<1> QED
  BY <1>3, <1>5, <1>6, <1>7, <1>8

LEMMA GapInvInductive == PIndInv /\ GapInv /\ [Next]_vars => GapInv'
BY SteadyInductive, BufferAheadInductive, LoopAccountedInductive, GapsInductive DEF GapInv

\* The invariant behind GapsAreInsideTransactions holds in every state.
LEMMA GapInvariant == PSpec => []GapInv
<1>1. PInit => GapInv
  <2> SUFFICES ASSUME PInit PROVE GapInv
    OBVIOUS
  <2>1. /\ records = <<>> /\ DOMAIN auditBatches = {} /\ tx = 0 /\ received = 0
        /\ mysqlConfig = InitConfig /\ tables = InitConfig
    BY DEF PInit, Init, NoRows
  <2>2. SteadyIsInScope
    BY <2>1 DEF SteadyIsInScope, SteadyTables
  <2>3. LoopIsAccounted /\ BufferIsAhead
    BY <2>1 DEF LoopIsAccounted, BufferIsAhead
  <2>4. Passed = {}
    BY <2>1, PipelineAssumption DEF Passed, LatestCheckpoint
  <2>5. GapsAreInsideTransactions
    BY <2>4 DEF GapsAreInsideTransactions
  <2> QED
    BY <2>2, <2>3, <2>5 DEF GapInv
<1> QED
  BY <1>1, GapInvInductive, PipelineInductive, PTL DEF PSpec

\* No transaction is skipped whole and in silence: over every failed close,
\* crash, exit and resumed stream, a row on a table always in scope that the
\* daemon has gone by and did not record belongs to a transaction a batch was
\* closed in the middle of, or to one ProcessTransaction returned an error for.
THEOREM GapsOnlyInside == PSpec => []GapsAreInsideTransactions
<1>1. GapInv => GapsAreInsideTransactions
  BY DEF GapInv
<1> QED
  BY <1>1, GapInvariant, PTL

(***************************************************************************)
(* Transactions of one row.                                                *)
(***************************************************************************)

\* A recorded row of a transaction is the only one it has.
LEMMA OnlyRow ==
    ASSUME OneRowEach, PIndInv, RowsAreRecorded, NEW r \in Trail,
           NEW k \in DueRows(r.change.tx)
    PROVE  r.change.row = k
<1>1. binlog[r.change.tx] \in Transactions
  BY TrailIsCommitted DEF PIndInv, PTypeOK
<1> QED
  BY <1>1 DEF OneRowEach, RowsAreRecorded, DueRows

LEMMA RowsRecordedInductive ==
    ASSUME PIndInv, RowsAreRecorded, [Next]_vars
    PROVE  RowsAreRecorded'
<1>1. ASSUME NEW r \in Trail
      PROVE  /\ r.change.row \in DOMAIN binlog'[r.change.tx]
             /\ binlog'[r.change.tx][r.change.row].kind = "row"
  <2>1. binlog'[r.change.tx] = binlog[r.change.tx]
    BY TrailIsCommitted, BinlogGrows
  <2> QED
    BY <2>1 DEF RowsAreRecorded
<1>2. CASE RecordChange
  <2>1. PICK rec : /\ Trail' = Trail \cup {rec}
                   /\ rec.change = [tx |-> tx, row |-> row,
                                    actor |-> CorrelateTransaction(binlog[tx], binlog[tx][row].table)]
    BY <1>2, TrailOfRecord
  <2>2. binlog' = binlog /\ binlog[tx][row].kind = "row" /\ row <= Len(binlog[tx])
    BY <1>2 DEF RecordChange, AtChange, Audited, source
  <2>3. row \in DOMAIN binlog[tx]
    <3>1. tx \in 1..Len(binlog) /\ row \in Nat /\ row >= 1
      BY <1>2, Numbers DEF RecordChange, AtChange, PIndInv, PTypeOK, LoopPosition
    <3>2. binlog[tx] \in Seq(SourceChange)
      BY <3>1, PipelineAssumption DEF PIndInv, PTypeOK
    <3> QED
      BY <2>2, <3>1, <3>2
  <2>4. rec.change.tx = tx /\ rec.change.row = row
    BY <2>1
  <2> QED
    BY <1>1, <2>1, <2>2, <2>3, <2>4 DEF RowsAreRecorded
<1>3. CASE ProcessEnds
  <2>1. Trail' \subseteq Trail
    BY <1>3 DEF ProcessEnds, Crash, Exit, Halt, durable, Trail
  <2> QED
    BY <1>1, <2>1 DEF RowsAreRecorded
<1>4. CASE ~ RecordChange /\ ~ ProcessEnds
  BY <1>1, <1>4, TrailOtherwise DEF RowsAreRecorded
<1> QED
  BY <1>2, <1>3, <1>4

\* A batch takes the position of a record that is in it.
LEMMA EndsAtPositionInductive ==
    ASSUME PIndInv, EndsAtPosition, [Next]_vars
    PROVE  EndsAtPosition'
<1>1. CASE RecordChange
  <2>1. PICK rec : /\ rec.change = [tx |-> tx, row |-> row,
                                    actor |-> CorrelateTransaction(binlog[tx], binlog[tx][row].table)]
                   /\ records' = Append(records, rec)
    BY <1>1, TrailOfRecord
  <2>2. UNCHANGED <<auditBatches, auditRecords>> /\ lastPosition' = tx
    BY <1>1 DEF RecordChange, AddRecord, durable
  <2>3. /\ Len(records') = Len(records) + 1 /\ Len(records) \in Nat
        /\ records'[Len(records) + 1] = rec
    BY <2>1 DEF PIndInv, IndInv, TypeOK
  <2>4. rec.change.tx = tx
    BY <2>1
  <2>5. Len(records) + 1 \in 1..Len(records')
    BY <2>3
  <2>6. \E i \in 1..Len(records') : records'[i].change.tx = lastPosition'
    BY <2>2, <2>3, <2>4, <2>5
  <2> QED
    BY <2>2, <2>6 DEF EndsAtPosition
<1>2. CASE Committed /\ step = "create" /\ UNCHANGED <<records, lastPosition>>
  <2>1. PICK i \in 1..Len(records) : records[i].change.tx = lastPosition
    BY <1>2 DEF EndsAtPosition, PIndInv, ClosingIsNonEmpty
  <2>2. records[i] \in auditRecords' /\ auditRecords \subseteq auditRecords'
    BY <1>2, <2>1, Numbers DEF Committed
  <2>3. /\ DOMAIN auditBatches' = DOMAIN auditBatches \cup {batchID}
        /\ auditBatches'[batchID].pos = lastPosition
        /\ \A b \in DOMAIN auditBatches : auditBatches'[b] = auditBatches[b]
    BY <1>2 DEF Committed, With, CurrentRow
  <2>4. \A b \in DOMAIN auditBatches' :
            \E r \in auditRecords' : r.change.tx = auditBatches'[b].pos
    BY <2>1, <2>2, <2>3 DEF EndsAtPosition
  <2> QED
    BY <1>2, <2>4 DEF EndsAtPosition
<1>3. CASE records' = <<>> /\ UNCHANGED <<auditBatches, auditRecords>>
  BY <1>3 DEF EndsAtPosition
<1>4. CASE UNCHANGED <<records, lastPosition, auditBatches, auditRecords>>
  BY <1>4 DEF EndsAtPosition
<1> QED
  BY <1>1, <1>2, <1>3, <1>4, PipelineCases
     DEF SourceCommit, ReceiveTransaction, SkipChange, FinishTransaction, BuildRecordFails,
         AddRecordFails, TakeError, StopRun, Close, CooldownExpires, ProcessEnds, Crash, Exit,
         Halt, StartDaemon, NewBatcher,
         BatcherStep, TimerFire, Enter, CloseEmpty, CloseBegin, CancelCtx, CloseStep,
         SignOK, SignFails, CloseFails, CreateBatchOK, CreateBatchAckLost, CreateBatchFails,
         PutCheckpointOK, PutCheckpointChmodFails, PutCheckpointFails, PutCommitted,
         vars, bvars, volatile, durable

\* A close does not take the Run goroutine out of its loop.
LEMMA CloseKeepsCall ==
    ASSUME PIndInv, holder = "run" => call \in {"closing", "shutdown"}, BatcherStep
    PROVE  /\ holder' = "run" => call' \in {"closing", "shutdown"}
           /\ call' # "ready" => call # "ready"
<1>1. CASE TimerFire \/ CancelCtx \/ SignOK \/ CreateBatchOK
  BY <1>1 DEF TimerFire, CancelCtx, SignOK, CreateBatchOK
<1>2. ASSUME NEW w \in {"run", "timer"}, Enter(w)
      PROVE  /\ holder' = "run" => call' \in {"closing", "shutdown"}
             /\ call' # "ready" => call # "ready"
  BY <1>2 DEF Enter, CloseEmpty, CloseBegin, Entering, Returned
<1>3. CASE (CloseFails \/ PutCheckpointOK) /\ step # "none"
  <2>1. holder \in {"run", "timer"}
    BY <1>3 DEF PIndInv, IndInv, TypeOK, CloseProgress
  <2> QED
    BY <1>3, <2>1 DEF CloseFails, PutCheckpointOK, Returned
<1> QED
  BY <1>1, <1>2, <1>3
     DEF BatcherStep, CloseStep, SignFails, CreateBatchAckLost, CreateBatchFails,
         PutCheckpointOK, PutCheckpointChmodFails, PutCheckpointFails

LEMMA CallRecordedInductive ==
    ASSUME PIndInv, CallIsRecorded, [Next]_vars
    PROVE  CallIsRecorded'
<1>1. holder = "run" => call \in {"closing", "shutdown"}
  BY DEF CallIsRecorded
<1>2. row \in Nat /\ tx \in Nat
  BY Numbers
<1>3. CASE RecordChange
  <2>1. /\ tx' = tx /\ row' = row + 1 /\ holder' = "none"
    BY <1>3 DEF RecordChange, AddRecord, CanCall
  <2>2. PICK rec : /\ Trail' = Trail \cup {rec}
                   /\ rec.change = [tx |-> tx, row |-> row,
                                    actor |-> CorrelateTransaction(binlog[tx], binlog[tx][row].table)]
    BY <1>3, TrailOfRecord
  <2>3. rec.change.tx = tx' /\ rec.change.row = row' - 1
    BY <1>2, <2>1, <2>2
  <2> QED
    BY <2>1, <2>2, <2>3 DEF CallIsRecorded, Recorded
<1>4. ASSUME ~ ProcessEnds, UNCHANGED <<tx, row>>, call' # "ready" => call # "ready",
             holder' = "run" => call' \in {"closing", "shutdown"}
      PROVE  CallIsRecorded'
  <2>1. ASSUME tx # 0, call # "ready" PROVE Recorded(tx, row - 1)'
    BY <1>4, <2>1, TrailGrows DEF CallIsRecorded
  <2> QED
    BY <1>4, <2>1 DEF CallIsRecorded, Recorded
<1>5. ASSUME UNCHANGED <<holder, call>>, tx' = 0 \/ call = "ready" PROVE CallIsRecorded'
  BY <1>1, <1>5 DEF CallIsRecorded
<1>6. CASE ReceiveTransaction \/ SkipChange \/ FinishTransaction \/ BuildRecordFails
  BY <1>5, <1>6 DEF ReceiveTransaction, SkipChange, FinishTransaction, BuildRecordFails, AtChange,
                    bvars, volatile
<1>7. CASE AddRecordFails
  BY <1>1, <1>7 DEF AddRecordFails, TakeError, Abandon, CallIsRecorded
<1>8. CASE StopRun
  BY <1>8 DEF StopRun, Close, CanCall, pvars, progress, CallIsRecorded
<1>9. CASE ProcessEnds
  BY <1>9 DEF ProcessEnds, Crash, Exit, Halt, CallIsRecorded
<1>10. ASSUME NEW loaded \in SUBSET Table, StartDaemon(loaded) PROVE CallIsRecorded'
  BY <1>5, <1>10 DEF StartDaemon, NewBatcher, PIndInv, LoopPosition
<1>11. CASE BatcherStep
  <2>1. UNCHANGED <<tx, row>>
    BY <1>11 DEF BatcherStep, pvars, progress
  <2> QED
    BY <1>1, <1>4, <1>9, <1>11, <2>1, CloseKeepsCall
<1>12. CASE \/ \E txn \in Transactions : SourceCommit(txn)
            \/ \E t \in Table : CooldownExpires(t)
            \/ UNCHANGED vars
  <2>1. UNCHANGED <<tx, row, holder, call>>
    BY <1>12 DEF SourceCommit, CooldownExpires, progress, pvars, vars, bvars, volatile
  <2> QED
    BY <1>1, <1>4, <1>9, <2>1
<1> QED
  BY PipelineCases, <1>3, <1>6, <1>7, <1>8, <1>9, <1>10, <1>11, <1>12

\* A process that was not blind before a step is one that loaded everything.
LEMMA StaysBlind ==
    ASSUME [Next]_vars, ~ blind'
    PROVE  ~ blind
  BY PipelineCases
     DEF SourceCommit, ReceiveTransaction, SkipChange, RecordChange, FinishTransaction,
         BuildRecordFails, AddRecordFails, Abandon, StopRun, BatcherStep, CooldownExpires,
         ProcessEnds, StartDaemon, phistory, pvars, vars

LEMMA LoopRecordedInductive ==
    ASSUME PIndInv, SteadyIsInScope, LoopIsRecorded, [Next]_vars
    PROVE  LoopIsRecorded'
<1> SUFFICES ASSUME ~ blind', tx' # 0, NEW k \in DueRows(tx)', k < row'
             PROVE  Recorded(tx, k)'
  BY DEF LoopIsRecorded
<1>1. row \in Nat /\ tx \in 0..Len(binlog) /\ Len(binlog) \in Nat
  BY Numbers, PassedIsCommitted
<1>2. ~ blind
  BY StaysBlind
<1>3. ASSUME tx' = tx, ~ ProcessEnds
      PROVE  /\ k \in DueRows(tx) /\ k \in Nat
             /\ k < row => Recorded(tx, k)'
  <2>1. tx \in 1..Len(binlog) /\ tx # 0
    BY <1>1, <1>3
  <2>2. k \in DueRows(tx)
    BY <2>1, <1>3, DueStays
  <2>3. binlog[tx] \in Seq(SourceChange)
    BY <2>1, PipelineAssumption DEF PIndInv, PTypeOK
  <2>4. k \in Nat
    BY <2>2, <2>3 DEF DueRows
  <2>5. k < row => Recorded(tx, k)
    BY <1>2, <2>1, <2>2 DEF LoopIsRecorded
  <2> QED
    BY <1>3, <2>2, <2>4, <2>5, TrailGrows
<1>4. CASE RecordChange
  <2>1. tx' = tx /\ row' = row + 1 /\ tx # 0
    BY <1>4 DEF RecordChange, AtChange
  <2>2. ~ ProcessEnds
    BY <2>1, <1>1 DEF ProcessEnds
  <2>3. PICK rec : /\ Trail' = Trail \cup {rec}
                   /\ rec.change = [tx |-> tx, row |-> row,
                                    actor |-> CorrelateTransaction(binlog[tx], binlog[tx][row].table)]
    BY <1>4, TrailOfRecord
  <2>4. \E r \in Trail' : r.change.tx = tx' /\ r.change.row = row
    BY <2>1, <2>3
  <2>5. k < row \/ k = row
    BY <1>1, <1>3, <2>1, <2>2
  <2>6. k = row => Recorded(tx, k)'
    BY <2>4 DEF Recorded
  <2>7. k < row => Recorded(tx, k)'
    BY <1>3, <2>1, <2>2
  <2> QED
    BY <2>5, <2>6, <2>7
<1>5. CASE SkipChange
  <2>1. tx' = tx /\ row' = row + 1 /\ ~ ProcessEnds /\ ~ Audited(binlog[tx][row])
    BY <1>1, <1>5 DEF SkipChange, AtChange, ProcessEnds
  <2>2. k # row
    BY <1>2, <1>3, <2>1 DEF DueRows, Audited, SteadyIsInScope
  <2> QED
    BY <1>1, <1>3, <2>1, <2>2
<1>6. CASE ReceiveTransaction
  <2>1. row' = 1 /\ tx' = received + 1 /\ binlog' = binlog /\ received + 1 \in 1..Len(binlog)
    BY <1>6, Numbers DEF ReceiveTransaction, source
  <2>2. binlog[tx'] \in Seq(SourceChange)
    BY <2>1, PipelineAssumption DEF PIndInv, PTypeOK
  <2>3. k \in 1..Len(binlog[tx'])
    BY <2>1, <2>2 DEF DueRows
  <2> QED
    BY <2>1, <2>2, <2>3
<1>7. CASE FinishTransaction \/ BuildRecordFails \/ AddRecordFails \/ ProcessEnds
  BY <1>7 DEF FinishTransaction, BuildRecordFails, AddRecordFails, Abandon, ProcessEnds
<1>8. CASE \E loaded \in SUBSET Table : StartDaemon(loaded)
  BY <1>8 DEF StartDaemon, NewBatcher, PIndInv, LoopPosition
<1>9. CASE \/ \E txn \in Transactions : SourceCommit(txn)
           \/ StopRun \/ BatcherStep \/ \E t \in Table : CooldownExpires(t)
           \/ UNCHANGED vars
  <2>1. UNCHANGED <<tx, row>>
    BY <1>9 DEF SourceCommit, StopRun, BatcherStep, CooldownExpires, progress, pvars, vars
  <2> QED
    BY <1>3, <1>7, <2>1
<1> QED
  BY PipelineCases, <1>4, <1>5, <1>6, <1>7, <1>8, <1>9

\* The loop leaves a transaction with all of its rows in the trail: the close
\* that fails is one its only row was there for.
LEMMA LeftIsRecorded ==
    ASSUME OneRowEach, "build" \notin PipelineFaults, PIndInv, RowsAreRecorded, CallIsRecorded,
           LoopIsRecorded, ~ blind,
           FinishTransaction \/ BuildRecordFails \/ AddRecordFails,
           NEW k \in DueRows(tx)
    PROVE  Recorded(tx, k)
<1>1. tx \in 1..Len(binlog) /\ row \in Nat
  BY PassedIsCommitted, Numbers DEF FinishTransaction, BuildRecordFails, AddRecordFails, AtChange
<1>2. binlog[tx] \in Seq(SourceChange)
  BY <1>1, PipelineAssumption DEF PIndInv, PTypeOK
<1>3. CASE FinishTransaction
  <2>1. k \in 1..Len(binlog[tx]) /\ row > Len(binlog[tx]) /\ Len(binlog[tx]) \in Nat
    BY <1>2, <1>3 DEF DueRows, FinishTransaction
  <2>2. k < row /\ tx # 0
    BY <1>1, <2>1
  <2> QED
    BY <2>2 DEF LoopIsRecorded
<1>4. CASE AddRecordFails
  <2>1. PICK r \in Trail : r.change.tx = tx /\ r.change.row = row - 1
    BY <1>4 DEF AddRecordFails, TakeError, CallIsRecorded, Recorded
  <2>2. r.change.row = k
    BY <2>1, OnlyRow
  <2> QED
    BY <2>1, <2>2 DEF Recorded
<1> QED
  BY <1>3, <1>4 DEF BuildRecordFails

\* When a process ends, the transaction at the persisted position has its only
\* row in Postgres, and so has every transaction before it.
LEMMA RecordedAtProcessEnd ==
    ASSUME OneRowEach, PIndInv, BufferIsAhead, RowsAreRecorded, EndsAtPosition,
           PassedIsRecorded, ProcessEnds
    PROVE  PassedIsRecorded'
<1>1. /\ up /\ ~ up' /\ UNCHANGED <<binlog, blind, auditBatches, auditRecords>>
      /\ records' = <<>>
  BY DEF ProcessEnds, Crash, Exit, Halt, durable, source, phistory
<1>2. LatestCheckpoint' = LatestCheckpoint
  BY <1>1 DEF LatestCheckpoint
<1> SUFFICES ASSUME ~ blind, NEW i \in 1..LatestCheckpoint, NEW k \in DueRows(i)
             PROVE  \E r \in auditRecords : r.change.tx = i /\ r.change.row = k
  <2>1. ASSUME NEW i PROVE DueRows(i)' = DueRows(i)
    BY <1>1 DEF DueRows, SteadyTables, Reconfigured
  <2>2. Passed' = 1..LatestCheckpoint
    BY <1>1, <1>2 DEF Passed
  <2>3. auditRecords \subseteq Trail'
    BY <1>1 DEF Trail
  <2> QED
    BY <1>1, <2>1, <2>2, <2>3 DEF PassedIsRecorded, Recorded
<1>3. LatestCheckpoint \in Nat /\ (DOMAIN auditBatches = {} => LatestCheckpoint = 0)
  BY LatestIsLargest, PipelineAssumption, Numbers DEF LatestCheckpoint
<1>4. PICK last \in DOMAIN auditBatches : auditBatches[last].pos = LatestCheckpoint
  <2>1. LatestCheckpoint # 0
    BY <1>3
  <2> QED
    BY <1>3, <2>1, LatestIsLargest
<1>5. CASE i = LatestCheckpoint
  <2>1. PICK r \in auditRecords : r.change.tx = LatestCheckpoint
    BY <1>4 DEF EndsAtPosition
  <2>2. r \in Trail
    BY DEF Trail
  <2>3. r.change.row = k
    BY <1>5, <2>1, <2>2, OnlyRow
  <2> QED
    BY <1>5, <2>1, <2>3
<1>6. CASE i # LatestCheckpoint
  <2>1. i < LatestCheckpoint /\ LatestCheckpoint <= received /\ received \in Nat
    BY <1>1, <1>3, <1>4, <1>6, Numbers DEF PIndInv, StreamIsAhead
  <2>2. i \in Passed
    BY <1>1, <1>3, <2>1 DEF Passed
  <2>3. PICK r \in Trail : r.change.tx = i /\ r.change.row = k
    BY <2>2 DEF PassedIsRecorded, Recorded
  <2>4. r \in auditRecords
    <3>1. CASE r \in auditRecords
      BY <3>1
    <3>2. ASSUME NEW n \in 1..Len(records), r = records[n] PROVE r \in auditRecords
      BY <1>3, <1>4, <2>1, <2>3, <3>2 DEF BufferIsAhead
    <3> QED
      BY <3>1, <3>2 DEF Trail, PIndInv, IndInv, TypeOK
  <2> QED
    BY <2>3, <2>4
<1> QED
  BY <1>5, <1>6

LEMMA PassedRecordedInductive ==
    ASSUME OneRowEach, "build" \notin PipelineFaults, PIndInv, BufferIsAhead, OneRowInv,
           [Next]_vars
    PROVE  PassedIsRecorded'
<1>1. CASE ProcessEnds
  BY <1>1, RecordedAtProcessEnd DEF OneRowInv
<1> SUFFICES ASSUME ~ ProcessEnds, ~ blind', NEW i \in Passed', NEW k \in DueRows(i)'
             PROVE  Recorded(i, k)'
  BY <1>1 DEF PassedIsRecorded
<1>2. ~ blind
  BY StaysBlind
<1>3. CASE i \in Passed
  <2>1. i \in 1..Len(binlog)
    BY <1>3, PassedIsCommitted
  <2>2. k \in DueRows(i)
    BY <2>1, DueStays
  <2>3. Recorded(i, k)
    BY <1>2, <1>3, <2>2 DEF OneRowInv, PassedIsRecorded
  <2> QED
    BY <2>3, TrailGrows
<1>4. tx \in 0..Len(binlog) /\ Len(binlog) \in Nat /\ received \in Nat
      /\ (tx # 0 => up /\ tx = received)
  BY PassedIsCommitted, Numbers DEF PIndInv, LoopPosition
<1>5. CASE FinishTransaction \/ BuildRecordFails \/ AddRecordFails
  <2>1. tx' = 0 /\ received' = received /\ up' = up /\ tx # 0
    BY <1>5 DEF FinishTransaction, BuildRecordFails, AtChange, AddRecordFails, TakeError,
                Abandon, bvars, volatile
  <2>2. i \in Passed \/ i = tx
    BY <1>4, <2>1 DEF Passed
  <2>3. CASE i = tx
    <3>1. k \in DueRows(tx)
      BY <1>4, <2>1, <2>3, DueStays
    <3>2. Recorded(tx, k)
      BY <1>2, <1>5, <3>1, LeftIsRecorded DEF OneRowInv
    <3> QED
      BY <2>3, <3>2, TrailGrows
  <2> QED
    BY <1>3, <2>2, <2>3
<1>6. ASSUME NEW loaded \in SUBSET Table, StartDaemon(loaded) PROVE i \in Passed
  <2>1. ~ up /\ up' /\ tx' = tx /\ received' = LatestCheckpoint
    BY <1>6 DEF StartDaemon, NewBatcher
  <2> QED
    BY <1>4, <2>1 DEF Passed
<1>7. CASE ReceiveTransaction
  <2>1. up /\ up' /\ tx = 0 /\ tx' # 0 /\ received' = received + 1
    BY <1>4, <1>7 DEF ReceiveTransaction, bvars, volatile
  <2> QED
    BY <1>3, <1>4, <2>1 DEF Passed
<1>8. CASE ~ FinishTransaction /\ ~ BuildRecordFails /\ ~ AddRecordFails /\ ~ ReceiveTransaction
           /\ ~ \E loaded \in SUBSET Table : StartDaemon(loaded)
  BY <1>3, <1>8, PassedUnchanged
<1> QED
  BY <1>3, <1>5, <1>6, <1>7, <1>8

LEMMA OneRowInvInductive ==
    ASSUME OneRowEach, "build" \notin PipelineFaults
    PROVE  PIndInv /\ GapInv /\ OneRowInv /\ [Next]_vars => OneRowInv'
BY RowsRecordedInductive, EndsAtPositionInductive, CallRecordedInductive, LoopRecordedInductive,
   PassedRecordedInductive DEF OneRowInv, GapInv

\* If no transaction has two rows of ordinary tables, and none that cannot be
\* built, nothing is skipped, whatever fails in a close and wherever the daemon
\* stops or crashes: the loss is that of batches closed inside a transaction.
THEOREM SingleRowsNotSkipped ==
    ASSUME OneRowEach, "build" \notin PipelineFaults
    PROVE  PSpec => []NothingSkipped
<1>1. PInit => OneRowInv
  <2> SUFFICES ASSUME PInit PROVE OneRowInv
    OBVIOUS
  <2>1. /\ records = <<>> /\ DOMAIN auditBatches = {} /\ auditRecords = {} /\ tx = 0
        /\ received = 0 /\ holder = "none"
    BY DEF PInit, Init, NoRows
  <2>2. Trail = {}
    BY <2>1 DEF Trail
  <2>3. Passed = {}
    BY <2>1, PipelineAssumption DEF Passed, LatestCheckpoint
  <2> QED
    BY <2>1, <2>2, <2>3
       DEF OneRowInv, RowsAreRecorded, EndsAtPosition, CallIsRecorded, LoopIsRecorded,
           PassedIsRecorded
<1>2. PIndInv /\ OneRowInv => NothingSkipped
  <2> SUFFICES ASSUME PIndInv, OneRowInv, ~ blind,
                      NEW i \in (1..LatestCheckpoint) \ {tx}, NEW k \in DueRows(i)
               PROVE  Recorded(i, k)
    BY DEF NothingSkipped
  <2>1. i \in Passed
    <3>1. received \in Nat /\ LatestCheckpoint \in Nat /\ (tx # 0 => tx = received)
      BY LatestBounds, Numbers DEF PIndInv, LoopPosition
    <3>2. up => LatestCheckpoint <= received
      BY <3>1, LatestIsBehind
    <3> QED
      BY <3>1, <3>2 DEF Passed
  <2> QED
    BY <2>1 DEF OneRowInv, PassedIsRecorded
<1> QED
  BY <1>1, <1>2, OneRowInvInductive, GapInvariant, PipelineInductive, PTL DEF PSpec
=============================================================================
