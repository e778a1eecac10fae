------------------------------ MODULE Pipeline ------------------------------
(***************************************************************************)
(* The daemon's ingestion path: committed MySQL transactions come from the *)
(* binlog in order, Pipeline.ProcessTransaction turns their row changes    *)
(* into records, the Batcher persists them, and a daemon that starts again *)
(* resumes at the position of the latest persisted batch                   *)
(* (internal/pipeline, internal/config, internal/attribution,              *)
(* cmd/daemon).  The Run goroutine of module Batcher is here the loop of   *)
(* Pipeline.Run.                                                           *)
(*                                                                         *)
(* A binlog position is the number of transactions before it: the stream   *)
(* is a queue, so what the reader goroutine holds in its channel is not    *)
(* told apart from what is still on the server.                            *)
(***************************************************************************)
EXTENDS Batcher

CONSTANTS
    Transactions,   \* transactions the source may commit: sequences of changes
    InitConfig,     \* _audit_config at the start: the policy of every table
    NamedColumns,   \* the source names columns (binlog.parseRowChanges does not)
    MaxTxs,         \* bound: transactions committed by the source
    MaxRows,        \* bound: changes in a transaction
    PipelineFaults  \* BuildRecord fails; LoadFromDB fails or stops early

\* A table is not audited ("off": no row, or enabled = false), or audited
\* with one of the two policies for changes nobody is on record for.
Policy == {"off", "tolerate", "alert"}
ActorType == {"USER", "SYSTEM", "UNATTRIBUTED"}

\* Whether a user is on record for a change, and the type the record shows.
ActorAttribution == [user : {"known", "unknown"}, type : ActorType]

\* A row of an ordinary table, of _audit_context (user and type are then its
\* user_id and actor_type, either may be empty), of _audit_config (table and
\* policy are then the row's contents), or a DDL statement.
SourceChange == [kind : {"row", "context", "config", "ddl"},
                 action : {"insert", "update", "delete"},
                 table : Table, policy : Policy,
                 user : {"", "id"}, type : ActorType \cup {""}]

ASSUME PipelineAssumption ==
    /\ MaxTxs \in Nat /\ MaxRows \in Nat
    /\ Transactions \subseteq Seq(SourceChange)
    /\ \A txn \in Transactions : Len(txn) <= MaxRows
    /\ InitConfig \in [Table -> Policy]
    /\ NamedColumns \in BOOLEAN
    /\ PipelineFaults \subseteq {"build", "configload"}
    /\ Change = [tx : 1..MaxTxs, row : 1..MaxRows, actor : ActorAttribution]
    /\ Position = 1..MaxTxs /\ NoPosition = 0

VARIABLES
    binlog,         \* transactions committed at the source
    mysqlConfig,    \* the source's _audit_config table
    tables,         \* config.Manager.tables
    received,       \* transactions taken from the stream since its beginning
    tx,             \* the transaction in ProcessTransaction, 0 between two
    row,            \* the change of tx that the loop is at
    cooldown,       \* Dispatcher.rateLimiter: tables whose alerts are suppressed
    alerts,         \* history: changes this process dispatched an alert for
                    \* less than a cooldown ago
    errored,        \* history: transactions ProcessTransaction returned an error for
    blind           \* history: some start did not load all of _audit_config

source    == <<binlog, mysqlConfig>>
progress  == <<received, tx, row>>
phistory  == <<errored, blind>>
alerting  == <<cooldown, alerts>>
pvars     == <<source, tables, progress, alerting, phistory>>
vars      == <<bvars, pvars>>

PTypeOK ==
    /\ binlog \in Seq(Transactions) /\ Len(binlog) <= MaxTxs
    /\ mysqlConfig \in [Table -> Policy]
    /\ tables \in [Table -> Policy]
    /\ received \in 0..Len(binlog)
    /\ tx \in 0..MaxTxs
    /\ row \in Nat
    /\ cooldown \subseteq Table
    /\ alerts \subseteq (1..MaxTxs) \X (1..MaxRows)
    /\ errored \subseteq 1..MaxTxs
    /\ blind \in BOOLEAN

PInit ==
    /\ Init
    /\ binlog = <<>> /\ mysqlConfig = InitConfig /\ tables = InitConfig
    /\ received = 0 /\ tx = 0 /\ row = 0
    /\ cooldown = {} /\ alerts = {}
    /\ errored = {} /\ blind = FALSE

(***************************************************************************)
(* Configuration.                                                          *)
(***************************************************************************)

\* The _audit_config changes of a transaction, the last one of a table wins.
Reconfigured(config, txn) ==
    [t \in Table |->
        LET hits == {k \in DOMAIN txn : txn[k].kind = "config" /\ txn[k].table = t}
        IN  IF hits = {} THEN config[t]
            ELSE txn[CHOOSE k \in hits : \A l \in hits : l <= k].policy]

\* HandleBinlogEvent reads the columns by name.  Under the names col_0,
\* col_1, ... of the binlog source it finds none and only ever writes the
\* entry of the table called "".
HandleConfigChanges(txn) ==
    tables' = IF NamedColumns THEN Reconfigured(tables, txn) ELSE tables

\* The source commits a transaction.
SourceCommit(txn) ==
    /\ Len(binlog) < MaxTxs
    /\ binlog' = Append(binlog, txn)
    /\ mysqlConfig' = Reconfigured(mysqlConfig, txn)
    /\ UNCHANGED <<bvars, tables, progress, alerting, phistory>>

(***************************************************************************)
(* Pipeline.Run and ProcessTransaction.                                    *)
(***************************************************************************)

\* Mutant: the receive from a closed or empty channel is not noticed.
MutantReadAhead ==
    /\ up /\ call = "ready" /\ tx = 0
    /\ received' = received + 1
    /\ tx' = received + 1
    /\ row' = 1
    /\ UNCHANGED <<bvars, source, tables, alerting, phistory>>

\* Run's select takes the next transaction; its configuration changes are
\* applied before any of its rows is looked at.
ReceiveTransaction ==
    /\ up /\ call = "ready" /\ tx = 0
    /\ received < Len(binlog)
    /\ received' = received + 1
    /\ tx' = received + 1
    /\ row' = 1
    /\ HandleConfigChanges(binlog[received + 1])
    /\ UNCHANGED <<bvars, source, alerting, phistory>>

AtChange == up /\ call = "ready" /\ tx # 0 /\ row <= Len(binlog[tx])

Audited(change) == change.kind = "row" /\ tables[change.table] # "off"

\* Mutant: the loop breaks where it should continue.
MutantBreak ==
    /\ AtChange
    /\ ~ Audited(binlog[tx][row])
    /\ tx' = 0 /\ row' = 0
    /\ UNCHANGED <<bvars, source, tables, received, alerting, phistory>>

\* Internal tables, DDL and tables out of scope leave no record.
SkipChange ==
    /\ AtChange
    /\ ~ Audited(binlog[tx][row])
    /\ row' = row + 1
    /\ UNCHANGED <<bvars, source, tables, received, tx, alerting, phistory>>

\* The first context row of the transaction, wherever it stands, that was
\* inserted and has a user_id, which must be found by its name.  Without one
\* the policy of the table decides.
CorrelateTransaction(txn, t) ==
    LET naming == {k \in DOMAIN txn : /\ txn[k].kind = "context" /\ txn[k].action = "insert"
                                      /\ NamedColumns /\ txn[k].user # ""}
        first  == txn[CHOOSE k \in naming : \A l \in naming : k <= l]
    IN  IF naming # {}
        THEN [user |-> "known", type |-> IF first.type = "" THEN "USER" ELSE first.type]
        ELSE [user |-> "unknown",
              type |-> IF tables[t] = "tolerate" THEN "SYSTEM" ELSE "UNATTRIBUTED"]

\* TriggerAlert: nobody is on record and the policy does not tolerate that.
Unattributed(actor) == actor = [user |-> "unknown", type |-> "UNATTRIBUTED"]

\* Dispatcher.Trigger for "unattributed_change": one alert per table and
\* cooldown, whether or not a sink could deliver it.
Trigger(t) ==
    IF t \in cooldown
    THEN UNCHANGED alerting
    ELSE cooldown' = cooldown \cup {t} /\ alerts' = alerts \cup {<<tx, row>>}

\* One round of the loop: attribution, alert, AddRecord with the position
\* of the whole transaction.
RecordChange ==
    LET t     == binlog[tx][row].table
        actor == CorrelateTransaction(binlog[tx], t)
    IN  /\ AtChange
        /\ Audited(binlog[tx][row])
        /\ IF Unattributed(actor) THEN Trigger(t) ELSE UNCHANGED alerting
        /\ AddRecord([tx |-> tx, row |-> row, actor |-> actor], tx)
        /\ row' = row + 1
        /\ UNCHANGED <<source, tables, received, tx, phistory>>

\* ProcessTransaction returns nil, and Run goes back to its select.
FinishTransaction ==
    /\ up /\ call = "ready" /\ tx # 0 /\ row > Len(binlog[tx])
    /\ tx' = 0 /\ row' = 0
    /\ UNCHANGED <<bvars, source, tables, received, alerting, phistory>>

\* ProcessTransaction returns an error: Run logs it and goes on with the
\* next transaction.
Abandon ==
    /\ tx' = 0 /\ row' = 0
    /\ errored' = errored \cup {tx}
    /\ UNCHANGED <<source, tables, received, alerting, blind>>

\* Mutant: a change that cannot be built is skipped without an error.
MutantSkipFailedBuild ==
    /\ "build" \in PipelineFaults
    /\ AtChange
    /\ Audited(binlog[tx][row])
    /\ row' = row + 1
    /\ UNCHANGED <<bvars, source, tables, received, tx, alerting, phistory>>

BuildRecordFails ==
    /\ "build" \in PipelineFaults
    /\ AtChange
    /\ Audited(binlog[tx][row])
    /\ Abandon
    /\ UNCHANGED bvars

AddRecordFails ==
    /\ tx # 0
    /\ TakeError
    /\ Abandon

\* Run's select takes ctx.Done.
StopRun ==
    /\ tx = 0
    /\ Close
    /\ UNCHANGED pvars

\* What the other goroutines and a close in progress do.
BatcherStep ==
    /\ TimerFire \/ Enter("run") \/ Enter("timer") \/ CloseStep \/ CancelCtx
    /\ UNCHANGED pvars

AlertsOn(t) == {a \in alerts : binlog[a[1]][a[2]].table = t}

\* Mutant: a table that had an alert once is silent for ever.
MutantNeverExpires(t) ==
    /\ t \in cooldown
    /\ alerts' = alerts \ AlertsOn(t)
    /\ UNCHANGED <<bvars, source, tables, progress, cooldown, phistory>>

CooldownExpires(t) ==
    /\ t \in cooldown
    /\ cooldown' = cooldown \ {t}
    /\ alerts' = alerts \ AlertsOn(t)
    /\ UNCHANGED <<bvars, source, tables, progress, phistory>>

(***************************************************************************)
(* The daemon process.                                                     *)
(***************************************************************************)

ProcessEnds ==
    /\ Crash \/ Exit
    /\ tx' = 0 /\ row' = 0 /\ received' = 0
    /\ cooldown' = {} /\ alerts' = {}
    /\ UNCHANGED <<source, tables, phistory>>

\* Mutant: the checkpoint query sorts the wrong way.
MutantOldestCheckpoint ==
    IF DOMAIN auditBatches = {} THEN NoPosition
    ELSE LET first == CHOOSE b \in DOMAIN auditBatches :
                        \A c \in DOMAIN auditBatches : b <= c
         IN  auditBatches[first].pos

\* GetLatestCheckpoint: the position of the batch closed last, none at first.
\* An empty position makes the server start with its oldest binlog file.
LatestCheckpoint ==
    IF DOMAIN auditBatches = {} THEN NoPosition
    ELSE LET last == CHOOSE b \in DOMAIN auditBatches :
                        \A c \in DOMAIN auditBatches : c <= b
         IN  auditBatches[last].pos

\* Mutant: main forgets ResumeFrom.
MutantNoResume(loaded) ==
    /\ loaded = Table \/ "configload" \in PipelineFaults
    /\ NewBatcher
    /\ received' = 0
    /\ tables' = [t \in Table |-> IF t \in loaded THEN mysqlConfig[t] ELSE "off"]
    /\ blind' = (blind \/ loaded # Table)
    /\ UNCHANGED <<source, tx, row, alerting, errored>>

\* main: checkpoint, configuration, batcher, stream.  A LoadFromDB that
\* fails or whose result set breaks off leaves some tables out of scope and
\* the daemon goes on.
StartDaemon(loaded) ==
    /\ loaded = Table \/ "configload" \in PipelineFaults
    /\ NewBatcher
    /\ received' = LatestCheckpoint
    /\ tables' = [t \in Table |-> IF t \in loaded THEN mysqlConfig[t] ELSE "off"]
    /\ blind' = (blind \/ loaded # Table)
    /\ UNCHANGED <<source, tx, row, alerting, errored>>

ProcessTransactionStep ==
    \/ ReceiveTransaction \/ SkipChange \/ RecordChange
    \/ FinishTransaction \/ BuildRecordFails \/ AddRecordFails

Next ==
    \/ \E txn \in Transactions : SourceCommit(txn)
    \/ ProcessTransactionStep
    \/ StopRun
    \/ BatcherStep
    \/ \E t \in Table : CooldownExpires(t)
    \/ ProcessEnds
    \/ \E loaded \in SUBSET Table : StartDaemon(loaded)

PSpec == PInit /\ [][Next]_vars

\* As in Batcher, and the pipeline's loop keeps running.
PFairSpec ==
    /\ PSpec
    /\ WF_vars(ProcessTransactionStep)
    /\ WF_vars(StopRun)
    /\ WF_vars(TimerFire /\ UNCHANGED pvars)
    /\ WF_vars(Enter("run") /\ UNCHANGED pvars)
    /\ SF_vars(Enter("timer") /\ UNCHANGED pvars)
    /\ WF_vars(CloseStep /\ UNCHANGED pvars)

(***************************************************************************)
(* Safety.                                                                 *)
(***************************************************************************)

\* Everything recorded, durably or in the open batch.
Trail == auditRecords \cup {records[i] : i \in DOMAIN records}

Before(r, s) == r.batch < s.batch \/ (r.batch = s.batch /\ r.leaf < s.leaf)
CommittedBefore(c, d) == c.tx < d.tx \/ (c.tx = d.tx /\ c.row < d.row)

\* The trail lists changes in commit order and no change twice, over any
\* number of failed closes, crashes and resumed streams.
RecordedInCommitOrder ==
    \A r, s \in Trail : Before(r, s) => CommittedBefore(r.change, s.change)

\* Transactions this daemon process is done with; once it has ended, those
\* the next one will not read again.
Passed == IF ~ up THEN 1..LatestCheckpoint
          ELSE IF tx = 0 THEN 1..received ELSE 1..(received - 1)

\* The rows of a transaction on tables that were never out of scope.
SteadyTables ==
    {t \in Table : /\ InitConfig[t] # "off"
                   /\ \A txn \in Transactions : Reconfigured(InitConfig, txn)[t] # "off"}

DueRows(i) == {k \in DOMAIN binlog[i] : /\ binlog[i][k].kind = "row"
                                        /\ binlog[i][k].table \in SteadyTables}

Recorded(i, k) == \E r \in Trail : r.change.tx = i /\ r.change.row = k

\* Row k of transaction i is in the trail, ProcessTransaction returned an error
\* for i, or a batch was closed at the position of i.
Accounted(i, k) ==
    \/ Recorded(i, k)
    \/ i \in errored
    \/ \E b \in DOMAIN auditBatches : auditBatches[b].pos = i

\* A row is missing from the trail only if its transaction is one a batch
\* was closed in the middle of, or one ProcessTransaction gave up on: no
\* transaction is skipped whole without an error, at no restart.
GapsAreInsideTransactions ==
    ~ blind => \A i \in Passed : \A k \in DueRows(i) : Accounted(i, k)

\* The position a restart resumes from never moves back.
ResumeNeverMovesBack == [][LatestCheckpoint' >= LatestCheckpoint]_vars

\* No change nobody is on record for enters the trail of a strict table untold:
\* this process has dispatched an alert on the table for that change, or for
\* an earlier one less than a cooldown before it.  Alerts are suppressed for
\* that long and no longer, and never on account of another process.
UnattributedIsAlerted ==
    [][\A r \in Trail' \ Trail : Unattributed(r.change.actor) =>
          \E a \in alerts' :
              /\ binlog[a[1]][a[2]].table = binlog[r.change.tx][r.change.row].table
              /\ a[1] < r.change.tx \/ (a[1] = r.change.tx /\ a[2] <= r.change.row)]_vars

(***************************************************************************)
(* The inductive invariant behind RecordedInCommitOrder: the persisted     *)
(* positions grow with the batches, and everything recorded lies before    *)
(* the change the loop is at.                                              *)
(***************************************************************************)

LoopPosition == tx # 0 => up /\ tx = received /\ row >= 1

ClosingIsNonEmpty == step # "none" => records # <<>>

\* Batch ids grow with time, so the batch closed last is the largest one.
BatchesOrdered ==
    /\ \A b \in DOMAIN auditBatches : b <= batchID
    /\ DOMAIN auditBatches # {} =>
            \E b \in DOMAIN auditBatches : \A c \in DOMAIN auditBatches : c <= b

PositionsOrdered ==
    \A b, c \in DOMAIN auditBatches : b <= c => auditBatches[b].pos <= auditBatches[c].pos

\* The stream is never behind a persisted position, and the next batch will
\* not be either.
StreamIsAhead ==
    /\ lastPosition <= received
    /\ ~ up => lastPosition = NoPosition
    /\ \A b \in DOMAIN auditBatches :
            /\ auditBatches[b].pos <= Len(binlog)
            /\ up => auditBatches[b].pos <= received
            /\ records # <<>> => auditBatches[b].pos <= lastPosition

\* A batch's position is not before any of its records.
PositionCoversRecords ==
    /\ \A r \in auditRecords : r.change.tx <= auditBatches[r.batch].pos
    /\ \A i \in 1..Len(records) : records[i].change.tx <= lastPosition

TrailIsBehind ==
    up => \A r \in Trail : /\ r.change.tx <= received
                           /\ r.change.tx = tx => r.change.row < row

\* A batch that is persisted and still open is a prefix of the buffer.
OpenBatchIsPrefix ==
    up /\ batchID \in DOMAIN auditBatches =>
        LET root == auditBatches[batchID].root
        IN  Len(root) <= Len(records) /\ \A i \in 1..Len(root) : root[i] = records[i]

PIndInv ==
    /\ IndInv /\ PTypeOK /\ LoopPosition /\ ClosingIsNonEmpty
    /\ BatchesOrdered /\ PositionsOrdered /\ StreamIsAhead
    /\ PositionCoversRecords /\ TrailIsBehind /\ OpenBatchIsPrefix
    /\ RecordedInCommitOrder

(***************************************************************************)
(* What GapsAreInsideTransactions needs beside it: steady tables are in    *)
(* scope, the rows the loop has gone by are accounted for, and what a      *)
(* crash takes out of the buffer does not lie before the position the next *)
(* process resumes from.                                                   *)
(***************************************************************************)

SteadyIsInScope ==
    \A t \in SteadyTables : mysqlConfig[t] # "off" /\ (~ blind => tables[t] # "off")

LoopIsAccounted ==
    ~ blind /\ tx # 0 => \A k \in DueRows(tx) : k < row => Accounted(tx, k)

BufferIsAhead ==
    \A i \in 1..Len(records) :
        \/ records[i] \in auditRecords
        \/ \A b \in DOMAIN auditBatches : auditBatches[b].pos <= records[i].change.tx

GapInv == SteadyIsInScope /\ LoopIsAccounted /\ BufferIsAhead /\ GapsAreInsideTransactions

(***************************************************************************)
(* What UnattributedIsAlerted needs: a table in its cooldown had an alert, *)
(* and not for a change the stream has yet to come to.                     *)
(***************************************************************************)

AlertsAreCommitted == \A a \in alerts : a[1] <= Len(binlog)

CooldownWasAlerted ==
    \A t \in cooldown : up /\ \E a \in alerts :
        /\ binlog[a[1]][a[2]].table = t
        /\ a[1] <= received
        /\ a[1] = tx => a[2] < row

AlertInv == AlertsAreCommitted /\ CooldownWasAlerted

\* The transactions behind which the stream stands, or will be resumed.
Followed == SubSeq(binlog, 1, IF up THEN received ELSE LatestCheckpoint)

PS == INSTANCE ChangeSource WITH committed <- binlog, handed <- Followed

\* The daemon asks of its source only what ChangeSource promises: the next
\* transaction, or to be resumed behind one it has had, at every restart.
RunsOnChangeSource == PS!SourceSpec

(***************************************************************************)
(* Liveness, without faults.                                               *)
(***************************************************************************)

\* Every committed row of a table in scope ends up in a sealed batch,
\* unless a daemon was asked to stop first.
CommittedIsSealed ==
    \A i \in 1..MaxTxs, k \in 1..MaxRows :
        (i <= Len(binlog) /\ k \in DueRows(i)) ~>
            \/ ctx = "done" \/ halted # {}
            \/ \E r \in auditRecords : /\ r.change.tx = i /\ r.change.row = k
                                       /\ r.batch \in DOMAIN checkpoints

(***************************************************************************)
(* What the documents promise and the code does not do.                    *)
(***************************************************************************)

\* No row of a transaction the checkpoint lies behind is missing from the
\* trail, the one in progress excepted: a restart would not read it again.
NothingSkipped ==
    ~ blind =>
        \A i \in (1..LatestCheckpoint) \ {tx} : \A k \in DueRows(i) : Recorded(i, k)

(***************************************************************************)
(* Where it does hold: if no transaction has two rows of ordinary tables   *)
(* and BuildRecord never fails.  A batch then has the position of a        *)
(* transaction whose only row is in it, so what a crash takes out of the   *)
(* buffer is read again.                                                   *)
(***************************************************************************)

OneRowEach ==
    \A txn \in Transactions : \A k, l \in DOMAIN txn :
        txn[k].kind = "row" /\ txn[l].kind = "row" => k = l

RowsAreRecorded ==
    \A r \in Trail : /\ r.change.row \in DOMAIN binlog[r.change.tx]
                     /\ binlog[r.change.tx][r.change.row].kind = "row"

EndsAtPosition ==
    /\ \A b \in DOMAIN auditBatches :
            \E r \in auditRecords : r.change.tx = auditBatches[b].pos
    /\ records # <<>> => \E i \in 1..Len(records) : records[i].change.tx = lastPosition

\* While a call of AddRecord has not returned, its row is in the trail.
CallIsRecorded ==
    /\ holder = "run" => call \in {"closing", "shutdown"}
    /\ tx # 0 /\ call # "ready" => Recorded(tx, row - 1)

LoopIsRecorded == ~ blind /\ tx # 0 => \A k \in DueRows(tx) : k < row => Recorded(tx, k)

PassedIsRecorded == ~ blind => \A i \in Passed : \A k \in DueRows(i) : Recorded(i, k)

OneRowInv ==
    /\ RowsAreRecorded /\ EndsAtPosition /\ CallIsRecorded
    /\ LoopIsRecorded /\ PassedIsRecorded
=============================================================================
