----------------------------- MODULE Bootstrap -----------------------------
(***************************************************************************)
(* The bootstrap of newly registered tables (internal/bootstrap) in the    *)
(* life of the daemon (cmd/daemon): read the checkpoint, load the          *)
(* registered tables, snapshot those not bootstrapped yet, then stream     *)
(* from the checkpoint that was read first.  The Run goroutine of module   *)
(* Batcher is here the main goroutine of the daemon.                       *)
(*                                                                         *)
(* The source is a sequence of writes, each inserting one row into one     *)
(* table; a binlog position is the number of writes before it.  The first  *)
(* Expired writes are rows whose binlog files are gone.                    *)
(***************************************************************************)
EXTENDS Batcher

CONSTANTS
    BootPosition,   \* the position {bootstrap, 0} of a snapshot's records
    Expired,        \* writes that are older than the oldest binlog file
    MaxWrites,      \* bound: writes of the source
    BootFaults      \* a read, a result set, a status update or LoadFromDB fails

ASSUME BootstrapAssumption ==
    /\ MaxWrites \in Nat /\ Expired \in 0..MaxWrites
    /\ BootFaults \subseteq {"read", "truncated", "status", "configload"}
    /\ NoPosition = 0 /\ BootPosition \notin Nat
    /\ Position = (1..MaxWrites) \cup {BootPosition}
    /\ Change = [write : 1..MaxWrites, origin : {"live", "bootstrap"}]

VARIABLES
    writes,         \* the source: the table of every row written so far
    status,         \* _audit_config.bootstrap_status, "none" if not registered
    scope,          \* config.Manager.tables, loaded at the start
    pending,        \* tables main's loop has still to bootstrap
    table, bstep,   \* BootstrapTable: its argument and how far it is
    todo,           \* rows of its result set not recorded yet
    resume,         \* lastFile and lastPos of main
    received,       \* writes taken from the stream, NoStream before it starts
    alerted,        \* history: tables a bootstrap_run_failure was raised for
    image,          \* history: the rows in the snapshot of a table
    cut,            \* history: tables whose result set broke off
    missed          \* history: complete tables a start did not load

mysql   == <<writes, status>>
running == <<scope, pending, table, bstep, todo, resume, received>>
notes   == <<alerted, image, cut, missed>>
bootvars == <<mysql, running, notes>>
allvars == <<bvars, bootvars>>

RowsOf(t) == {w \in 1..Len(writes) : writes[w] = t}

NoStream == 0

BootTypeOK ==
    /\ TypeOK
    /\ writes \in Seq(Table) /\ Len(writes) <= MaxWrites
    /\ status \in [Table -> {"none", "not_started", "in_progress", "complete"}]
    /\ scope \subseteq Table /\ pending \subseteq scope
    /\ table \in scope \cup {NoTable}
    /\ bstep \in {"idle", "begin", "rows", "complete", "stream"}
    /\ todo \subseteq 1..MaxWrites
    /\ resume \in Position \cup {NoPosition}
    /\ received \in 0..MaxWrites
    /\ alerted \subseteq Table
    /\ image \in [Table -> SUBSET (1..MaxWrites)]
    /\ cut \subseteq Table /\ missed \subseteq Table

Registered == {t \in Table : status[t] # "none"}
NotStarted == {t \in Table : status[t] = "not_started"}
Complete   == {t \in Table : status[t] = "complete"}

\* A daemon that has loaded its configuration and finds no checkpoint.
BootInit ==
    /\ Init
    /\ writes \in [1..Expired -> Table]
    /\ status \in [Table -> {"none", "not_started"}]
    /\ scope = Registered /\ pending = NotStarted
    /\ table = NoTable /\ bstep = "idle" /\ todo = {}
    /\ resume = NoPosition /\ received = NoStream
    /\ alerted = {} /\ image = [t \in Table |-> {}]
    /\ cut = {} /\ missed = {}

(***************************************************************************)
(* The source.                                                             *)
(***************************************************************************)

Write(t) ==
    /\ Len(writes) < MaxWrites
    /\ writes' = Append(writes, t)
    /\ UNCHANGED <<bvars, status, running, notes>>

\* An operator inserts the table into _audit_config.
Register(t) ==
    /\ status[t] = "none"
    /\ status' = [status EXCEPT ![t] = "not_started"]
    /\ UNCHANGED <<bvars, writes, running, notes>>

(***************************************************************************)
(* BootstrapTable.                                                         *)
(***************************************************************************)

\* BootstrapTable returns, and main's loop goes on with the next table.
Leave ==
    /\ table' = NoTable /\ bstep' = "idle" /\ todo' = {}
    /\ UNCHANGED <<scope, pending, resume, received>>

ReportFailure ==
    /\ alerted' = alerted \cup {table}
    /\ UNCHANGED <<image, cut, missed>>

TakePending(t) ==
    /\ up /\ call = "ready" /\ bstep = "idle" /\ t \in pending
    /\ pending' = pending \ {t}
    /\ UNCHANGED <<bvars, writes, scope, todo, resume, received, notes>>

MarkInProgress(t) ==
    /\ TakePending(t)
    /\ status' = [status EXCEPT ![t] = "in_progress"]
    /\ table' = t /\ bstep' = "begin"

\* The update fails, or its answer is lost.
MarkInProgressFails(t) ==
    /\ "status" \in BootFaults
    /\ TakePending(t)
    /\ status' \in {status, [status EXCEPT ![t] = "in_progress"]}
    /\ UNCHANGED <<table, bstep>>

\* The first read of the REPEATABLE READ transaction fixes the rows.
OpenSnapshot ==
    /\ bstep = "begin"
    /\ SetBootstrapMode(table)
    /\ bstep' = "rows"
    /\ todo' = RowsOf(table)
    /\ image' = [image EXCEPT ![table] = RowsOf(table)]
    /\ UNCHANGED <<mysql, scope, pending, table, resume, received, alerted, cut, missed>>

\* BeginTx, the query, Scan or BuildRecord fails: bootstrap mode and the
\* records in the buffer stay.
ReadFails ==
    /\ up /\ call = "ready" /\ "read" \in BootFaults
    /\ bstep = "begin" \/ (bstep = "rows" /\ todo # {})
    /\ ReportFailure /\ Leave
    /\ UNCHANGED <<bvars, mysql>>

\* The query asks for no order.
RecordRow(w) ==
    /\ bstep = "rows" /\ w \in todo
    /\ AddRecord([write |-> w, origin |-> "bootstrap"], BootPosition)
    /\ todo' = todo \ {w}
    /\ UNCHANGED <<mysql, scope, pending, table, bstep, resume, received, notes>>

\* AddRecord or Flush returns the error of a close.
CloseFailed ==
    /\ table # NoTable
    /\ TakeError
    /\ ReportFailure /\ Leave
    /\ UNCHANGED mysql

\* rows.Next returns false at the end, and where the connection breaks.
FlushSnapshot ==
    /\ bstep = "rows"
    /\ todo = {} \/ "truncated" \in BootFaults
    /\ Flush
    /\ bstep' = "complete" /\ todo' = {}
    /\ cut' = IF todo = {} THEN cut ELSE cut \cup {table}
    /\ UNCHANGED <<mysql, scope, pending, table, resume, received, alerted, image, missed>>

\* Mutant: the status is updated before the flush has returned.
MutantCompleteEarly ==
    /\ up /\ bstep = "complete"
    /\ status' = [status EXCEPT ![table] = "complete"]
    /\ Leave
    /\ UNCHANGED <<bvars, writes, notes>>

\* Mutant: the status update is forgotten.
MutantForgetStatus ==
    /\ up /\ call = "ready" /\ bstep = "complete"
    /\ Leave
    /\ UNCHANGED <<bvars, mysql, notes>>

MarkComplete ==
    /\ up /\ call = "ready" /\ bstep = "complete"
    /\ status' = [status EXCEPT ![table] = "complete"]
    /\ Leave
    /\ UNCHANGED <<bvars, writes, notes>>

MarkCompleteFails ==
    /\ up /\ call = "ready" /\ bstep = "complete" /\ "status" \in BootFaults
    /\ status' \in {status, [status EXCEPT ![table] = "complete"]}
    /\ Leave
    /\ UNCHANGED <<bvars, writes, notes>>

(***************************************************************************)
(* The stream, as far as the bootstrap depends on it.                      *)
(***************************************************************************)

\* Mutant: without a position the stream starts at the end of the log.
MutantSeekEnd(pos) == IF pos \in {NoPosition, BootPosition} THEN Len(writes) ELSE pos

\* Mutant: the event at the position is read again.
MutantReadAgain(pos) == IF pos \in {NoPosition, BootPosition} THEN Expired ELSE pos - 1

\* ResumeFrom and Stream: without a file, or at offset 0, the server starts
\* with its oldest binlog file.
StreamFrom(pos) == IF pos \in {NoPosition, BootPosition} THEN Expired ELSE pos

StartStream ==
    /\ up /\ call = "ready" /\ bstep = "idle" /\ pending = {}
    /\ bstep' = "stream"
    /\ received' = StreamFrom(resume)
    /\ UNCHANGED <<bvars, mysql, scope, pending, table, todo, resume, notes>>

AtWrite == up /\ call = "ready" /\ bstep = "stream" /\ received < Len(writes)

RecordWrite ==
    /\ AtWrite /\ writes[received + 1] \in scope
    /\ AddRecord([write |-> received + 1, origin |-> "live"], received + 1)
    /\ received' = received + 1
    /\ UNCHANGED <<mysql, scope, pending, table, bstep, todo, resume, notes>>

SkipWrite ==
    /\ AtWrite /\ writes[received + 1] \notin scope
    /\ received' = received + 1
    /\ UNCHANGED <<bvars, mysql, scope, pending, table, bstep, todo, resume, notes>>

\* Run logs the error of a close and goes on.
WriteFails ==
    /\ bstep = "stream"
    /\ TakeError
    /\ UNCHANGED bootvars

\* The signal handler is installed after the bootstraps: before that a
\* SIGTERM ends the process like any other crash.
Shutdown ==
    /\ bstep = "stream"
    /\ CancelCtx \/ Close
    /\ UNCHANGED bootvars

BatcherStep ==
    /\ TimerFire \/ Enter("run") \/ Enter("timer") \/ CloseStep
    /\ UNCHANGED bootvars

(***************************************************************************)
(* The process.                                                            *)
(***************************************************************************)

ProcessEnds ==
    /\ Crash \/ Exit
    /\ scope' = {} /\ pending' = {} /\ table' = NoTable /\ bstep' = "idle"
    /\ todo' = {} /\ resume' = NoPosition /\ received' = NoStream
    /\ UNCHANGED <<mysql, notes>>

\* GetLatestCheckpoint, whatever kind of batch was closed last.
LatestCheckpoint ==
    IF DOMAIN auditBatches = {} THEN NoPosition
    ELSE LET last == CHOOSE b \in DOMAIN auditBatches :
                        \A c \in DOMAIN auditBatches : c <= b
         IN  auditBatches[last].pos

\* main only warns when LoadFromDB fails, and does not notice that its result
\* set breaks off: it goes on with the tables it has.
StartDaemon(loaded) ==
    /\ loaded = Table \/ "configload" \in BootFaults
    /\ NewBatcher
    /\ resume' = LatestCheckpoint
    /\ scope' = Registered \cap loaded /\ pending' = NotStarted \cap loaded
    /\ missed' = missed \cup (Complete \ loaded)
    /\ UNCHANGED <<mysql, table, bstep, todo, received, alerted, image, cut>>

Restart == \E loaded \in SUBSET Table : StartDaemon(loaded)

MainStep ==
    \/ \E t \in Table : MarkInProgress(t) \/ MarkInProgressFails(t)
    \/ \E w \in todo : RecordRow(w)
    \/ OpenSnapshot \/ ReadFails \/ CloseFailed \/ FlushSnapshot
    \/ MarkComplete \/ MarkCompleteFails
    \/ StartStream \/ RecordWrite \/ SkipWrite \/ WriteFails

BootNext ==
    \/ \E t \in Table : Write(t) \/ Register(t)
    \/ MainStep
    \/ Shutdown
    \/ BatcherStep
    \/ ProcessEnds
    \/ Restart

BootSpec == BootInit /\ [][BootNext]_allvars

\* As in Batcher; a supervisor starts a daemon that has ended again.
BootFairSpec ==
    /\ BootSpec
    /\ WF_allvars(MainStep)
    /\ WF_allvars(Restart)
    /\ WF_allvars(TimerFire /\ UNCHANGED bootvars)
    /\ WF_allvars(Enter("run") /\ UNCHANGED bootvars)
    /\ SF_allvars(Enter("timer") /\ UNCHANGED bootvars)
    /\ WF_allvars(CloseStep /\ UNCHANGED bootvars)

(***************************************************************************)
(* Safety.                                                                 *)
(***************************************************************************)

Sealed(w, o) == \E r \in auditRecords : /\ r.change = [write |-> w, origin |-> o]
                                        /\ r.batch \in DOMAIN checkpoints

\* "complete" is a promise to rely on: all rows of the snapshot are in sealed
\* batches, whichever close failed, whichever goroutine closed.  Only a result
\* set that broke off, which nobody checks, is taken for a whole one.
CompleteIsSealed ==
    \A t \in Complete \ cut : \A w \in image[t] : Sealed(w, "bootstrap")

Trail == auditRecords \cup {records[i] : i \in DOMAIN records}

\* Snapshot and stream leave no hole: once a table is bootstrapped, each of
\* its rows the stream has passed is in the trail, by one or the other,
\* however often the daemon died and wherever it resumed.  The exceptions are
\* a snapshot whose result set broke off, and the tables a start did not load:
\* the stream passes their rows unrecorded.
CompleteIsCaptured ==
    up /\ bstep = "stream" =>
        \A t \in Complete \ (cut \cup missed) :
            \A w \in RowsOf(t) : w <= received => \E r \in Trail : r.change.write = w

\* The bootstrap mark of a sealed batch can be trusted: its records are rows
\* of the snapshot of the table it names.  A timer or a full buffer that closes
\* in the middle of a snapshot only leaves later rows unmarked.  The mark lies
\* where the mode outlives its snapshot, and then the snapshot was empty or
\* broke off (a close of an empty buffer does not reset the mode) or an alert
\* was raised.
MarkedIsSnapshot ==
    \A r \in auditRecords :
        LET t == auditBatches[r.batch].boot
            own == writes[r.change.write]
        IN  t # NoTable =>
                \/ r.change.origin = "bootstrap" /\ r.change.write \in image[t]
                \/ image[t] = {} \/ t \in cut \/ t \in alerted \/ own \in alerted

(***************************************************************************)
(* The inductive invariant behind CompleteIsSealed: while BootstrapTable   *)
(* runs, each row of its snapshot is still to be recorded, in the buffer,  *)
(* or sealed.                                                              *)
(***************************************************************************)

RunnerState ==
    /\ bstep \in {"begin", "rows", "complete"} <=> table # NoTable
    /\ table # NoTable => up /\ status[table] = "in_progress"

Buffered(w) == \E i \in 1..Len(records) :
                    records[i].change = [write |-> w, origin |-> "bootstrap"]

SnapshotKept ==
    /\ bstep \in {"rows", "complete"} =>
            \/ table \in cut
            \/ \A w \in image[table] : w \in todo \/ Buffered(w) \/ Sealed(w, "bootstrap")
    /\ bstep = "complete" => todo = {} /\ (call = "ready" => records = <<>>)

\* Batch ids grow with time, so the batch closed last is the largest one.
BatchesOrdered ==
    /\ \A b \in DOMAIN auditBatches : b <= batchID
    /\ DOMAIN auditBatches # {} =>
            \E b \in DOMAIN auditBatches : \A c \in DOMAIN auditBatches : c <= b

BootCore == IndInv /\ BootTypeOK /\ BatchesOrdered /\ RunnerState

BootIndInv == BootCore /\ SnapshotKept /\ CompleteIsSealed

(***************************************************************************)
(* What MarkedIsSnapshot needs beside it: a table is snapshotted once, and *)
(* what is in the buffer, or the bootstrap mode, belongs to the running    *)
(* snapshot or is left over from one that was reported or was empty.       *)
(***************************************************************************)

PendingIsNotStarted == pending \subseteq NotStarted

Unbegun == {t \in Table : \/ status[t] \in {"none", "not_started"}
                          \/ bstep = "begin" /\ t = table}

UnbegunIsUnmarked ==
    \A t \in Unbegun : /\ image[t] = {} /\ bootstrap # t
                       /\ \A b \in DOMAIN auditBatches : auditBatches[b].boot # t

ImageIsRows ==
    /\ \A t \in Table : image[t] \subseteq RowsOf(t)
    /\ bstep = "rows" => todo \subseteq image[table]

TrailIsWritten == \A r \in Trail : r.change.write <= Len(writes)

OfSnapshot(c, t) == c.origin = "bootstrap" /\ c.write \in image[t]

BufferIsOfSnapshot ==
    bstep # "stream" => \A i \in 1..Len(records) :
        \/ writes[records[i].change.write] \in alerted
        \/ bstep \in {"rows", "complete"} /\ OfSnapshot(records[i].change, table)

ModeIsOfSnapshot ==
    bootstrap # NoTable =>
        \/ image[bootstrap] = {} \/ bootstrap \in cut \/ bootstrap \in alerted
        \/ /\ bstep \in {"rows", "complete"} /\ bootstrap = table
           /\ \A w \in image[table] : w \in todo \/ Buffered(w)

MarkInv ==
    /\ PendingIsNotStarted /\ UnbegunIsUnmarked /\ ImageIsRows /\ TrailIsWritten
    /\ BufferIsOfSnapshot /\ ModeIsOfSnapshot /\ MarkedIsSnapshot

(***************************************************************************)
(* What CompleteIsCaptured needs beside it: the snapshot of a table holds  *)
(* every row that a stream resumed at a persisted position will not bring, *)
(* and a position is persisted together with all rows before it.           *)
(***************************************************************************)

StreamIsUp == bstep = "stream" => up

CompleteIsInScope == up => Complete \subseteq scope \cup missed

Reached(p) == \E b \in DOMAIN auditBatches : auditBatches[b].pos = p

PositionsAreWritten ==
    /\ Expired <= Len(writes) /\ received <= Len(writes)
    /\ \A p \in 1..MaxWrites : Reached(p) => p <= Len(writes)
    /\ resume \in 1..MaxWrites => Reached(resume)
    /\ \/ lastPosition \in {NoPosition, BootPosition}
       \/ bstep = "stream" /\ lastPosition \in 1..received

\* The rows of table t that no later stream brings.
Gone(t) == {w \in RowsOf(t) : w <= Expired \/ \E p \in 1..MaxWrites : w <= p /\ Reached(p)}

SnapshotHoldsGone == bstep \in {"rows", "complete"} => Gone(table) \subseteq image[table]

GoneIsStored ==
    \A t \in Complete \ (cut \cup missed) :
        \A w \in Gone(t) : \E r \in auditRecords : r.change.write = w

CapturedInv ==
    /\ StreamIsUp /\ CompleteIsInScope /\ PositionsAreWritten
    /\ SnapshotHoldsGone /\ GoneIsStored /\ CompleteIsCaptured

(***************************************************************************)
(* Liveness.                                                               *)
(***************************************************************************)

\* A table the daemon finds registered at its start is bootstrapped.
FoundIsBootstrapped == \A t \in Table : t \in pending ~> status[t] = "complete"

\* Every row of a table in scope is sealed, the rows older than the binlog
\* by the snapshot.
RowsAreSealed ==
    \A t \in Table, w \in 1..MaxWrites :
        (t \in scope /\ w \in RowsOf(t)) ~> (Sealed(w, "live") \/ Sealed(w, "bootstrap"))

(***************************************************************************)
(* What the documents promise and the code does not do.                    *)
(***************************************************************************)

\* No row is streamed into the trail twice.
StreamedOnce ==
    \A r, s \in Trail : r.change = s.change /\ r.change.origin = "live" => r = s

(***************************************************************************)
(* Where it does hold.                                                     *)
(***************************************************************************)

\* No row is streamed into the trail twice, over any failed closes, crashes
\* and restarts, until a batch that ends with a snapshot is persisted: its
\* position bootstrap:0 is the only thing that takes a later stream back.
OnlySnapshotsRepeat == ~ Reached(BootPosition) => StreamedOnce

PositionsGrow ==
    \A b, c \in DOMAIN auditBatches : b <= c => auditBatches[b].pos <= auditBatches[c].pos

Live(r) == r.change.origin = "live"

\* A position is not before any streamed row of its batch.
PositionCoversLive ==
    /\ \A r \in auditRecords : Live(r) => r.change.write <= auditBatches[r.batch].pos
    /\ \A i \in 1..Len(records) : Live(records[i]) =>
            /\ bstep = "stream" /\ lastPosition # BootPosition
            /\ records[i].change.write <= lastPosition

\* The stream is, or will be started, behind everything that is persisted,
\* and the next batch will be too.
StreamIsBeyond ==
    /\ resume # BootPosition
    /\ \A b \in DOMAIN auditBatches :
        /\ up => auditBatches[b].pos <= IF bstep = "stream" THEN received ELSE resume
        /\ records # <<>> /\ lastPosition # BootPosition => auditBatches[b].pos <= lastPosition

OnceInv ==
    /\ StreamIsUp /\ PositionsAreWritten /\ ClosingHasRecords
    /\ ~ Reached(BootPosition) =>
            PositionsGrow /\ PositionCoversLive /\ StreamIsBeyond /\ StreamedOnce
=============================================================================
