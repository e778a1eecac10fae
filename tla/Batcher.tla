------------------------------ MODULE Batcher ------------------------------
(***************************************************************************)
(* The batch buffer of auditlogd (internal/batch/batcher.go) with the two  *)
(* stores it writes: the Postgres hot store and the WORM checkpoints.      *)
(*                                                                         *)
(* Two kinds of goroutine use the buffer.  The Run goroutine is the        *)
(* pipeline (or the bootstrap runner, which ends before the pipeline       *)
(* starts): it calls AddRecord, Flush and Close.  The Timer goroutines are *)
(* the callbacks of time.AfterFunc: several may wait for the mutex at once *)
(* because Timer.Stop does not cancel a callback that has already fired.   *)
(* CloseCurrentBatch runs under the mutex but its effects are separate     *)
(* steps: sign, commit to Postgres, write the checkpoint.  Each may fail,  *)
(* and the process may die between any two of them.                        *)
(*                                                                         *)
(* Batch ids are fresh UUIDs, modelled as increasing naturals; closed_at   *)
(* grows with them.  A Merkle root stands for the sequence of leaves it    *)
(* commits to (SHA-256 taken as injective), so a signature over a root is  *)
(* a statement about that sequence.                                        *)
(***************************************************************************)
EXTENDS Naturals, Sequences, FiniteSets

CONSTANTS
    Change,         \* what a record is about: a row change of the source
    Position,       \* binlog positions a caller may pass to AddRecord
    NoPosition,     \* the zero source.Position of a new Batcher
    Table,          \* tables a bootstrap may be running for
    NoTable,        \* "not in bootstrap mode"
    MaxEvents,      \* Config.MaxEvents
    MaxBatches,     \* bound: batches started over all incarnations
    MaxBuffer,      \* bound: records in the buffer (it grows when closes fail)
    MaxCallbacks,   \* bound: fired timer callbacks waiting for the mutex
    Faults          \* which of the fault kinds below may happen

\* Signing, the Postgres write, its acknowledgement, the WORM write and its
\* final chmod may fail; the process may be killed or asked to stop.
FaultKinds == {"sign", "store", "commitlost", "worm", "chmod", "crash", "sigterm"}

ASSUME BatcherAssumption ==
    /\ MaxEvents \in Nat \ {0}
    /\ MaxBatches \in Nat
    /\ MaxBuffer \in Nat
    /\ MaxCallbacks \in Nat
    /\ NoTable \notin Table
    /\ Faults \subseteq FaultKinds

VARIABLES
    up,             \* the process is running
    ctx,            \* the context main passes to Pipeline.Run: "live" or "done"
    batchID,        \* Batcher.currentBatchID
    records,        \* Batcher.records
    lastPosition,   \* Batcher.lastPosition
    bootstrap,      \* Batcher.isBootstrap and bootstrapTable
    timer,          \* Batcher.timer is armed
    callbacks,      \* callbacks that fired and wait for the mutex
    holder,         \* who is inside CloseCurrentBatch: "none", "run", "timer"
    step,           \* how far CloseCurrentBatch is: "none", "sign", "create", "put"
    call,           \* the Run goroutine's last or pending call
    auditBatches,   \* Postgres audit_batches
    auditRecords,   \* Postgres audit_records
    checkpoints,    \* WORM checkpoints/<batch>.json
    accepted,       \* history: records AddRecord took in this incarnation
    failed,         \* history: a close failed since the last one that succeeded
    halted          \* history: batches that were open when a process ended

volatile == <<up, ctx, batchID, records, lastPosition, bootstrap, timer,
              callbacks, holder, step, call>>
durable  == <<auditBatches, auditRecords, checkpoints>>
history  == <<accepted, failed, halted>>
bvars    == <<volatile, durable, history>>

BatchId == Nat
Record == [change : Change, batch : BatchId, leaf : Nat]
BatchRow == [root : Seq(Record),
             pos  : Position \cup {NoPosition},
             boot : Table \cup {NoTable}]

(***************************************************************************)
(* Type invariant.                                                         *)
(***************************************************************************)
TypeOK ==
    /\ up \in BOOLEAN
    /\ ctx \in {"live", "done"}
    /\ batchID \in BatchId
    /\ records \in Seq(Record)
    /\ lastPosition \in Position \cup {NoPosition}
    /\ bootstrap \in Table \cup {NoTable}
    /\ timer \in BOOLEAN
    /\ callbacks \in Nat
    /\ holder \in {"none", "run", "timer"}
    /\ step \in {"none", "sign", "create", "put"}
    /\ call \in {"ready", "failed", "closing", "shutdown", "done"}
    /\ DOMAIN auditBatches \subseteq BatchId
    /\ \A b \in DOMAIN auditBatches : auditBatches[b] \in BatchRow
    /\ auditRecords \subseteq Record
    /\ DOMAIN checkpoints \subseteq BatchId
    /\ \A b \in DOMAIN checkpoints : checkpoints[b] \in BatchRow
    /\ accepted \subseteq Record
    /\ failed \in BOOLEAN
    /\ halted \subseteq BatchId

NoRows == [b \in {} |-> {}]

\* NewBatcher: an empty buffer with a fresh batch id and the timer armed.
Init ==
    /\ up = TRUE /\ ctx = "live"
    /\ batchID = 1
    /\ records = <<>>
    /\ lastPosition = NoPosition
    /\ bootstrap = NoTable
    /\ timer = TRUE /\ callbacks = 0
    /\ holder = "none" /\ step = "none" /\ call = "ready"
    /\ auditBatches = NoRows /\ auditRecords = {} /\ checkpoints = NoRows
    /\ accepted = {} /\ failed = FALSE /\ halted = {}

(***************************************************************************)
(* Calls of the Run goroutine.                                             *)
(***************************************************************************)

\* The Run goroutine is not inside a call, and the mutex is free.
CanCall == up /\ call = "ready" /\ holder = "none"

\* Mutant: the limit is exceeded before the batch is closed.
MutantCloseBeyondLimit == Len(records') > MaxEvents

\* len(b.records) >= b.cfg.MaxEvents, evaluated after the append.
ShouldClose == Len(records') >= MaxEvents

\* AddRecord up to its Unlock.  The close it may go on to is a separate
\* critical section: a timer callback can take the mutex in between.
AddRecord(c, p) ==
    LET rec == [change |-> c, batch |-> batchID, leaf |-> Len(records)]
    IN  /\ CanCall
        /\ Len(records) < MaxBuffer /\ batchID <= MaxBatches
        /\ records' = Append(records, rec)
        /\ lastPosition' = p
        /\ call' = IF ShouldClose THEN "closing" ELSE "ready"
        /\ accepted' = accepted \cup {rec}
        /\ UNCHANGED <<up, ctx, batchID, bootstrap, timer, callbacks, holder,
                       step, durable, failed, halted>>

SetBootstrapMode(t) ==
    /\ CanCall
    /\ bootstrap' = t
    /\ UNCHANGED <<up, ctx, batchID, records, lastPosition, timer, callbacks,
                   holder, step, call, durable, history>>

\* Flush is CloseCurrentBatch under another name.
Flush ==
    /\ CanCall
    /\ call' = "closing"
    /\ UNCHANGED <<up, ctx, batchID, records, lastPosition, bootstrap, timer,
                   callbacks, holder, step, durable, history>>

\* The caller of AddRecord or Flush has taken the error that call returned.
TakeError ==
    /\ up /\ call = "failed"
    /\ call' = "ready"
    /\ UNCHANGED <<up, ctx, batchID, records, lastPosition, bootstrap, timer,
                   callbacks, holder, step, durable, history>>

\* The SIGINT/SIGTERM handler of main cancels the context given to Run.
CancelCtx ==
    /\ up /\ ctx = "live" /\ "sigterm" \in Faults
    /\ ctx' = "done"
    /\ UNCHANGED <<up, batchID, records, lastPosition, bootstrap, timer,
                   callbacks, holder, step, call, durable, history>>

\* Mutant: shutdown stops the timer and leaves the open batch.
MutantCloseWithoutFlush ==
    /\ CanCall /\ ctx = "done"
    /\ timer' = FALSE
    /\ call' = "done"
    /\ UNCHANGED <<up, ctx, batchID, records, lastPosition, bootstrap,
                   callbacks, holder, step, durable, history>>

\* Close: stop the timer, then CloseCurrentBatch with a context of its own.
Close ==
    /\ CanCall /\ ctx = "done"
    /\ timer' = FALSE
    /\ call' = "shutdown"
    /\ UNCHANGED <<up, ctx, batchID, records, lastPosition, bootstrap,
                   callbacks, holder, step, durable, history>>

\* The timer fires: its callback becomes a goroutine waiting for the mutex.
TimerFire ==
    /\ up /\ timer /\ callbacks < MaxCallbacks
    /\ timer' = FALSE
    /\ callbacks' = callbacks + 1
    /\ UNCHANGED <<up, ctx, batchID, records, lastPosition, bootstrap, holder,
                   step, call, durable, history>>

(***************************************************************************)
(* CloseCurrentBatch.                                                      *)
(***************************************************************************)

\* Goroutine w has called CloseCurrentBatch and gets the mutex.
Entering(w) ==
    /\ up /\ holder = "none"
    /\ \/ w = "run"   /\ call \in {"closing", "shutdown"} /\ callbacks' = callbacks
       \/ w = "timer" /\ callbacks > 0 /\ callbacks' = callbacks - 1

\* What the Run goroutine sees when its call returns; a callback drops it.
Returned(w, result) ==
    call' = CASE w = "timer"       -> call
              [] call = "shutdown" -> "done"
              [] OTHER             -> result

\* Mutant: the early return forgets to reset the timer.
MutantNoTimerReset(w) ==
    /\ Entering(w)
    /\ records = <<>>
    /\ Returned(w, "ready")
    /\ UNCHANGED <<up, ctx, batchID, records, lastPosition, bootstrap, timer, holder,
                   step, durable, history>>

\* The early return on an empty buffer: only the timer is reset.
CloseEmpty(w) ==
    /\ Entering(w)
    /\ records = <<>>
    /\ timer' = TRUE
    /\ Returned(w, "ready")
    /\ UNCHANGED <<up, ctx, batchID, records, lastPosition, bootstrap, holder,
                   step, durable, history>>

\* Mutant: an empty batch is closed like any other.
MutantCloseAnything(w) ==
    /\ Entering(w)
    /\ holder' = w
    /\ step' = "sign"
    /\ UNCHANGED <<up, ctx, batchID, records, lastPosition, bootstrap, timer,
                   call, durable, history>>

CloseBegin(w) ==
    /\ Entering(w)
    /\ records # <<>>
    /\ holder' = w
    /\ step' = "sign"
    /\ UNCHANGED <<up, ctx, batchID, records, lastPosition, bootstrap, timer,
                   call, durable, history>>

\* Mutant: a failed close empties the buffer, as a successful one does.
MutantFailureEmptiesBuffer ==
    /\ holder' = "none" /\ step' = "none"
    /\ Returned(holder, "failed")
    /\ failed' = TRUE
    /\ records' = <<>>
    /\ UNCHANGED <<up, ctx, batchID, lastPosition, bootstrap, timer, callbacks,
                   accepted, halted>>

\* Mutant: a failed close gives the buffered records a new batch id.
MutantFailureTakesNewId ==
    /\ holder' = "none" /\ step' = "none"
    /\ Returned(holder, "failed")
    /\ failed' = TRUE
    /\ batchID' = batchID + 1
    /\ records' = [i \in DOMAIN records |-> [records[i] EXCEPT !.batch = batchID + 1]]
    /\ accepted' = {[r EXCEPT !.batch = IF r.batch = batchID THEN batchID + 1 ELSE r.batch]
                        : r \in accepted}
    /\ UNCHANGED <<up, ctx, lastPosition, bootstrap, timer, callbacks, halted>>

\* Every error return of CloseCurrentBatch: the deferred Unlock and nothing
\* else.  Buffer, batch id and timer stay as they are.
CloseFails ==
    /\ holder' = "none" /\ step' = "none"
    /\ Returned(holder, "failed")
    /\ failed' = TRUE
    /\ UNCHANGED <<up, ctx, batchID, records, lastPosition, bootstrap, timer,
                   callbacks, accepted, halted>>

SignOK ==
    /\ up /\ step = "sign"
    /\ step' = "create"
    /\ UNCHANGED <<up, ctx, batchID, records, lastPosition, bootstrap, timer,
                   callbacks, holder, call, durable, history>>

SignFails ==
    /\ up /\ step = "sign" /\ "sign" \in Faults
    /\ CloseFails
    /\ UNCHANGED durable

\* The row and the checkpoint object a close of the current buffer writes.
CurrentRow == [root |-> records, pos |-> lastPosition, boot |-> bootstrap]

With(rows, b, row) == [x \in DOMAIN rows \cup {b} |-> IF x = b THEN row ELSE rows[x]]

\* The AddRecord that closes at MaxEvents passes on the context of Run;
\* the timer and the shutdown use context.Background().
CtxCancelled == holder = "run" /\ call = "closing" /\ ctx = "done"

\* Mutant: the batch row is inserted ON CONFLICT DO NOTHING.
MutantInsertOrIgnore ==
    /\ ~ CtxCancelled
    /\ auditBatches' = IF batchID \in DOMAIN auditBatches THEN auditBatches
                       ELSE With(auditBatches, batchID, CurrentRow)
    /\ auditRecords' = auditRecords \cup {records[i] : i \in DOMAIN records}
    /\ UNCHANGED checkpoints

\* Mutant: the batch row is inserted ON CONFLICT DO UPDATE.
MutantUpsert ==
    /\ ~ CtxCancelled
    /\ auditBatches' = With(auditBatches, batchID, CurrentRow)
    /\ auditRecords' = auditRecords \cup {records[i] : i \in DOMAIN records}
    /\ UNCHANGED checkpoints

\* CreateBatch's SQL transaction commits: audit_batches.id is the primary
\* key, so a second insert of the same batch id never does.
Committed ==
    /\ batchID \notin DOMAIN auditBatches
    /\ ~ CtxCancelled
    /\ auditBatches' = With(auditBatches, batchID, CurrentRow)
    /\ auditRecords' = auditRecords \cup {records[i] : i \in DOMAIN records}
    /\ UNCHANGED checkpoints

CreateBatchOK ==
    /\ up /\ step = "create"
    /\ Committed
    /\ step' = "put"
    /\ UNCHANGED <<up, ctx, batchID, records, lastPosition, bootstrap, timer,
                   callbacks, holder, call, history>>

\* The commit reached the server but its answer did not reach us.
CreateBatchAckLost ==
    /\ up /\ step = "create" /\ "commitlost" \in Faults
    /\ Committed
    /\ CloseFails

CreateBatchFails ==
    /\ up /\ step = "create"
    /\ "store" \in Faults \/ batchID \in DOMAIN auditBatches \/ CtxCancelled
    /\ CloseFails
    /\ UNCHANGED durable

\* writeImmutable up to its rename: an existing object is never replaced.
PutCommitted ==
    /\ batchID \notin DOMAIN checkpoints
    /\ checkpoints' = With(checkpoints, batchID, CurrentRow)
    /\ UNCHANGED <<auditBatches, auditRecords>>

\* Mutant: the bootstrap mode is not reset with the buffer.
MutantModeStays ==
    /\ up /\ step = "put"
    /\ PutCommitted
    /\ batchID' = batchID + 1
    /\ records' = <<>>
    /\ timer' = TRUE
    /\ holder' = "none" /\ step' = "none"
    /\ Returned(holder, "ready")
    /\ failed' = FALSE
    /\ UNCHANGED <<up, ctx, lastPosition, bootstrap, callbacks, accepted, halted>>

\* The checkpoint is written and the buffer is reset for the next batch.
PutCheckpointOK ==
    /\ up /\ step = "put"
    /\ PutCommitted
    /\ batchID' = batchID + 1
    /\ records' = <<>>
    /\ bootstrap' = NoTable
    /\ timer' = TRUE
    /\ holder' = "none" /\ step' = "none"
    /\ Returned(holder, "ready")
    /\ failed' = FALSE
    /\ UNCHANGED <<up, ctx, lastPosition, callbacks, accepted, halted>>

\* The object is in place but the final chmod fails.
PutCheckpointChmodFails ==
    /\ up /\ step = "put" /\ "chmod" \in Faults
    /\ PutCommitted
    /\ CloseFails

PutCheckpointFails ==
    /\ up /\ step = "put"
    /\ "worm" \in Faults \/ batchID \in DOMAIN checkpoints
    /\ CloseFails
    /\ UNCHANGED durable

(***************************************************************************)
(* The process ends and a new one starts.                                  *)
(***************************************************************************)

\* The process is gone: all that was in memory is lost.
Halt ==
    /\ up' = FALSE
    /\ ctx' = "live" /\ records' = <<>> /\ lastPosition' = NoPosition
    /\ bootstrap' = NoTable /\ timer' = FALSE /\ callbacks' = 0
    /\ holder' = "none" /\ step' = "none" /\ call' = "ready"
    /\ accepted' = {} /\ failed' = FALSE
    /\ halted' = halted \cup {batchID}
    /\ UNCHANGED <<batchID, durable>>

Crash == up /\ "crash" \in Faults /\ Halt

\* Run has returned from Close and main returns.
Exit == up /\ call = "done" /\ Halt

NewBatcher ==
    /\ ~ up /\ batchID <= MaxBatches
    /\ up' = TRUE
    /\ batchID' = batchID + 1
    /\ timer' = TRUE
    /\ UNCHANGED <<ctx, records, lastPosition, bootstrap, callbacks, holder,
                   step, call, durable, history>>

\* The steps CloseCurrentBatch takes by itself once it holds the mutex.
CloseStep ==
    \/ SignOK \/ SignFails
    \/ CreateBatchOK \/ CreateBatchAckLost \/ CreateBatchFails
    \/ PutCheckpointOK \/ PutCheckpointChmodFails \/ PutCheckpointFails

Enter(w) == CloseEmpty(w) \/ CloseBegin(w)

BNext ==
    \/ \E c \in Change, p \in Position : AddRecord(c, p)
    \/ \E t \in Table : SetBootstrapMode(t)
    \/ Flush \/ TakeError \/ CancelCtx \/ Close \/ TimerFire
    \/ Enter("run") \/ Enter("timer")
    \/ CloseStep
    \/ Crash \/ Exit \/ NewBatcher

Spec == Init /\ [][BNext]_bvars

(***************************************************************************)
(* Goroutines that can run do run, Go's timers fire, and Run's select      *)
(* takes the ready ctx.Done case in the end.  The caller need not call.    *)
(***************************************************************************)
Fairness ==
    /\ WF_bvars(TimerFire)
    /\ WF_bvars(Enter("run"))
    /\ SF_bvars(Enter("timer"))
    /\ WF_bvars(CloseStep)
    /\ WF_bvars(TakeError)
    /\ WF_bvars(Close)
    /\ WF_bvars(Exit)

FairSpec == Spec /\ Fairness

(***************************************************************************)
(* Where errors come and go: a fallible step that is retried for ever      *)
(* succeeds in the end.                                                    *)
(***************************************************************************)
RecoveringSpec ==
    /\ FairSpec
    /\ SF_bvars(SignOK)
    /\ SF_bvars(CreateBatchOK)
    /\ SF_bvars(PutCheckpointOK)

(***************************************************************************)
(* Safety.                                                                 *)
(***************************************************************************)

\* No accepted record is lost or renumbered while the process lives: it sits
\* at its leaf of the open buffer, or its batch is in Postgres with a root
\* whose leaf at its index is that very record, and the row is stored.
AcceptedIsKept ==
    \A r \in accepted :
        \/ r.batch = batchID /\ r.leaf + 1 \in DOMAIN records /\ records[r.leaf + 1] = r
        \/ /\ r.batch \in DOMAIN auditBatches
           /\ r.leaf + 1 \in DOMAIN auditBatches[r.batch].root
           /\ auditBatches[r.batch].root[r.leaf + 1] = r
           /\ r \in auditRecords

\* Every stored record is the leaf, at its own index, of the root its batch
\* was signed with: verification of a stored record can find its leaf, also
\* after a close that failed half way and buffered more records.
StoredUnderItsRoot ==
    \A r \in auditRecords :
        /\ r.batch \in DOMAIN auditBatches
        /\ r.leaf + 1 \in DOMAIN auditBatches[r.batch].root
        /\ auditBatches[r.batch].root[r.leaf + 1] = r

\* The WORM checkpoint and the Postgres row of a batch state the same root,
\* position and bootstrap mark, whatever failed and was retried in between.
CheckpointAgrees ==
    \A b \in DOMAIN checkpoints :
        b \in DOMAIN auditBatches /\ checkpoints[b] = auditBatches[b]

\* A batch row without its checkpoint is the batch being closed now or the
\* one that was open when a process ended: a process orphans at most one.
UnsealedOnlyAtEnd ==
    \A b \in DOMAIN auditBatches \ DOMAIN checkpoints : b = batchID \/ b \in halted

\* As long as no close failed, a running batcher that is not being shut
\* down has a timer or a callback that will close the open batch.
TimerIsAlive ==
    up /\ ~ failed /\ call \notin {"shutdown", "done"}
        => timer \/ callbacks > 0 \/ holder = "timer"

\* As long as no close failed, the buffer never exceeds MaxEvents.
BufferWithinLimit == ~ failed => Len(records) <= MaxEvents

\* The records of each batch row.
Stored == [b \in DOMAIN auditBatches |-> {r \in auditRecords : r.batch = b}]

AT == INSTANCE AuditTrail WITH trail <- Stored

\* What is in Postgres is an append-only trail: a batch appears at once, with
\* at least one record, and no retry, late callback or restart ever adds to it,
\* changes it or takes it away.
BatcherKeepsTrail == AT!TrailSpec

(***************************************************************************)
(* The inductive invariant behind the safety properties.                   *)
(***************************************************************************)

BufferIndexed ==
    \A i \in 1..Len(records) : records[i].batch = batchID /\ records[i].leaf + 1 = i

\* Between the commit and the checkpoint nobody touches the buffer.
CloseProgress ==
    /\ step = "none" <=> holder = "none"
    /\ step = "put" => /\ batchID \in DOMAIN auditBatches
                       /\ auditBatches[batchID] = CurrentRow
                       /\ \A i \in 1..Len(records) : records[i] \in auditRecords

DownIsEmpty ==
    ~ up => /\ records = <<>> /\ accepted = {}
            /\ batchID \in halted /\ step = "none"

IndInv ==
    /\ TypeOK /\ BufferIndexed /\ CloseProgress /\ DownIsEmpty
    /\ AcceptedIsKept /\ StoredUnderItsRoot /\ CheckpointAgrees /\ UnsealedOnlyAtEnd

\* Nobody closes an empty batch.
ClosingHasRecords == step # "none" => records # <<>>

\* Without a failure the Run goroutine never rests on a full buffer.
BufferHasRoom ==
    ~ failed => /\ Len(records) <= MaxEvents
                /\ call \in {"ready", "failed"} => Len(records) < MaxEvents

(***************************************************************************)
(* Liveness, without faults.                                               *)
(***************************************************************************)

\* Every accepted record ends up in a batch that is in Postgres and has its
\* WORM checkpoint, by count, by timer or by the shutdown's flush.
AcceptedIsSealed ==
    \A b \in 1..(MaxBatches + 1) :
        (\E r \in accepted : r.batch = b) ~> b \in DOMAIN checkpoints

(***************************************************************************)
(* What the documents promise and the code does not do.                    *)
(***************************************************************************)

\* Unless the process ends first, the root of every persisted batch becomes
\* retrievable from the WORM store too once that store works again.  The
\* code retries under the same batch id, which CreateBatch then refuses.
PersistedBatchIsSealed ==
    \A b \in 1..MaxBatches :
        b \in DOMAIN auditBatches ~> b \in DOMAIN checkpoints \cup halted
=============================================================================
