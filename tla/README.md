# A TLA+ model of auditlogd

`auditlogd` is an audit logger for MySQL: it reads the binary log, turns the row
changes of registered tables into audit records, seals them in signed Merkle
batches in Postgres and in a write-once (WORM) directory, and moves old batches
to an archive. The modules here model the write path from the binlog to the
archive and the readers that verify what it wrote, TLC checks them on small
instances, and TLAPS proves the main safety properties for every value of the
constants. `PROJECT.json` lists every run,
mutant, theorem, finding and hazard, and maps each definition to the lines it
models.

## The system

| Component | State | Operations | Talks to |
|---|---|---|---|
| binlog source (`internal/binlog`) | `currentPos`, `inTx`, `currentTx`, a channel of 100 transactions | `ResumeFrom`, `Stream`, `readLoop` | go-mysql; the pipeline by the channel |
| pipeline (`internal/pipeline`) | none of its own | `Run`, `ProcessTransaction` | config, attribution, snapshot, batcher, alerting |
| config manager (`internal/config`) | the registered tables | `LoadFromDB`, `HandleBinlogEvent`, `GetTableConfig` | MySQL, the pipeline |
| attribution, snapshot builder | none | `CorrelateTransaction`, `BuildRecord` | the pipeline, the bootstrap runner |
| batcher (`internal/batch`) | buffer, batch id, position, bootstrap mode, timer | `AddRecord`, `Flush`, `Close`, `CloseCurrentBatch` | signing, hot store, WORM archive, a timer goroutine |
| Merkle tree (`internal/merkle`) | levels of hashes | `BuildTree`, `GenerateProof`, `VerifyProof` | batcher, verifier |
| signing (`internal/signing`, `cmd/keygen`) | one key, its version, the keyfile | `Sign`, `Verify`, `Decrypt`, `GenerateAndSaveKeyfile`, `LoadKeyfile` | daemon, batcher, verifier, API |
| hot store (`internal/store`) | `audit_batches`, `audit_records`, `audit_worm_index` | `CreateBatch`, `GetLatestCheckpoint`, tiering statements, queries | Postgres |
| WORM archive (`internal/archive`) | objects that are never overwritten | `PutCheckpoint`, `PutArchive` | a directory |
| bootstrap runner (`internal/bootstrap`) | `bootstrap_status` in MySQL | `BootstrapTable` | MySQL, batcher |
| tiering job (`internal/tiering`, `cmd/tiering`) | none of its own | `RunOnce` | hot store, archive, alerting |
| alerting (`internal/alerting`) | rate limiter | `Trigger` | webhooks |
| daemon (`cmd/daemon`) | the resume position | start, SIGTERM, exit | all of the above |
| verification (`internal/merkle/verifier.go`, `cmd/verify`) | none | `VerifyRecord`, check of a proof document | hot store and keys; no reader looks into the archive |
| API (`internal/api`) | none | records, histories, roots, verification, with a role check | hot store, keys |

What is hard here: the timer goroutine and the pipeline share the buffer and the
mutex is released between adding a record and closing the batch; closing a batch
is three effects (sign, commit, checkpoint) any of which may fail; the process
may die between any two steps and resumes from what Postgres has; the snapshot
of a table and the stream overlap; overlapping tiering jobs work on one
directory and one database without a lock; a lost answer looks like a failed
statement; a result set that breaks off looks like a short one; a verification is
three queries while batches are purged; what Postgres gives back need not be, byte
for byte, what was hashed; and a keyfile that cannot be unlocked is replaced by a new
key of the same version.

What makes each component correct:

* **batcher**: no accepted record is lost or renumbered; a stored record is
  under the root its batch was signed with; checkpoint and row agree; every
  record is sealed in the end.
* **pipeline and daemon**: the trail is in commit order without duplicates and
  without gaps, over any number of restarts.
* **binlog source**: exactly the committed transactions, whole, in order, each
  with the position behind it.
* **bootstrap**: `complete` means sealed; snapshot and stream leave no hole and
  no duplicate.
* **tiering**: no record is ever out of both stores, but for those a job could not
  copy; archives never change.
* **Merkle tree**: genuine records verify, nothing else does.
* **keys**: the key on file fits every signature until somebody replaces it.
* **verification**: only what was signed is called valid; what is refused or not
  found has a cause that can be named, and a purge racing with a verification never
  means that a batch is gone; lists leave out nothing without a cause.

## The modules

| Module | Models | State and actions |
|---|---|---|
| `Batcher` | `internal/batch`, `CreateBatch`, `writeImmutable` for checkpoints | The `Batcher` fields, the two stores, who is inside `CloseCurrentBatch` and how far it is. One action per operation and per step of a close, each with its failure. |
| `Pipeline` (extends `Batcher`) | `internal/pipeline`, config, attribution, alerting, start and end of the daemon | The source's transactions, the loaded configuration, the transaction and row the loop is at. Adding a record *is* the batcher's `AddRecord`. |
| `Bootstrap` (extends `Batcher`) | `internal/bootstrap`, the loop in `main`, the stream as far as the two overlap | Writes of the source, `bootstrap_status`, the tables a start has loaded, the step of `BootstrapTable`, the resume position. |
| `AuditTrail` | what the system promises its readers: an append-only trail of batches | the sealed records; `Batcher` and `Tiering` implement it (`BatcherKeepsTrail`, `TieringKeepsTrail`) |
| `Tiering` | `internal/tiering`, the statements it uses, `writeImmutable` for archives | Status, hot records, archive objects, index, and per job where it is in `RunOnce` and what it has serialised. |
| `ChangeSource` | `internal/source`: what the pipeline relies on | committed and handed-over transactions; `Binlog` implements it (`ImplementsChangeSource`), and `Pipeline` runs on it (`RunsOnChangeSource`) |
| `Binlog` | `internal/binlog` | Files of events with offsets of limited width, the library's place in them, `readLoop`'s variables, the channel. One action per kind of event. |
| `Keys` | `internal/signing`, key handling of the daemon and `cmd/keygen` | The keys made, the one on file, the one the daemon has. Loading, making, replacing, each with its failure. |
| `Verification` (extends `Tiering`, `Keys`) | `internal/merkle/verifier.go`, the queries of `internal/store`, the handlers of `internal/api`, `cmd/verify` | One request, query by query, to its answer, while batches are sealed and tiered, keys come and go and a row is altered. |
| `Merkle` | `internal/merkle/tree.go` | The loops of `BuildTree`, `GenerateProof` and `VerifyProof`, one step per round. |
| `*Proofs` | | the theorems about the module of that name; `CaptureProofs` has those about what is in the trail of `Pipeline` |
| `MC*` | | constants for TLC |

Abstractions. A Merkle root in `Batcher` stands for its sequence of leaves, and a
signature for a statement about it; `Merkle` looks inside, with SHA-256 as a free
constructor (no collisions, no guessed preimages). Batch ids are fresh UUIDs,
numbered in the order they are drawn; `closed_at` grows with them. In `Pipeline` a
binlog position is the number of transactions before it. What justifies that is
`ChangeSource`: `Binlog` refines it, and so does what `Pipeline` takes from its
stream. On the write path images, request ids and timestamps are left out; of a
context row there is whether it was inserted, whether it has a `user_id`, and its
`actor_type`, which may be empty. An alert counts once it is dispatched: `Trigger`
ignores what its sinks answer.

`Verification` has the parts of a record that its hash depends on. An image is a set
of columns, each with its rank in byte order and its length, which `json.Marshal`
prints in the one order and jsonb in the other (the white space Postgres adds goes
away again: `json.Marshal` compacts a `RawMessage`), and with whether jsonb prints its
value in another way than Go (`1e-7` comes back as `0.0000001`). A timestamp is a
number of nanoseconds, which a timestamptz column rounds to microseconds; rows of
equal time are listed in any order, and in another one for the next page. A hash
stands for what was hashed. Keys are numbers and their versions labels that need not
differ; the fields of a batch are encrypted by the process, and with the key, that
signs it. An altered row has another value, which may be another ciphertext, and keeps
its time, its batch and its leaf index; batch rows are not altered. A document to be
checked has the root and the signature of a batch, or those its writer made with a key
of its own (`OwnKey`); the key it is checked with may come with it. Requests change
nothing and do not depend on each other, so one of them, made at any time, is followed
to its answer.

MySQL and the go-mysql library are external: they are modelled
from what `client.go` relies on, with lost connections, rotations and a streamer
that fails for good. `Bootstrap` takes every registered table as enabled with
`bootstrap_required` set, and a write as the insertion of one row.

In three cases the code goes on with less than it should have: a result set that breaks
off (`rows.Err` is not looked at), a record the tiering job cannot marshal (it raises an
alert and leaves the record out), a configuration that was not loaded (`main` warns). The models take
these steps, and history variables remember what they cost: `skipped` the records a
retention job left out of its copy, `cut` the tables whose snapshot broke off, `missed`
the complete tables a start did not load, `blind` that some start did not load
everything. The properties hold for everything else, so they say how far the damage
goes.

Every module that extends `Batcher` takes the whole handler of the goroutine as
its action: a record is built and added in one action, `AddRecord` leaves the
mutex before it closes (`Enter` is a step of its own), and the steps of the close
interleave with everything else.

## What the runs show

Passing runs:

| Run | Checks |
|---|---|
| `pipeline_faults` | with the shipped source, every fault and late callbacks: the safety properties of the batcher (nothing lost, renumbered or re-signed; checkpoint and row agree), commit order, no whole transaction skipped without an error, an alert for every unattributed change or less than a cooldown before it, the resume position, and that Postgres keeps an `AuditTrail` |
| `pipeline_live` | with a source that names columns, live configuration changes and stops: every accepted record sealed, every committed row in scope sealed |
| `tiering_faults` | two overlapping jobs, every fault: nothing is purged early, nothing is lost or rewritten but what a job left out of its copy, no old batch is stuck without alerts, and Postgres and archive together keep an `AuditTrail` |
| `bootstrap_faults` | every fault: `complete` is sealed unless the snapshot broke off, no hole between snapshot and stream for a table every start has loaded, a batch marked as bootstrap holds rows of that snapshot (`MarkedIsSnapshot`), no row is streamed twice until a snapshot's position is persisted (`OnlySnapshotsRepeat`) |
| `bootstrap_live` | tables found at the start are bootstrapped, rows in scope sealed |
| `binlog` | exactly the transactions passed are delivered; `Binlog` implements `ChangeSource`; everything arrives unless the library gives up or the stream is taken up again beyond the width of an offset |
| `verification` | with queries that fail or break off, a purge between two queries, altered rows, keyfiles lost and replaced, documents with a key of their own: only the signed record is valid, refusals have causes, missing records were tiered, lists are complete but for what a purge or a tie took, the keyfile fits all signatures until it is replaced |
| `merkle` | roots are those of RFC 6962; genuine records verify, others do not |

Runs that end with a violation, each a disagreement between the code and what
its documents say (the quotations are under "findings" in `PROJECT.json`):

| Run | What the code does |
|---|---|
| `batcher_worm_retry` | a failed checkpoint write can never be repaired: the retry meets its own primary key |
| `pipeline_crash_gap` | a batch closed inside a transaction already has the position behind it; a crash skips the rest |
| `tiering_rerun` | a job that died after the rename blocks its batch for ever |
| `bootstrap_restart` | the position `bootstrap:0` restarts the stream at the oldest binlog file: rows are recorded twice |

The passing properties are stated so as to hold beside these and say how far the
damage goes: `GapsAreInsideTransactions` that rows are missing only in
transactions that were cut by a close or ended with an error (a failed close or a
SIGTERM in the middle of a transaction does that too), `OldIsTiered` that a stuck
batch is alerted about, `UnsealedOnlyAtEnd` that a process leaves at most one
batch without its checkpoint, `RejectedHasCause` which genuine records a verifier
refuses, `ListIsComplete` when a history skips rows.

Other consequences of the code the models show and no run isolates: a failed
signing arms no new timer; the shipped source names columns `col_0`, `col_1`, ...,
so no change is attributed to a user and no live configuration change is seen; a
broken result set is archived or bootstrapped as if it were complete, and a record
that cannot be marshalled (a `committed_at` beyond the year 9999) is reported, left out
of the archive and purged with the others; of two jobs that both
find an object missing, the later replaces the object of the earlier, with equal
contents but for such records; a start that could not load its configuration only
warns, and the stream passes the rows of the tables it lacks; a row written during a bootstrap can be
recorded by snapshot and stream; a bootstrap left `in_progress` is never taken up,
and a table registered at run time waits for the next start; only the first batch
of a snapshot is marked as bootstrap, and an empty snapshot, or one that failed,
leaves its mark for live records; a streamer that failed for good is asked for ever.

For the readers:

* A record whose image jsonb prints in another order, or with a number in another way,
  or whose time has nanoseconds (those of a bootstrap do), is refused although nobody touched it, and so are all
  others of its batch, since the tree is built from what was read back. The
  acceptance criterion in `specs/audit-logger/06-tamper-evidence-signing.md:112`
  reads "Verifying a genuine record against its batch succeeds."
* A new key leaves nothing of the old one: `HistoricalPublicKeys` is never written,
  while `specs/audit-logger/04-attribution-access-control.md:42` has rotation "keep
  the old public key around (versioned) so historical signatures remain verifiable".
  A daemon that cannot unlock its keyfile rotates in this way by itself, without a new
  version.
* An API server that cannot load the keyfile answers with a key it made up and refuses
  everything.
* `PublicVerifyProofHandler` and `verify -proof-file` take root and signature, and if
  it has one the key, from the document. One that its writer signed with a key of its
  own is called valid; that says who wrote it to nobody who does not know the key.
* A field whose ciphertext was altered is shown as it is, like one of another key.
* A client that pages through a history with OFFSET may skip rows while a batch is
  purged, or rows of equal time without any purge (all rows of a transaction have one
  `committed_at`, in whole seconds), and records that were tiered are not found at all.
* Beyond 4 GB in one binlog file a restart or a reconnect takes the stream up at the
  wrong place.

### Bounds

* `MaxEvents` 2 (1 in `bootstrap_restart`) with `MaxBuffer` 3 or 4: a batch fills,
  and a buffer grows past its limit after a failed close. `MaxBatches` 2 to 6
  counts batches over all incarnations: at least one is closed before and one
  after a failure or crash. `MaxCallbacks` 2 in `pipeline_faults` and
  `batcher_worm_retry` lets a second callback wait while the first closes; 1 where
  the caller is what matters.
* Two transactions (`MaxTxs`) of up to two or three changes (`MaxRows`): together
  more rows than a batch holds, so that a batch ends inside a transaction, and one
  transaction comes before or after it.
* Two tables where two policies or two bootstraps meet. One expired
  write (`Expired`) is a row only a snapshot can record.
* Two batches, of one and of two records, and two jobs in tiering. One record is left
  out of a copy (`MaxSkipped`): of the batch of two one is lost and one is not, and the
  two jobs' objects differ.
* `Binlog`: two files, two groups of one or two statements, a channel of one place (the code's 100
  differ only in when a send blocks), one lost connection and one restart, so
  that each can fall inside a transaction and on a rotation. `PosLimit` 8, with
  events at 4 to 12: an offset fits, wraps to zero, into the header of the file, or to
  an earlier event. The code's limit is 2^32.
* `Verification`: batches of one, two and one records, of which those of the second
  survive Postgres; a history of three with two of equal time; two keys and, together with them, three things sealed
  (`MaxSealed`), so that batches under two keys and two batches under one key both
  happen; one altered row (two show nothing that one does not: one is enough to refuse
  a batch); pages of one row, the size at which most happens between two of them; one
  retention job, since `tiering_faults` has two.
* `Merkle`: six leaves cover levels of odd length at both inner levels; proofs
  from elsewhere have up to three nodes, the height of that tree.

`CHECK_DEADLOCK FALSE` is set everywhere: the source may stop writing, the bounds
are used up in the end, and a batch, a tree or a job is finished at some point.

### Fairness

Weak fairness for goroutines that run on without waiting for anyone (the loop of
`Run`, `main`, `readLoop`, the steps of a close) and for an armed timer. Strong
fairness for a timer callback entering the mutex: a Go mutex hands itself over
after a waiter has starved for a millisecond. A supervisor restarts a daemon
(`restart: unless-stopped`), and one tiering job is run again and again by its
schedule; another, started by hand, may stop anywhere. The `Recovering` specifications add that a fallible step which is tried
again and again succeeds in the end; that is what makes `batcher_worm_retry` and
`tiering_rerun` say something about the code and not about the faults. No fairness is assumed of the source, of operators, of signals
or of faults.

## What is proved

All constants are arbitrary: limits, numbers of tables, rows, jobs, batches and
leaves, and which faults happen. The assumptions are the `ASSUME`s of the modules.
The type invariants of `Batcher`, `Pipeline`, `Tiering`, `Bootstrap` and
`Verification` are theorems; those of `Batcher` and `Bootstrap` are not listed in a run
besides, and that of `Tiering` is part of `VTypeOK`. Every invariant, every action
property and every refinement a passing run checks is proved, with every fault kind
allowed.

* **`BatcherProofs`**: the invariants of the batcher that `pipeline_faults` checks,
  and the refinement of `AuditTrail`. `IndInv` adds to
  them that leaf indices count through the buffer (`BufferIndexed`), that between
  commit and checkpoint the row and the records in Postgres are those of the buffer
  (`CloseProgress`: without it `PutCheckpointOK` could drop records that were never
  stored), and that a process that is down holds nothing. The refinement needs that a close that
  was begun has records (`ClosingHasRecords`). `TimerStaysAlive` and
  `BufferStaysWithinLimit` are about executions without a failed close.
* **`PipelineProofs`**: commit order without duplicates, a resume position that
  never moves back, and the refinement of `AuditTrail`
  (`DaemonKeepsTrail`), over any number of crashes and restarts. That the batcher's
  theorems hold of the daemon is a lemma: every action of `Pipeline` is one of
  `Batcher` or leaves its variables alone. `PIndInv` says that persisted positions grow with the batches, cover
  their records, and are never ahead of the stream, and that everything recorded
  lies before the row the loop is at; commit order alone says nothing about the
  row that comes next. `OpenBatchIsPrefix` is for the batch that is persisted but
  still open because its answer was lost. `DaemonFollowsSource` is the other half of
  what `Binlog` shows: the daemon asks its source for nothing `ChangeSource` does not
  promise. It maps what was handed over to the transactions before the stream's place
  while the daemon is up, and before the latest checkpoint while it is down; a crash
  and a commit whose answer came late then go back to, or stay at, a position that was
  handed over, because no persisted position is ahead of the stream.
* **`CaptureProofs`**: what is in the trail, on top of `PIndInv`.
  `GapsAreInsideTransactions` needs `GapInv`: rows the loop has left behind are accounted
  for (`LoopIsAccounted`), and no persisted position lies behind the transaction of a
  buffered record that Postgres does not have (`BufferIsAhead`): a crash loses the buffer,
  but the next process begins no later than at the end of the first transaction in it. `UnattributedIsAlerted`, an action property, needs
  `AlertInv`: a table in its cooldown had an alert since this process started and not
  longer than a cooldown ago, for a change before the one the loop is at.
  `SingleRowsNotSkipped` says where the promise that `pipeline_crash_gap` refutes does
  hold: if no transaction has two rows (`OneRowEach`) and records can always be built.
  `OneRowInv` says that the position of a batch then lies behind a transaction whose
  only row is in the batch, so that what a crash takes out of the buffer is read again.
* **`BinlogProofs`**: `DeliveredIsPassed` and the refinement of `ChangeSource`, for any
  groups, number of files, capacity of the channel and width of offsets. `LInv` has three parts. The log
  is whole (`LogInv`): each group begins and ends in one file, the committed
  transactions are what its events commit, and all of that, in the order of their
  positions. Until its place is lost the reader follows it (`ReaderFollows`): it holds the
  rows since the begin event of the group it is inside of, and nothing outside of
  one, so that a commit event delivers what the server committed. And what was delivered is what was passed. The refinement maps the
  committed transactions to what a 32-bit position makes of them, and what is handed
  over to the part from before the place was lost. A restart steps back to a position
  handed over before, and positions of committed transactions differ, so that it
  finds exactly one transaction to go on behind.
* **`TieringProofs`**: the safety properties for any number of overlapping jobs and
  any faults. The invariant says what each job knows at each step; the key is that a
  job which read less than all records, other than those in `skipped`, finds the object
  in place: records leave Postgres only after the object has its name
  (`JobKnows`, `ArchivesComplete`). `TieringRefinesTrail` follows from it: what is
  in Postgres, in the archive or in `skipped` is, for every batch, all of its records
  (`KeptIsWhole`). The part of it that is about where the jobs are (`TCore`) is
  inductive by itself; from it come the types, `PurgedIsIndexed` and `IndexIsSound`
  (the index names no missing object).
* **`BootstrapProofs`**: type correctness (`BootCore`), `CompleteIsSealed`,
  `CompleteIsCaptured` and `MarkedIsSnapshot`, under every fault. That what is in `cut`
  and `missed` stays there is a lemma (`LossesGrow`). `SnapshotKept` follows each row of the snapshot from the
  result set through the buffer into a sealed batch, also where a timer callback
  closes the batch between two rows. `MarkInv`, for `MarkedIsSnapshot`, says that the
  mode fits the buffer: while it is set, the rows of the snapshot are still in the
  result set or in the buffer, so no row of it was sealed before and nothing else is in between; and
  that a table that was never begun has no marked batch. `CapturedInv`, for
  `CompleteIsCaptured`, says that a snapshot holds every row that a stream resumed at a
  persisted position will not bring again, that those rows are stored once the table
  is complete, and that a complete table is in scope or in `missed`
  (`CompleteIsInScope`). `RepeatsNeedSnapshots` says where the promise that `bootstrap_restart`
  refutes does hold, again under every fault: no row is streamed twice until a batch that
  ends with a snapshot is persisted (`OnlySnapshotsRepeat`). `OnceInv`: until then
  positions grow with the batches, a batch's position covers its streamed rows, and the
  stream is, or will be resumed, behind all of them, as is the position the next close
  would write.
* **`VerificationProofs`**: `ValidIsGenuine`, `RejectedHasCause`, `MissingIsTiered`,
  `ListIsComplete`, `VTypeOK` and `SignaturesMatchKeyfile`, for any number of batches, jobs, keys and altered rows and
  any images and times. Result sets may break off, those of a reader and those of a
  retention job. `VIndInv` adds to `TIndInv` what a request knows between its queries
  (`ClientKnows`: the row it read is that of its subject, it was altered by now if
  it does not read as recorded, and the root it will be checked against is signed with
  `signer`) and that a running daemon has the key on file until it
  is replaced (`DaemonHasKeyfile`). `ListInv` is about paging: a row that is owed and not
  seen has a rank, the number of rows listed before it, no smaller than the offset
  (`ListGoesOn`). Ranks of roots only grow, since batches come in at the front and none
  is deleted. In a history the order of rows of equal time changes from page to page,
  so the invariant speaks of the first rank of a row's time (`FirstOfItsTime`), which
  is the same in all orders: if the offset passes it without showing the row, another
  row of that time was shown. Ranks of records shrink only when a later one, or one of
  the same time, is purged, which the history variable `purged` remembers, also of
  records that were sealed after the client began. A page shorter than its size is the
  last: the rows at ranks from the offset on fit in it. That a proof leads to a root only from the signed
  leaf is taken from `MerkleProofs`, as the definition of `ProofLeadsToRoot`.
* **`MerkleProofs`**: for trees of every size, a record verifies with a generated
  proof exactly if it is the one the proof was made for, and no sequence of proof
  nodes of any length leads from an unsigned record to the root. The invariant is
  that of the loops: each level is made from the one below, the proof so far leads
  from the leaf to the node the walk is at, and a check that is at a node of the
  tree began at one. `RootIsMTH`, that the root built level by level is the one RFC 6962
  defines from the top down, needs no induction over trees: it goes along the rounds of
  the loop. `TopIsHashed` says that each node of the top level is the tree hash of the
  leaves below it; a round doubles their number, and the last, lone node of a level is
  that of the leaves that remain. That the recursive function of the definition has a
  solution at all is one of the lemmas.

Only model-checked: liveness (`AcceptedIsSealed`, `CommittedIsSealed`,
`OldIsTiered`, `FoundIsBootstrapped`, `RowsAreSealed`,
`EverythingArrives`), since the prover does not handle fairness. The properties of the
four runs that end with a violation are false, and so not theorems; for two of them,
`NothingSkipped` and `StreamedOnce`, the conditions under which they hold are
(`SingleRowsNotSkipped`, `RepeatsNeedSnapshots`). The other two are liveness.

## What is not modelled

* The API's role check, which looks a role up in a table and changes nothing;
  `GetConfig`, which serves a manager the server never loads; `AcknowledgeAlert`, on a
  sink nothing feeds; health; the HTML portal.
* The cryptography itself, flag parsing, logging and the webhook sinks: nothing a
  state model can say.
* The in-memory store, which only tests use, and the functions nobody calls
  (`QueueAlert`, `SetBatchClosedCallback`, `CanonicalJSON`, `GetWORMIndex`, `Checkpoint`
  and `Close` of the source).
* The primary key heuristics and the schema hash of the snapshot builder.
* Whether a webhook delivers an alert: a dispatched one silences its table, or its job,
  for one cooldown, delivered or not.
* Clocks that step back: `closed_at` grows with the batches.
* Updates of `audit_batches` behind the daemon's back, and of the columns of a record
  that say where it belongs.

## Plan

Done, in this order: `Batcher` and its proofs; `Pipeline` composed with it;
`Tiering`; `Merkle`; `Bootstrap`, composed with `Batcher`; `Binlog` and the
abstract `ChangeSource`; the abstract `AuditTrail`; `Keys` and `Verification`,
composed with `Tiering`, and their proofs; the width of binlog offsets.

Then the proofs: marks and capture of `Bootstrap`; gaps and alerts of
`Pipeline`; lists of `Verification`; the binlog source with its refinement of
`ChangeSource`; the root of RFC 6962; that `Pipeline` runs on `ChangeSource`; where the
two safety promises that fail do hold; and then the faults that leave something out
(broken result sets, records that cannot be marshalled, configurations not loaded), ties
in time, jsonb's printing of values and documents with their own key, with all proofs
under every fault.

Left:

1. Action properties worth stating beside the invariants: what a restart of the daemon
   may never do to Postgres, what a failed step of a retention job may never do.
2. Alerts of `Bootstrap` and `Tiering` as properties of their own: that no failure they
   handle passes in silence.
3. The clock: a `closed_at` that does not grow with the batches, and what a restart then
   resumes from.

## Running it

    tlc -config MCPipelineFaults.cfg MCPipeline
    tlapm BatcherProofs.tla
