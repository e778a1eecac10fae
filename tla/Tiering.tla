------------------------------ MODULE Tiering ------------------------------
(***************************************************************************)
(* The retention job (internal/tiering/tiering.go, run by cmd/tiering):    *)
(* for every batch older than the retention window, copy its records to a  *)
(* WORM archive object, index it, purge the records from Postgres and mark *)
(* the batch archived.  Each of these is a statement or a file operation   *)
(* of its own, so a job may fail or die between any two of them, and two   *)
(* jobs (the scheduled one and one started by hand) may overlap.           *)
(*                                                                         *)
(* writeImmutable (internal/archive/archive.go) looks for the object first *)
(* and renames its temporary file later; rename replaces what is there.    *)
(*                                                                         *)
(* A record is its leaf index: audit_records of batch b hold the leaves    *)
(* 1..EventCount[b], and the archive object of b is the set it was written *)
(* with.  Batches are numbered in the order of closed_at.                  *)
(***************************************************************************)
EXTENDS Naturals, FiniteSets

CONSTANTS
    Batch,          \* batch ids, ordered by closed_at
    EventCount,     \* the number of records of each batch
    Job,            \* job processes that may overlap
    JobFaults,      \* which of the fault kinds below may happen
    MaxSkipped      \* bound: how many records jobs may leave out of their copies

\* A query or the WORM write fails; a result set breaks off early (rows.Err
\* is not looked at); a record cannot be marshalled (its committed_at lies
\* beyond the year 9999); chmod fails after the rename; a statement is
\* executed and its answer lost; the job dies.
JobFaultKinds ==
    {"query", "truncate", "marshal", "worm", "chmod", "acklost", "crash"}

ASSUME TieringAssumption ==
    /\ Batch \subseteq Nat
    /\ EventCount \in [Batch -> Nat \ {0}]
    /\ JobFaults \subseteq JobFaultKinds
    /\ MaxSkipped \in Nat

VARIABLES
    status,         \* audit_batches.status ("none": no row); worm_object_key
                    \* names the archive exactly when it is "archived"
    old,            \* batches with closed_at before the cutoff
    hot,            \* audit_records: the leaves of each batch in Postgres
    archives,       \* WORM archives/<batch>.jsonl: the leaves of each object
    wormIndex,      \* audit_worm_index
    pc,             \* where each job is in RunOnce
    todo,           \* each job's batches still to do, the current one included
    data,           \* each job's serialised records of its current batch
    cooling,        \* jobs whose dispatcher has sent an alert and is silent for now
    skipped         \* history: the leaves of each batch that some job left out
                    \* of its copy

postgres == <<status, hot, wormIndex>>
jobs     == <<pc, todo, data>>
tvars    == <<postgres, old, archives, jobs, cooling, skipped>>

Leaves(b) == 1..EventCount[b]

TTypeOK ==
    /\ status \in [Batch -> {"none", "signed", "archived"}]
    /\ old \subseteq Batch
    /\ hot \in [Batch -> SUBSET Nat]
    /\ DOMAIN archives \subseteq Batch
    /\ \A b \in DOMAIN archives : archives[b] \subseteq Nat
    /\ wormIndex \subseteq Batch
    /\ pc \in [Job -> {"idle", "read", "stat", "rename", "index", "purge", "status"}]
    /\ todo \in [Job -> SUBSET Batch]
    /\ data \in [Job -> SUBSET Nat]
    /\ cooling \subseteq Job
    /\ skipped \in [Batch -> SUBSET Nat]

TInit ==
    /\ status = [b \in Batch |-> "none"]
    /\ old = {}
    /\ hot = [b \in Batch |-> {}]
    /\ archives = [b \in {} |-> {}]
    /\ wormIndex = {}
    /\ pc = [j \in Job |-> "idle"]
    /\ todo = [j \in Job |-> {}]
    /\ data = [j \in Job |-> {}]
    /\ cooling = {}
    /\ skipped = [b \in Batch |-> {}]

(***************************************************************************)
(* The daemon and time.                                                    *)
(***************************************************************************)

\* The daemon's CreateBatch commits (module Batcher), one batch after another.
CreateBatch(b) ==
    /\ status[b] = "none"
    /\ \A c \in Batch : b < c => status[c] = "none"
    /\ status' = [status EXCEPT ![b] = "signed"]
    /\ hot' = [hot EXCEPT ![b] = Leaves(b)]
    /\ UNCHANGED <<wormIndex, old, archives, jobs, cooling, skipped>>

\* The retention window of b passes; earlier batches are older still.
Expire(b) ==
    /\ status[b] # "none" /\ b \notin old
    /\ \A c \in Batch : c < b /\ status[c] # "none" => c \in old
    /\ old' = old \cup {b}
    /\ UNCHANGED <<postgres, archives, jobs, cooling, skipped>>

(***************************************************************************)
(* RunOnce.                                                                *)
(***************************************************************************)

\* The batch job j is at: GetBatchesForTiering orders them by closed_at.
Current(j) == CHOOSE b \in todo[j] : \A c \in todo[j] : b <= c

\* Job j goes on with its next batch, or ends.
NextBatch(j) ==
    /\ todo' = [todo EXCEPT ![j] = todo[j] \ {Current(j)}]
    /\ pc' = [pc EXCEPT ![j] = IF todo[j] = {Current(j)} THEN "idle" ELSE "read"]
    /\ data' = [data EXCEPT ![j] = {}]

GoTo(j, label) ==
    /\ pc' = [pc EXCEPT ![j] = label]
    /\ UNCHANGED <<todo, data>>

\* reportFailure: all alerts of a job have the same rate limit key, so a
\* failure within the cooldown of an earlier one raises none.
ReportFailure(j) == cooling' = cooling \cup {j}

\* An error is reported and the loop continues.
Fail(j) == NextBatch(j) /\ ReportFailure(j)

\* A new job process, with a dispatcher of its own, queries the batches;
\* the result set may break off.  With none, the job ends at once.
RunOnce(j) ==
    LET found == {b \in Batch : status[b] = "signed" /\ b \in old}
    IN  /\ pc[j] = "idle"
        /\ \E rows \in SUBSET found :
              /\ rows # {}
              /\ rows = found \/ /\ "truncate" \in JobFaults
                                 /\ \A b \in rows, c \in found \ rows : b < c
              /\ todo' = [todo EXCEPT ![j] = rows]
        /\ pc' = [pc EXCEPT ![j] = "read"]
        /\ cooling' = cooling \ {j}
        /\ UNCHANGED <<postgres, old, archives, data, skipped>>

\* The number of records in skipped.
Skips == Cardinality(UNION {{b} \X skipped[b] : b \in Batch})

\* GetRecordsByBatchID, in the order of the leaves; the result set may break
\* off after any of them.  A record that cannot be marshalled is reported and
\* left out, and the job goes on with the others.
GetRecords(j) ==
    LET b == Current(j)
    IN  /\ pc[j] = "read"
        /\ \E rows \in SUBSET hot[b] : \E bad \in SUBSET rows :
              /\ rows = hot[b] \/ /\ "truncate" \in JobFaults
                                  /\ \A k \in rows, l \in hot[b] \ rows : k < l
              /\ bad = {} \/ "marshal" \in JobFaults
              /\ data' = [data EXCEPT ![j] = rows \ bad]
              /\ skipped' = [skipped EXCEPT ![b] = @ \cup (hot[b] \ (rows \ bad))]
              /\ skipped' # skipped => Skips' <= MaxSkipped
              /\ IF bad = {} THEN UNCHANGED cooling ELSE ReportFailure(j)
        /\ pc' = [pc EXCEPT ![j] = "stat"]
        /\ UNCHANGED <<postgres, old, archives, todo>>

\* writeImmutable: the object must not exist yet.
StatArchive(j) ==
    /\ pc[j] = "stat"
    /\ Current(j) \notin DOMAIN archives
    /\ GoTo(j, "rename")
    /\ UNCHANGED <<postgres, old, archives, cooling, skipped>>

\* The temporary file takes the object's name.
Written(j) ==
    archives' = [b \in DOMAIN archives \cup {Current(j)} |->
                    IF b = Current(j) THEN data[j] ELSE archives[b]]

\* Mutant: the records are purged before the index is written.
MutantPurgeFirst(j) ==
    /\ pc[j] = "rename"
    /\ Written(j)
    /\ GoTo(j, "purge")
    /\ UNCHANGED <<postgres, old, cooling, skipped>>

RenameArchive(j) ==
    /\ pc[j] = "rename"
    /\ Written(j)
    /\ GoTo(j, "index")
    /\ UNCHANGED <<postgres, old, cooling, skipped>>

\* Mutant: an object whose chmod failed is removed again.
MutantChmodCleanup(j) ==
    /\ pc[j] = "rename" /\ "chmod" \in JobFaults
    /\ archives' = [b \in DOMAIN archives \ {Current(j)} |-> archives[b]]
    /\ Fail(j)
    /\ UNCHANGED <<postgres, old, skipped>>

ChmodFails(j) ==
    /\ pc[j] = "rename" /\ "chmod" \in JobFaults
    /\ Written(j)
    /\ Fail(j)
    /\ UNCHANGED <<postgres, old, skipped>>

\* Mutant: an error of PutArchive is only logged.
MutantIgnoreArchiveError(j) ==
    /\ \/ pc[j] \in {"stat", "rename"} /\ "worm" \in JobFaults
       \/ pc[j] = "stat" /\ Current(j) \in DOMAIN archives
    /\ GoTo(j, "index")
    /\ UNCHANGED <<postgres, old, archives, cooling, skipped>>

\* Mutant: an error of the purge is only logged.
MutantIgnorePurgeError(j) ==
    /\ pc[j] = "purge" /\ "query" \in JobFaults
    /\ GoTo(j, "status")
    /\ UNCHANGED <<postgres, old, archives, cooling, skipped>>

\* Mutant: an object that is there already is passed over in silence.
MutantSilentExists(j) ==
    /\ pc[j] = "stat" /\ Current(j) \in DOMAIN archives
    /\ NextBatch(j)
    /\ UNCHANGED <<postgres, old, archives, cooling, skipped>>

\* Whatever fails and leaves the stores as they are: a query, a write to the
\* WORM directory, an object that is there already.
StepFails(j) ==
    /\ \/ pc[j] \in {"read", "index", "purge", "status"} /\ "query" \in JobFaults
       \/ pc[j] \in {"stat", "rename"} /\ "worm" \in JobFaults
       \/ pc[j] = "stat" /\ Current(j) \in DOMAIN archives
    /\ Fail(j)
    /\ UNCHANGED <<postgres, old, archives, skipped>>

\* InsertWORMIndex, DeleteRecordsByBatchID, UpdateBatchStatus.
InsertWORMIndex(b) == wormIndex' = wormIndex \cup {b} /\ UNCHANGED <<status, hot>>

DeleteRecords(b) == hot' = [hot EXCEPT ![b] = {}] /\ UNCHANGED <<status, wormIndex>>

\* Mutant: the status written is one no query knows.
MutantStatusPurged(b) ==
    status' = [status EXCEPT ![b] = "purged"] /\ UNCHANGED <<hot, wormIndex>>

\* Mutant: the batch row goes with its records.
MutantBatchDeleted(b) ==
    status' = [status EXCEPT ![b] = "none"] /\ UNCHANGED <<hot, wormIndex>>

UpdateBatchStatus(b) ==
    status' = [status EXCEPT ![b] = "archived"] /\ UNCHANGED <<hot, wormIndex>>

Statement(j) ==
    \/ pc[j] = "index"  /\ InsertWORMIndex(Current(j))
    \/ pc[j] = "purge"  /\ DeleteRecords(Current(j))
    \/ pc[j] = "status" /\ UpdateBatchStatus(Current(j))

StatementOK(j) ==
    /\ Statement(j)
    /\ \/ pc[j] = "index"  /\ GoTo(j, "purge")
       \/ pc[j] = "purge"  /\ GoTo(j, "status")
       \/ pc[j] = "status" /\ NextBatch(j)
    /\ UNCHANGED <<old, archives, cooling, skipped>>

\* The statement took effect, the job sees an error.
AckLost(j) ==
    /\ "acklost" \in JobFaults
    /\ Statement(j)
    /\ Fail(j)
    /\ UNCHANGED <<old, archives, skipped>>

CooldownExpires(j) ==
    /\ pc[j] # "idle" /\ j \in cooling
    /\ cooling' = cooling \ {j}
    /\ UNCHANGED <<postgres, old, archives, jobs, skipped>>

\* The job process dies.
JobCrash(j) ==
    /\ "crash" \in JobFaults /\ pc[j] # "idle"
    /\ pc' = [pc EXCEPT ![j] = "idle"]
    /\ todo' = [todo EXCEPT ![j] = {}]
    /\ data' = [data EXCEPT ![j] = {}]
    /\ cooling' = cooling \ {j}
    /\ UNCHANGED <<postgres, old, archives, skipped>>

JobStep(j) ==
    \/ GetRecords(j) \/ StatArchive(j) \/ RenameArchive(j) \/ ChmodFails(j)
    \/ StepFails(j) \/ StatementOK(j) \/ AckLost(j)

TNext ==
    \/ \E b \in Batch : CreateBatch(b) \/ Expire(b)
    \/ \E j \in Job : RunOnce(j) \/ JobStep(j) \/ CooldownExpires(j) \/ JobCrash(j)

TSpec == TInit /\ [][TNext]_tvars

(***************************************************************************)
(* The scheduler starts one of the jobs again and again.  Errors and       *)
(* crashes come and go: a step of this job that is tried for ever succeeds *)
(* in the end, if it can succeed at all.  Another job, started by hand,    *)
(* may stop anywhere.                                                      *)
(***************************************************************************)
TRecoveringSpec ==
    /\ TSpec
    /\ \E j \in Job :
          /\ WF_tvars(RunOnce(j))
          /\ SF_tvars(GetRecords(j)) /\ SF_tvars(StatArchive(j))
          /\ SF_tvars(RenameArchive(j)) /\ SF_tvars(StatementOK(j))
          /\ SF_tvars(pc[j] = "stat" /\ StepFails(j))

(***************************************************************************)
(* Safety.  rows.Err is not looked at and a record that cannot be          *)
(* marshalled is passed over, so a job may archive less than the batch has *)
(* and then purge all of it.  The history variable says which records that *)
(* can cost; every other one is safe.                                      *)
(***************************************************************************)

\* S has every record of b, but for some that a job left out of its copy.
HoldsAll(b, S) == S \subseteq Leaves(b) /\ Leaves(b) \ skipped[b] \subseteq S

\* A record of a persisted batch is out of both stores only if a job left it
\* out of its copy when it read the batch: a result set broke off before it
\* or it could not be marshalled.  Wherever jobs overlap, fail or die, and
\* whichever job's object replaces whose, the archive has all the others
\* before anything is purged.
NothingLost ==
    \A b \in Batch : status[b] # "none" =>
        \/ hot[b] = Leaves(b)
        \/ b \in DOMAIN archives /\ HoldsAll(b, archives[b])

\* Who finds no records in Postgres finds the batch in audit_worm_index and
\* its object in the archive: the purge is announced before it happens.
PurgedIsIndexed ==
    \A b \in Batch : status[b] # "none" /\ hot[b] # Leaves(b) =>
        hot[b] = {} /\ b \in wormIndex /\ b \in DOMAIN archives

\* A batch marked archived is completely tiered: its object holds all its
\* records but for those that a job left out of its copy, it is indexed, and
\* none of its records is left in Postgres.
ArchivedIsComplete ==
    \A b \in Batch : status[b] = "archived" =>
        /\ b \in DOMAIN archives /\ HoldsAll(b, archives[b])
        /\ b \in wormIndex /\ hot[b] = {}

\* An archive object keeps its contents, but for records that a job left out
\* of its copy: although two jobs can both find it missing and the later
\* rename replaces the object, it is replaced by the same records, since a
\* job reads before it looks for the object and the object exists before
\* anything is purged.
ArchivesNeverChange ==
    [][\A b \in DOMAIN archives :
          /\ b \in DOMAIN archives'
          /\ archives'[b] \ skipped[b] = archives[b] \ skipped[b]]_tvars

\* The records of each sealed batch, wherever they are, with those that a job
\* left out of its copy.
Kept == [b \in {c \in Batch : status[c] # "none"} |->
            hot[b] \cup skipped[b] \cup IF b \in DOMAIN archives THEN archives[b] ELSE {}]

AT == INSTANCE AuditTrail WITH trail <- Kept

\* Tiering is invisible in the trail: Postgres and the archive, and the
\* records that jobs left out, account for every sealed batch with all its
\* records for ever, at every step of every job, whichever step fails, is
\* repeated or never happens.
TieringKeepsTrail == AT!TrailSpec

(***************************************************************************)
(* The inductive invariant: what a job holds at each of its steps.         *)
(***************************************************************************)

\* The index names no object that does not exist, and a batch is only marked
\* archived once it is indexed and purged.
IndexIsSound ==
    /\ wormIndex \subseteq DOMAIN archives
    /\ \A b \in Batch : status[b] = "archived" => b \in wormIndex /\ hot[b] = {}

JobIsAt(j) ==
    LET b == Current(j)
    IN  /\ pc[j] # "idle" => todo[j] # {}
        /\ \A c \in todo[j] : status[c] # "none"
        /\ pc[j] \in {"index", "purge", "status"} => b \in DOMAIN archives
        /\ pc[j] \in {"purge", "status"} => b \in wormIndex
        /\ pc[j] = "status" => hot[b] = {}

JobKnows(j) ==
    LET b == Current(j)
    IN  /\ JobIsAt(j)
        /\ pc[j] = "stat" => HoldsAll(b, data[j]) \/ b \in DOMAIN archives
        /\ pc[j] = "rename" => HoldsAll(b, data[j])

ArchivesComplete ==
    /\ \A b \in DOMAIN archives : HoldsAll(b, archives[b]) /\ status[b] # "none"
    /\ \A b \in Batch : skipped[b] \subseteq Leaves(b)

TIndInv ==
    /\ TTypeOK /\ ArchivesComplete /\ NothingLost /\ PurgedIsIndexed /\ ArchivedIsComplete
    /\ IndexIsSound /\ \A j \in Job : JobKnows(j)

(***************************************************************************)
(* The part of it that does not speak of what the objects hold.            *)
(***************************************************************************)

TCore == TTypeOK /\ PurgedIsIndexed /\ IndexIsSound /\ \A j \in Job : JobIsAt(j)

(***************************************************************************)
(* Liveness.                                                               *)
(***************************************************************************)

\* Whatever fails or dies, wherever jobs overlap, no old batch is stuck in
\* silence: it is marked archived in the end, or alerts are dispatched again
\* and again.
OldIsTiered == \A b \in Batch : b \in old ~> (status[b] = "archived" \/ cooling # {})

(***************************************************************************)
(* What the documents promise and the code does not do.                    *)
(***************************************************************************)

\* Every old batch is archived in the end.  After a crash behind the rename
\* it never is: no later run gets past the object the first one left.
OldIsArchived == \A b \in Batch : b \in old ~> status[b] = "archived"
=============================================================================
