--------------------------- MODULE TieringProofs ---------------------------
(***************************************************************************)
(* Proofs about Tiering for any number of batches, records and overlapping *)
(* jobs, whatever fails: jobs that fail, die or race lose no record and    *)
(* change no record of an archive object but those that a job left out of  *)
(* its copy, and no purge goes unannounced.                                *)
(***************************************************************************)
EXTENDS Tiering, TLAPS, WellFoundedInduction

\* A non-empty set of numbers has a least element.
LEMMA LeastExists ==
    ASSUME NEW S, S \subseteq Nat, S # {}
    PROVE  \E b \in S : \A c \in S : b <= c
<1> DEFINE R == OpToRel(<, Nat)
<1> HIDE DEF R
<1>1. IsWellFoundedOn(R, Nat)
  BY NatLessThanWellFounded DEF R
<1>2. \A x, y \in Nat : <<y, x>> \in R <=> y < x
  BY DEF OpToRel, R
<1>3. \E b \in S : \A c \in S : ~ (<<c, b>> \in R)
  BY <1>1, WFMin
<1>4. PICK b \in S : \A c \in S : ~ (<<c, b>> \in R)
  BY <1>3
<1>5. ASSUME NEW c \in S PROVE b <= c
  <2>1. b \in Nat /\ c \in Nat
    OBVIOUS
  <2>2. ~ (c < b)
    BY <1>2, <1>4, <2>1
  <2> QED
    BY <2>1, <2>2
<1> QED
  BY <1>5

\* A job that is at work is at one of the batches of its list.
LEMMA AtWork ==
    ASSUME NEW j \in Job, TTypeOK, JobIsAt(j), pc[j] # "idle"
    PROVE  /\ Current(j) \in todo[j] /\ Current(j) \in Batch
           /\ status[Current(j)] # "none"
<1>1. todo[j] \subseteq Batch /\ todo[j] # {} /\ todo[j] \subseteq Nat
  BY TieringAssumption DEF TTypeOK, JobIsAt
<1>2. \E b \in todo[j] : \A c \in todo[j] : b <= c
  BY <1>1, LeastExists
<1>3. Current(j) \in todo[j]
  BY <1>2 DEF Current
<1> QED
  BY <1>1, <1>3 DEF JobIsAt

LEMMA CurrentInTodo ==
    ASSUME NEW j \in Job, TTypeOK, JobKnows(j), pc[j] # "idle"
    PROVE  /\ Current(j) \in todo[j] /\ Current(j) \in Batch
           /\ status[Current(j)] # "none"
  BY AtWork DEF JobKnows

\* The list decides which batch a job is at.
LEMMA CurrentStays ==
    ASSUME NEW j \in Job, todo'[j] = todo[j]
    PROVE  Current(j)' = Current(j)
  BY DEF Current

\* The actions of TNext.
LEMMA TieringCases ==
    ASSUME TNext
    PROVE  \/ \E b \in Batch : CreateBatch(b) \/ Expire(b)
           \/ \E j \in Job : \/ RunOnce(j) \/ GetRecords(j) \/ StatArchive(j)
                             \/ RenameArchive(j) \/ ChmodFails(j) \/ StepFails(j)
                             \/ StatementOK(j) \/ AckLost(j) \/ CooldownExpires(j)
                             \/ JobCrash(j)
  BY DEF TNext, JobStep

\* Going on with the next batch keeps the types of a job's variables.
LEMMA NextBatchType ==
    ASSUME TTypeOK, NEW j \in Job, NextBatch(j)
    PROVE  /\ pc' \in [Job -> {"idle", "read", "stat", "rename", "index", "purge", "status"}]
           /\ todo' \in [Job -> SUBSET Batch]
           /\ data' \in [Job -> SUBSET Nat]
           /\ todo'[j] = todo[j] \ {Current(j)} /\ data'[j] = {}
           /\ pc'[j] = IF todo[j] = {Current(j)} THEN "idle" ELSE "read"
           /\ \A i \in Job \ {j} : pc'[i] = pc[i] /\ todo'[i] = todo[i] /\ data'[i] = data[i]
<1>1. pc \in [Job -> {"idle", "read", "stat", "rename", "index", "purge", "status"}]
      /\ todo \in [Job -> SUBSET Batch] /\ data \in [Job -> SUBSET Nat]
  BY DEF TTypeOK
<1>2. todo[j] \ {Current(j)} \in SUBSET Batch
  BY <1>1
<1> QED
  BY <1>1, <1>2 DEF NextBatch

\* A job's step to another label.
LEMMA GoToType ==
    ASSUME TTypeOK, NEW j \in Job,
           NEW label \in {"idle", "read", "stat", "rename", "index", "purge", "status"},
           GoTo(j, label)
    PROVE  /\ pc' \in [Job -> {"idle", "read", "stat", "rename", "index", "purge", "status"}]
           /\ todo' = todo /\ data' = data /\ pc'[j] = label
           /\ \A i \in Job \ {j} : pc'[i] = pc[i]
  BY DEF GoTo, TTypeOK

\* What a write of the archive object does.
LEMMA WrittenType ==
    ASSUME TTypeOK, NEW j \in Job, Written(j), Current(j) \in Batch
    PROVE  /\ DOMAIN archives' = DOMAIN archives \cup {Current(j)}
           /\ archives'[Current(j)] = data[j]
           /\ \A b \in DOMAIN archives : b # Current(j) => archives'[b] = archives[b]
           /\ DOMAIN archives' \subseteq Batch
           /\ \A b \in DOMAIN archives' : archives'[b] \subseteq Nat
<1>1. /\ DOMAIN archives' = DOMAIN archives \cup {Current(j)}
      /\ archives'[Current(j)] = data[j]
      /\ \A b \in DOMAIN archives : b # Current(j) => archives'[b] = archives[b]
  BY DEF Written
<1>2. data[j] \subseteq Nat /\ DOMAIN archives \subseteq Batch
      /\ \A b \in DOMAIN archives : archives[b] \subseteq Nat
  BY DEF TTypeOK
<1> QED
  BY <1>1, <1>2

\* What a job reads, and what it leaves out.
LEMMA ReadType ==
    ASSUME TTypeOK, NEW j \in Job, GetRecords(j), Current(j) \in Batch
    PROVE  /\ pc[j] = "read" /\ pc'[j] = "stat"
           /\ pc' \in [Job -> {"idle", "read", "stat", "rename", "index", "purge", "status"}]
           /\ data' \in [Job -> SUBSET Nat] /\ skipped' \in [Batch -> SUBSET Nat]
           /\ cooling' \subseteq Job
           /\ UNCHANGED <<status, hot, archives, wormIndex, old, todo>>
           /\ \A i \in Job \ {j} : pc'[i] = pc[i] /\ data'[i] = data[i]
           /\ data'[j] \subseteq hot[Current(j)]
           /\ skipped'[Current(j)] = skipped[Current(j)] \cup (hot[Current(j)] \ data'[j])
           /\ \A b \in Batch : b # Current(j) => skipped'[b] = skipped[b]
<1> DEFINE b == Current(j)
<1> HIDE DEF b
<1>1. PICK rows \in SUBSET hot[b] : \E bad \in SUBSET rows :
           /\ data' = [data EXCEPT ![j] = rows \ bad]
           /\ skipped' = [skipped EXCEPT ![b] = @ \cup (hot[b] \ (rows \ bad))]
           /\ IF bad = {} THEN UNCHANGED cooling ELSE ReportFailure(j)
  BY DEF GetRecords, b
<1>2. PICK bad \in SUBSET rows :
           /\ data' = [data EXCEPT ![j] = rows \ bad]
           /\ skipped' = [skipped EXCEPT ![b] = @ \cup (hot[b] \ (rows \ bad))]
           /\ IF bad = {} THEN UNCHANGED cooling ELSE ReportFailure(j)
  BY <1>1
<1>3. /\ data \in [Job -> SUBSET Nat] /\ skipped \in [Batch -> SUBSET Nat]
      /\ cooling \subseteq Job /\ hot[b] \subseteq Nat /\ b \in Batch
  BY DEF TTypeOK, b
<1>4. rows \ bad \subseteq Nat /\ skipped[b] \cup (hot[b] \ (rows \ bad)) \subseteq Nat
  BY <1>3
<1>5. /\ data' \in [Job -> SUBSET Nat] /\ data'[j] = rows \ bad
      /\ \A i \in Job \ {j} : data'[i] = data[i]
  BY <1>2, <1>3, <1>4
<1>6. /\ skipped' \in [Batch -> SUBSET Nat]
      /\ skipped'[b] = skipped[b] \cup (hot[b] \ (rows \ bad))
      /\ \A c \in Batch : c # b => skipped'[c] = skipped[c]
  BY <1>2, <1>3, <1>4
<1>7. cooling' \subseteq Job
  BY <1>2, <1>3 DEF ReportFailure
<1>8. /\ pc[j] = "read" /\ pc' = [pc EXCEPT ![j] = "stat"]
      /\ UNCHANGED <<status, hot, archives, wormIndex, old, todo>>
  BY DEF GetRecords, postgres
<1>9. /\ pc' \in [Job -> {"idle", "read", "stat", "rename", "index", "purge", "status"}]
      /\ pc'[j] = "stat" /\ \A i \in Job \ {j} : pc'[i] = pc[i]
  BY <1>8 DEF TTypeOK
<1>10. data'[j] \subseteq hot[b]
  BY <1>5
<1> QED
  BY <1>5, <1>6, <1>7, <1>8, <1>9, <1>10 DEF b

\* Type correctness is preserved.
LEMMA TTypeOKInductive == TCore /\ [TNext]_tvars => TTypeOK'
<1> SUFFICES ASSUME TCore, [TNext]_tvars PROVE TTypeOK'
  OBVIOUS
<1> USE TieringAssumption
<1>1. TTypeOK /\ \A j \in Job : JobIsAt(j)
  BY DEF TCore
<1>2. ASSUME NEW b \in Batch, CreateBatch(b) \/ Expire(b) PROVE TTypeOK'
  <2>1. Leaves(b) \subseteq Nat
    BY DEF Leaves
  <2>2. CASE CreateBatch(b)
    <3>1. /\ status' = [status EXCEPT ![b] = "signed"]
          /\ hot' = [hot EXCEPT ![b] = Leaves(b)]
          /\ UNCHANGED <<wormIndex, skipped, old, archives, pc, todo, data, cooling>>
      BY <2>2 DEF CreateBatch, jobs
    <3>2. hot' \in [Batch -> SUBSET Nat]
      BY <1>1, <2>1, <3>1 DEF TTypeOK
    <3> QED
      BY <1>1, <3>1, <3>2 DEF TTypeOK
  <2>3. CASE Expire(b)
    BY <1>1, <2>3 DEF Expire, TTypeOK, postgres, jobs
  <2> QED
    BY <1>2, <2>2, <2>3
<1>3. ASSUME NEW j \in Job, RunOnce(j) PROVE TTypeOK'
  BY <1>1, <1>3 DEF RunOnce, TTypeOK, postgres
<1>4. ASSUME NEW j \in Job, GetRecords(j) PROVE TTypeOK'
  <2>1. Current(j) \in Batch
    BY <1>1, <1>4, AtWork DEF GetRecords
  <2> QED
    BY <1>1, <1>4, <2>1, ReadType DEF TTypeOK
<1>5. ASSUME NEW j \in Job, StatArchive(j) PROVE TTypeOK'
  <2>1. GoTo(j, "rename")
    BY <1>5 DEF StatArchive
  <2> QED
    BY <1>1, <1>5, <2>1, GoToType DEF StatArchive, TTypeOK, postgres
<1>6. ASSUME NEW j \in Job, RenameArchive(j) PROVE TTypeOK'
  <2>1. GoTo(j, "index") /\ Written(j) /\ Current(j) \in Batch
    BY <1>1, <1>6, AtWork DEF RenameArchive
  <2> QED
    BY <1>1, <1>6, <2>1, GoToType, WrittenType DEF RenameArchive, TTypeOK, postgres
<1>7. ASSUME NEW j \in Job, Fail(j)
      PROVE  cooling' \subseteq Job
  BY <1>1, <1>7 DEF Fail, ReportFailure, TTypeOK
<1>8. ASSUME NEW j \in Job, ChmodFails(j) PROVE TTypeOK'
  <2>1. Fail(j) /\ Written(j) /\ Current(j) \in Batch
    BY <1>1, <1>8, AtWork DEF ChmodFails
  <2> QED
    BY <1>1, <1>7, <1>8, <2>1, NextBatchType, WrittenType
       DEF ChmodFails, Fail, TTypeOK, postgres
<1>9. ASSUME NEW j \in Job, StepFails(j) PROVE TTypeOK'
  <2>1. Fail(j)
    BY <1>9 DEF StepFails
  <2> QED
    BY <1>1, <1>7, <1>9, <2>1, NextBatchType DEF StepFails, Fail, TTypeOK, postgres
<1>10. ASSUME NEW j \in Job, Statement(j)
       PROVE  /\ status' \in [Batch -> {"none", "signed", "archived"}]
              /\ hot' \in [Batch -> SUBSET Nat] /\ wormIndex' \subseteq Batch
  <2>1. Current(j) \in Batch
    BY <1>1, <1>10, AtWork DEF Statement
  <2> QED
    BY <1>1, <1>10, <2>1
       DEF Statement, InsertWORMIndex, DeleteRecords, UpdateBatchStatus, TTypeOK
<1>11. ASSUME NEW j \in Job, StatementOK(j) PROVE TTypeOK'
  <2>1. Statement(j) /\ (GoTo(j, "purge") \/ GoTo(j, "status") \/ NextBatch(j))
    BY <1>11 DEF StatementOK
  <2>2. /\ pc' \in [Job -> {"idle", "read", "stat", "rename", "index", "purge", "status"}]
        /\ todo' \in [Job -> SUBSET Batch] /\ data' \in [Job -> SUBSET Nat]
    BY <1>1, <2>1, GoToType, NextBatchType DEF TTypeOK
  <2> QED
    BY <1>1, <1>10, <1>11, <2>1, <2>2 DEF StatementOK, TTypeOK
<1>12. ASSUME NEW j \in Job, AckLost(j) PROVE TTypeOK'
  <2>1. Statement(j) /\ Fail(j)
    BY <1>12 DEF AckLost
  <2> QED
    BY <1>1, <1>7, <1>10, <1>12, <2>1, NextBatchType DEF AckLost, Fail, TTypeOK
<1>13. ASSUME NEW j \in Job, CooldownExpires(j) \/ JobCrash(j) PROVE TTypeOK'
  BY <1>1, <1>13 DEF CooldownExpires, JobCrash, TTypeOK, postgres, jobs
<1>14. CASE UNCHANGED tvars
  BY <1>1, <1>14 DEF tvars, postgres, jobs, TTypeOK
<1> QED
  BY TieringCases, <1>2, <1>3, <1>4, <1>5, <1>6, <1>8, <1>9, <1>11, <1>12, <1>13, <1>14

-----------------------------------------------------------------------------
(***************************************************************************)
(* What holds whatever the result sets were.                               *)
(***************************************************************************)

\* The stores move one way only: objects and index entries stay, what was
\* left out counts for ever, a purged batch stays purged, a batch that exists
\* goes on existing.
OneWay ==
    /\ DOMAIN archives \subseteq DOMAIN archives'
    /\ wormIndex \subseteq wormIndex'
    /\ \A b \in Batch : skipped[b] \subseteq skipped'[b]
    /\ \A b \in Batch : status[b] # "none" =>
          status'[b] # "none" /\ (hot[b] = {} => hot'[b] = {})

\* The promises made to a reader of Postgres.
Announced == PurgedIsIndexed /\ IndexIsSound

\* A job that takes no step stays where it is.
LEMMA OtherJobStays ==
    ASSUME TCore, OneWay, NEW i \in Job, pc'[i] = pc[i], todo'[i] = todo[i]
    PROVE  JobIsAt(i)'
<1>1. JobIsAt(i) /\ TTypeOK
  BY DEF TCore
<1>2. Current(i)' = Current(i)
  BY CurrentStays
<1>3. todo[i] \subseteq Batch
  BY <1>1 DEF TTypeOK
<1>4. pc[i] # "idle" => Current(i) \in Batch /\ status[Current(i)] # "none"
  BY <1>1, AtWork
<1> QED
  BY <1>1, <1>2, <1>3, <1>4 DEF JobIsAt, OneWay

\* A job goes on with its next batch.
LEMMA NextBatchIsAt ==
    ASSUME TCore, OneWay, NEW j \in Job, pc[j] # "idle", NextBatch(j)
    PROVE  \A i \in Job : JobIsAt(i)'
<1>1. JobIsAt(j) /\ TTypeOK
  BY DEF TCore
<1>2. /\ todo'[j] = todo[j] \ {Current(j)}
      /\ pc'[j] = IF todo[j] = {Current(j)} THEN "idle" ELSE "read"
      /\ \A i \in Job \ {j} : pc'[i] = pc[i] /\ todo'[i] = todo[i]
  BY <1>1, NextBatchType
<1>3. Current(j) \in todo[j] /\ todo[j] \subseteq Batch
  BY <1>1, AtWork DEF TTypeOK
<1>4. pc'[j] # "idle" => todo'[j] # {}
  BY <1>2, <1>3
<1>5. \A c \in todo'[j] : status'[c] # "none"
  BY <1>1, <1>2, <1>3 DEF JobIsAt, OneWay
<1>6. JobIsAt(j)'
  BY <1>2, <1>4, <1>5 DEF JobIsAt
<1> QED
  BY <1>2, <1>6, OtherJobStays

\* A job goes on with the same batch.
LEMMA GoToIsAt ==
    ASSUME TCore, OneWay, NEW j \in Job, pc[j] # "idle",
           NEW label \in {"stat", "rename", "index", "purge", "status"},
           pc'[j] = label, todo' = todo, \A i \in Job \ {j} : pc'[i] = pc[i],
           label \in {"index", "purge", "status"} => Current(j) \in DOMAIN archives',
           label \in {"purge", "status"} => Current(j) \in wormIndex',
           label = "status" => hot'[Current(j)] = {}
    PROVE  \A i \in Job : JobIsAt(i)'
<1>1. JobIsAt(j) /\ TTypeOK
  BY DEF TCore
<1>2. Current(j)' = Current(j) /\ todo'[j] = todo[j]
  BY CurrentStays
<1>3. todo[j] \subseteq Batch
  BY <1>1 DEF TTypeOK
<1>4. JobIsAt(j)'
  BY <1>1, <1>2, <1>3 DEF JobIsAt, OneWay
<1> QED
  BY <1>4, OtherJobStays

LEMMA QuietStores ==
    ASSUME TCore, UNCHANGED <<status, hot, wormIndex, skipped>>, DOMAIN archives \subseteq DOMAIN archives'
    PROVE  OneWay /\ Announced'
  BY DEF OneWay, TCore, Announced, PurgedIsIndexed, IndexIsSound, Leaves

\* A statement of a job is executed: each finds done what came before it.
LEMMA StatementAnnounces ==
    ASSUME TCore, NEW j \in Job, Statement(j), UNCHANGED <<archives, skipped>>
    PROVE  /\ OneWay /\ Announced' /\ Current(j) \in DOMAIN archives'
           /\ Current(j) \in wormIndex' /\ (pc[j] = "purge" => hot'[Current(j)] = {})
<1>1. TTypeOK /\ JobIsAt(j) /\ Announced
  BY DEF TCore, Announced
<1>2. Current(j) \in Batch /\ status[Current(j)] # "none"
  BY <1>1, AtWork DEF Statement
<1>3. Current(j) \in DOMAIN archives
  BY <1>1 DEF Statement, JobIsAt
<1>4. CASE pc[j] = "index"
  <2>1. wormIndex' = wormIndex \cup {Current(j)} /\ UNCHANGED <<status, hot>>
    BY <1>4 DEF Statement, InsertWORMIndex
  <2> QED
    BY <1>1, <1>3, <1>4, <2>1 DEF OneWay, Announced, PurgedIsIndexed, IndexIsSound, Leaves
<1>5. CASE pc[j] = "purge"
  <2>1. hot' = [hot EXCEPT ![Current(j)] = {}] /\ UNCHANGED <<status, wormIndex>>
    BY <1>5 DEF Statement, DeleteRecords
  <2>2. hot'[Current(j)] = {} /\ \A b \in Batch : b # Current(j) => hot'[b] = hot[b]
    BY <1>1, <1>2, <2>1 DEF TTypeOK
  <2>3. Current(j) \in wormIndex
    BY <1>1, <1>5 DEF JobIsAt
  <2> QED
    BY <1>1, <1>3, <2>1, <2>2, <2>3 DEF OneWay, Announced, PurgedIsIndexed, IndexIsSound, Leaves
<1>6. CASE pc[j] = "status"
  <2>1. status' = [status EXCEPT ![Current(j)] = "archived"] /\ UNCHANGED <<hot, wormIndex>>
    BY <1>6 DEF Statement, UpdateBatchStatus
  <2>2. /\ status'[Current(j)] = "archived"
        /\ \A b \in Batch : b # Current(j) => status'[b] = status[b]
    BY <1>1, <1>2, <2>1 DEF TTypeOK
  <2>3. Current(j) \in wormIndex /\ hot[Current(j)] = {}
    BY <1>1, <1>6 DEF JobIsAt
  <2> QED
    BY <1>1, <1>3, <1>6, <2>1, <2>2, <2>3
       DEF OneWay, Announced, PurgedIsIndexed, IndexIsSound, Leaves
<1> QED
  BY <1>4, <1>5, <1>6 DEF Statement

LEMMA TCoreInductive == TCore /\ [TNext]_tvars => TCore' /\ OneWay
<1> SUFFICES ASSUME TCore, [TNext]_tvars PROVE TCore' /\ OneWay
  OBVIOUS
<1>1. TTypeOK' /\ TTypeOK /\ Announced /\ \A j \in Job : JobIsAt(j)
  BY TTypeOKInductive DEF TCore, Announced
<1> DEFINE Goal == OneWay /\ Announced' /\ \A j \in Job : JobIsAt(j)'
<1> SUFFICES Goal
  BY <1>1 DEF TCore, Announced
<1>2. ASSUME NEW b \in Batch, CreateBatch(b) PROVE Goal
  <2>1. /\ status[b] = "none" /\ status'[b] = "signed" /\ hot'[b] = Leaves(b)
        /\ \A c \in Batch : c # b => status'[c] = status[c] /\ hot'[c] = hot[c]
        /\ UNCHANGED <<wormIndex, skipped, archives, pc, todo>>
    BY <1>1, <1>2 DEF CreateBatch, TTypeOK, jobs
  <2>2. OneWay
    BY <2>1 DEF OneWay
  <2>3. Announced'
    BY <1>1, <2>1 DEF Announced, PurgedIsIndexed, IndexIsSound, Leaves
  <2> QED
    BY <2>1, <2>2, <2>3, OtherJobStays
<1>3. ASSUME UNCHANGED <<status, hot, archives, wormIndex, skipped>>, NEW j \in Job, JobIsAt(j)',
             \A i \in Job \ {j} : pc'[i] = pc[i] /\ todo'[i] = todo[i]
      PROVE  Goal
  BY <1>3, QuietStores, OtherJobStays
<1>4. ASSUME NEW j \in Job, RunOnce(j) PROVE Goal
  <2>1. PICK rows \in SUBSET {b \in Batch : status[b] = "signed" /\ b \in old} :
             rows # {} /\ todo' = [todo EXCEPT ![j] = rows]
    BY <1>4 DEF RunOnce
  <2>2. /\ pc'[j] = "read" /\ todo'[j] = rows
        /\ UNCHANGED <<status, hot, archives, wormIndex, skipped>>
        /\ \A i \in Job \ {j} : pc'[i] = pc[i] /\ todo'[i] = todo[i]
    BY <1>1, <1>4, <2>1 DEF RunOnce, TTypeOK, postgres
  <2>3. JobIsAt(j)'
    BY <2>1, <2>2 DEF JobIsAt
  <2> QED
    BY <1>3, <2>2, <2>3
<1>5. ASSUME NEW j \in Job, GetRecords(j) PROVE Goal
  <2>1. Current(j) \in Batch
    BY <1>1, <1>5, AtWork DEF GetRecords
  <2>2. /\ pc[j] = "read" /\ pc'[j] = "stat"
        /\ UNCHANGED <<status, hot, archives, wormIndex, todo>>
        /\ \A i \in Job \ {j} : pc'[i] = pc[i]
        /\ \A b \in Batch : skipped[b] \subseteq skipped'[b]
    BY <1>1, <1>5, <2>1, ReadType
  <2>3. OneWay /\ Announced'
    BY <1>1, <2>2 DEF OneWay, Announced, PurgedIsIndexed, IndexIsSound, Leaves
  <2> QED
    BY <2>2, <2>3, GoToIsAt
<1>6. ASSUME NEW j \in Job, StatArchive(j) PROVE Goal
  <2>1. GoTo(j, "rename") /\ pc[j] = "stat" /\ UNCHANGED <<status, hot, archives, wormIndex, skipped>>
    BY <1>6 DEF StatArchive, postgres
  <2>2. pc'[j] = "rename" /\ todo' = todo /\ \A i \in Job \ {j} : pc'[i] = pc[i]
    BY <1>1, <2>1, GoToType
  <2> QED
    BY <2>1, <2>2, QuietStores, GoToIsAt
<1>7. ASSUME NEW j \in Job, pc[j] = "rename", Written(j), UNCHANGED <<status, hot, wormIndex, skipped>>
      PROVE  OneWay /\ Announced' /\ Current(j) \in DOMAIN archives'
  BY <1>7, QuietStores DEF Written
<1>8. ASSUME NEW j \in Job, RenameArchive(j) PROVE Goal
  <2>1. GoTo(j, "index") /\ Written(j) /\ pc[j] = "rename" /\ UNCHANGED <<status, hot, wormIndex, skipped>>
    BY <1>8 DEF RenameArchive, postgres
  <2>2. pc'[j] = "index" /\ todo' = todo /\ \A i \in Job \ {j} : pc'[i] = pc[i]
    BY <1>1, <2>1, GoToType
  <2> QED
    BY <1>7, <2>1, <2>2, GoToIsAt
<1>9. ASSUME NEW j \in Job, ChmodFails(j) PROVE Goal
  <2>1. NextBatch(j) /\ Written(j) /\ pc[j] = "rename" /\ UNCHANGED <<status, hot, wormIndex, skipped>>
    BY <1>9 DEF ChmodFails, Fail, postgres
  <2>2. OneWay /\ Announced'
    BY <1>7, <2>1
  <2> QED
    BY <2>1, <2>2, NextBatchIsAt
<1>10. ASSUME NEW j \in Job, StepFails(j) PROVE Goal
  <2>1. /\ NextBatch(j) /\ pc[j] # "idle"
        /\ UNCHANGED <<status, hot, archives, wormIndex, skipped>>
    BY <1>10 DEF StepFails, Fail, postgres
  <2> QED
    BY <2>1, QuietStores, NextBatchIsAt
<1>11. ASSUME NEW j \in Job, StatementOK(j) PROVE Goal
  <2>1. Statement(j) /\ UNCHANGED <<archives, skipped>> /\ pc[j] # "idle"
    BY <1>11 DEF StatementOK, Statement
  <2>2. /\ OneWay /\ Announced' /\ Current(j) \in DOMAIN archives'
        /\ Current(j) \in wormIndex' /\ (pc[j] = "purge" => hot'[Current(j)] = {})
    BY <2>1, StatementAnnounces
  <2>3. CASE NextBatch(j)
    BY <2>1, <2>2, <2>3, NextBatchIsAt
  <2>4. CASE pc[j] = "index" /\ GoTo(j, "purge")
    <3>1. pc'[j] = "purge" /\ todo' = todo /\ \A i \in Job \ {j} : pc'[i] = pc[i]
      BY <1>1, <2>4, GoToType
    <3> QED
      BY <2>1, <2>2, <3>1, GoToIsAt
  <2>5. CASE pc[j] = "purge" /\ GoTo(j, "status")
    <3>1. pc'[j] = "status" /\ todo' = todo /\ \A i \in Job \ {j} : pc'[i] = pc[i]
      BY <1>1, <2>5, GoToType
    <3> QED
      BY <2>1, <2>2, <2>5, <3>1, GoToIsAt
  <2> QED
    BY <1>11, <2>3, <2>4, <2>5 DEF StatementOK
<1>12. ASSUME NEW j \in Job, AckLost(j) PROVE Goal
  <2>1. Statement(j) /\ NextBatch(j) /\ UNCHANGED <<archives, skipped>> /\ pc[j] # "idle"
    BY <1>12 DEF AckLost, Fail, Statement
  <2> QED
    BY <2>1, StatementAnnounces, NextBatchIsAt
<1>13. ASSUME NEW j \in Job, JobCrash(j) PROVE Goal
  <2>1. /\ pc'[j] = "idle" /\ todo'[j] = {}
        /\ UNCHANGED <<status, hot, archives, wormIndex, skipped>>
        /\ \A i \in Job \ {j} : pc'[i] = pc[i] /\ todo'[i] = todo[i]
    BY <1>1, <1>13 DEF JobCrash, TTypeOK, postgres
  <2>2. JobIsAt(j)'
    BY <2>1 DEF JobIsAt
  <2> QED
    BY <1>3, <2>1, <2>2
<1>14. CASE \/ \E b \in Batch : Expire(b)
            \/ \E j \in Job : CooldownExpires(j)
            \/ UNCHANGED tvars
  <2>1. UNCHANGED <<status, hot, archives, wormIndex, skipped, pc, todo>>
    BY <1>14 DEF Expire, CooldownExpires, tvars, postgres, jobs
  <2> QED
    BY <2>1, QuietStores, OtherJobStays
<1> QED
  BY TieringCases, <1>2, <1>4, <1>5, <1>6, <1>8, <1>9, <1>10, <1>11, <1>12, <1>13, <1>14

LEMMA CoreOfTIndInv == TIndInv => TCore
  BY DEF TIndInv, TCore, JobKnows

-----------------------------------------------------------------------------
(***************************************************************************)
(* The inductive invariant.                                                *)
(***************************************************************************)

\* A job that takes no step keeps what it knows.
LEMMA OtherJob ==
    ASSUME TIndInv, OneWay, NEW i \in Job,
           pc'[i] = pc[i], todo'[i] = todo[i], data'[i] = data[i]
    PROVE  JobKnows(i)'
<1>1. JobKnows(i) /\ TTypeOK
  BY DEF TIndInv
<1>2. Current(i)' = Current(i)
  BY CurrentStays
<1>3. todo[i] \subseteq Batch
  BY <1>1 DEF TTypeOK
<1>4. pc[i] # "idle" => Current(i) \in Batch /\ status[Current(i)] # "none"
  BY <1>1, CurrentInTodo
<1>5. JobIsAt(i)'
  BY <1>1, <1>2, <1>3, <1>4 DEF JobKnows, JobIsAt, OneWay
<1>6. Current(i) \in Batch /\ HoldsAll(Current(i), data[i]) => HoldsAll(Current(i), data[i])'
  BY <1>2 DEF HoldsAll, Leaves, OneWay
<1> QED
  BY <1>1, <1>2, <1>4, <1>5, <1>6 DEF JobKnows, OneWay

\* The properties of the two stores.
Stores == ArchivesComplete /\ NothingLost /\ PurgedIsIndexed /\ ArchivedIsComplete

\* A job that goes on with its next batch knows nothing of it yet.
LEMMA NextBatchKnows ==
    ASSUME TIndInv, OneWay, NEW j \in Job, pc[j] # "idle", NextBatch(j)
    PROVE  \A i \in Job : JobKnows(i)'
<1>1. JobKnows(j) /\ TTypeOK
  BY DEF TIndInv
<1>2. /\ todo'[j] = todo[j] \ {Current(j)}
      /\ pc'[j] = IF todo[j] = {Current(j)} THEN "idle" ELSE "read"
      /\ \A i \in Job \ {j} : pc'[i] = pc[i] /\ todo'[i] = todo[i] /\ data'[i] = data[i]
  BY <1>1, NextBatchType
<1>3. Current(j) \in todo[j] /\ todo[j] \subseteq Batch
  BY <1>1, CurrentInTodo DEF TTypeOK
<1>4. pc'[j] # "idle" => todo'[j] # {}
  BY <1>2, <1>3
<1>5. \A c \in todo'[j] : status'[c] # "none"
  BY <1>1, <1>2, <1>3 DEF JobKnows, JobIsAt, OneWay
<1>6. JobKnows(j)'
  BY <1>2, <1>4, <1>5 DEF JobKnows, JobIsAt
<1> QED
  BY <1>2, <1>6, OtherJob

\* That a job leaves out records makes less of the promises, not more.
LEMMA MoreSkipped ==
    ASSUME TIndInv, UNCHANGED <<status, hot, archives, wormIndex>>,
           \A b \in Batch : skipped[b] \subseteq skipped'[b] /\ skipped'[b] \subseteq Leaves(b)
    PROVE  Stores'
<1>1. TTypeOK /\ Stores
  BY DEF TIndInv, Stores
<1>2. ASSUME NEW b \in DOMAIN archives PROVE HoldsAll(b, archives[b])'
  <2>1. b \in Batch /\ HoldsAll(b, archives[b])
    BY <1>1 DEF TTypeOK, Stores, ArchivesComplete
  <2> QED
    BY <2>1 DEF HoldsAll, Leaves
<1> QED
  BY <1>1, <1>2
     DEF Stores, ArchivesComplete, NothingLost, PurgedIsIndexed, ArchivedIsComplete, Leaves

\* The stores as they are: OneWay and Stores hold again.
LEMMA StoresStay ==
    ASSUME TIndInv, UNCHANGED <<status, hot, archives, wormIndex, skipped>>
    PROVE  OneWay /\ Stores'
  BY DEF OneWay, TIndInv, Stores, ArchivesComplete, NothingLost, PurgedIsIndexed,
         ArchivedIsComplete, HoldsAll, Leaves

\* The archive object is written: with all the records, over one that has
\* the same ones or over nothing.
LEMMA WriteKeeps ==
    ASSUME TIndInv, NEW j \in Job, pc[j] = "rename", Written(j),
           UNCHANGED <<status, hot, wormIndex, skipped>>
    PROVE  /\ OneWay /\ Stores' /\ Current(j) \in DOMAIN archives'
           /\ \A b \in DOMAIN archives :
                 /\ b \in DOMAIN archives'
                 /\ archives'[b] \ skipped[b] = archives[b] \ skipped[b]
<1>1. TTypeOK /\ JobKnows(j) /\ Stores
  BY DEF TIndInv, Stores
<1>2. Current(j) \in Batch /\ status[Current(j)] # "none"
  BY <1>1, CurrentInTodo
<1>3. /\ DOMAIN archives' = DOMAIN archives \cup {Current(j)}
      /\ archives'[Current(j)] = data[j]
      /\ \A b \in DOMAIN archives : b # Current(j) => archives'[b] = archives[b]
  BY <1>1, <1>2, WrittenType
<1>4. HoldsAll(Current(j), data[j])
  BY <1>1 DEF JobKnows, JobIsAt
<1>5. \A b \in DOMAIN archives' : HoldsAll(b, archives[b])' /\ status'[b] # "none"
  <2>1. HoldsAll(Current(j), archives'[Current(j)])
    BY <1>3, <1>4
  <2>2. \A b \in DOMAIN archives : b # Current(j) => HoldsAll(b, archives'[b])
    BY <1>1, <1>3 DEF Stores, ArchivesComplete
  <2>3. \A b \in DOMAIN archives' : status[b] # "none" /\ HoldsAll(b, archives'[b])
    BY <1>1, <1>2, <1>3, <2>1, <2>2 DEF Stores, ArchivesComplete
  <2> QED
    BY <2>3 DEF HoldsAll, Leaves
<1>6. \A b \in DOMAIN archives : archives'[b] \ skipped[b] = archives[b] \ skipped[b]
  <2> SUFFICES ASSUME NEW b \in DOMAIN archives
               PROVE  archives'[b] \ skipped[b] = archives[b] \ skipped[b]
    OBVIOUS
  <2>1. HoldsAll(b, archives[b])
    BY <1>1 DEF Stores, ArchivesComplete
  <2>2. CASE b = Current(j)
    BY <1>3, <1>4, <2>1, <2>2 DEF HoldsAll
  <2>3. CASE b # Current(j)
    BY <1>3, <2>3
  <2> QED
    BY <2>2, <2>3
<1>7. OneWay
  BY <1>3 DEF OneWay
<1>8. ArchivesComplete'
  BY <1>1, <1>5 DEF Stores, ArchivesComplete, Leaves
<1>9. NothingLost' /\ PurgedIsIndexed' /\ ArchivedIsComplete'
  BY <1>1, <1>3, <1>5
     DEF Stores, NothingLost, PurgedIsIndexed, ArchivedIsComplete, Leaves
<1> QED
  BY <1>3, <1>6, <1>7, <1>8, <1>9 DEF Stores

\* A statement of a job is executed.
LEMMA StatementKeeps ==
    ASSUME TIndInv, NEW j \in Job, Statement(j), UNCHANGED <<archives, skipped>>
    PROVE  /\ OneWay /\ Stores'
           /\ Current(j) \in wormIndex' /\ (pc[j] = "purge" => hot'[Current(j)] = {})
<1>1. TTypeOK /\ JobKnows(j) /\ Stores
  BY DEF TIndInv, Stores
<1>2. Current(j) \in Batch /\ status[Current(j)] # "none"
  BY <1>1, CurrentInTodo DEF Statement
<1>3. Current(j) \in DOMAIN archives
  BY <1>1 DEF Statement, JobKnows, JobIsAt
<1>4. HoldsAll(Current(j), archives[Current(j)])
  BY <1>1, <1>3 DEF Stores, ArchivesComplete
<1>5. CASE pc[j] = "index"
  <2>1. wormIndex' = wormIndex \cup {Current(j)} /\ UNCHANGED <<status, hot>>
    BY <1>5 DEF Statement, InsertWORMIndex
  <2> QED
    BY <1>1, <1>5, <2>1
       DEF OneWay, Stores, ArchivesComplete, NothingLost, PurgedIsIndexed, ArchivedIsComplete, HoldsAll, Leaves
<1>6. CASE pc[j] = "purge"
  <2>1. hot' = [hot EXCEPT ![Current(j)] = {}] /\ UNCHANGED <<status, wormIndex>>
    BY <1>6 DEF Statement, DeleteRecords
  <2>2. hot'[Current(j)] = {} /\ \A b \in Batch : b # Current(j) => hot'[b] = hot[b]
    BY <1>1, <1>2, <2>1 DEF TTypeOK
  <2>3. Current(j) \in wormIndex
    BY <1>1, <1>6 DEF JobKnows, JobIsAt
  <2> QED
    BY <1>1, <1>3, <1>4, <2>1, <2>2, <2>3
       DEF OneWay, Stores, ArchivesComplete, NothingLost, PurgedIsIndexed, ArchivedIsComplete, HoldsAll, Leaves
<1>7. CASE pc[j] = "status"
  <2>1. status' = [status EXCEPT ![Current(j)] = "archived"] /\ UNCHANGED <<hot, wormIndex>>
    BY <1>7 DEF Statement, UpdateBatchStatus
  <2>2. /\ status'[Current(j)] = "archived"
        /\ \A b \in Batch : b # Current(j) => status'[b] = status[b]
    BY <1>1, <1>2, <2>1 DEF TTypeOK
  <2>3. Current(j) \in wormIndex /\ hot[Current(j)] = {}
    BY <1>1, <1>7 DEF JobKnows, JobIsAt
  <2>4. DOMAIN archives \subseteq Batch
    BY <1>1 DEF TTypeOK
  <2> QED
    BY <1>1, <1>3, <1>4, <1>7, <2>1, <2>2, <2>3, <2>4
       DEF OneWay, Stores, ArchivesComplete, NothingLost, PurgedIsIndexed, ArchivedIsComplete, HoldsAll, Leaves
<1> QED
  BY <1>5, <1>6, <1>7 DEF Statement

\* A step keeps the invariant, moves the stores one way and leaves the
\* archive objects as they are.
LEMMA TIndInvInductive ==
    ASSUME TIndInv, [TNext]_tvars
    PROVE  /\ TIndInv' /\ OneWay
           /\ \A b \in DOMAIN archives :
                 /\ b \in DOMAIN archives'
                 /\ archives'[b] \ skipped[b] = archives[b] \ skipped[b]
<1> DEFINE Same == /\ OneWay
                   /\ \A b \in DOMAIN archives :
                         /\ b \in DOMAIN archives'
                         /\ archives'[b] \ skipped[b] = archives[b] \ skipped[b]
<1>1. TTypeOK' /\ TTypeOK /\ Stores /\ \A j \in Job : JobKnows(j)
  BY CoreOfTIndInv, TTypeOKInductive DEF TIndInv, Stores
<1> SUFFICES Stores' /\ (\A j \in Job : JobKnows(j)') /\ Same
  BY <1>1, CoreOfTIndInv, TCoreInductive DEF TIndInv, TCore, Stores
<1> DEFINE Goal == Stores' /\ (\A j \in Job : JobKnows(j)') /\ Same
<1>2. ASSUME NEW b \in Batch, CreateBatch(b) PROVE Goal
  <2>1. /\ status[b] = "none" /\ status'[b] = "signed" /\ hot'[b] = Leaves(b)
        /\ \A c \in Batch : c # b => status'[c] = status[c] /\ hot'[c] = hot[c]
        /\ UNCHANGED <<wormIndex, skipped, archives, pc, todo, data>>
    BY <1>1, <1>2 DEF CreateBatch, TTypeOK, jobs
  <2>2. OneWay
    BY <2>1 DEF OneWay
  <2>3. Stores'
    <3>1. \A c \in DOMAIN archives : c \in Batch /\ c # b
      BY <1>1, <2>1 DEF TTypeOK, Stores, ArchivesComplete
    <3> QED
      BY <1>1, <2>1, <3>1
         DEF Stores, ArchivesComplete, NothingLost, PurgedIsIndexed, ArchivedIsComplete, Leaves, HoldsAll
  <2> QED
    BY <2>1, <2>2, <2>3, OtherJob
<1>3. ASSUME UNCHANGED <<status, hot, archives, wormIndex, skipped>>, NEW j \in Job, JobKnows(j)',
             \A i \in Job \ {j} : pc'[i] = pc[i] /\ todo'[i] = todo[i] /\ data'[i] = data[i]
      PROVE  Goal
  BY <1>3, StoresStay, OtherJob
<1>4. ASSUME UNCHANGED <<status, hot, archives, wormIndex, skipped, pc, todo, data>> PROVE Goal
  BY <1>4, StoresStay, OtherJob
<1>5. ASSUME NEW j \in Job, RunOnce(j) PROVE Goal
  <2>1. PICK rows \in SUBSET {b \in Batch : status[b] = "signed" /\ b \in old} :
             rows # {} /\ todo' = [todo EXCEPT ![j] = rows]
    BY <1>5 DEF RunOnce
  <2>2. /\ pc'[j] = "read" /\ todo'[j] = rows
        /\ UNCHANGED <<status, hot, archives, wormIndex, skipped, data>>
        /\ \A i \in Job \ {j} : pc'[i] = pc[i] /\ todo'[i] = todo[i]
    BY <1>1, <1>5, <2>1 DEF RunOnce, TTypeOK, postgres
  <2>3. JobKnows(j)'
    BY <2>1, <2>2 DEF JobKnows, JobIsAt
  <2> QED
    BY <1>3, <2>2, <2>3
<1>6. ASSUME NEW j \in Job, GetRecords(j) PROVE Goal
  <2>1. Current(j) \in Batch /\ status[Current(j)] # "none"
    BY <1>1, <1>6, CurrentInTodo DEF GetRecords
  <2>2. /\ pc[j] = "read" /\ pc'[j] = "stat"
        /\ UNCHANGED <<status, hot, archives, wormIndex, todo>>
        /\ \A i \in Job \ {j} : pc'[i] = pc[i] /\ data'[i] = data[i]
        /\ data'[j] \subseteq hot[Current(j)]
        /\ skipped'[Current(j)] = skipped[Current(j)] \cup (hot[Current(j)] \ data'[j])
        /\ \A b \in Batch : b # Current(j) => skipped'[b] = skipped[b]
    BY <1>1, <1>6, <2>1, ReadType
  <2>3. Current(j)' = Current(j)
    BY <2>2, CurrentStays
  <2>4. hot[Current(j)] \subseteq Leaves(Current(j))
    BY <1>1, <2>1 DEF Stores, PurgedIsIndexed
  <2>5. hot[Current(j)] = Leaves(Current(j)) \/ Current(j) \in DOMAIN archives
    BY <1>1, <2>1 DEF Stores, NothingLost
  <2>6. \A b \in Batch : skipped[b] \subseteq skipped'[b] /\ skipped'[b] \subseteq Leaves(b)
    BY <1>1, <2>2, <2>4 DEF Stores, ArchivesComplete
  <2>7. OneWay
    BY <2>2, <2>6 DEF OneWay
  <2>8. Stores'
    BY <2>2, <2>6, MoreSkipped
  <2>9. JobKnows(j)'
    <3>1. JobIsAt(j)'
      BY <1>1, <2>2, <2>3 DEF JobKnows, JobIsAt
    <3>2. hot[Current(j)] = Leaves(Current(j)) => HoldsAll(Current(j), data[j])'
      BY <2>2, <2>3 DEF HoldsAll, Leaves
    <3> QED
      BY <2>2, <2>3, <2>5, <3>1, <3>2 DEF JobKnows
  <2> QED
    BY <2>2, <2>7, <2>8, <2>9, OtherJob
<1>7. ASSUME NEW j \in Job, StatArchive(j) PROVE Goal
  <2>1. GoTo(j, "rename")
    BY <1>7 DEF StatArchive
  <2>2. /\ pc[j] = "stat" /\ pc'[j] = "rename" /\ Current(j) \notin DOMAIN archives
        /\ UNCHANGED <<status, hot, archives, wormIndex, skipped, todo, data>>
        /\ \A i \in Job \ {j} : pc'[i] = pc[i]
    BY <1>1, <1>7, <2>1, GoToType DEF StatArchive, postgres
  <2>3. Current(j)' = Current(j)
    BY <2>2, CurrentStays
  <2>4. JobKnows(j)'
    BY <1>1, <2>2, <2>3 DEF JobKnows, JobIsAt, HoldsAll, Leaves
  <2> QED
    BY <1>3, <2>2, <2>4
<1>8. ASSUME NEW j \in Job, RenameArchive(j) PROVE Goal
  <2>1. GoTo(j, "index") /\ Written(j) /\ pc[j] = "rename" /\ UNCHANGED <<status, hot, wormIndex, skipped>>
    BY <1>8 DEF RenameArchive, postgres
  <2>2. /\ pc'[j] = "index" /\ UNCHANGED <<todo, data>>
        /\ \A i \in Job \ {j} : pc'[i] = pc[i]
    BY <1>1, <2>1, GoToType
  <2>3. OneWay /\ Stores' /\ Current(j) \in DOMAIN archives' /\ Same
    BY <2>1, WriteKeeps
  <2>4. Current(j)' = Current(j)
    BY <2>2, CurrentStays
  <2>5. JobKnows(j)'
    BY <1>1, <2>1, <2>2, <2>3, <2>4 DEF JobKnows, JobIsAt
  <2> QED
    BY <2>2, <2>3, <2>5, OtherJob
<1>9. ASSUME NEW j \in Job, ChmodFails(j) PROVE Goal
  <2>1. NextBatch(j) /\ Written(j) /\ pc[j] = "rename" /\ UNCHANGED <<status, hot, wormIndex, skipped>>
    BY <1>9 DEF ChmodFails, Fail, postgres
  <2>2. OneWay /\ Stores' /\ Same
    BY <2>1, WriteKeeps
  <2> QED
    BY <2>1, <2>2, NextBatchKnows
<1>10. ASSUME NEW j \in Job, StepFails(j) PROVE Goal
  <2>1. /\ NextBatch(j) /\ pc[j] # "idle"
        /\ UNCHANGED <<status, hot, archives, wormIndex, skipped>>
    BY <1>10 DEF StepFails, Fail, postgres
  <2>2. OneWay /\ Stores' /\ Same
    BY <2>1, StoresStay
  <2> QED
    BY <2>1, <2>2, NextBatchKnows
<1>11. ASSUME NEW j \in Job, StatementOK(j) PROVE Goal
  <2>1. Statement(j) /\ UNCHANGED <<archives, skipped>> /\ pc[j] # "idle"
    BY <1>11 DEF StatementOK, Statement
  <2>2. /\ OneWay /\ Stores' /\ Same
        /\ Current(j) \in wormIndex' /\ (pc[j] = "purge" => hot'[Current(j)] = {})
    BY <2>1, StatementKeeps
  <2>3. CASE NextBatch(j)
    BY <2>1, <2>2, <2>3, NextBatchKnows
  <2>4. CASE pc[j] = "index" /\ GoTo(j, "purge")
    <3>1. /\ pc'[j] = "purge" /\ UNCHANGED <<todo, data>>
          /\ \A i \in Job \ {j} : pc'[i] = pc[i]
      BY <1>1, <2>4, GoToType
    <3>2. Current(j)' = Current(j) /\ todo[j] \subseteq Batch
      BY <1>1, <3>1, CurrentStays DEF TTypeOK
    <3>3. JobKnows(j)'
      BY <1>1, <2>1, <2>2, <2>4, <3>1, <3>2 DEF JobKnows, JobIsAt, OneWay
    <3> QED
      BY <2>2, <3>1, <3>3, OtherJob
  <2>5. CASE pc[j] = "purge" /\ GoTo(j, "status")
    <3>1. /\ pc'[j] = "status" /\ UNCHANGED <<todo, data>>
          /\ \A i \in Job \ {j} : pc'[i] = pc[i]
      BY <1>1, <2>5, GoToType
    <3>2. Current(j)' = Current(j) /\ todo[j] \subseteq Batch
      BY <1>1, <3>1, CurrentStays DEF TTypeOK
    <3>3. JobKnows(j)'
      BY <1>1, <2>1, <2>2, <2>5, <3>1, <3>2 DEF JobKnows, JobIsAt, OneWay
    <3> QED
      BY <2>2, <3>1, <3>3, OtherJob
  <2> QED
    BY <1>11, <2>3, <2>4, <2>5 DEF StatementOK
<1>12. ASSUME NEW j \in Job, AckLost(j) PROVE Goal
  <2>1. Statement(j) /\ NextBatch(j) /\ UNCHANGED <<archives, skipped>> /\ pc[j] # "idle"
    BY <1>12 DEF AckLost, Fail, Statement
  <2>2. OneWay /\ Stores' /\ Same
    BY <2>1, StatementKeeps
  <2> QED
    BY <2>1, <2>2, NextBatchKnows
<1>13. ASSUME NEW j \in Job, JobCrash(j) PROVE Goal
  <2>1. /\ pc'[j] = "idle" /\ todo'[j] = {}
        /\ UNCHANGED <<status, hot, archives, wormIndex, skipped>>
        /\ \A i \in Job \ {j} : pc'[i] = pc[i] /\ todo'[i] = todo[i] /\ data'[i] = data[i]
    BY <1>1, <1>13 DEF JobCrash, TTypeOK, postgres
  <2>2. JobKnows(j)'
    BY <2>1 DEF JobKnows, JobIsAt
  <2> QED
    BY <1>3, <2>1, <2>2
<1>14. CASE \/ \E b \in Batch : Expire(b)
            \/ \E j \in Job : CooldownExpires(j)
            \/ UNCHANGED tvars
  BY <1>4, <1>14 DEF Expire, CooldownExpires, tvars, postgres, jobs
<1> QED
  BY TieringCases, <1>2, <1>5, <1>6, <1>7, <1>8, <1>9, <1>10, <1>11, <1>12, <1>13, <1>14

\* No batch, no job, no object.
LEMMA TIndInvInit == TInit => TIndInv
<1> SUFFICES ASSUME TInit PROVE TIndInv
  OBVIOUS
<1>1. DOMAIN archives = {}
  BY DEF TInit
<1>2. TTypeOK
  BY <1>1 DEF TInit, TTypeOK
<1> QED
  BY <1>1, <1>2
     DEF TInit, TIndInv, ArchivesComplete, NothingLost, PurgedIsIndexed, ArchivedIsComplete,
         IndexIsSound,
         JobKnows, JobIsAt

LEMMA TCoreInit == TInit => TCore
  BY TIndInvInit, CoreOfTIndInv

-----------------------------------------------------------------------------
(***************************************************************************)
(* The theorems.                                                           *)
(***************************************************************************)

\* The invariant holds in every state, whatever fails.
THEOREM TieringInductive == TSpec => []TIndInv
<1>1. TIndInv /\ [TNext]_tvars => TIndInv'
  BY TIndInvInductive
<1> QED
  BY <1>1, TIndInvInit, PTL DEF TSpec

\* No record leaves Postgres before it is in the archive, for any number of
\* jobs that overlap, fail and die, but those a job left out of its copy when
\* a result set broke off or a record could not be marshalled.
THEOREM TieringLosesNothing == TSpec => []NothingLost
<1>1. TIndInv => NothingLost
  BY DEF TIndInv
<1> QED
  BY <1>1, TieringInductive, PTL

\* What does not depend on what a job read: the types, where the jobs are, and
\* that a purge is announced.
THEOREM TCoreHolds == TSpec => []TCore
  BY TCoreInit, TCoreInductive, PTL DEF TSpec

\* A purged batch is indexed and its object exists, even where a result set
\* broke off and the object is short.
THEOREM PurgedBatchesIndexed == TSpec => []PurgedIsIndexed
<1>1. TCore => PurgedIsIndexed
  BY DEF TCore
<1> QED
  BY <1>1, TCoreHolds, PTL

\* The index names only objects that exist, and a batch marked archived is
\* indexed and purged, whatever the jobs read and however they overlap.
THEOREM IndexStaysSound == TSpec => []IndexIsSound
<1>1. TCore => IndexIsSound
  BY DEF TCore
<1> QED
  BY <1>1, TCoreHolds, PTL

\* A batch that is marked archived is tiered completely, but for the records a
\* job left out of its copy.
THEOREM ArchivedBatchesComplete == TSpec => []ArchivedIsComplete
<1>1. TIndInv => ArchivedIsComplete
  BY DEF TIndInv
<1> QED
  BY <1>1, TieringInductive, PTL

\* An archive object keeps its records, although a second job's rename replaces
\* it, but for those a job left out of its copy.
THEOREM ArchiveObjectsImmutable == TSpec => ArchivesNeverChange
<1>1. TIndInv /\ [TNext]_tvars =>
        \A b \in DOMAIN archives :
           /\ b \in DOMAIN archives'
           /\ archives'[b] \ skipped[b] = archives[b] \ skipped[b]
  BY TIndInvInductive
<1> QED
  BY <1>1, TieringInductive, PTL DEF TSpec, ArchivesNeverChange

-----------------------------------------------------------------------------
(***************************************************************************)
(* The trail.                                                              *)
(***************************************************************************)

\* The batches that were sealed.
Sealed == {c \in Batch : status[c] # "none"}

\* The two stores, and what was left out of a copy, together show every sealed
\* batch with all its records.
LEMMA KeptIsWhole == TIndInv => Kept = [b \in Sealed |-> Leaves(b)]
<1> SUFFICES ASSUME TIndInv, NEW b \in Sealed
             PROVE  (hot[b] \cup skipped[b]
                       \cup IF b \in DOMAIN archives THEN archives[b] ELSE {}) = Leaves(b)
  BY DEF Kept, Sealed
<1>1. b \in Batch /\ status[b] # "none"
  BY DEF Sealed
<1>2. hot[b] = Leaves(b) \/ hot[b] = {}
  BY <1>1 DEF TIndInv, PurgedIsIndexed
<1>3. b \in DOMAIN archives => HoldsAll(b, archives[b])
  BY DEF TIndInv, ArchivesComplete
<1>4. hot[b] = Leaves(b) \/ b \in DOMAIN archives
  BY <1>1 DEF TIndInv, NothingLost
<1>5. skipped[b] \subseteq Leaves(b)
  BY <1>1 DEF TIndInv, ArchivesComplete
<1> QED
  BY <1>2, <1>3, <1>4, <1>5 DEF HoldsAll

\* A step seals one batch or none.
LEMMA SealsOne ==
    ASSUME TIndInv, [TNext]_tvars
    PROVE  Sealed' = Sealed \/ \E b \in Batch \ Sealed : Sealed' = Sealed \cup {b}
<1>1. TTypeOK /\ \A j \in Job : JobKnows(j)
  BY DEF TIndInv
<1>2. ASSUME NEW b \in Batch, CreateBatch(b)
      PROVE  b \notin Sealed /\ Sealed' = Sealed \cup {b}
  BY <1>1, <1>2 DEF CreateBatch, Sealed, TTypeOK
<1>3. ASSUME NEW j \in Job, Statement(j) PROVE Sealed' = Sealed
  <2>1. CASE UNCHANGED status
    BY <2>1 DEF Sealed
  <2>2. CASE pc[j] = "status" /\ UpdateBatchStatus(Current(j))
    <3>1. status[Current(j)] # "none" /\ Current(j) \in Batch
      BY <1>1, <2>2, CurrentInTodo
    <3> QED
      BY <1>1, <2>2, <3>1 DEF UpdateBatchStatus, Sealed, TTypeOK
  <2> QED
    BY <1>3, <2>1, <2>2 DEF Statement, InsertWORMIndex, DeleteRecords
<1>4. CASE UNCHANGED status
  BY <1>4 DEF Sealed
<1>5. CASE \E j \in Job : StatementOK(j) \/ AckLost(j)
  BY <1>3, <1>5 DEF StatementOK, AckLost
<1>6. CASE \/ \E b \in Batch : Expire(b)
           \/ \E j \in Job : \/ RunOnce(j) \/ GetRecords(j) \/ StatArchive(j)
                             \/ RenameArchive(j) \/ ChmodFails(j) \/ StepFails(j)
                             \/ CooldownExpires(j) \/ JobCrash(j)
           \/ UNCHANGED tvars
  <2>1. UNCHANGED status
    BY <1>6 DEF Expire, RunOnce, GetRecords, StatArchive, RenameArchive, ChmodFails,
                StepFails, CooldownExpires, JobCrash, postgres, tvars
  <2> QED
    BY <1>4, <2>1
<1> QED
  BY TieringCases, <1>2, <1>5, <1>6

\* Seen through both stores, tiering is an append-only trail: jobs move the
\* records, and no step of theirs shows, but where one left a record out of
\* its copy.
THEOREM TieringRefinesTrail == TSpec => TieringKeepsTrail
<1>1. TInit => AT!TrailInit
  <2> SUFFICES ASSUME TInit PROVE Kept = [b \in {} |-> {}]
    BY DEF AT!TrailInit
  <2>1. Sealed = {}
    BY DEF TInit, Sealed
  <2>2. Kept = [b \in Sealed |-> Leaves(b)]
    BY TIndInvInit, KeptIsWhole
  <2> QED
    BY <2>1, <2>2
<1>2. TIndInv /\ TIndInv' /\ [TNext]_tvars => [AT!Seal]_Kept
  <2> SUFFICES ASSUME TIndInv, TIndInv', [TNext]_tvars PROVE [AT!Seal]_Kept
    OBVIOUS
  <2>1. Kept = [b \in Sealed |-> Leaves(b)] /\ Kept' = [b \in Sealed' |-> Leaves(b)]
    <3>1. (Kept = [b \in Sealed |-> Leaves(b)])'
      BY KeptIsWhole, PTL
    <3> QED
      BY <3>1, KeptIsWhole DEF Leaves
  <2>2. CASE Sealed' = Sealed
    BY <2>1, <2>2
  <2>3. ASSUME NEW b \in Batch \ Sealed, Sealed' = Sealed \cup {b} PROVE AT!Seal
    <3>1. Leaves(b) # {}
      <4>1. EventCount[b] \in Nat \ {0}
        BY TieringAssumption
      <4>2. 1 \in Leaves(b)
        BY <4>1 DEF Leaves
      <4> QED
        BY <4>2
    <3>2. b \in DOMAIN Kept' \ DOMAIN Kept /\ Kept'[b] = Leaves(b)
      BY <2>1, <2>3
    <3>3. Kept' = [x \in DOMAIN Kept \cup {b} |-> IF x = b THEN Kept'[b] ELSE Kept[x]]
      BY <2>1, <2>3
    <3> QED
      BY <3>1, <3>2, <3>3 DEF AT!Seal
  <2> QED
    BY <2>2, <2>3, SealsOne
<1> QED
  BY <1>1, <1>2, TieringInductive, PTL DEF TSpec, TieringKeepsTrail, AT!TrailSpec

\* The retention job's state stays well typed.
THEOREM TieringTypeCorrect == TSpec => []TTypeOK
<1>1. TCore => TTypeOK
  BY DEF TCore
<1> QED
  BY <1>1, TCoreHolds, PTL
=============================================================================
