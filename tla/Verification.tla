---------------------------- MODULE Verification ----------------------------
(***************************************************************************)
(* Reading the trail: the verifier (internal/merkle/verifier.go), the      *)
(* queries it makes (internal/store/store.go) and the handlers and the     *)
(* command that call it (internal/api/handlers.go, cmd/verify), while the  *)
(* daemon seals batches with the key it has (Keys) and the retention job   *)
(* purges them (Tiering).                                                  *)
(*                                                                         *)
(* A hash stands for what was hashed.  What is hashed is the payload as    *)
(* json.Marshal wrote it; what a reader hashes is the payload as Postgres  *)
(* gives it back.  The two differ in the order of the keys of an image     *)
(* (jsonb sorts by length first), in values that jsonb prints in another   *)
(* way (1e-7 comes back as 0.0000001) and in committed_at (timestamptz has *)
(* microseconds).                                                          *)
(*                                                                         *)
(* Requests change nothing and do not depend on each other: one, made at   *)
(* any time, is followed to its answer.  Whoever serves it has some key:   *)
(* an API server was started at some earlier time and holds the key that   *)
(* was on file then, or one it made up; cmd/verify holds the key on file   *)
(* now or a public key it was given.  Who checks a document may also take  *)
(* the key that comes with it.                                             *)
(***************************************************************************)
EXTENDS Tiering, Keys, Integers

CONSTANTS
    Image,          \* the columns of each record: the name's rank and length, and
                    \* whether jsonb prints the value in another way than Go
    CommittedAt,    \* the time of each record in nanoseconds
    History,        \* the records of one source row, which a client may list
    PageSize,       \* the limit a client lists with
    MaxAltered,     \* bound: altered rows
    MaxSealed,      \* bound: keys made and batches sealed, taken together
    ReadFaults      \* which of the fault kinds below may happen

\* A query fails; a result set breaks off (rows.Err is not looked at).
ReadFaultKinds == {"query", "truncate"}

RecordId == UNION {{b} \X Leaves(b) : b \in Batch}
Column   == [rank : Nat, length : Nat, rewritten : BOOLEAN]

ASSUME VerificationAssumption ==
    /\ Image \in [RecordId -> SUBSET Column]
    /\ CommittedAt \in [RecordId -> Nat]
    /\ History \subseteq RecordId
    /\ PageSize \in Nat \ {0}
    /\ MaxAltered \in Nat /\ MaxSealed \in Nat
    /\ ReadFaults \subseteq ReadFaultKinds

VARIABLES
    signedBy,       \* the key each batch was signed with, NoKey before
    altered,        \* rows of audit_records somebody updated
    step,           \* the query a request is at, or the answer it got
    subject,        \* the record a request is about
    key,            \* the key of whoever answered it
    signer,         \* the key the root it was checked against is signed with
    payload,        \* the record, as it was read
    brokenOff,      \* history: a result set of this request broke off
    offset,         \* rows a client has been shown, page by page
    seen,           \* those rows
    due,            \* history: the rows there were when it began
    purged          \* history: the records of the row that were purged since then

sealing == <<signedBy, altered>>
request == <<step, subject, key, signer, payload, brokenOff>>
listing == <<offset, seen, due, purged>>
vvars   == <<tvars, kvars, sealing, request, listing>>

(***************************************************************************)
(* What is hashed.                                                         *)
(***************************************************************************)

\* Where each column stands in a printed image.  Go's maps are marshalled with
\* their keys in the order of their bytes.
Bytewise(columns) ==
    [c \in columns |-> Cardinality({d \in columns : d.rank < c.rank})]

\* jsonb keeps shorter keys first.
ByLength(columns) ==
    [c \in columns |-> Cardinality({d \in columns :
        d.length < c.length \/ (d.length = c.length /\ d.rank < c.rank)})]

\* The columns whose values are printed in Go's way; jsonb leaves none.
GoPrinted(columns) == {c \in columns : c.rewritten}

\* The leaf the batcher computes.
Hashed(r) ==
    [id |-> r, keys |-> Bytewise(Image[r]), printed |-> GoPrinted(Image[r]),
     at |-> CommittedAt[r], value |-> "recorded"]

Microseconds(t) == ((t + 500) \div 1000) * 1000

\* committed_at, as it is in the table.
StoredAt(r) == Microseconds(CommittedAt[r])

\* The leaf of a row Postgres gives back.
Stored(r, v) ==
    [id |-> r, keys |-> ByLength(Image[r]), printed |-> {}, at |-> StoredAt(r), value |-> v]

ReadBack(r) == Stored(r, IF r \in altered THEN "altered" ELSE "recorded")

\* Nothing is lost on the way through Postgres.
Survives(r) ==
    /\ Bytewise(Image[r]) = ByLength(Image[r])
    /\ GoPrinted(Image[r]) = {}
    /\ StoredAt(r) = CommittedAt[r]

\* The leaves the root of batch b was computed from.
SignedLeaves(b) == [l \in Leaves(b) |-> Hashed(<<b, l>>)]

\* A request waits for a query, or has its answer.
Steps   == {"idle", "batch", "leaves", "roots", "records"}
Answers == {"missing", "error", "valid", "invalid", "shown", "plain", "cipher",
            "all roots", "all records"}

RootRow   == Batch \X {0}
NoRecord  == <<0, 0>>
NoPayload == [value |-> "none"]

\* The key of a reader: one that was on file, or one it made up.
ReaderKey == Key \cup {MockKey}

\* A key pair that was never on file, of whoever wrote a document.
OwnKey == -1

VTypeOK ==
    /\ TTypeOK /\ KTypeOK
    /\ signedBy \in [Batch -> Key \cup {NoKey}]
    /\ altered \subseteq RecordId
    /\ step \in Steps \cup Answers
    /\ subject \in RecordId \cup {NoRecord}
    /\ key \in ReaderKey \cup {OwnKey}
    /\ signer \in ReaderKey \cup {OwnKey}
    /\ \/ payload = NoPayload
       \/ \E v \in {"recorded", "altered"} : payload = Stored(subject, v)
    /\ brokenOff \in BOOLEAN
    /\ offset \in Nat
    /\ seen \subseteq RootRow \cup RecordId /\ due \subseteq RootRow \cup RecordId
    /\ purged \subseteq History

VInit ==
    /\ TInit /\ KInit
    /\ signedBy = [b \in Batch |-> NoKey]
    /\ altered = {}
    /\ step = "idle" /\ subject = NoRecord /\ payload = NoPayload
    /\ key = MockKey /\ signer = NoKey
    /\ brokenOff = FALSE
    /\ offset = 0 /\ seen = {} /\ due = {} /\ purged = {}

(***************************************************************************)
(* The daemon, the retention job, the keys, and somebody who alters a row. *)
(***************************************************************************)

\* Mutant: the feed leaves out the batches that were tiered.
MutantHotRoots == {x \in RootRow : status[x[1]] = "signed"}

\* ListBatches has every batch row; closed_at grows with the number.
Roots == {x \in RootRow : status[x[1]] # "none"}

\* GetRecordsByTableAndPK has the records of the row that are in Postgres.
StoredHistory == {r \in History : r[2] \in hot[r[1]]}

\* A close: Sign, then CreateBatch (module Batcher).
SealBatch(b) ==
    /\ daemonKey # NoKey /\ Len(versions) + Cardinality(Roots) < MaxSealed
    /\ CreateBatch(b)
    /\ signedBy' = [signedBy EXCEPT ![b] = daemonKey]
    /\ UNCHANGED <<kvars, altered, request, listing>>

Retention ==
    /\ \/ \E b \in Batch : Expire(b)
       \/ \E j \in Job : RunOnce(j) \/ JobStep(j) \/ CooldownExpires(j) \/ JobCrash(j)
    /\ purged' = purged \cup IF step = "records" THEN StoredHistory \ StoredHistory' ELSE {}
    /\ UNCHANGED <<kvars, sealing, request, offset, seen, due>>

KeyStep ==
    /\ KNext
    /\ Len(versions') + Cardinality(Roots) <= MaxSealed
    /\ UNCHANGED <<tvars, sealing, request, listing>>

\* A stored row is updated behind the daemon's back.
Alter(r) ==
    /\ r[2] \in hot[r[1]] /\ Cardinality(altered) < MaxAltered
    /\ altered' = altered \cup {r}
    /\ UNCHANGED <<tvars, kvars, signedBy, request, listing>>

(***************************************************************************)
(* Requests.                                                               *)
(***************************************************************************)

\* A request about record r, of a batch that was sealed: GetRecord finds the
\* row, or does not.
Begin(r, found, k) ==
    LET there == r[2] \in hot[r[1]]
    IN  /\ step = "idle" /\ status[r[1]] # "none"
        /\ step' = IF there THEN found ELSE "missing"
        /\ payload' = IF there THEN ReadBack(r) ELSE NoPayload
        /\ subject' = r /\ key' = k /\ signer' = signedBy[r[1]]
        /\ UNCHANGED <<tvars, kvars, sealing, brokenOff, listing>>

\* VerifyRecord: the first query of GetRecordForVerification.
VerifyRecord(r) == Begin(r, "batch", MockKey)

\* The second; batch rows are never deleted.
GetBatch ==
    /\ step = "batch"
    /\ step' = "leaves"
    /\ UNCHANGED <<tvars, kvars, sealing, subject, key, signer, payload, brokenOff, listing>>

\* Mutant: the proof is checked against the root of the tree it comes from.
MutantRebuiltRoot(leaf, i, leaves, signed) ==
    IF leaves = <<>> THEN signed = <<leaf>>
    ELSE i \in DOMAIN leaves /\ [leaves EXCEPT ![i] = leaf] = leaves

\* Mutant: the leaf index is counted from one in the proof, from zero here.
MutantIndexShifted(leaf, i, leaves, signed) ==
    IF leaves = <<>> THEN signed = <<leaf>>
    ELSE i + 1 \in DOMAIN leaves /\ [leaves EXCEPT ![i + 1] = leaf] = signed

\* Whether the proof of index i in the tree of these leaves leads from leaf
\* to the signed root (module Merkle).  Without leaves the proof is empty.
ProofLeadsToRoot(leaf, i, leaves, signed) ==
    IF leaves = <<>> THEN signed = <<leaf>>
    ELSE i \in DOMAIN leaves /\ [leaves EXCEPT ![i] = leaf] = signed

\* What a verifier with key k says of the row it read, given the rows of its
\* batch: first the signature, then the proof.
Verdict(k, b, leaf, i, leaves) ==
    IF Verify(k, signedBy[b]) /\ ProofLeadsToRoot(leaf, i, leaves, SignedLeaves(b))
    THEN "valid" ELSE "invalid"

\* The third query, GetRecordsByBatchID in the order of the leaves, and the
\* verdict of a verifier that has key k.
GetLeaves(k) ==
    LET b == subject[1]
    IN  /\ step = "leaves"
        /\ \E n \in 0..EventCount[b] :
              /\ 1..n = hot[b] \/ ("truncate" \in ReadFaults /\ 1..n \subseteq hot[b])
              /\ brokenOff' = (1..n # hot[b])
              /\ step' = Verdict(k, b, payload, subject[2], [l \in 1..n |-> ReadBack(<<b, l>>)])
        /\ key' = k
        /\ UNCHANGED <<tvars, kvars, sealing, subject, signer, payload, listing>>

\* A query fails.
QueryFails ==
    /\ "query" \in ReadFaults /\ step \in Steps
    /\ step' = "error"
    /\ subject' = NoRecord /\ payload' = NoPayload /\ brokenOff' = FALSE
    /\ offset' = 0 /\ seen' = {} /\ due' = {} /\ purged' = {}
    /\ UNCHANGED <<tvars, kvars, sealing, key, signer>>

\* GetRecordDetailHandler, without and with decrypt=true.
ShowRecord(r) == Begin(r, "shown", MockKey)

\* Fields the API server's key does not decrypt are shown as they are, and so
\* is a ciphertext that somebody altered.
DecryptRecord(r, k) ==
    \/ Decrypt(k, signedBy[r[1]]) /\ Begin(r, "plain", k)
    \/ (~ Decrypt(k, signedBy[r[1]]) \/ r \in altered) /\ Begin(r, "cipher", k)

\* A document has a record, a proof, a root and a signature, and may have a
\* public key.  Its root is that of batch b, or its writer computed one for
\* this record and signed it.
DocumentHolds(k, s, b, leaf, i) == k = s /\ (s = OwnKey \/ leaf = SignedLeaves(b)[i])

\* PublicVerifyProofHandler and verify -proof-file, for the record the client
\* was shown in a document that is signed with s.  The key comes with the
\* document, or is that of the server, or was given with -pubkey.
VerifyDocument(k, s) ==
    LET b == subject[1]
    IN  /\ step = "shown" /\ s \in {signedBy[b], OwnKey}
        /\ step' = IF DocumentHolds(k, s, b, payload, subject[2]) THEN "valid" ELSE "invalid"
        /\ key' = k /\ signer' = s
        /\ UNCHANGED <<tvars, kvars, sealing, subject, payload, brokenOff, listing>>

(***************************************************************************)
(* Lists.                                                                  *)
(***************************************************************************)

\* ORDER BY ... DESC: how many rows come before each.
LatestBatchFirst(rows) == [x \in rows |-> Cardinality({y \in rows : y[1] > x[1]})]

\* committed_at has no second column beside it: rows of equal time come in
\* any order, and in another one on the next page.
Orders(rows) ==
    {order \in [rows -> 1..Cardinality(rows)] : \A x, y \in rows :
        /\ order[x] = order[y] => x = y
        /\ StoredAt(x) > StoredAt(y) => order[x] > order[y]}

LatestRecordFirst(rows, order) ==
    [x \in rows |-> Cardinality({y \in rows : order[y] > order[x]})]

\* A client begins to list; label is the list it asks for.
BeginList(label, rows) ==
    /\ step = "idle"
    /\ step' = label
    /\ due' = rows
    /\ UNCHANGED <<tvars, kvars, sealing, subject, key, signer, payload, brokenOff, offset, seen, purged>>

\* LIMIT and OFFSET; a page that is not full is the last one.
GetPage(label, rank, end) ==
    LET full == {x \in DOMAIN rank : rank[x] \in offset..(offset + PageSize - 1)}
    IN  /\ step = label
        /\ \E page \in SUBSET full :
              /\ page = full \/ /\ "truncate" \in ReadFaults
                                /\ \A x \in page, y \in full \ page : rank[x] < rank[y]
              /\ seen' = seen \cup page
              /\ offset' = offset + Cardinality(page)
              /\ step' = IF Cardinality(page) < PageSize THEN end ELSE label
              /\ brokenOff' = (brokenOff \/ page # full)
        /\ UNCHANGED <<tvars, kvars, sealing, subject, key, signer, payload, due, purged>>

ListRoots ==
    \/ BeginList("roots", Roots)
    \/ GetPage("roots", LatestBatchFirst(Roots), "all roots")

ListRecords ==
    \/ BeginList("records", StoredHistory)
    \/ \E order \in Orders(StoredHistory) :
          GetPage("records", LatestRecordFirst(StoredHistory, order), "all records")

(***************************************************************************)
(* The composition.                                                        *)
(***************************************************************************)
Client ==
    \/ \E r \in RecordId :
          \/ VerifyRecord(r) \/ ShowRecord(r)
          \/ \E k \in ReaderKey : DecryptRecord(r, k)
    \/ GetBatch \/ QueryFails
    \/ \E k \in ReaderKey : GetLeaves(k)
    \/ \E k, s \in ReaderKey \cup {OwnKey} : VerifyDocument(k, s)
    \/ ListRoots \/ ListRecords

VNext ==
    \/ \E b \in Batch : SealBatch(b)
    \/ \E r \in RecordId : Alter(r)
    \/ Retention \/ KeyStep \/ Client

VSpec == VInit /\ [][VNext]_vvars

(***************************************************************************)
(* Safety.                                                                 *)
(***************************************************************************)

\* What is called valid is the record that was signed: whatever is altered,
\* purged or cut short between the queries of one verification, and whichever
\* key answers, the signature is one of the key it was checked with and the row
\* that was read is the leaf the daemon hashed.  Of a document that is checked
\* with a key of its writer it says only that the writer signed it.
ValidIsGenuine ==
    step = "valid" =>
        /\ key = signer
        /\ key # OwnKey => payload = Hashed(subject) /\ key = signedBy[subject[1]]

\* The batch is out of Postgres, indexed, and in the archive but for records
\* that a job left out of its copy.
Tiered(b) ==
    /\ hot[b] = {} /\ b \in wormIndex
    /\ b \in DOMAIN archives /\ HoldsAll(b, archives[b])

\* A record is only refused for a cause: it was signed with another key than
\* the one it is checked with; a row of its batch (one is enough, for the tree
\* is built from all of them) was altered or does not survive Postgres; or the
\* batch was purged between the queries, and then it is tiered.
RejectedHasCause ==
    LET b == subject[1]
    IN  step = "invalid" /\ ~ brokenOff =>
            \/ key # signer
            \/ \E l \in Leaves(b) : <<b, l>> \in altered \/ ~ Survives(<<b, l>>)
            \/ Tiered(b)

\* A sealed record that is not found has been tiered: its batch is indexed and
\* its archive object holds all records but those that a job left out of its
\* copy, although no reader looks there.
MissingIsTiered == step = "missing" => Tiered(subject[1])

\* A client that pages through a list has seen every row there was when it
\* began, although rows come and go between the pages: of the public roots all
\* of them, of the history of a row all but those that were purged meanwhile,
\* that came after a record that was, which moves the later ones up, or of
\* whose time another row was shown in their place.
ListIsComplete ==
    ~ brokenOff =>
        /\ step = "all roots" => due \subseteq seen
        /\ step = "all records" => \A r \in due \ seen :
              \/ \E p \in purged : StoredAt(p) >= StoredAt(r)
              \/ \E t \in seen : StoredAt(t) = StoredAt(r)

\* Over any number of restarts, and of writes that break off before the first
\* signature, the key on file is the one all batches were signed with, unless
\* somebody replaced a keyfile that held a key.
SignaturesMatchKeyfile ==
    ~ replaced => \A b \in Batch : signedBy[b] # NoKey => signedBy[b] = keyfile

(***************************************************************************)
(* The inductive invariant: what is known of a request at each step.       *)
(***************************************************************************)
ClientKnows ==
    /\ step \in {"batch", "leaves", "missing", "valid", "invalid", "shown", "plain", "cipher"} =>
          subject \in RecordId /\ status[subject[1]] # "none"
    /\ step \in {"batch", "leaves", "shown"} => signer = signedBy[subject[1]]
    /\ step \in {"batch", "leaves", "shown"} =>
          \/ payload = Stored(subject, "recorded")
          \/ payload = Stored(subject, "altered") /\ subject \in altered

\* A list that has not broken off still has to come to every row it owes.
Ahead(x, rank) == x \in DOMAIN rank /\ rank[x] >= offset

Overtaken(r) == \E p \in purged : StoredAt(p) >= StoredAt(r)

Replaced(r) == \E t \in seen : StoredAt(t) = StoredAt(r)

\* How many rows come before the first one of the same time.
FirstOfItsTime(rows) ==
    [x \in rows |-> Cardinality({y \in rows : StoredAt(y) > StoredAt(x)})]

ListGoesOn ==
    /\ step = "idle" => offset = 0 /\ seen = {} /\ purged = {}
    /\ ~ brokenOff =>
          /\ step = "roots" => \A x \in due \ seen : Ahead(x, LatestBatchFirst(Roots))
          /\ step = "records" => \A r \in due \ seen :
                Overtaken(r) \/ Replaced(r) \/ Ahead(r, FirstOfItsTime(StoredHistory))

\* What is counted is finite.
ListsAreFinite == IsFiniteSet(Roots) /\ IsFiniteSet(StoredHistory)

ListInv == VTypeOK /\ ListsAreFinite /\ ListGoesOn /\ ListIsComplete

DaemonHasKeyfile == ~ replaced /\ daemonKey # NoKey => daemonKey = keyfile

VIndInv ==
    /\ TIndInv /\ DOMAIN signedBy = Batch
    /\ ClientKnows /\ ValidIsGenuine /\ RejectedHasCause /\ MissingIsTiered
    /\ DaemonHasKeyfile /\ SignaturesMatchKeyfile
=============================================================================
