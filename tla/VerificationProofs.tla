------------------------- MODULE VerificationProofs -------------------------
(***************************************************************************)
(* Proofs about Verification, for any number of batches, records, keys and *)
(* jobs, whatever is altered, fails or breaks off: what a reader calls     *)
(* valid, refuses, does not find, and lists page by page.                  *)
(***************************************************************************)
EXTENDS Verification, TieringProofs, FiniteSetTheorems

\* To the retention job the composition is the daemon and time.
LEMMA StepIsTieringStep == [VNext]_vvars => [TNext]_tvars
<1> SUFFICES ASSUME [VNext]_vvars PROVE [TNext]_tvars
  OBVIOUS
<1>1. ASSUME NEW b \in Batch, SealBatch(b) PROVE TNext
  BY <1>1 DEF SealBatch, TNext
<1>2. CASE Retention
  BY <1>2 DEF Retention, TNext
<1>3. CASE KeyStep \/ (\E r \in RecordId : Alter(r)) \/ UNCHANGED vvars
  BY <1>3 DEF KeyStep, Alter, vvars
<1>4. CASE Client
  BY <1>4 DEF Client, VerifyRecord, ShowRecord, DecryptRecord, Begin, GetBatch, QueryFails,
              GetLeaves, VerifyDocument, ListRoots, ListRecords, BeginList, GetPage
<1> QED
  BY <1>1, <1>2, <1>3, <1>4 DEF VNext

\* A record is its batch and its leaf.
LEMMA RecordParts ==
    ASSUME NEW r \in RecordId
    PROVE  r[1] \in Batch /\ r[2] \in Leaves(r[1]) /\ r = <<r[1], r[2]>>
  BY DEF RecordId

\* A row that nobody altered and that survives Postgres is what was hashed.
LEMMA SurvivorsAreHashed ==
    ASSUME NEW r, Survives(r)
    PROVE  Stored(r, "recorded") = Hashed(r)
  BY DEF Survives, Stored, Hashed

\* A proof that leads to the signed root starts at the signed leaf, whether
\* the leaves are those that were signed or not.
LEMMA ProofStartsAtLeaf ==
    ASSUME NEW b \in Batch, NEW i \in Leaves(b), NEW leaf, NEW n \in Nat, NEW leaves,
           DOMAIN leaves = 1..n,
           ProofLeadsToRoot(leaf, i, leaves, SignedLeaves(b))
    PROVE  leaf = Hashed(<<b, i>>)
<1>1. SignedLeaves(b)[i] = Hashed(<<b, i>>) /\ DOMAIN SignedLeaves(b) = Leaves(b)
  BY DEF SignedLeaves
<1>2. CASE leaves = <<>>
  <2>1. SignedLeaves(b) = <<leaf>>
    BY <1>2 DEF ProofLeadsToRoot
  <2>2. DOMAIN SignedLeaves(b) = {1} /\ SignedLeaves(b)[1] = leaf
    BY <2>1
  <2>3. i = 1
    BY <1>1, <2>2
  <2> QED
    BY <1>1, <2>2, <2>3
<1>3. CASE leaves # <<>>
  <2>1. i \in DOMAIN leaves /\ [leaves EXCEPT ![i] = leaf] = SignedLeaves(b)
    BY <1>3 DEF ProofLeadsToRoot
  <2>2. [leaves EXCEPT ![i] = leaf][i] = leaf
    BY <2>1
  <2> QED
    BY <1>1, <2>1, <2>2
<1> QED
  BY <1>2, <1>3

\* The proof of a genuine record in the tree of its batch leads to the root.
LEMMA GenuineProofLeads ==
    ASSUME NEW b \in Batch, NEW i \in Leaves(b), NEW leaves,
           leaves = SignedLeaves(b)
    PROVE  ProofLeadsToRoot(Hashed(<<b, i>>), i, leaves, SignedLeaves(b))
<1>1. DOMAIN leaves = Leaves(b) /\ leaves[i] = Hashed(<<b, i>>)
  BY DEF SignedLeaves
<1>2. leaves = [l \in Leaves(b) |-> leaves[l]]
  BY DEF SignedLeaves
<1>3. [leaves EXCEPT ![i] = Hashed(<<b, i>>)] = leaves
  BY <1>1, <1>2
<1>4. leaves # <<>>
  BY <1>1
<1> QED
  BY <1>1, <1>3, <1>4 DEF ProofLeadsToRoot

\* Records are missing from Postgres only when their batch is tiered.
LEMMA PurgedIsTiered ==
    ASSUME TIndInv, NEW b \in Batch, status[b] # "none", hot[b] # Leaves(b)
    PROVE  Tiered(b)
  BY DEF TIndInv, PurgedIsIndexed, ArchivesComplete, Tiered

\* The verdict on what is in Postgres.
LEMMA StoredVerdict ==
    ASSUME VIndInv, NEW k, GetLeaves(k)
    PROVE  ValidIsGenuine' /\ RejectedHasCause'
<1> DEFINE b == subject[1]
           i == subject[2]
<1>1. /\ subject \in RecordId /\ status[b] # "none"
      /\ signer = signedBy[b]
      /\ \/ payload = Stored(subject, "recorded")
         \/ payload = Stored(subject, "altered") /\ subject \in altered
  BY DEF GetLeaves, VIndInv, ClientKnows
<1>2. b \in Batch /\ i \in Leaves(b) /\ subject = <<b, i>>
  BY <1>1, RecordParts
<1>3. PICK n \in 0..EventCount[b] :
         /\ brokenOff' = (1..n # hot[b])
         /\ step' = IF /\ Verify(k, signedBy[b])
                       /\ ProofLeadsToRoot(payload, i, [l \in 1..n |-> ReadBack(<<b, l>>)],
                                           SignedLeaves(b))
                    THEN "valid" ELSE "invalid"
  BY DEF GetLeaves, Verdict
<1>4. /\ UNCHANGED <<subject, signer, payload, signedBy, altered, hot, wormIndex, archives, skipped>>
      /\ key' = k
  BY DEF GetLeaves, tvars, postgres, sealing
<1>5. EventCount[b] \in Nat \ {0} /\ n \in Nat
  BY <1>2, TieringAssumption
<1> DEFINE leaves == [l \in 1..n |-> ReadBack(<<b, l>>)]
<1>6. ASSUME step' = "valid" PROVE payload = Hashed(subject) /\ k = signedBy[b]
  <2>1. Verify(k, signedBy[b]) /\ ProofLeadsToRoot(payload, i, leaves, SignedLeaves(b))
    BY <1>3, <1>6
  <2>2. DOMAIN leaves = 1..n
    OBVIOUS
  <2>3. payload = Hashed(<<b, i>>)
    BY <1>2, <1>5, <2>1, <2>2, ProofStartsAtLeaf
  <2> QED
    BY <1>2, <2>1, <2>3 DEF Verify
<1>7. ASSUME step' = "invalid", ~ brokenOff', k = signedBy[b],
             \A l \in Leaves(b) : <<b, l>> \notin altered /\ Survives(<<b, l>>)
      PROVE  Tiered(b)
  <2>1. SUFFICES ASSUME hot[b] = Leaves(b) PROVE FALSE
    BY <1>1, <1>2, PurgedIsTiered DEF VIndInv
  <2>2. 1..n = 1..EventCount[b]
    BY <1>3, <1>7, <2>1 DEF Leaves
  <2>3. \A l \in Leaves(b) : ReadBack(<<b, l>>) = Hashed(<<b, l>>)
    BY <1>7, SurvivorsAreHashed DEF ReadBack
  <2>4. leaves = SignedLeaves(b)
    BY <2>2, <2>3 DEF SignedLeaves, Leaves
  <2>5. payload = Hashed(<<b, i>>)
    BY <1>1, <1>2, <1>7, SurvivorsAreHashed
  <2>6. ProofLeadsToRoot(payload, i, leaves, SignedLeaves(b))
    BY <1>2, <2>4, <2>5, GenuineProofLeads
  <2>7. Verify(k, signedBy[b])
    BY <1>7 DEF Verify
  <2> QED
    BY <1>3, <1>7, <2>6, <2>7
<1>8. step' \in {"valid", "invalid"}
  BY <1>3
<1>9. ValidIsGenuine'
  BY <1>1, <1>4, <1>6 DEF ValidIsGenuine, Hashed
<1>10. RejectedHasCause'
  BY <1>1, <1>4, <1>7, <1>8 DEF RejectedHasCause, Tiered, HoldsAll, Survives, StoredAt, Leaves
<1> QED
  BY <1>9, <1>10

\* The verdict on a document: its record was read from Postgres, too.
LEMMA DocumentVerdict ==
    ASSUME VIndInv, NEW k, NEW s, VerifyDocument(k, s)
    PROVE  ValidIsGenuine' /\ RejectedHasCause'
<1> DEFINE b == subject[1]
           i == subject[2]
<1>1. /\ subject \in RecordId
      /\ \/ payload = Stored(subject, "recorded")
         \/ payload = Stored(subject, "altered") /\ subject \in altered
  BY DEF VerifyDocument, VIndInv, ClientKnows
<1>2. b \in Batch /\ i \in Leaves(b) /\ subject = <<b, i>>
  BY <1>1, RecordParts
<1>3. /\ UNCHANGED <<subject, payload, signedBy, altered>> /\ key' = k /\ signer' = s
      /\ s \in {signedBy[b], OwnKey}
      /\ step' = IF k = s /\ (s = OwnKey \/ payload = SignedLeaves(b)[i])
                 THEN "valid" ELSE "invalid"
  BY DEF VerifyDocument, DocumentHolds, sealing
<1>4. SignedLeaves(b)[i] = Hashed(subject)
  BY <1>2 DEF SignedLeaves
<1>5. subject \notin altered /\ Survives(subject) => payload = Hashed(subject)
  BY <1>1, SurvivorsAreHashed
<1>6. ValidIsGenuine'
  BY <1>3, <1>4 DEF ValidIsGenuine, Hashed, OwnKey
<1>7. RejectedHasCause'
  <2>1. step' = "invalid" /\ k = s => subject \in altered \/ ~ Survives(subject)
    BY <1>3, <1>4, <1>5
  <2> QED
    BY <1>2, <1>3, <2>1 DEF RejectedHasCause, Survives, StoredAt, Leaves
<1> QED
  BY <1>6, <1>7

-----------------------------------------------------------------------------
(***************************************************************************)
(* The inductive invariant.                                                *)
(***************************************************************************)

\* A tiered batch stays tiered.
LEMMA TieredStays ==
    ASSUME TIndInv, [TNext]_tvars, NEW b \in Batch, status[b] # "none", Tiered(b)
    PROVE  Tiered(b)'
<1>1. TIndInv' /\ OneWay
  BY TIndInvInductive
<1>2. hot'[b] = {} /\ b \in wormIndex' /\ b \in DOMAIN archives'
  BY <1>1 DEF OneWay, Tiered
<1>3. HoldsAll(b, archives[b])'
  BY <1>1, <1>2 DEF TIndInv, ArchivesComplete
<1> QED
  BY <1>2, <1>3 DEF Tiered

\* A step that leaves the request alone, unalters nothing and signs no sealed
\* batch again leaves what is known of the request, and its answer, true.
LEMMA RequestStays ==
    ASSUME VIndInv, [TNext]_tvars,
           UNCHANGED <<step, subject, key, signer, payload, brokenOff>>, altered \subseteq altered',
           \A b \in Batch : status[b] # "none" => signedBy'[b] = signedBy[b]
    PROVE  ClientKnows' /\ ValidIsGenuine' /\ RejectedHasCause' /\ MissingIsTiered'
<1>1. ClientKnows /\ ValidIsGenuine /\ RejectedHasCause /\ MissingIsTiered /\ TIndInv
  BY DEF VIndInv
<1>2. OneWay
  BY <1>1, TIndInvInductive
<1> DEFINE b == subject[1]
<1>3. CASE step \in {"batch", "leaves", "missing", "valid", "invalid", "shown", "plain", "cipher"}
  <2>1. subject \in RecordId /\ status[b] # "none"
    BY <1>1, <1>3 DEF ClientKnows
  <2>2. b \in Batch
    BY <2>1, RecordParts
  <2>3. status'[b] # "none" /\ signedBy'[b] = signedBy[b]
    BY <1>2, <2>1, <2>2 DEF OneWay
  <2>4. Tiered(b) => Tiered(b)'
    BY <1>1, <2>1, <2>2, TieredStays
  <2>5. ClientKnows'
    BY <1>1, <2>1, <2>3 DEF ClientKnows, Stored, StoredAt, RecordId, Leaves
  <2>6. ValidIsGenuine'
    BY <1>1, <2>3 DEF ValidIsGenuine, Hashed
  <2>7. RejectedHasCause'
    <3>1. RejectedHasCause <=>
            (step = "invalid" /\ ~ brokenOff =>
                  \/ key # signer
                  \/ \E l \in Leaves(b) : <<b, l>> \in altered \/ ~ Survives(<<b, l>>)
                  \/ Tiered(b))
      BY DEF RejectedHasCause
    <3>2. RejectedHasCause' <=>
            (step = "invalid" /\ ~ brokenOff =>
                  \/ key # signer
                  \/ \E l \in Leaves(b) : <<b, l>> \in altered' \/ ~ Survives(<<b, l>>)
                  \/ Tiered(b)')
      BY DEF RejectedHasCause, Tiered, HoldsAll, Survives, StoredAt, Leaves
    <3> QED
      BY <1>1, <2>4, <3>1, <3>2
  <2>8. MissingIsTiered'
    BY <1>1, <2>4 DEF MissingIsTiered, Tiered, HoldsAll, Leaves
  <2> QED
    BY <2>5, <2>6, <2>7, <2>8
<1>4. CASE step \notin {"batch", "leaves", "missing", "valid", "invalid", "shown", "plain", "cipher"}
  BY <1>4 DEF ClientKnows, ValidIsGenuine, RejectedHasCause, MissingIsTiered
<1> QED
  BY <1>3, <1>4

\* A new request: a sealed record that is not in Postgres was tiered.
LEMMA RequestBegins ==
    ASSUME VIndInv, NEW r \in RecordId, NEW found \in {"batch", "shown", "plain", "cipher"}, NEW k,
           Begin(r, found, k)
    PROVE  ClientKnows' /\ ValidIsGenuine' /\ RejectedHasCause' /\ MissingIsTiered'
<1> DEFINE b == r[1]
<1>1. b \in Batch /\ r[2] \in Leaves(b)
  BY RecordParts
<1>2. /\ status[b] # "none" /\ subject' = r /\ key' = k /\ signer' = signedBy[b]
      /\ step' = IF r[2] \in hot[b] THEN found ELSE "missing"
      /\ payload' = IF r[2] \in hot[b] THEN ReadBack(r) ELSE NoPayload
      /\ UNCHANGED <<status, hot, wormIndex, archives, skipped, signedBy, altered>>
  BY DEF Begin, tvars, postgres, sealing
<1>3. step' = "missing" => Tiered(b)
  BY <1>1, <1>2, PurgedIsTiered DEF VIndInv
<1>4. ClientKnows'
  <2>1. step' \in {"batch", "leaves", "shown"} => payload' = ReadBack(r)
    BY <1>2
  <2>2. ReadBack(r) = Stored(r, "recorded") \/ (ReadBack(r) = Stored(r, "altered") /\ r \in altered)
    BY DEF ReadBack
  <2> QED
    BY <1>2, <2>1, <2>2 DEF ClientKnows, Stored, StoredAt, RecordId, Leaves
<1>5. step' \notin {"valid", "invalid"}
  BY <1>2
<1>6. ValidIsGenuine' /\ RejectedHasCause'
  BY <1>5 DEF ValidIsGenuine, RejectedHasCause
<1>7. MissingIsTiered'
  BY <1>2, <1>3 DEF MissingIsTiered, Tiered, HoldsAll, Leaves
<1> QED
  BY <1>4, <1>6, <1>7

\* Every step of a client.
LEMMA ClientStep ==
    ASSUME VIndInv, Client
    PROVE  ClientKnows' /\ ValidIsGenuine' /\ RejectedHasCause' /\ MissingIsTiered'
<1>1. ASSUME NEW r \in RecordId, VerifyRecord(r) \/ ShowRecord(r)
      PROVE  ClientKnows' /\ ValidIsGenuine' /\ RejectedHasCause' /\ MissingIsTiered'
  BY <1>1, RequestBegins DEF VerifyRecord, ShowRecord
<1>2. ASSUME NEW r \in RecordId, NEW k, DecryptRecord(r, k)
      PROVE  ClientKnows' /\ ValidIsGenuine' /\ RejectedHasCause' /\ MissingIsTiered'
  BY <1>2, RequestBegins DEF DecryptRecord
<1>3. CASE GetBatch
  <2>1. step = "batch" /\ step' = "leaves" /\ UNCHANGED <<subject, signer, payload, signedBy, altered, status>>
    BY <1>3 DEF GetBatch, tvars, postgres, sealing
  <2>2. ClientKnows'
    BY <2>1 DEF ClientKnows, VIndInv, Stored, StoredAt, RecordId, Leaves
  <2> QED
    BY <2>1, <2>2 DEF ValidIsGenuine, RejectedHasCause, MissingIsTiered
<1>4. ASSUME NEW k, NEW s, GetLeaves(k) \/ VerifyDocument(k, s)
      PROVE  ClientKnows' /\ ValidIsGenuine' /\ RejectedHasCause' /\ MissingIsTiered'
  <2>1. step \in {"leaves", "shown"} /\ UNCHANGED <<subject, status>>
    BY <1>4 DEF GetLeaves, VerifyDocument, tvars, postgres
  <2>2. step' \in {"valid", "invalid"}
    BY <1>4 DEF GetLeaves, Verdict, VerifyDocument
  <2>3. subject \in RecordId /\ status[subject[1]] # "none"
    BY <2>1 DEF VIndInv, ClientKnows
  <2>4. ClientKnows' /\ MissingIsTiered'
    BY <2>1, <2>2, <2>3 DEF ClientKnows, MissingIsTiered, RecordId, Leaves
  <2> QED
    BY <1>4, <2>4, StoredVerdict, DocumentVerdict
<1>5. ASSUME step' \in {"error", "roots", "records", "all roots", "all records"}
      PROVE  ClientKnows' /\ ValidIsGenuine' /\ RejectedHasCause' /\ MissingIsTiered'
  BY <1>5 DEF ClientKnows, ValidIsGenuine, RejectedHasCause, MissingIsTiered
<1>6. QueryFails \/ ListRoots \/ ListRecords =>
        step' \in {"error", "roots", "records", "all roots", "all records"}
  BY DEF QueryFails, ListRoots, ListRecords, BeginList, GetPage
<1> QED
  BY <1>1, <1>2, <1>3, <1>4, <1>5, <1>6 DEF Client

\* The keys and what they signed.
LEMMA KeysStep ==
    ASSUME VIndInv, KeyStep
    PROVE  DaemonHasKeyfile' /\ SignaturesMatchKeyfile'
<1>1. /\ DaemonHasKeyfile /\ SignaturesMatchKeyfile /\ signedBy' = signedBy
  BY DEF VIndInv, KeyStep, sealing
<1>2. ASSUME NEW v, GenerateAndSave(v), daemonKey' = daemonKey \/ daemonKey' = keyfile'
      PROVE  DaemonHasKeyfile' /\ SignaturesMatchKeyfile'
  BY <1>1, <1>2 DEF GenerateAndSave, DaemonHasKeyfile, SignaturesMatchKeyfile
<1>3. ASSUME SaveBreaksOff, daemonKey' = daemonKey
      PROVE  DaemonHasKeyfile' /\ SignaturesMatchKeyfile'
  BY <1>1, <1>3 DEF SaveBreaksOff, DaemonHasKeyfile, SignaturesMatchKeyfile
<1>4. CASE LoadKey \/ DaemonEnds
  BY <1>1, <1>4 DEF LoadKey, DaemonEnds, DaemonHasKeyfile, SignaturesMatchKeyfile
<1>5. InitializeKey => GenerateAndSave(V1) /\ daemonKey' = keyfile'
  BY DEF InitializeKey, GenerateAndSave
<1> QED
  BY <1>2, <1>3, <1>4, <1>5
     DEF KeyStep, KNext, Keygen, KeygenFails, InitializeKeyFails

LEMMA VIndInvInit == VInit => VIndInv
<1> SUFFICES ASSUME VInit PROVE VIndInv
  OBVIOUS
<1>1. TIndInv
  BY TIndInvInit DEF VInit
<1> QED
  BY <1>1 DEF VInit, KInit, VIndInv, ClientKnows, ValidIsGenuine, RejectedHasCause,
              MissingIsTiered, DaemonHasKeyfile, SignaturesMatchKeyfile

LEMMA VIndInvInductive ==
    ASSUME VIndInv, [VNext]_vvars
    PROVE  VIndInv'
<1>1. TIndInv /\ DOMAIN signedBy = Batch /\ DaemonHasKeyfile /\ SignaturesMatchKeyfile
  BY DEF VIndInv
<1>2. [TNext]_tvars
  BY StepIsTieringStep
<1>3. TIndInv'
  BY <1>1, <1>2, TIndInvInductive
<1>4. ASSUME NEW b \in Batch, SealBatch(b) PROVE VIndInv'
  <2>1. /\ status[b] = "none" /\ daemonKey # NoKey
        /\ signedBy' = [signedBy EXCEPT ![b] = daemonKey]
        /\ UNCHANGED <<step, subject, key, signer, payload, brokenOff, altered, keyfile, daemonKey, replaced>>
    BY <1>4 DEF SealBatch, CreateBatch, kvars, request
  <2>2. ClientKnows' /\ ValidIsGenuine' /\ RejectedHasCause' /\ MissingIsTiered'
    BY <1>1, <1>2, <2>1, RequestStays
  <2>3. DaemonHasKeyfile' /\ SignaturesMatchKeyfile'
    BY <1>1, <2>1 DEF DaemonHasKeyfile, SignaturesMatchKeyfile
  <2> QED
    BY <1>1, <1>3, <2>1, <2>2, <2>3 DEF VIndInv
<1>5. CASE Retention \/ UNCHANGED vvars \/ \E r \in RecordId : Alter(r)
  <2>1. /\ UNCHANGED <<step, subject, key, signer, payload, brokenOff, signedBy, keyfile, daemonKey, replaced>>
        /\ altered \subseteq altered'
    BY <1>5 DEF Retention, Alter, vvars, kvars, request, sealing
  <2>2. ClientKnows' /\ ValidIsGenuine' /\ RejectedHasCause' /\ MissingIsTiered'
    BY <1>2, <2>1, RequestStays
  <2>3. DaemonHasKeyfile' /\ SignaturesMatchKeyfile'
    BY <1>1, <2>1 DEF DaemonHasKeyfile, SignaturesMatchKeyfile
  <2> QED
    BY <1>1, <1>3, <2>1, <2>2, <2>3 DEF VIndInv
<1>6. CASE KeyStep
  <2>1. UNCHANGED <<step, subject, key, signer, payload, brokenOff, signedBy, altered>>
    BY <1>6 DEF KeyStep, request, sealing
  <2>2. ClientKnows' /\ ValidIsGenuine' /\ RejectedHasCause' /\ MissingIsTiered'
    BY <1>2, <2>1, RequestStays
  <2> QED
    BY <1>1, <1>3, <1>6, <2>1, <2>2, KeysStep DEF VIndInv
<1>7. CASE Client
  <2>1. UNCHANGED <<signedBy, keyfile, daemonKey, replaced>>
    BY <1>7 DEF Client, VerifyRecord, ShowRecord, DecryptRecord, Begin, GetBatch, QueryFails,
                GetLeaves, VerifyDocument, ListRoots, ListRecords, BeginList, GetPage,
                sealing, kvars
  <2>2. DaemonHasKeyfile' /\ SignaturesMatchKeyfile'
    BY <1>1, <2>1 DEF DaemonHasKeyfile, SignaturesMatchKeyfile
  <2> QED
    BY <1>1, <1>3, <1>7, <2>1, <2>2, ClientStep DEF VIndInv
<1> QED
  BY <1>4, <1>5, <1>6, <1>7 DEF VNext

-----------------------------------------------------------------------------
(***************************************************************************)
(* Pages.  A list comes in an order no two of its rows share a place in;   *)
(* the rank of a row is the number of rows with a later place.             *)
(***************************************************************************)
Later(rows, at, x) == {y \in rows : at[y] > at[x]}

RankOf(rows, at) == [x \in rows |-> Cardinality(Later(rows, at, x))]

Times(rows) == {at \in [rows -> Nat] : \A x, y \in rows : at[x] = at[y] => x = y}

\* A later row has a smaller rank.
LEMMA LaterRanksBelow ==
    ASSUME NEW rows, IsFiniteSet(rows), NEW at \in Times(rows)
    PROVE  /\ RankOf(rows, at) \in [rows -> Nat]
           /\ \A x, y \in rows : at[x] < at[y] => RankOf(rows, at)[y] < RankOf(rows, at)[x]
<1>1. ASSUME NEW x \in rows
      PROVE  IsFiniteSet(Later(rows, at, x)) /\ Cardinality(Later(rows, at, x)) \in Nat
  BY FS_Subset, FS_CardinalityType DEF Later
<1>2. ASSUME NEW x \in rows, NEW y \in rows, at[x] < at[y]
      PROVE  Cardinality(Later(rows, at, y)) < Cardinality(Later(rows, at, x))
  <2>1. at[x] \in Nat /\ at[y] \in Nat
    BY DEF Times
  <2>2. Later(rows, at, y) \cup {y} \in SUBSET Later(rows, at, x)
    BY <1>2, <2>1 DEF Later, Times
  <2>3. y \notin Later(rows, at, y)
    BY <2>1 DEF Later
  <2>4. Cardinality(Later(rows, at, y) \cup {y}) = Cardinality(Later(rows, at, y)) + 1
    BY <1>1, <2>3, FS_AddElement
  <2>5. Cardinality(Later(rows, at, y) \cup {y}) <= Cardinality(Later(rows, at, x))
    BY <1>1, <2>2, FS_Subset
  <2> QED
    BY <1>1, <2>4, <2>5
<1> QED
  BY <1>1, <1>2 DEF RankOf

\* So no two rows have the same rank.
LEMMA RanksDiffer ==
    ASSUME NEW rows, IsFiniteSet(rows), NEW at \in Times(rows),
           NEW x \in rows, NEW y \in rows, RankOf(rows, at)[x] = RankOf(rows, at)[y]
    PROVE  x = y
<1>1. at[x] \in Nat /\ at[y] \in Nat /\ (at[x] = at[y] => x = y)
  BY DEF Times
<1>2. RankOf(rows, at)[x] \in Nat /\ RankOf(rows, at)[y] \in Nat
  BY LaterRanksBelow
<1>3. ~ (at[x] < at[y]) /\ ~ (at[y] < at[x])
  BY <1>2, LaterRanksBelow
<1> QED
  BY <1>1, <1>3

\* Ranks have no gaps: every number below the rank of a row is the rank of one.
\* The rows before it have different ranks below its own, and there are as many
\* of them as of such ranks.
LEMMA RanksHaveNoGaps ==
    ASSUME NEW rows, IsFiniteSet(rows), NEW at \in Times(rows),
           NEW r \in rows, NEW k \in Nat, k < RankOf(rows, at)[r]
    PROVE  \E x \in rows : RankOf(rows, at)[x] = k
<1> DEFINE rank  == RankOf(rows, at)
           S     == Later(rows, at, r)
           below == 0..(rank[r] - 1)
           f     == [x \in S |-> rank[x]]
<1>1. rank \in [rows -> Nat] /\ S \subseteq rows /\ rank[r] = Cardinality(S)
  BY LaterRanksBelow DEF RankOf, Later
<1>2. \A x \in S : rank[x] \in below
  <2>1. \A x \in S : at[r] < at[x]
    BY DEF Later, Times
  <2>2. \A x \in S : rank[x] < rank[r]
    BY <1>1, <2>1, LaterRanksBelow
  <2> HIDE DEF rank, S
  <2> QED
    BY <1>1, <2>2
<1>3. \A x, y \in S : f[x] = f[y] => x = y
  BY <1>1, RanksDiffer
<1>4. f \in Injection(S, below)
  <2> HIDE DEF rank, S, below
  <2> QED
    BY <1>2, <1>3 DEF Injection, IsInjective
<1>5. IsFiniteSet(below) /\ Cardinality(below) = rank[r]
  <2>1. rank[r] \in Nat
    BY <1>1
  <2>2. \A n \in Nat : IsFiniteSet(0..(n - 1)) /\ Cardinality(0..(n - 1)) = n
    BY FS_Interval
  <2> HIDE DEF rank
  <2> QED
    BY <2>1, <2>2
<1>6. f \in Surjection(S, below)
  <2> HIDE DEF f, below, rank, S
  <2> QED
    BY <1>1, <1>4, <1>5, FS_Injection
<1>7. k \in below
  <2>1. rank[r] \in Nat /\ k < rank[r]
    BY <1>1
  <2> HIDE DEF rank
  <2> QED
    BY <2>1
<1> HIDE DEF below, rank, S
<1> QED
  BY <1>1, <1>6, <1>7 DEF Surjection, rank

Window(rank, from) == {x \in DOMAIN rank : rank[x] \in from..(from + PageSize - 1)}

\* A page has at most PageSize rows, and has that many if any row comes after it.
LEMMA PagesAreFull ==
    ASSUME NEW rows, IsFiniteSet(rows), NEW at \in Times(rows), NEW from \in Nat
    PROVE  LET rank == RankOf(rows, at)
               page == Window(rank, from)
           IN  /\ IsFiniteSet(page) /\ Cardinality(page) \in Nat
               /\ Cardinality(page) <= PageSize
               /\ \A r \in rows : rank[r] >= from + PageSize => Cardinality(page) = PageSize
<1> DEFINE rank == RankOf(rows, at)
           page == Window(rank, from)
           nums == from..(from + PageSize - 1)
           f    == [x \in page |-> rank[x]]
<1>1. rank \in [rows -> Nat] /\ PageSize \in Nat \ {0} /\ page \subseteq rows
  BY LaterRanksBelow, VerificationAssumption DEF Window
<1>2. IsFiniteSet(page) /\ Cardinality(page) \in Nat
  BY <1>1, FS_Subset, FS_CardinalityType
<1>3. IsFiniteSet(nums) /\ Cardinality(nums) = PageSize
  BY <1>1, FS_Interval
<1>4. \A x, y \in page : f[x] = f[y] => x = y
  BY <1>1, RanksDiffer
<1>5. f \in Injection(page, nums)
  <2>1. \A x \in page : rank[x] \in nums
    BY DEF Window
  <2> HIDE DEF page, rank, nums
  <2> QED
    BY <1>4, <2>1 DEF Injection, IsInjective
<1>6. Cardinality(page) <= PageSize /\ (Cardinality(page) = PageSize <=> f \in Surjection(page, nums))
  <2> HIDE DEF f, page, nums
  <2> QED
    BY <1>3, <1>5, FS_Injection
<1>7. ASSUME NEW r \in rows, rank[r] >= from + PageSize
      PROVE  f \in Surjection(page, nums)
  <2>1. ASSUME NEW k \in nums PROVE \E x \in page : f[x] = k
    <3>1. k \in Nat /\ k < rank[r]
      BY <1>1, <1>7
    <3>2. PICK x \in rows : rank[x] = k
      BY <3>1, RanksHaveNoGaps
    <3>3. x \in page
      BY <1>1, <3>2 DEF Window
    <3> QED
      BY <3>2, <3>3
  <2>2. f \in [page -> nums]
    BY <1>5 DEF Injection
  <2> HIDE DEF f, page, nums
  <2> QED
    BY <2>1, <2>2 DEF Surjection
<1> QED
  BY <1>2, <1>6, <1>7

(***************************************************************************)
(* Lists.                                                                  *)
(***************************************************************************)

\* The retention job seals nothing, unseals nothing and adds no records.
LEMMA RetentionShrinks ==
    ASSUME TCore, Retention
    PROVE  /\ \A b \in Batch : hot'[b] \subseteq hot[b]
           /\ \A b \in Batch : status'[b] # "none" <=> status[b] # "none"
<1>1. TTypeOK /\ \A j \in Job : JobIsAt(j)
  BY DEF TCore
<1>2. ASSUME UNCHANGED <<status, hot>>
      PROVE  /\ \A b \in Batch : hot'[b] \subseteq hot[b]
             /\ \A b \in Batch : status'[b] # "none" <=> status[b] # "none"
  BY <1>2
<1>3. ASSUME NEW j \in Job, StatementOK(j) \/ AckLost(j)
      PROVE  /\ \A b \in Batch : hot'[b] \subseteq hot[b]
             /\ \A b \in Batch : status'[b] # "none" <=> status[b] # "none"
  <2>1. Statement(j) /\ pc[j] # "idle"
    BY <1>3 DEF StatementOK, AckLost, Statement
  <2>2. Current(j) \in Batch /\ status[Current(j)] # "none"
    BY <1>1, <2>1, AtWork
  <2> QED
    BY <1>1, <2>1, <2>2 DEF Statement, InsertWORMIndex, DeleteRecords, UpdateBatchStatus, TTypeOK
<1>4. \/ \E b \in Batch : Expire(b)
      \/ \E j \in Job : \/ RunOnce(j) \/ GetRecords(j) \/ StatArchive(j) \/ RenameArchive(j)
                        \/ ChmodFails(j) \/ StepFails(j) \/ StatementOK(j) \/ AckLost(j)
                        \/ CooldownExpires(j) \/ JobCrash(j)
  BY DEF Retention, JobStep
<1>5. ASSUME NEW b \in Batch, Expire(b) PROVE UNCHANGED <<status, hot>>
  BY <1>5 DEF Expire, postgres
<1>6. ASSUME NEW j \in Job, \/ RunOnce(j) \/ GetRecords(j) \/ StatArchive(j) \/ RenameArchive(j)
                            \/ ChmodFails(j) \/ StepFails(j) \/ CooldownExpires(j) \/ JobCrash(j)
      PROVE  UNCHANGED <<status, hot>>
  BY <1>6 DEF RunOnce, GetRecords, StatArchive, RenameArchive, ChmodFails, StepFails,
              CooldownExpires, JobCrash, postgres
<1> QED
  BY <1>2, <1>3, <1>4, <1>5, <1>6

BatchTime(rows) == [x \in rows |-> x[1]]

\* The batches are ordered by their numbers.
LEMMA RootsOrdered ==
    ASSUME NEW rows, rows \subseteq RootRow
    PROVE  /\ BatchTime(rows) \in Times(rows)
           /\ LatestBatchFirst(rows) = RankOf(rows, BatchTime(rows))
<1>1. ASSUME NEW x \in rows PROVE x[1] \in Nat /\ x = <<x[1], 0>>
  <2>1. x \in Batch \X {0}
    BY DEF RootRow
  <2>2. x[1] \in Batch /\ x[2] = 0 /\ x = <<x[1], x[2]>>
    BY <2>1
  <2> QED
    BY <2>2, TieringAssumption
<1>2. BatchTime(rows) \in Times(rows)
  BY <1>1 DEF BatchTime, Times
<1>3. ASSUME NEW x \in rows PROVE {y \in rows : y[1] > x[1]} = Later(rows, BatchTime(rows), x)
  BY DEF Later, BatchTime
<1> QED
  BY <1>2, <1>3 DEF LatestBatchFirst, RankOf

\* committed_at is a number in the table, too.
LEMMA StoredAtType ==
    ASSUME NEW r \in RecordId
    PROVE  StoredAt(r) \in Nat
<1>1. CommittedAt[r] \in Nat
  BY VerificationAssumption
<1>2. \A t \in Nat : ((t + 500) \div 1000) * 1000 \in Nat
  OBVIOUS
<1> QED
  BY <1>1, <1>2 DEF StoredAt, Microseconds

\* A page of records comes in one of the orders that keep to their times.
LEMMA RecordsOrdered ==
    ASSUME NEW rows, IsFiniteSet(rows), NEW order \in Orders(rows)
    PROVE  /\ order \in Times(rows)
           /\ LatestRecordFirst(rows, order) = RankOf(rows, order)
<1>1. Cardinality(rows) \in Nat
  BY FS_CardinalityType
<1>2. order \in Times(rows)
  BY <1>1 DEF Orders, Times
<1> QED
  BY <1>2 DEF LatestRecordFirst, RankOf, Later

\* Whatever the order, a row of the same time has the place of the first one.
LEMMA SomeoneIsFirst ==
    ASSUME NEW rows, rows \subseteq RecordId, IsFiniteSet(rows), NEW order \in Orders(rows),
           NEW r \in rows
    PROVE  \E m \in rows : StoredAt(m) = StoredAt(r)
                          /\ RankOf(rows, order)[m] = FirstOfItsTime(rows)[r]
<1> DEFINE rank == RankOf(rows, order)
           tied == {y \in rows : StoredAt(y) = StoredAt(r)}
<1>1. order \in Times(rows) /\ \A x \in rows : order[x] \in Nat
  BY RecordsOrdered DEF Times
<1>2. /\ rank \in [rows -> Nat]
      /\ \A x, y \in rows : order[x] < order[y] => rank[y] < rank[x]
  BY <1>1, LaterRanksBelow
<1>3. \A x \in rows : StoredAt(x) \in Nat
  BY StoredAtType
<1>4. PICK m \in tied : \A y \in tied : rank[m] <= rank[y]
  <2> DEFINE ranks == {rank[y] : y \in tied}
  <2>1. ranks \subseteq Nat /\ ranks # {}
    BY <1>2
  <2>2. PICK n \in ranks : \A k \in ranks : n <= k
    BY <2>1, LeastExists
  <2> QED
    BY <2>2
<1>5. \A y \in tied : ~ (order[m] < order[y])
  <2> HIDE DEF rank
  <2> QED
    BY <1>2, <1>4
<1>6. Later(rows, order, m) = {y \in rows : StoredAt(y) > StoredAt(r)}
  <2>1. ASSUME NEW y \in rows, order[y] > order[m] PROVE StoredAt(y) > StoredAt(r)
    <3>1. y \notin tied
      BY <1>1, <1>4, <1>5, <2>1
    <3>2. ~ (StoredAt(m) > StoredAt(y))
      BY <1>1, <1>4, <2>1 DEF Orders
    <3> QED
      BY <1>3, <1>4, <3>1, <3>2
  <2>2. ASSUME NEW y \in rows, StoredAt(y) > StoredAt(r) PROVE order[y] > order[m]
    BY <1>4, <2>2 DEF Orders
  <2> QED
    BY <2>1, <2>2 DEF Later
<1>7. rank[m] = FirstOfItsTime(rows)[r]
  BY <1>4, <1>6 DEF RankOf, FirstOfItsTime
<1> QED
  BY <1>4, <1>7

\* A row's rank does not fall while no row before it disappears.
LEMMA RanksGrow ==
    ASSUME NEW rows, IsFiniteSet(rows), NEW at \in Times(rows),
           NEW more, IsFiniteSet(more), NEW at2 \in Times(more),
           NEW x \in rows \cap more, Later(rows, at, x) \subseteq Later(more, at2, x)
    PROVE  RankOf(rows, at)[x] <= RankOf(more, at2)[x]
<1>1. IsFiniteSet(Later(more, at2, x))
  BY FS_Subset DEF Later
<1>2. Cardinality(Later(rows, at, x)) <= Cardinality(Later(more, at2, x))
  BY <1>1, FS_Subset
<1> QED
  BY <1>2 DEF RankOf

\* Nor does the place of the first row of its time.
LEMMA FirstGrows ==
    ASSUME NEW rows, IsFiniteSet(rows), NEW more, IsFiniteSet(more),
           NEW x \in rows \cap more, \A y \in rows : StoredAt(y) > StoredAt(x) => y \in more
    PROVE  /\ FirstOfItsTime(rows)[x] \in Nat /\ FirstOfItsTime(more)[x] \in Nat
           /\ FirstOfItsTime(rows)[x] <= FirstOfItsTime(more)[x]
<1> DEFINE S == {y \in rows : StoredAt(y) > StoredAt(x)}
           T == {y \in more : StoredAt(y) > StoredAt(x)}
<1>1. S \subseteq T /\ S \subseteq rows /\ T \subseteq more
  OBVIOUS
<1>2. IsFiniteSet(S) /\ IsFiniteSet(T)
  BY <1>1, FS_Subset
<1>3. Cardinality(S) \in Nat /\ Cardinality(T) \in Nat /\ Cardinality(S) <= Cardinality(T)
  BY <1>1, <1>2, FS_Subset, FS_CardinalityType
<1> QED
  BY <1>3 DEF FirstOfItsTime

\* A page: what is still ahead is on it, or ahead of the next one.
LEMMA PageKeepsList ==
    ASSUME NEW rows, IsFiniteSet(rows), NEW at \in Times(rows), NEW label, NEW end,
           offset \in Nat, GetPage(label, RankOf(rows, at), end)
    PROVE  /\ offset' \in Nat /\ brokenOff' \in BOOLEAN /\ step' \in {label, end}
           /\ seen' \subseteq seen \cup rows /\ seen \subseteq seen'
           /\ ~ brokenOff' => ~ brokenOff
           /\ \A x \in rows : ~ brokenOff' /\ RankOf(rows, at)[x] >= offset =>
                 x \in seen' \/ (step' = label /\ RankOf(rows, at)[x] >= offset')
<1> DEFINE rank == RankOf(rows, at)
           full == Window(rank, offset)
<1>1. /\ rank \in [rows -> Nat] /\ PageSize \in Nat /\ full \subseteq rows
  BY LaterRanksBelow, VerificationAssumption DEF Window
<1>2. /\ IsFiniteSet(full) /\ Cardinality(full) \in Nat
      /\ Cardinality(full) <= PageSize
      /\ \A r \in rows : rank[r] >= offset + PageSize => Cardinality(full) = PageSize
  BY PagesAreFull
<1>3. PICK page \in SUBSET full :
          /\ seen' = seen \cup page
          /\ offset' = offset + Cardinality(page)
          /\ step' = IF Cardinality(page) < PageSize THEN end ELSE label
          /\ brokenOff' = (brokenOff \/ page # full)
  BY DEF GetPage, Window
<1>4. Cardinality(page) \in Nat
  BY <1>2, FS_Subset, FS_CardinalityType
<1>5. ASSUME NEW x \in rows, ~ brokenOff', rank[x] >= offset, x \notin seen'
      PROVE  step' = label /\ rank[x] >= offset'
  <2>1. page = full /\ x \notin full
    BY <1>3, <1>5
  <2>2. rank[x] \in Nat /\ rank[x] >= offset + PageSize
    BY <1>1, <1>5, <2>1 DEF Window
  <2>3. Cardinality(page) = PageSize
    BY <1>2, <2>1, <2>2
  <2> HIDE DEF rank
  <2> QED
    BY <1>1, <1>3, <2>2, <2>3
<1>6. /\ offset' \in Nat /\ brokenOff' \in BOOLEAN /\ step' \in {label, end}
      /\ seen' \subseteq seen \cup rows /\ seen \subseteq seen'
      /\ ~ brokenOff' => ~ brokenOff
  <2> HIDE DEF rank, full
  <2>1. brokenOff' \in BOOLEAN /\ (~ brokenOff' => ~ brokenOff)
    BY <1>3, Zenon
  <2> QED
    BY <1>1, <1>3, <1>4, <2>1
<1> QED
  BY <1>5, <1>6

\* While the request waits, a row of a list moves back, or one before it was
\* purged.
LEMMA ListStays ==
    ASSUME ListInv, ListsAreFinite', UNCHANGED <<step, brokenOff, offset, seen, due>>,
           Roots \subseteq Roots', purged \subseteq purged',
           step = "idle" => purged' = purged,
           step = "records" => StoredHistory \ StoredHistory' \subseteq purged'
    PROVE  ListGoesOn' /\ ListIsComplete'
<1>1. ListGoesOn /\ ListIsComplete /\ offset \in Nat /\ ListsAreFinite
  BY DEF ListInv, VTypeOK
<1>2. /\ Roots \subseteq RootRow /\ Roots' \subseteq RootRow
      /\ StoredHistory \subseteq History /\ StoredHistory' \subseteq History
  BY DEF Roots, StoredHistory
<1> DEFINE R == Roots
           R2 == Roots'
           H == StoredHistory
           H2 == StoredHistory'
<1>3. IsFiniteSet(R) /\ IsFiniteSet(R2) /\ IsFiniteSet(H) /\ IsFiniteSet(H2)
  BY <1>1 DEF ListsAreFinite
<1>4. ASSUME step = "roots", ~ brokenOff, NEW x \in due \ seen
      PROVE  x \in R2 /\ LatestBatchFirst(R2)[x] >= offset
  <2>1. x \in R /\ LatestBatchFirst(R)[x] >= offset
    BY <1>1, <1>4 DEF ListGoesOn, Ahead, LatestBatchFirst
  <2>2. /\ BatchTime(R) \in Times(R) /\ LatestBatchFirst(R) = RankOf(R, BatchTime(R))
        /\ BatchTime(R2) \in Times(R2) /\ LatestBatchFirst(R2) = RankOf(R2, BatchTime(R2))
    BY <1>2, RootsOrdered
  <2>3. x \in R \cap R2 /\ Later(R, BatchTime(R), x) \subseteq Later(R2, BatchTime(R2), x)
    BY <2>1 DEF Later, BatchTime
  <2> HIDE DEF R, R2
  <2>4. RankOf(R, BatchTime(R))[x] <= RankOf(R2, BatchTime(R2))[x]
    BY <1>3, <2>2, <2>3, RanksGrow
  <2>5. RankOf(R, BatchTime(R))[x] \in Nat /\ RankOf(R2, BatchTime(R2))[x] \in Nat
    BY <1>3, <2>2, <2>3, LaterRanksBelow
  <2> QED
    BY <1>1, <2>1, <2>2, <2>3, <2>4, <2>5
<1>5. ASSUME step = "records", ~ brokenOff, NEW r \in due \ seen, ~ Replaced(r),
             ~ \E p \in purged' : StoredAt(p) >= StoredAt(r)
      PROVE  r \in H2 /\ FirstOfItsTime(H2)[r] >= offset
  <2>1. ~ Overtaken(r)
    BY <1>5 DEF Overtaken
  <2>2. r \in H /\ FirstOfItsTime(H)[r] >= offset
    BY <1>1, <1>5, <2>1 DEF ListGoesOn, Ahead, FirstOfItsTime
  <2>3. \A y \in H : StoredAt(y) \in Nat
    BY <1>2, StoredAtType, VerificationAssumption
  <2>4. \A y \in H : StoredAt(y) >= StoredAt(r) => y \in H2
    BY <1>5
  <2> HIDE DEF H, H2
  <2>5. r \in H \cap H2 /\ \A y \in H : StoredAt(y) > StoredAt(r) => y \in H2
    BY <2>2, <2>3, <2>4
  <2>6. /\ FirstOfItsTime(H)[r] \in Nat /\ FirstOfItsTime(H2)[r] \in Nat
        /\ FirstOfItsTime(H)[r] <= FirstOfItsTime(H2)[r]
    BY <1>3, <2>5, FirstGrows
  <2> QED
    BY <1>1, <2>2, <2>5, <2>6
<1>6. ListGoesOn'
  <2>1. step = "idle" => offset = 0 /\ seen = {} /\ purged' = {}
    BY <1>1 DEF ListGoesOn
  <2>2. DOMAIN LatestBatchFirst(R2) = R2 /\ DOMAIN FirstOfItsTime(H2) = H2
    BY DEF LatestBatchFirst, FirstOfItsTime
  <2>3. ASSUME step = "roots", ~ brokenOff, NEW x \in due \ seen
        PROVE  x \in DOMAIN LatestBatchFirst(R2) /\ LatestBatchFirst(R2)[x] >= offset
    BY <1>4, <2>2, <2>3
  <2>4. ASSUME step = "records", ~ brokenOff, NEW r \in due \ seen
        PROVE  \/ \E p \in purged' : StoredAt(p) >= StoredAt(r)
               \/ Replaced(r)
               \/ r \in DOMAIN FirstOfItsTime(H2) /\ FirstOfItsTime(H2)[r] >= offset
    BY <1>5, <2>2, <2>4
  <2> QED
    BY <2>1, <2>3, <2>4
       DEF ListGoesOn, Ahead, Overtaken, Replaced, LatestBatchFirst, FirstOfItsTime, StoredAt
<1>7. ListIsComplete'
  BY <1>1 DEF ListIsComplete, StoredAt
<1> QED
  BY <1>6, <1>7

\* A client's own steps on a list.
LEMMA ListStep ==
    ASSUME ListInv, ListRoots \/ ListRecords
    PROVE  /\ ListGoesOn' /\ ListIsComplete'
           /\ offset' \in Nat /\ brokenOff' \in BOOLEAN /\ step' \in Steps \cup Answers
           /\ seen' \subseteq RootRow \cup RecordId /\ due' \subseteq RootRow \cup RecordId
           /\ purged' \subseteq History
<1>1. /\ ListGoesOn /\ ListIsComplete /\ offset \in Nat /\ brokenOff \in BOOLEAN
      /\ seen \subseteq RootRow \cup RecordId /\ due \subseteq RootRow \cup RecordId
      /\ purged \subseteq History /\ IsFiniteSet(Roots) /\ IsFiniteSet(StoredHistory)
  BY DEF ListInv, VTypeOK, ListsAreFinite
<1>2. Roots \subseteq RootRow /\ StoredHistory \subseteq History /\ History \subseteq RecordId
  BY VerificationAssumption DEF Roots, StoredHistory
<1>3. UNCHANGED <<status, hot, purged>>
  BY DEF ListRoots, ListRecords, BeginList, GetPage, tvars, postgres
<1>4. Roots' = Roots /\ StoredHistory' = StoredHistory
  BY <1>3 DEF Roots, StoredHistory
<1> DEFINE R == Roots
           H == StoredHistory
           bt == BatchTime(Roots)
           first == FirstOfItsTime(StoredHistory)
<1>5. bt \in Times(R) /\ LatestBatchFirst(R) = RankOf(R, bt)
  BY <1>2, RootsOrdered
<1>6. RankOf(R, bt) \in [R -> Nat] /\ DOMAIN first = H /\ \A r \in H : first[r] \in Nat
  <2>1. DOMAIN first = H /\ \A r \in H : first[r] \in Nat
    BY <1>1, FirstGrows DEF FirstOfItsTime
  <2> QED
    BY <1>1, <1>5, <2>1, LaterRanksBelow
<1>7. ASSUME /\ step' = "roots" /\ ~ brokenOff' =>
                   \A x \in due' \ seen' : x \in R /\ RankOf(R, bt)[x] >= offset'
             /\ step' = "records" /\ ~ brokenOff' => \A r \in due' \ seen' :
                   \/ Overtaken(r) \/ \E t \in seen' : StoredAt(t) = StoredAt(r)
                   \/ r \in H /\ first[r] >= offset',
             step' # "idle"
      PROVE  ListGoesOn'
  <2>1. /\ step' = "roots" /\ ~ brokenOff' => \A x \in due' \ seen' :
              x \in DOMAIN LatestBatchFirst(R) /\ LatestBatchFirst(R)[x] >= offset'
        /\ step' = "records" /\ ~ brokenOff' => \A r \in due' \ seen' :
              \/ Overtaken(r) \/ \E t \in seen' : StoredAt(t) = StoredAt(r)
              \/ r \in DOMAIN first /\ first[r] >= offset'
    BY <1>5, <1>6, <1>7
  <2> QED
    BY <1>3, <1>4, <1>7, <2>1
       DEF ListGoesOn, Ahead, Overtaken, Replaced, LatestBatchFirst, FirstOfItsTime, StoredAt
<1>8. CASE BeginList("roots", Roots)
  <2>1. /\ step = "idle" /\ step' = "roots" /\ due' = Roots
        /\ UNCHANGED <<brokenOff, offset, seen, purged>>
    BY <1>8 DEF BeginList
  <2>2. offset = 0
    BY <1>1, <2>1 DEF ListGoesOn
  <2>3. ListGoesOn'
    <3>1. \A x \in due' \ seen' : x \in R /\ RankOf(R, bt)[x] >= offset'
      BY <1>6, <2>1, <2>2
    <3> QED
      BY <1>7, <2>1, <3>1
  <2> QED
    BY <1>1, <1>2, <2>1, <2>3 DEF ListIsComplete, Steps
<1>9. CASE BeginList("records", StoredHistory)
  <2>1. /\ step = "idle" /\ step' = "records" /\ due' = StoredHistory
        /\ UNCHANGED <<brokenOff, offset, seen, purged>>
    BY <1>9 DEF BeginList
  <2>2. offset = 0
    BY <1>1, <2>1 DEF ListGoesOn
  <2>3. ListGoesOn'
    <3>1. \A r \in due' \ seen' : r \in H /\ first[r] >= offset'
      BY <1>6, <2>1, <2>2
    <3> QED
      BY <1>7, <2>1, <3>1
  <2> QED
    BY <1>1, <1>2, <2>1, <2>3 DEF ListIsComplete, Steps
<1>10. CASE GetPage("roots", LatestBatchFirst(Roots), "all roots")
  <2>1. step = "roots" /\ due' = due
    BY <1>10 DEF GetPage
  <2>2. GetPage("roots", RankOf(R, bt), "all roots")
    BY <1>5, <1>10
  <2> HIDE DEF R, bt
  <2>3. /\ offset' \in Nat /\ brokenOff' \in BOOLEAN /\ step' \in {"roots", "all roots"}
        /\ seen' \subseteq seen \cup R /\ seen \subseteq seen'
        /\ ~ brokenOff' => ~ brokenOff
        /\ \A x \in R : ~ brokenOff' /\ RankOf(R, bt)[x] >= offset =>
              x \in seen' \/ (step' = "roots" /\ RankOf(R, bt)[x] >= offset')
    BY <1>1, <1>5, <2>2, PageKeepsList DEF R
  <2>4. ~ brokenOff => \A x \in due \ seen : x \in R /\ RankOf(R, bt)[x] >= offset
    BY <1>1, <1>5, <1>6, <2>1 DEF ListGoesOn, Ahead, R, bt
  <2>5. ASSUME ~ brokenOff', NEW x \in due' \ seen'
        PROVE  step' = "roots" /\ x \in R /\ RankOf(R, bt)[x] >= offset'
    BY <2>1, <2>3, <2>4, <2>5
  <2>6. ListGoesOn'
    BY <1>7, <2>3, <2>5 DEF R, bt
  <2>7. ListIsComplete'
    BY <2>3, <2>5 DEF ListIsComplete
  <2> QED
    BY <1>1, <1>2, <1>3, <2>1, <2>3, <2>6, <2>7 DEF R, Steps, Answers
<1>11. ASSUME NEW order \in Orders(StoredHistory),
             GetPage("records", LatestRecordFirst(StoredHistory, order), "all records")
       PROVE /\ ListGoesOn' /\ ListIsComplete'
             /\ offset' \in Nat /\ brokenOff' \in BOOLEAN /\ step' \in Steps \cup Answers
             /\ seen' \subseteq RootRow \cup RecordId /\ due' \subseteq RootRow \cup RecordId
             /\ purged' \subseteq History
  <2>1. step = "records" /\ due' = due
    BY <1>11 DEF GetPage
  <2>2. /\ order \in Times(H) /\ GetPage("records", RankOf(H, order), "all records")
        /\ RankOf(H, order) \in [H -> Nat]
    BY <1>1, <1>11, RecordsOrdered, LaterRanksBelow
  <2>3. \A r \in H : \E m \in H : StoredAt(m) = StoredAt(r) /\ RankOf(H, order)[m] = first[r]
    BY <1>1, <1>2, <1>11, SomeoneIsFirst
  <2> HIDE DEF H, first
  <2>4. /\ offset' \in Nat /\ brokenOff' \in BOOLEAN /\ step' \in {"records", "all records"}
        /\ seen' \subseteq seen \cup H /\ seen \subseteq seen'
        /\ ~ brokenOff' => ~ brokenOff
        /\ \A m \in H : ~ brokenOff' /\ RankOf(H, order)[m] >= offset =>
              m \in seen' \/ (step' = "records" /\ RankOf(H, order)[m] >= offset')
    BY <1>1, <2>2, PageKeepsList DEF H
  <2>5. ~ brokenOff => \A r \in due \ seen :
            Overtaken(r) \/ Replaced(r) \/ (r \in H /\ first[r] >= offset)
    BY <1>1, <1>6, <2>1 DEF ListGoesOn, Ahead, H, first
  <2>6. ASSUME ~ brokenOff', NEW r \in due' \ seen', ~ Overtaken(r),
               ~ \E t \in seen' : StoredAt(t) = StoredAt(r)
        PROVE  step' = "records" /\ r \in H /\ first[r] >= offset'
    <3>1. r \in H /\ first[r] >= offset
      BY <2>1, <2>4, <2>5, <2>6 DEF Replaced
    <3>2. PICK m \in H : StoredAt(m) = StoredAt(r) /\ RankOf(H, order)[m] = first[r]
      BY <2>3, <3>1
    <3>3. m \notin seen'
      BY <2>6, <3>2
    <3> QED
      BY <2>4, <2>6, <3>1, <3>2, <3>3
  <2>7. ListGoesOn'
    BY <1>7, <2>4, <2>6 DEF H, first
  <2>8. ListIsComplete'
    BY <1>3, <2>4, <2>6 DEF ListIsComplete, Overtaken, StoredAt
  <2> QED
    BY <1>1, <1>2, <1>3, <2>1, <2>4, <2>7, <2>8 DEF H, Steps, Answers
<1> QED
  BY <1>8, <1>9, <1>10, <1>11 DEF ListRoots, ListRecords

\* The lists grow by what a batch brings and stay finite.
LEMMA FiniteStays ==
    ASSUME VIndInv, ListsAreFinite, [VNext]_vvars
    PROVE  ListsAreFinite'
<1>1. TCore /\ TTypeOK /\ IsFiniteSet(Roots) /\ IsFiniteSet(StoredHistory)
  BY CoreOfTIndInv DEF VIndInv, TCore, ListsAreFinite
<1>2. History \subseteq RecordId /\ \A r \in RecordId : r[1] \in Batch /\ r[2] \in Leaves(r[1]) /\ r = <<r[1], r[2]>>
  BY VerificationAssumption, RecordParts
<1>3. ASSUME NEW b \in Batch, SealBatch(b) PROVE ListsAreFinite'
  <2>1. status' = [status EXCEPT ![b] = "signed"] /\ hot' = [hot EXCEPT ![b] = Leaves(b)]
    BY <1>3 DEF SealBatch, CreateBatch
  <2>2. Roots' \in SUBSET (Roots \cup {<<b, 0>>})
    <3>1. ASSUME NEW x \in Batch \X {0}, status'[x[1]] # "none", x[1] # b
          PROVE  x \in Roots
      BY <1>1, <2>1, <3>1 DEF Roots, RootRow, TTypeOK
    <3>2. ASSUME NEW x \in Batch \X {0}, x[1] = b PROVE x = <<b, 0>>
      BY <3>2
    <3> QED
      BY <3>1, <3>2 DEF Roots, RootRow
  <2>3. IsFiniteSet(Leaves(b))
    <3>1. EventCount[b] \in Int
      BY TieringAssumption
    <3> QED
      BY <3>1, FS_Interval DEF Leaves
  <2>4. IsFiniteSet({b} \X Leaves(b))
    BY <2>3, FS_Singleton, FS_Product
  <2>5. StoredHistory' \in SUBSET (StoredHistory \cup ({b} \X Leaves(b)))
    <3>1. ASSUME NEW r \in History, r[2] \in hot'[r[1]]
          PROVE  r \in StoredHistory \cup ({b} \X Leaves(b))
      <4>1. CASE r[1] = b
        BY <1>2, <4>1
      <4>2. CASE r[1] # b
        BY <1>1, <1>2, <2>1, <3>1, <4>2 DEF StoredHistory, TTypeOK
      <4> QED
        BY <4>1, <4>2
    <3> QED
      BY <3>1 DEF StoredHistory
  <2>6. IsFiniteSet(Roots \cup {<<b, 0>>}) /\ IsFiniteSet(StoredHistory \cup ({b} \X Leaves(b)))
    BY <1>1, <2>4, FS_AddElement, FS_Union
  <2> QED
    BY <2>2, <2>5, <2>6, FS_Subset DEF ListsAreFinite
<1>4. ASSUME \A b \in Batch : hot'[b] \subseteq hot[b],
             \A b \in Batch : status'[b] # "none" <=> status[b] # "none"
      PROVE  ListsAreFinite'
  <2>1. Roots' \in SUBSET Roots
    BY <1>4 DEF Roots, RootRow
  <2>2. StoredHistory' \in SUBSET StoredHistory
    BY <1>2, <1>4 DEF StoredHistory
  <2> QED
    BY <1>1, <2>1, <2>2, FS_Subset DEF ListsAreFinite
<1>5. CASE Retention
  BY <1>1, <1>4, <1>5, RetentionShrinks
<1>6. CASE KeyStep \/ Client \/ (\E r \in RecordId : Alter(r)) \/ UNCHANGED vvars
  <2>1. UNCHANGED <<status, hot>>
    BY <1>6 DEF KeyStep, Alter, vvars, tvars, postgres, Client, VerifyRecord, ShowRecord,
                DecryptRecord, Begin, GetBatch, QueryFails, GetLeaves, VerifyDocument,
                ListRoots, ListRecords, BeginList, GetPage
  <2> QED
    BY <1>4, <2>1
<1> QED
  BY <1>3, <1>5, <1>6 DEF VNext

\* Keys are never forgotten.
LEMMA KeysGrow ==
    ASSUME KTypeOK, KNext
    PROVE  KTypeOK' /\ Key \subseteq Key'
<1>1. versions \in Seq(Version) /\ Len(versions) \in Nat /\ V1 \in Version
  BY KeysAssumption DEF KTypeOK
<1>2. ASSUME NEW v \in Version, GenerateAndSave(v)
      PROVE  /\ versions' \in Seq(Version) /\ Len(versions') = Len(versions) + 1
             /\ keyfile' = Len(versions) + 1 /\ replaced' \in BOOLEAN
             /\ Key \subseteq Key' /\ keyfile' \in Key'
  <2>1. versions' \in Seq(Version) /\ Len(versions') = Len(versions) + 1
    BY <1>1, <1>2 DEF GenerateAndSave
  <2>2. keyfile' = Len(versions) + 1
    BY <1>2 DEF GenerateAndSave
  <2>3. replaced' \in BOOLEAN
    BY <1>2, Zenon DEF GenerateAndSave
  <2> QED
    BY <1>1, <2>1, <2>2, <2>3 DEF Key
<1>3. ASSUME SaveBreaksOff
      PROVE  keyfile' = NoKey /\ versions' = versions /\ replaced' \in BOOLEAN
  <2>1. replaced' \in BOOLEAN
    BY <1>3, Zenon DEF SaveBreaksOff
  <2> QED
    BY <1>3, <2>1 DEF SaveBreaksOff
<1>4. ASSUME NEW v \in Version, Keygen(v) PROVE KTypeOK' /\ Key \subseteq Key'
  BY <1>2, <1>4 DEF Keygen, KTypeOK
<1>5. CASE InitializeKey
  BY <1>1, <1>2, <1>5 DEF InitializeKey, KTypeOK
<1>6. CASE KeygenFails \/ InitializeKeyFails
  <2>1. SaveBreaksOff /\ daemonKey' = daemonKey
    BY <1>6 DEF KeygenFails, InitializeKeyFails
  <2> QED
    BY <1>3, <2>1 DEF KTypeOK, Key
<1>7. CASE LoadKey \/ DaemonEnds
  BY <1>7 DEF LoadKey, DaemonEnds, KTypeOK, Key
<1> QED
  BY <1>4, <1>5, <1>6, <1>7 DEF KNext

\* The types of what a request holds.
RequestTypes ==
    /\ step \in Steps \cup Answers
    /\ subject \in RecordId \cup {NoRecord}
    /\ key \in ReaderKey \cup {OwnKey}
    /\ signer \in ReaderKey \cup {OwnKey}
    /\ \/ payload = NoPayload
       \/ \E v \in {"recorded", "altered"} : payload = Stored(subject, v)
    /\ brokenOff \in BOOLEAN
    /\ offset \in Nat
    /\ seen \subseteq RootRow \cup RecordId /\ due \subseteq RootRow \cup RecordId
    /\ purged \subseteq History

LEMMA RequestTypesStay ==
    ASSUME RequestTypes, Key \subseteq Key', UNCHANGED request, UNCHANGED <<offset, seen, due>>,
           purged' \subseteq History
    PROVE  RequestTypes'
<1>1. UNCHANGED <<step, subject, key, signer, payload, brokenOff>>
  BY DEF request
<1>2. ReaderKey \subseteq ReaderKey'
  BY DEF ReaderKey, MockKey, NoKey
<1> QED
  BY <1>1, <1>2 DEF RequestTypes, OwnKey, Stored, StoredAt, RecordId, NoRecord, NoPayload, Leaves, RootRow

LEMMA RequestTypesClient ==
    ASSUME ListInv, Client
    PROVE  RequestTypes'
<1>1. RequestTypes /\ signedBy \in [Batch -> ReaderKey]
  BY DEF ListInv, VTypeOK, RequestTypes, ReaderKey, MockKey
<1>2. UNCHANGED versions
  BY DEF Client, VerifyRecord, ShowRecord, DecryptRecord, Begin, GetBatch, QueryFails,
         GetLeaves, VerifyDocument, ListRoots, ListRecords, BeginList, GetPage, kvars
<1>3. ReaderKey' = ReaderKey /\ MockKey \in ReaderKey
  BY <1>2 DEF ReaderKey, MockKey, NoKey, Key
<1> DEFINE PayloadType(p, r) ==
              p = NoPayload \/ \E v \in {"recorded", "altered"} : p = Stored(r, v)
<1>4. ASSUME step' \in Steps \cup Answers, subject' \in RecordId \cup {NoRecord},
             key' \in ReaderKey \cup {OwnKey}, signer' \in ReaderKey \cup {OwnKey},
             PayloadType(payload', subject'), brokenOff' \in BOOLEAN, offset' \in Nat,
             seen' \subseteq RootRow \cup RecordId,
             due' \subseteq RootRow \cup RecordId, purged' \subseteq History
      PROVE  RequestTypes'
  BY <1>3, <1>4 DEF RequestTypes, OwnKey, Stored, StoredAt, RecordId, NoRecord, NoPayload, Leaves, RootRow
<1>5. ASSUME NEW r \in RecordId, NEW found \in Steps \cup Answers, NEW k \in ReaderKey,
             Begin(r, found, k)
      PROVE  RequestTypes'
  <2>1. /\ step' \in {found, "missing"} /\ subject' = r /\ key' = k
        /\ signer' = signedBy[r[1]]
        /\ payload' \in {ReadBack(r), NoPayload}
        /\ UNCHANGED <<brokenOff, offset, seen, due, purged>>
    BY <1>5 DEF Begin, listing
  <2>2. PayloadType(ReadBack(r), r)
    BY DEF ReadBack
  <2>3. signedBy[r[1]] \in ReaderKey
    BY <1>1, RecordParts
  <2> QED
    BY <1>1, <1>4, <2>1, <2>2, <2>3 DEF RequestTypes, Answers
<1>6. ASSUME NEW r \in RecordId, NEW k \in ReaderKey,
             VerifyRecord(r) \/ ShowRecord(r) \/ DecryptRecord(r, k)
      PROVE  RequestTypes'
  <2>1. {"batch", "shown", "plain", "cipher"} \subseteq Steps \cup Answers
    BY DEF Steps, Answers
  <2> QED
    BY <1>3, <1>5, <1>6, <2>1 DEF VerifyRecord, ShowRecord, DecryptRecord
<1>7. ASSUME NEW k \in ReaderKey \cup {OwnKey}, NEW s \in ReaderKey \cup {OwnKey},
             GetLeaves(k) \/ VerifyDocument(k, s)
      PROVE  RequestTypes'
  <2>1. /\ key' = k /\ signer' \in {signer, s} /\ step' \in {"valid", "invalid"}
        /\ UNCHANGED <<subject, payload, offset, seen, due, purged>>
    BY <1>7 DEF GetLeaves, VerifyDocument, Verdict, listing
  <2>2. brokenOff' \in BOOLEAN
    <3>1. CASE GetLeaves(k)
      BY <3>1, Zenon DEF GetLeaves
    <3>2. CASE VerifyDocument(k, s)
      BY <1>1, <3>2 DEF VerifyDocument, RequestTypes
    <3> QED
      BY <1>7, <3>1, <3>2
  <2> QED
    BY <1>1, <1>4, <2>1, <2>2 DEF RequestTypes, Answers
<1>8. CASE GetBatch
  <2>1. step' = "leaves" /\ UNCHANGED <<subject, key, signer, payload, brokenOff, offset, seen, due, purged>>
    BY <1>8 DEF GetBatch, listing
  <2> QED
    BY <1>1, <1>4, <2>1 DEF RequestTypes, Steps
<1>9. CASE QueryFails
  <2>1. /\ step' = "error" /\ subject' = NoRecord /\ payload' = NoPayload /\ brokenOff' = FALSE
        /\ offset' = 0 /\ seen' = {} /\ due' = {} /\ purged' = {}
        /\ UNCHANGED <<key, signer>>
    BY <1>9 DEF QueryFails
  <2> QED
    BY <1>1, <1>4, <2>1 DEF RequestTypes, Answers
<1>10. CASE ListRoots \/ ListRecords
  <2>1. UNCHANGED <<subject, key, signer, payload>>
    BY <1>10 DEF ListRoots, ListRecords, BeginList, GetPage
  <2> QED
    BY <1>1, <1>4, <1>10, <2>1, ListStep DEF RequestTypes
<1> QED
  BY <1>3, <1>6, <1>7, <1>8, <1>9, <1>10 DEF Client

\* What the reader's state, the lists included, keeps to.
LEMMA ListInvInductive ==
    ASSUME VIndInv, ListInv, [VNext]_vvars
    PROVE  ListInv'
<1>1. /\ VTypeOK /\ RequestTypes /\ KTypeOK /\ ListGoesOn /\ ListIsComplete
      /\ signedBy \in [Batch -> Key \cup {NoKey}] /\ altered \subseteq RecordId
      /\ purged \subseteq History
  BY DEF ListInv, VTypeOK, RequestTypes
<1>2. TCore' /\ TTypeOK' /\ OneWay /\ TCore
  BY StepIsTieringStep, TCoreInductive, CoreOfTIndInv DEF VIndInv, TCore
<1>3. ListsAreFinite'
  BY FiniteStays DEF ListInv
<1>4. Roots \subseteq Roots'
  BY <1>2 DEF OneWay, Roots, RootRow
<1>5. ASSUME KTypeOK', Key \subseteq Key', UNCHANGED request, UNCHANGED <<offset, seen, due>>,
             purged \subseteq purged', purged' \subseteq History,
             step = "idle" => purged' = purged,
             step = "records" => StoredHistory \ StoredHistory' \subseteq purged',
             signedBy' \in [Batch -> Key' \cup {NoKey}], altered' \subseteq RecordId
      PROVE  ListInv'
  <2>1. RequestTypes'
    BY <1>1, <1>5, RequestTypesStay
  <2>2. VTypeOK'
    BY <1>2, <1>5, <2>1 DEF VTypeOK, RequestTypes, RecordId, Leaves, NoKey
  <2>3. ListGoesOn' /\ ListIsComplete'
    BY <1>3, <1>4, <1>5, ListStays DEF request
  <2> QED
    BY <1>3, <2>2, <2>3 DEF ListInv
<1>6. ASSUME NEW b \in Batch, SealBatch(b) PROVE ListInv'
  <2>1. /\ UNCHANGED <<kvars, altered, request, listing>> /\ daemonKey # NoKey
        /\ signedBy' = [signedBy EXCEPT ![b] = daemonKey]
        /\ hot' = [hot EXCEPT ![b] = Leaves(b)]
    BY <1>6 DEF SealBatch, CreateBatch
  <2>2. KTypeOK' /\ Key' = Key
    BY <1>1, <2>1 DEF kvars, KTypeOK, Key, NoKey
  <2>3. StoredHistory \subseteq StoredHistory'
    <3>1. \A r \in History : r[1] \in Batch /\ r[2] \in Leaves(r[1])
      BY VerificationAssumption, RecordParts
    <3>2. hot \in [Batch -> SUBSET Nat]
      BY <1>1 DEF VTypeOK, TTypeOK
    <3> QED
      BY <2>1, <3>1, <3>2 DEF StoredHistory
  <2>4. signedBy' \in [Batch -> Key' \cup {NoKey}]
    BY <1>1, <2>1, <2>2 DEF KTypeOK
  <2> QED
    BY <1>1, <1>5, <2>1, <2>2, <2>3, <2>4 DEF listing
<1>7. CASE Retention
  <2>1. /\ UNCHANGED <<kvars, sealing, request, offset, seen, due>>
        /\ purged' = purged \cup IF step = "records" THEN StoredHistory \ StoredHistory' ELSE {}
    BY <1>7 DEF Retention
  <2>2. KTypeOK' /\ Key' = Key
    BY <1>1, <2>1 DEF kvars, KTypeOK, Key, NoKey
  <2>3. /\ purged \subseteq purged' /\ purged' \subseteq History
        /\ step = "idle" => purged' = purged
        /\ step = "records" => StoredHistory \ StoredHistory' \subseteq purged'
    BY <1>1, <2>1 DEF StoredHistory
  <2> QED
    BY <1>1, <1>5, <2>1, <2>2, <2>3 DEF sealing
<1>8. CASE KeyStep
  <2>1. UNCHANGED <<tvars, sealing, request, listing>> /\ KNext
    BY <1>8 DEF KeyStep
  <2>2. KTypeOK' /\ Key \subseteq Key'
    BY <1>1, <2>1, KeysGrow
  <2>3. StoredHistory' = StoredHistory
    BY <2>1 DEF StoredHistory, tvars, postgres
  <2> QED
    BY <1>1, <1>5, <2>1, <2>2, <2>3 DEF sealing, listing
<1>9. CASE UNCHANGED vvars \/ \E r \in RecordId : Alter(r)
  <2>1. /\ UNCHANGED <<tvars, kvars, signedBy, request, listing>>
        /\ altered' \subseteq RecordId
    BY <1>1, <1>9 DEF Alter, vvars, sealing
  <2>2. KTypeOK' /\ Key' = Key
    BY <1>1, <2>1 DEF kvars, KTypeOK, Key, NoKey
  <2>3. StoredHistory' = StoredHistory
    BY <2>1 DEF StoredHistory, tvars, postgres
  <2> QED
    BY <1>1, <1>5, <2>1, <2>2, <2>3 DEF listing
<1>10. CASE Client
  <2>1. UNCHANGED <<kvars, signedBy, altered>>
    BY <1>10 DEF Client, VerifyRecord, ShowRecord, DecryptRecord, Begin, GetBatch, QueryFails,
                 GetLeaves, VerifyDocument, ListRoots, ListRecords, BeginList, GetPage, sealing
  <2>2. KTypeOK' /\ Key' = Key
    BY <1>1, <2>1 DEF kvars, KTypeOK, Key, NoKey
  <2>3. VTypeOK'
    BY <1>1, <1>2, <1>10, <2>1, <2>2, RequestTypesClient
       DEF VTypeOK, RequestTypes, RecordId, Leaves, NoKey
  <2>4. CASE ListRoots \/ ListRecords
    BY <1>3, <2>3, <2>4, ListStep DEF ListInv
  <2>5. CASE ~ (ListRoots \/ ListRecords)
    <3>1. step' \notin {"idle", "roots", "records", "all roots", "all records"}
      BY <1>10, <2>5 DEF Client, VerifyRecord, ShowRecord, DecryptRecord, Begin, GetBatch,
                         QueryFails, GetLeaves, VerifyDocument, Verdict
    <3>2. ListGoesOn' /\ ListIsComplete'
      BY <3>1 DEF ListGoesOn, ListIsComplete
    <3> QED
      BY <1>3, <2>3, <3>2 DEF ListInv
  <2> QED
    BY <2>4, <2>5
<1> QED
  BY <1>6, <1>7, <1>8, <1>9, <1>10 DEF VNext

LEMMA ListInvInit == VInit => ListInv
<1> SUFFICES ASSUME VInit PROVE ListInv
  OBVIOUS
<1>1. TTypeOK
  BY TCoreInit DEF VInit, TCore
<1>2. Roots = {} /\ StoredHistory = {}
  <2>1. \A r \in History : r[1] \in Batch
    BY VerificationAssumption, RecordParts
  <2> QED
    BY <2>1 DEF VInit, TInit, Roots, RootRow, StoredHistory
<1>3. ListsAreFinite
  BY <1>2, FS_EmptySet DEF ListsAreFinite
<1>4. KTypeOK
  <2>1. versions = <<>> /\ keyfile = NoKey /\ daemonKey = NoKey /\ replaced = FALSE
    BY DEF VInit, KInit
  <2>2. versions \in Seq(Version)
    BY <2>1
  <2> QED
    BY <2>1, <2>2 DEF KTypeOK
<1>5. VTypeOK
  BY <1>1, <1>4 DEF VInit, VTypeOK, ReaderKey, MockKey, NoKey, Steps, NoPayload, NoRecord
<1>6. ListGoesOn /\ ListIsComplete
  BY DEF VInit, ListGoesOn, ListIsComplete
<1> QED
  BY <1>3, <1>5, <1>6 DEF ListInv

-----------------------------------------------------------------------------
(***************************************************************************)
(* The theorems.                                                           *)
(***************************************************************************)

\* Everything the invariant says holds at every moment.
THEOREM VerificationInductive == VSpec => []VIndInv
<1>1. VIndInv /\ [VNext]_vvars => VIndInv'
  BY VIndInvInductive
<1> QED
  BY <1>1, VIndInvInit, PTL DEF VSpec

\* No altered row, no cut-off tree, no purge between two queries and no other
\* key makes the verifier call anything valid but the record that was signed;
\* only a document that is checked with a key of its writer's own may hold
\* anything else.
THEOREM OnlyGenuineIsValid == VSpec => []ValidIsGenuine
<1>1. VIndInv => ValidIsGenuine
  BY DEF VIndInv
<1> QED
  BY <1>1, VerificationInductive, PTL

\* Every refusal has one of the causes RejectedHasCause lists.
THEOREM RefusalsHaveCauses == VSpec => []RejectedHasCause
<1>1. VIndInv => RejectedHasCause
  BY DEF VIndInv
<1> QED
  BY <1>1, VerificationInductive, PTL

\* A sealed record a reader does not find is of a batch that is indexed and in
\* the archive, but for records a job left out of its copy.
THEOREM MissingRecordsAreTiered == VSpec => []MissingIsTiered
<1>1. VIndInv => MissingIsTiered
  BY DEF VIndInv
<1> QED
  BY <1>1, VerificationInductive, PTL

\* The key on file verifies all batches until somebody replaces it.
THEOREM KeyfileVerifiesAll == VSpec => []SignaturesMatchKeyfile
<1>1. VIndInv => SignaturesMatchKeyfile
  BY DEF VIndInv
<1> QED
  BY <1>1, VerificationInductive, PTL

\* The reader's state stays well-formed, with any number of keys and batches.
THEOREM VerificationTypeCorrect == VSpec => []VTypeOK
<1>1. VInit => VIndInv /\ ListInv
  BY VIndInvInit, ListInvInit
<1>2. VIndInv /\ ListInv /\ [VNext]_vvars => (VIndInv /\ ListInv)'
  BY VIndInvInductive, ListInvInductive
<1>3. ListInv => VTypeOK
  BY DEF ListInv
<1> QED
  BY <1>1, <1>2, <1>3, PTL DEF VSpec

\* A client that reads a list page by page, of any size, while batches are
\* sealed and purged and rows of equal time change places from page to page,
\* has all public roots, and of a row's history all records but those that were
\* purged, came after one that was, or share their time with one it was shown.
THEOREM ListsAreComplete == VSpec => []ListIsComplete
<1>1. VInit => VIndInv /\ ListInv
  BY VIndInvInit, ListInvInit
<1>2. VIndInv /\ ListInv /\ [VNext]_vvars => (VIndInv /\ ListInv)'
  BY VIndInvInductive, ListInvInductive
<1>3. ListInv => ListIsComplete
  BY DEF ListInv
<1> QED
  BY <1>1, <1>2, <1>3, PTL DEF VSpec
=============================================================================
