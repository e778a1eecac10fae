--------------------------- MODULE MCVerification ---------------------------
(***************************************************************************)
(* An instance of Verification for TLC: a batch of two records, which      *)
(* survive Postgres, and two batches of one that do not.                   *)
(***************************************************************************)
EXTENDS Verification

MCBatch      == 1..3
MCEventCount == [b \in MCBatch |-> IF b = 2 THEN 2 ELSE 1]

\* Bytewise "a", "aa", "b", "id"; by length "a", "b", "aa", "id".
colA  == [rank |-> 1, length |-> 1, rewritten |-> FALSE]
colAA == [rank |-> 2, length |-> 2, rewritten |-> FALSE]
colB  == [rank |-> 3, length |-> 1, rewritten |-> FALSE]
colId == [rank |-> 4, length |-> 2, rewritten |-> FALSE]
colX  == [rank |-> 1, length |-> 1, rewritten |-> TRUE]

\* Record <<1, 1>> comes from a bootstrap: its time has nanoseconds, and its
\* image is printed in another order, too.  In the table its time is that of
\* <<2, 1>>.  Record <<3, 1>> has a number jsonb prints in another way.
MCImage == [r \in RecordId |->
    CASE r[1] = 1 -> {colAA, colB} [] r[1] = 2 -> {colA, colId} [] OTHER -> {colX, colId}]
MCCommittedAt == [r \in RecordId |-> IF r = <<1, 1>> THEN 20789 ELSE 10000 * r[1] + 1000 * r[2]]
MCHistory == {<<1, 1>>, <<2, 1>>, <<3, 1>>}

MCReadFaults == ReadFaultKinds
MCJobFaults == {"truncate", "marshal"}
MCKeyFaults == KeyFaultKinds
=============================================================================
