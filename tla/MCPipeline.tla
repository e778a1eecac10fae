----------------------------- MODULE MCPipeline -----------------------------
(***************************************************************************)
(* Instances of Pipeline for TLC: two tables, the transactions the source  *)
(* commits and the faults of each configuration.                           *)
(***************************************************************************)
EXTENDS Pipeline

CONSTANTS lax, strict

Plain(kind)  == [kind |-> kind, action |-> "insert", table |-> lax, policy |-> "off",
                 user |-> "", type |-> ""]
Row(t)       == [Plain("row") EXCEPT !.table = t]
DDL          == Plain("ddl")
Config(t, p) == [Plain("config") EXCEPT !.table = t, !.policy = p]

\* A context row with a user_id and an actor_type.
Context(type) == [Plain("context") EXCEPT !.user = "id", !.type = type]
\* One without a user_id, and one that is deleted again.
NoUser        == Plain("context")
OldContext    == [Context("USER") EXCEPT !.action = "delete"]

MCTables == {lax, strict}
MCConfig == [t \in MCTables |-> IF t = lax THEN "tolerate" ELSE "alert"]

\* Two rows, so that a batch can close between them; an unattributed row on
\* the strict table; an attributed row.
MCTransactions ==
    {<<Row(lax), Row(lax)>>, <<Row(strict)>>, <<Context("USER"), Row(strict)>>}
\* Context rows behind the change, of which the first with a user counts; none
\* that counts; the strict table goes out of scope and comes back.
NamedTransactions ==
    {<<Row(lax), DDL, Row(lax)>>, <<NoUser, Row(strict), Context("")>>,
     <<OldContext, Row(strict)>>,
     <<Config(strict, "off")>>, <<Row(strict), Config(strict, "tolerate")>>}
RowPairs == {<<Row(lax), Row(lax)>>, <<Row(lax), DDL, Row(lax)>>}

MCChange   == [tx : 1..MaxTxs, row : 1..MaxRows, actor : ActorAttribution]
MCPosition == 1..MaxTxs

AllFaults   == FaultKinds
AllPipelineFaults == {"build", "configload"}
None        == {}
CrashOnly   == {"crash"}
SigtermOnly == {"sigterm"}
=============================================================================
