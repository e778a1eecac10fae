------------------------------ MODULE MCBinlog ------------------------------
(***************************************************************************)
(* Instances of Binlog for TLC: transactions of one and two statements.    *)
(***************************************************************************)
EXTENDS Binlog

Stmt(action, count) == [action |-> action, count |-> count]

MCGroups == {<<Stmt("update", 2)>>, <<Stmt("insert", 1), Stmt("delete", 1)>>}
=============================================================================
