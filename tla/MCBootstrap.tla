---------------------------- MODULE MCBootstrap ----------------------------
(***************************************************************************)
(* Instances of Bootstrap for TLC: the rows of two tables, one of them     *)
(* older than the binlog.                                                  *)
(***************************************************************************)
EXTENDS Bootstrap

CONSTANTS old, new

TwoTables == {old, new}

MCChange   == [write : 1..MaxWrites, origin : {"live", "bootstrap"}]
MCPosition == (1..MaxWrites) \cup {BootPosition}

AllFaults      == FaultKinds
AllBootFaults  == {"read", "truncated", "status", "configload"}
None           == {}
CrashOnly      == {"crash"}
=============================================================================
