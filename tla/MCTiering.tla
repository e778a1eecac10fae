----------------------------- MODULE MCTiering -----------------------------
(***************************************************************************)
(* Instances of Tiering for TLC.                                           *)
(***************************************************************************)
EXTENDS Tiering

MCBatch      == 1..2
MCEventCount == [b \in MCBatch |-> b]
OneBatch     == 1..1
TwoEvents    == [b \in OneBatch |-> 2]

AllFaults    == JobFaultKinds
Dying        == {"crash"}
=============================================================================
