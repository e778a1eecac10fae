----------------------------- MODULE MCBatcher -----------------------------
(***************************************************************************)
(* Instances of Batcher for TLC: which faults a configuration admits.      *)
(***************************************************************************)
EXTENDS Batcher

WormFaults == {"worm"}
=============================================================================
