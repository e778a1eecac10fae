------------------------------ MODULE MCMerkle ------------------------------
(***************************************************************************)
(* Trees of up to six leaves.                                              *)
(***************************************************************************)
EXTENDS Merkle

CONSTANTS a, b

ForeignHashes == {HashLeaf(Payload(b, 0)), HashInterior(HashLeaf(Payload(b, 0)), EmptyRoot)}
=============================================================================
