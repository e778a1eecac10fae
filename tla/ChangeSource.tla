---------------------------- MODULE ChangeSource ----------------------------
(***************************************************************************)
(* What the pipeline relies on (internal/source, ChangeSource): a source   *)
(* hands over the committed transactions, each once and in order, and a    *)
(* consumer that resumes at the position of a transaction it has had is    *)
(* given the ones behind it.  Module Pipeline models its stream so.         *)
(***************************************************************************)
EXTENDS Naturals, Sequences

VARIABLES
    committed,      \* the transactions of the source, in commit order
    handed          \* the transactions the consumer has been given

svars == <<committed, handed>>

SourceInit == committed = <<>> /\ handed = <<>>

Commits ==
    /\ Len(committed') = Len(committed) + 1
    /\ committed' = Append(committed, committed'[Len(committed) + 1])
    /\ UNCHANGED handed

Delivers ==
    /\ Len(handed) < Len(committed)
    /\ handed' = Append(handed, committed[Len(handed) + 1])
    /\ UNCHANGED committed

\* The consumer goes back to a position it had, or to the beginning.
Resumes ==
    /\ \E k \in 0..Len(handed) : handed' = SubSeq(handed, 1, k)
    /\ UNCHANGED committed

SourceSpec == SourceInit /\ [][Commits \/ Delivers \/ Resumes]_svars
=============================================================================
