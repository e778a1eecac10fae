----------------------------- MODULE AuditTrail -----------------------------
(***************************************************************************)
(* What the system promises to its readers: an append-only trail.  A batch *)
(* enters it once, with all its records and at least one, and from then on *)
(* neither the batch nor its records change or go.                         *)
(*                                                                         *)
(* Batcher implements it with the rows of Postgres, however closes fail    *)
(* and are retried; Tiering with Postgres and the archive taken together,  *)
(* while records move from the one to the other.                           *)
(***************************************************************************)
EXTENDS Naturals

VARIABLE trail      \* the records of each batch that was sealed

TrailInit == trail = [b \in {} |-> {}]

Seal ==
    \E b \in DOMAIN trail' \ DOMAIN trail :
        /\ trail'[b] # {}
        /\ trail' = [x \in DOMAIN trail \cup {b} |-> IF x = b THEN trail'[b] ELSE trail[x]]

TrailSpec == TrailInit /\ [][Seal]_trail
=============================================================================
