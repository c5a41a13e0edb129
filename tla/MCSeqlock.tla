----------------------------- MODULE MCSeqlock -----------------------------
(* Small instances of the shared descriptor for TLC. *)
EXTENDS Seqlock
=============================================================================
