------------------------------ MODULE MCSeqlock ------------------------------
(* Two-word frames, two readers, two stores. *)
EXTENDS Seqlock
=============================================================================
