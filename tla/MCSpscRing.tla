----------------------------- MODULE MCSpscRing -----------------------------
(* SpscRing on a small ring: two slots, two-bit counters, two-word elements. *)
EXTENDS SpscRing
=============================================================================
