------------------------------ MODULE Probing ------------------------------
(***************************************************************************)
(* Linear probing round a table of n slots, 0 to n - 1, as                 *)
(* core::equity::OrderMap and exec::OrderTable do it.  n is a power of two *)
(* in the code, so that & MASK is the remainder.                           *)
(***************************************************************************)
EXTENDS Integers, FiniteSetsExt

\* (a - b) & MASK, and the slot k places after a.
Gap(a, b, n) == (a - b) % n
At(a, k, n) == (a + k) % n

\* Where a probe that begins at slot home first meets a slot of S.
FirstFrom(home, S, n) == At(home, Min({k \in 0..(n - 1) : At(home, k, n) \in S}), n)
=============================================================================
