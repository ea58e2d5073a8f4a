----------------------------- MODULE AtomicCell -----------------------------
(***************************************************************************)
(* What common::Seqlock promises: one writer replaces a value at one       *)
(* instant, and a reader that is told its load succeeded has the value the *)
(* cell held at one instant of that load.  A load may also be refused.     *)
(***************************************************************************)
CONSTANTS Value, Reader

VARIABLES cell,    \* the value last stored
          result   \* per reader, what its last successful load returned

cellVars == <<cell, result>>

CellInit ==
    /\ cell \in Value
    /\ result = [r \in Reader |-> cell]

Write(v) ==
    /\ cell' = v
    /\ UNCHANGED result

Read(r) ==
    /\ result' = [result EXCEPT ![r] = cell]
    /\ UNCHANGED cell

CellNext == (\E v \in Value : Write(v)) \/ (\E r \in Reader : Read(r))

CellSpec == CellInit /\ [][CellNext]_cellVars
=============================================================================
