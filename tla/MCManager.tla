------------------------------ MODULE MCManager ------------------------------
(* Manager with the constants its configurations choose.                   *)
EXTENDS Manager
=============================================================================
