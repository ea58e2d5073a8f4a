---------------------------- MODULE MCExecOrders ----------------------------
(* ExecOrders with a few orders of one or two lots at two prices. *)
EXTENDS ExecOrders
=============================================================================
