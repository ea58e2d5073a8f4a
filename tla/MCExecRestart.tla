---------------------------- MODULE MCExecRestart ----------------------------
(* ExecRestart with three exec processes and the dashboard's view of them.   *)
EXTENDS TradingPanels

ASSUME InstanceAssumption == RestartAssumption /\ GenerationsFit /\ PanelsAssumption
=============================================================================
