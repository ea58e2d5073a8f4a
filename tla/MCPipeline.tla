----------------------------- MODULE MCPipeline -----------------------------
(* Pipeline with a short feed and small rings. *)
EXTENDS Pipeline
=============================================================================
