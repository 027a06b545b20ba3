----------------------------- MODULE MCPipeline -----------------------------
(***************************************************************************)
(* An instance of Pipeline for TLC: one log.                               *)
(***************************************************************************)
EXTENDS Pipeline

MCSource == [log |-> "sysmon-generator"]
=============================================================================
