-------------------------- MODULE MCPipelineSignals --------------------------
(* Instances of PipelineSignals for TLC: the configurations give the bounds.   *)
EXTENDS PipelineSignals
=============================================================================
