---------------------------- MODULE MCPipelineRun ----------------------------
(***************************************************************************)
(* The instance of PipelineRun for TLC, without the lines it prints.       *)
(***************************************************************************)
EXTENDS PipelineRun

(* The adapters of the repository: all four are implemented.               *)
Implemented == {[s \in Stages |-> "implemented"]}
=============================================================================
