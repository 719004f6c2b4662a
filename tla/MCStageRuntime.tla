---------------------------- MODULE MCStageRuntime ----------------------------
(***************************************************************************)
(* Instances of StageRuntime for TLC.                                      *)
(***************************************************************************)
EXTENDS StageRuntime
=============================================================================
