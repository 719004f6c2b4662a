------------------------------ MODULE MCHandoff -----------------------------
(***************************************************************************)
(* Instances of Handoff for TLC.  There is one run, one queue item and one *)
(* build; the only bound is the number of signals.                         *)
(***************************************************************************)
EXTENDS HandoffInvariant
=============================================================================
