----------------------------- MODULE MCRecovery -----------------------------
(***************************************************************************)
(* An instance of Recovery for TLC: two runners, and two agents that stand *)
(* for the five, whose secrets are installed one after the other.          *)
(***************************************************************************)
EXTENDS Recovery

TwoAgents == << "integration", "cv" >>
=============================================================================
