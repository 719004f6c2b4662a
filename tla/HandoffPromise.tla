--------------------------- MODULE HandoffPromise ---------------------------
(***************************************************************************)
(* What a handoff promises to whoever reads its receipt, without saying    *)
(* how: the run is given to Jenkins at most once, the receipt gets at most *)
(* one verdict, the verdict is a success only when the remote build has    *)
(* succeeded and its bundle has been returned, and a bundle is returned    *)
(* only from a build that has ended, while the verdict is still open.      *)
(***************************************************************************)
VARIABLES
  verdict,   \* of the receipt on disk
  remote,    \* the run at Jenkins
  returned   \* the bundle is in the GitHub job's directory

vars == << verdict, remote, returned >>

Verdicts == {"open", "succeeded", "failed", "cancelled"}
RemoteEnds == {"succeeded", "failed", "dropped"}
Remotes == {"none", "pending"} \cup RemoteEnds

Init == verdict = "open" /\ remote = "none" /\ returned = FALSE

(* The submission may reach Jenkins after the handoff has given up on it.  *)
Submit ==
  /\ remote = "none"
  /\ verdict # "succeeded"
  /\ remote' = "pending"
  /\ UNCHANGED << verdict, returned >>

RemoteEnd ==
  /\ remote = "pending"
  /\ remote' \in RemoteEnds
  /\ UNCHANGED << verdict, returned >>

Return ==
  /\ verdict = "open"
  /\ remote \in {"succeeded", "failed"}
  /\ returned' = TRUE
  /\ UNCHANGED << verdict, remote >>

Succeed ==
  /\ verdict = "open"
  /\ remote = "succeeded" /\ returned
  /\ verdict' = "succeeded"
  /\ UNCHANGED << remote, returned >>

GiveUp ==
  /\ verdict = "open"
  /\ verdict' \in {"failed", "cancelled"}
  /\ UNCHANGED << remote, returned >>

Next == Submit \/ RemoteEnd \/ Return \/ Succeed \/ GiveUp

Spec == Init /\ [][Next]_vars
=============================================================================
