---------------------------- MODULE StageAdapters ----------------------------
(***************************************************************************)
(* One attempt of any implemented Stage: its adapter, from the start of the*)
(* process to its end, beside the world it works on, and what the runtime  *)
(* then accepts of it.                                                     *)
(*                                                                         *)
(* An attempt is of one Stage, so the adapters take no steps of each other.*)
(***************************************************************************)
EXTENDS CdDeploy, ImageBuilds, CvRun, Composition

CONSTANTS
  CdCases,          \* the inputs looked at, of each Stage
  BuildCases,
  CvCases,
  CompositionCases

ASSUME CasesAreInputs ==
  /\ CdCases \subseteq CdInputs
  /\ BuildCases \subseteq BuildInputs
  /\ CvCases \subseteq CvInputs
  /\ CompositionCases \subseteq CompositionInputs

vars == << kit, cd, build, cv, composing >>

Init ==
  /\ CdIdle /\ BuildIdle /\ CvIdle /\ CompositionIdle
  /\ \/ KitInit("cd", "implemented") /\ inputs \in CdCases
     \/ KitInit("image_build", "implemented") /\ inputs \in BuildCases
     \/ KitInit("cv", "implemented") /\ inputs \in CvCases
     \/ KitInit("composition", "implemented") /\ inputs \in CompositionCases

(* A step of the adapter's own process.                                    *)
Body ==
  \/ CdBody /\ UNCHANGED << build, cv, composing >>
  \/ BuildBody /\ UNCHANGED << cd, cv, composing >>
  \/ CvBody /\ UNCHANGED << cd, build, composing >>
  \/ CompositionBody /\ UNCHANGED << cd, build, cv >>

Shell == (Begin \/ Publish \/ PublishRaises) /\ UNCHANGED << cd, build, cv, composing >>

Next ==
  \/ stage = "cd" /\ CdNext /\ UNCHANGED << build, cv, composing >>
  \/ stage = "image_build" /\ BuildNext /\ UNCHANGED << cd, cv, composing >>
  \/ stage = "cv" /\ CvNext /\ UNCHANGED << cd, build, composing >>
  \/ stage = "composition" /\ CompositionNext /\ UNCHANGED << cd, build, cv >>

(* The operating system runs the process, and every call it makes has a    *)
(* timeout; nothing is assumed of pods, clients, containers or providers.  *)
Spec == Init /\ [][Next]_vars /\ WF_vars(Body) /\ WF_vars(Shell)

-----------------------------------------------------------------------------

(* An adapter that ended by itself has taken down what it set up: the      *)
(* namespace, the buildctl clients, the containers of its run.             *)
NothingStaysBehind ==
  NamespaceIsDeleted /\ ClientsAreStopped /\ OwnContainersAreRemoved

(* The deadlines of the adapters leave the time they reserve for teardown  *)
(* and publishing.                                                         *)
ReservesAreKept == CdKeepsItsTime /\ BuildKeepsItsTime

(* What the evidence says of a service is what happened to its pod, its    *)
(* image or its container.                                                 *)
VerdictIsEarned == DeployedIsEarned /\ ImageRecordsAreTrue /\ ParticipationIsEarned

(* The runtime refuses the candidate of an adapter that exited 0 only for  *)
(* the content of one of its files, and a later process loads the attempt, *)
(* be it the accepted one or the failure that replaces it: no verdict of   *)
(* an adapter is lost to a contract it breaks.                             *)
VerdictsAreAccepted ==
  exit = "0" => (IsCaptured <=> flaw = "none") /\ Loadable(stage, Envelope)

(* Every adapter ends, whatever the world it works on does.                *)
AdapterEnds == <>(exit # "none")
=============================================================================
