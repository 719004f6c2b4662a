------------------------------ MODULE CdDeploy ------------------------------
(***************************************************************************)
(* The CD adapter (_cd_adapter.py, _cd_deployment.py): every placement is  *)
(* cleared or none is deployed; then a namespace of its own is created in  *)
(* the stand-in cluster, the pods are started, watched, given a settle     *)
(* window and judged, and the namespace is deleted.                        *)
(*                                                                         *)
(* Every kubectl call takes up to KubectlTimeout of the time its deadline  *)
(* leaves.  A call that fails or is cut off may still have been handled by *)
(* the API server, at once or later.  The pods of the cluster change by    *)
(* themselves between any two steps.                                       *)
(***************************************************************************)
EXTENDS AdapterKit

CONSTANTS
  CdLimit,         \* work_limit_seconds
  KubectlTimeout,  \* KUBECTL_TIMEOUT_SECONDS
  EvidenceTime,    \* EVIDENCE_SECONDS
  NodeWait,        \* node_wait_seconds
  Settle,          \* settle_seconds
  Poll             \* POLL_SECONDS

TeardownMargin == 2 * KubectlTimeout + EvidenceTime

(* minimum_work_limit_seconds of the Stage's grant is the last sum.        *)
ASSUME CdTimes ==
  /\ {KubectlTimeout, Settle, Poll} \subseteq Nat \ {0}
  /\ {EvidenceTime, NodeWait, CdLimit} \subseteq Nat
  /\ CdLimit >= TeardownMargin + NodeWait + 2 * KubectlTimeout

VARIABLES
  namespace,  \* the namespace of the attempt: none, exists, deleted
  create,     \* how the create request ended: none, answered, late, came
  pods,       \* what kubectl shows of the pods of each service
  exited,     \* the services whose present pod has a container that exited
  starting,   \* the services the last poll found starting
  seen,       \* when that poll was answered
  held,       \* the settle window was waited for
  judged,     \* when the pods were judged
  result,     \* what deploy returns or raises
  deleteWas   \* how the delete of the namespace ended

cluster == << namespace, create, pods, exited >>
watch   == << starting, seen, held, judged >>
cd      == << cluster, watch, result, deleteWas >>

CdDeadline == CdLimit - TeardownMargin
NodesDeadline == IF CdDeadline < NodeWait THEN CdDeadline ELSE NodeWait

(* What kubectl can show of a service: no pod yet, one that is not placed  *)
(* or not started, one the scheduler or the kubelet complains about, one   *)
(* that runs, one that has exited, one that runs again, and two at once.   *)
Views == {"absent", "pending", "Unschedulable", "ErrImagePull", "running",
          "CrashLoopBackOff", "restarted", "two"}

After(view) ==
  CASE view = "absent" -> {"pending"}
    [] view = "pending" -> {"Unschedulable", "ErrImagePull", "running"}
    [] view = "Unschedulable" -> {"pending"}
    [] view = "ErrImagePull" -> {"running"}
    [] view = "running" -> {"CrashLoopBackOff", "two"}
    [] view = "CrashLoopBackOff" -> {"restarted"}
    [] view = "restarted" -> {"CrashLoopBackOff"}
    [] view = "two" -> {"pending"}

(* _settled: the pod runs, or Kubernetes has given a reason it does not.   *)
IsSettled(view) == view \notin {"absent", "pending", "two"}

(* judge, _problems and k8s_reason: one pod, running, never restarted.     *)
Judgement(view) ==
  CASE view = "running" -> "deployed"
    [] view = "restarted" -> "CrashLoopBackOff"
    [] view \in {"Unschedulable", "ErrImagePull", "CrashLoopBackOff"} -> view
    [] OTHER -> "other"

(* _cut: without a whole settle window nothing counts as deployed, and     *)
(* what was still starting failed for the work limit.                      *)
Cut(record, service) ==
  IF record # "deployed" /\ service \notin starting THEN record ELSE "other"

(* _check: the first reason that keeps a placement off the cluster.        *)
Gap(placement, image) ==
  IF ~ placement.resolved THEN "unresolved-placement"
  ELSE IF ~ Built(image) THEN "image-not-built"
  ELSE IF ArchitectureOf(placement.host) \notin image.platforms THEN "no-image-for-architecture"
  ELSE IF placement.host \notin ClusterHosts THEN "host-not-in-cluster"
  ELSE "pinned"

Gaps == [s \in Services |-> Gap(inputs.deployment[s], inputs.images[s])]
Pinned == \A s \in Services : Gaps[s] = "pinned"

(* deployment_result and _outcome.                                         *)
DeploymentResult(records, applied) ==
  [placements |-> records, outcome |-> DeploymentOutcome(records), manifest |-> applied]

CdVerdict(document) ==
  Verdict(CASE document.outcome = "succeeded" -> Succeeded
            [] document.outcome = "failed" -> Outcome("succeeded", "failed", "domain")
            [] OTHER -> Outcome("succeeded", "not_evaluated", "dependency"),
          [slot \in {"deployment_result"} |-> document], {})

NodesNotReady == Verdict(Outcome("failed", "not_evaluated", "dependency"), NoDocuments, {})
ClusterError == NodesNotReady

(* An attempt's inputs: what composition and the image build can hand on.  *)
CdInputs ==
  {i \in [deployment : Deployments, images : [Services -> Images]] :
     ImagesFit(i.images, i.deployment)}

CdIdle ==
  /\ namespace = "none"
  /\ create = "none"
  /\ pods = [s \in Services |-> "absent"]
  /\ exited = {}
  /\ starting = Services
  /\ seen = 0
  /\ held = FALSE
  /\ judged = 0
  /\ result = Undecided
  /\ deleteWas = "none"

CdInit == KitInit("cd", "implemented") /\ inputs \in CdInputs /\ CdIdle

(* One kubectl call: it answers, fails, or is cut off by its own timeout,  *)
(* which is a failure, or by the deadline it was given.                    *)
Call(deadline, answer) ==
  IF now >= deadline
    THEN now' = now /\ answer = "out-of-time"
    ELSE /\ now' \in now .. (IF deadline - now < KubectlTimeout
                               THEN deadline ELSE now + KubectlTimeout)
         /\ answer = "out-of-time" => now' = deadline /\ deadline - now < KubectlTimeout

(* Placements that cannot all be deployed: the cluster is not contacted.   *)
ReportGap ==
  /\ pc = "body"
  /\ ~ Pinned
  /\ Concludes(CdVerdict(DeploymentResult(
       [s \in Services |-> IF Gaps[s] = "pinned" THEN "blocked" ELSE Gaps[s]], FALSE)))
  /\ UNCHANGED << now, cd >>

FindKubectl ==
  /\ pc = "body"
  /\ Pinned
  /\ \/ Concludes(ClusterError)
     \/ Continues("nodes")
  /\ UNCHANGED << now, cd >>

(* _nodes_ready: a cluster that does not answer has no Ready node yet.     *)
AskNodes ==
  /\ pc = "nodes"
  /\ \E answer \in {"ok", "error", "out-of-time"} :
       /\ Call(NodesDeadline, answer)
       /\ \/ answer = "ok" /\ Continues("create")
          \/ now' + Poll > NodesDeadline /\ Concludes(NodesNotReady)
          \/ now' + Poll <= NodesDeadline /\ Continues("nodes_sleep")
  /\ UNCHANGED cd

Sleep ==
  /\ pc \in {"nodes_sleep", "pods_sleep"}
  /\ now' = now + Poll
  /\ Continues(IF pc = "nodes_sleep" THEN "nodes" ELSE "pods")
  /\ UNCHANGED cd

(* The body of the try statement: what it ends with waits for the finally  *)
(* clause.                                                                 *)
Ends(how) == result' = how /\ Continues("delete")

CreateNamespace ==
  /\ pc = "create"
  /\ \E answer \in {"ok", "error", "out-of-time"}, fate \in {"never", "now", "late"} :
       /\ Call(CdDeadline, answer)
       /\ answer = "ok" => fate = "now"
       /\ now >= CdDeadline => fate = "never"
       /\ namespace' = IF fate = "now" THEN "exists" ELSE namespace
       /\ create' = IF fate = "late" THEN "late" ELSE "answered"
       /\ IF answer = "ok" THEN Continues("apply") /\ UNCHANGED result ELSE Ends(ClusterError)
  /\ UNCHANGED << pods, exited, watch, deleteWas >>

ApplyManifest ==
  /\ pc = "apply"
  /\ \E answer \in {"ok", "error", "out-of-time"} :
       /\ Call(CdDeadline, answer)
       /\ IF answer = "ok" THEN Continues("pods") /\ UNCHANGED result ELSE Ends(ClusterError)
  /\ UNCHANGED << cluster, watch, deleteWas >>

(* _still_starting.  An answer that is no pod list raises ValidationError. *)
PollPods ==
  /\ pc = "pods"
  /\ \E answer \in {"ok", "error", "out-of-time", "malformed"} :
       /\ Call(CdDeadline, answer)
       /\ CASE answer = "ok" ->
                 LET still == {s \in Services : ~ IsSettled(pods[s])}
                 IN  /\ starting' = still
                     /\ seen' = now'
                     /\ Continues(IF still = {} \/ now' + Poll > CdDeadline
                                    THEN "window" ELSE "pods_sleep")
                     /\ UNCHANGED result
            [] answer = "out-of-time" -> Continues("window") /\ UNCHANGED << starting, seen, result >>
            [] answer = "error" -> Ends(ClusterError) /\ UNCHANGED << starting, seen >>
            [] answer = "malformed" -> Ends(Exception) /\ UNCHANGED << starting, seen >>
  /\ UNCHANGED << namespace, create, pods, exited, held, judged, deleteWas >>

(* The settle window, if all of it fits before the deadline.               *)
SettleWindow ==
  /\ pc = "window"
  /\ held' = (starting = {} /\ CdDeadline - now >= Settle)
  /\ now' = IF held' THEN now + Settle ELSE now
  /\ Continues("judge")
  /\ UNCHANGED << cluster, starting, seen, judged, result, deleteWas >>

(* The last look at the pods may use the time of the teardown.             *)
JudgePods ==
  /\ pc = "judge"
  /\ \E answer \in {"ok", "error", "out-of-time", "malformed"} :
       /\ Call(CdLimit, answer)
       /\ judged' = IF answer = "ok" THEN now' ELSE judged
       /\ LET records == [s \in Services |-> Judgement(pods[s])]
              settled == [s \in Services |-> IF held THEN records[s] ELSE Cut(records[s], s)]
          IN  CASE answer = "ok" -> Ends(CdVerdict(DeploymentResult(settled, TRUE)))
                [] answer = "malformed" -> Ends(Exception)
                [] OTHER -> Ends(ClusterError)
  /\ UNCHANGED << cluster, starting, seen, held, deleteWas >>

(* A mutant: the delete is given the deadline of the deployment.           *)
DeleteByDeadline ==
  /\ pc = "delete"
  /\ \E answer \in {"ok", "error", "out-of-time"} :
       /\ Call(CdDeadline, answer)
       /\ deleteWas' = answer
       /\ namespace' = IF answer = "ok" /\ namespace = "exists" THEN "deleted" ELSE namespace
  /\ IF result = Exception THEN Raises ELSE Concludes(result)
  /\ UNCHANGED << create, pods, exited, watch, result >>

(* The finally clause.  A failure is a line of the diagnostic.             *)
DeleteNamespace ==
  /\ pc = "delete"
  /\ \E answer \in {"ok", "error", "out-of-time"} :
       /\ Call(CdLimit, answer)
       /\ deleteWas' = answer
       /\ namespace' = IF answer = "ok" /\ namespace = "exists" THEN "deleted" ELSE namespace
  /\ IF result = Exception THEN Raises ELSE Concludes(result)
  /\ UNCHANGED << create, pods, exited, watch, result >>

(* The cluster: a pod changes, or a create that was given up is handled.   *)
PodChanges ==
  /\ stage = "cd"
  /\ pc \in {"pods", "pods_sleep", "window", "judge"}
  /\ \E s \in Services : \E view \in After(pods[s]) :
       /\ pods' = [pods EXCEPT ![s] = view]
       /\ exited' = CASE view = "CrashLoopBackOff" -> exited \cup {s}
                      [] view = "pending" -> exited \ {s}
                      [] OTHER -> exited
  /\ UNCHANGED << kit, namespace, create, watch, result, deleteWas >>

LateCreate ==
  /\ create = "late"
  /\ create' = "came"
  /\ namespace' = "exists"
  /\ UNCHANGED << kit, pods, exited, watch, result, deleteWas >>

CdBody ==
  /\ stage = "cd"
  /\ \/ ReportGap \/ FindKubectl \/ AskNodes \/ Sleep \/ CreateNamespace \/ ApplyManifest
     \/ PollPods \/ SettleWindow \/ JudgePods \/ DeleteNamespace

CdNext ==
  \/ KitNext /\ UNCHANGED cd
  \/ CdBody \/ PodChanges \/ LateCreate

CdSpec == CdInit /\ [][CdNext]_<< kit, cd >>

-----------------------------------------------------------------------------

(* The namespace of an attempt that ended by itself is deleted, whatever   *)
(* ended it, unless the delete failed or the create arrived after it.      *)
NamespaceIsDeleted ==
  pc \in {"publish", "done"} /\ exit # "killed"
    => (namespace = "exists" => deleteWas = "error" \/ create = "came")

(* create and apply get a whole kubectl call each, the delete is never cut *)
(* off, and the evidence keeps its time (_stage_registry.py, the comment   *)
(* on minimum_work_limit_seconds; TEARDOWN_MARGIN_SECONDS).                *)
CdKeepsItsTime ==
  /\ stage = "cd" => now <= CdLimit - EvidenceTime
  /\ pc = "create" => CdDeadline - now >= 2 * KubectlTimeout
  /\ pc = "apply" => CdDeadline - now >= KubectlTimeout
  /\ pc = "delete" => CdLimit - now >= KubectlTimeout + EvidenceTime

(* A deployment counts as succeeded only after a whole settle window since *)
(* a poll that found every pod settled, and only if no container of its    *)
(* pods has exited in the meantime.                                        *)
DeployedIsEarned ==
  stage = "cd" /\ verdict.outcome.outcome = "succeeded"
    => /\ judged - seen >= Settle
       /\ starting = {}
       /\ exited = {}
=============================================================================
