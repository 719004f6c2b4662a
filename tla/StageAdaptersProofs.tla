------------------------- MODULE StageAdaptersProofs -------------------------
(***************************************************************************)
(* Theorems about StageAdapters, for any inputs and any time limits the    *)
(* assumptions of the adapters allow.                                      *)
(***************************************************************************)
EXTENDS AdaptersInvariant, FiniteSetTheorems, SequenceTheorems, TLAPS

USE DEF vars, kit, output, cd, cluster, watch, build, cv, composing

-----------------------------------------------------------------------------
(* The shell.  Whatever the adapter, its step is one of these for it.      *)

Concluding == pc' = "publish" /\ UNCHANGED << stage, mode, inputs, output, exit >>
Continuing == pc' \notin Ended /\ UNCHANGED << stage, mode, inputs, verdict, output, exit >>

BodyMove == pc \notin Ended /\ (Concluding \/ Raises \/ Continuing)
ShellMove == UNCHANGED kit \/ BodyMove \/ KitNext

LEMMA CdMoves == CdNext => ShellMove
<1> USE DEF ShellMove, BodyMove, Concluding, Continuing, Concludes, Continues, Ended
<1>1. CASE CdBody
  <2>1. CASE ReportGap \/ FindKubectl \/ AskNodes \/ Sleep
    BY <2>1 DEF ReportGap, FindKubectl, AskNodes, Sleep
  <2>2. CASE CreateNamespace \/ ApplyManifest
    BY <2>2 DEF CreateNamespace, ApplyManifest, Ends
  <2>3. CASE PollPods
    <3>1. PICK answer \in {"ok", "error", "out-of-time", "malformed"} :
            \/ answer = "ok" /\ Continues(IF {s \in Services : ~ IsSettled(pods[s])} = {}
                                              \/ now' + Poll > CdDeadline
                                            THEN "window" ELSE "pods_sleep")
            \/ Continues("window") \/ Continues("delete")
      BY <2>3 DEF PollPods, Ends
    <3> QED
      BY <2>3, <3>1 DEF PollPods
  <2>4. CASE SettleWindow \/ JudgePods
    BY <2>4 DEF SettleWindow, JudgePods, Ends
  <2>5. CASE DeleteNamespace
    BY <2>5 DEF DeleteNamespace
  <2> QED
    BY <1>1, <2>1, <2>2, <2>3, <2>4, <2>5 DEF CdBody
<1>2. CASE PodChanges \/ LateCreate
  BY <1>2 DEF PodChanges, LateCreate
<1> QED
  BY <1>1, <1>2 DEF CdNext

LEMMA BuildMoves == BuildNext => ShellMove
<1> USE DEF ShellMove, BodyMove, Concluding, Continuing, Concludes, Continues, Ended
<1>1. CASE CheckBuildInputs \/ AskServices \/ CheckDeadline
  BY <1>1 DEF CheckBuildInputs, AskServices, CheckDeadline
<1>2. CASE StartClient \/ BeginPass
  BY <1>2 DEF StartClient, BeginPass
<1>3. CASE Visit
  BY <1>3 DEF Visit
<1>4. CASE PollSleep \/ StopUnfinished \/ ReadFinished \/ StopRunning
  BY <1>4 DEF PollSleep, StopUnfinished, ReadFinished, StopRunning
<1>5. CASE ClientExits \/ BuildKilled \/ Begin \/ Refuse \/ Publish \/ PublishRaises
  BY <1>5 DEF ClientExits, BuildKilled, KitNext
<1> QED
  BY <1>1, <1>2, <1>3, <1>4, <1>5 DEF BuildNext, BuildBody

LEMMA CvMoves == CvNext => ShellMove
<1> USE DEF ShellMove, BodyMove, Concluding, Continuing, Concludes, Continues, Ended
<1>1. CASE Declare \/ CleanUp
  BY <1>1 DEF Declare, CleanUp, Lost, Comes
<1>2. CASE Prepare
  BY <1>2 DEF Prepare, Comes
<1>3. CASE StartSim \/ StartPlacement \/ StartOrchestrator
  BY <1>3 DEF StartSim, StartPlacement, StartOrchestrator, StartRequired, Comes
<1>4. CASE Wait \/ ReadSim \/ ReadPlacement
  BY <1>4 DEF Wait, ReadSim, ReadPlacement, Lost, Comes
<1>5. CASE ReadResult
  BY <1>5 DEF ReadResult, Lost, Comes
<1>6. CASE ReadRecording
  BY <1>6 DEF ReadRecording
<1>7. CASE Teardown
  BY <1>7 DEF Teardown
<1>8. CASE ContainerExits \/ ServiceSends \/ LateStart \/ KitNext
  BY <1>8 DEF ContainerExits, ServiceSends, LateStart
<1> QED
  BY <1>1, <1>2, <1>3, <1>4, <1>5, <1>6, <1>7, <1>8 DEF CvNext, CvBody

LEMMA CompositionMoves == CompositionNext => ShellMove
<1> USE DEF ShellMove, BodyMove, Concluding, Continuing, Concludes, Continues, Ended
<1>1. CASE ReadDescriptions \/ Embeds \/ Discovers \/ Generate
  BY <1>1 DEF ReadDescriptions, Embeds, Discovers, Generate, Composes
<1>2. CASE Admits \/ Traces
  BY <1>2 DEF Admits, Traces
<1>3. CASE Compose
  BY <1>3 DEF Compose, Composes
<1>4. CASE KitNext
  BY <1>4
<1> QED
  BY <1>1, <1>2, <1>3, <1>4 DEF CompositionNext, CompositionBody

LEMMA Moves == [Next]_vars => ShellMove /\ UNCHANGED << stage, mode, inputs >>
<1>1. [Next]_vars => ShellMove
  BY CdMoves, BuildMoves, CvMoves, CompositionMoves DEF Next, ShellMove
<1>2. ShellMove => UNCHANGED << stage, mode, inputs >>
  BY DEF ShellMove, BodyMove, Concluding, Continuing, Raises, Exits, KitNext, Begin, Refuse,
         Publish, PublishRaises, Kill
<1> QED
  BY <1>1, <1>2

LEMMA KitStart == Init => KitInv /\ InputsInv
BY CasesAreInputs
   DEF Init, KitInit, KitInv, InputsInv, StageNames, Ended

LEMMA KitStep == KitInv /\ InputsInv /\ [Next]_vars => KitInv' /\ InputsInv'
<1> SUFFICES ASSUME KitInv, InputsInv, [Next]_vars PROVE KitInv' /\ InputsInv'
  OBVIOUS
<1>1. ShellMove /\ UNCHANGED << stage, mode, inputs >>
  BY Moves
<1>2. InputsInv'
  BY <1>1 DEF InputsInv
<1>3. CASE UNCHANGED kit
  <2>1. UNCHANGED << stage, mode, pc, verdict, files, flaw, exit >>
    BY <1>1, <1>3
  <2>2. Response(verdict)' = Response(verdict)
    BY <1>1, <2>1 DEF Response
  <2>3. KitInv'
    BY <2>1, <2>2 DEF KitInv
  <2> QED
    BY <1>2, <2>3
<1>4. CASE BodyMove
  BY <1>1, <1>2, <1>4 DEF KitInv, BodyMove, Concluding, Raises, Exits, Continuing, Ended
<1>5. CASE KitNext
  BY <1>1, <1>2, <1>5
     DEF KitInv, KitNext, Begin, Refuse, Publish, PublishRaises, Kill, Exits, Ended, Response
<1> QED
  BY <1>1, <1>3, <1>4, <1>5 DEF ShellMove

-----------------------------------------------------------------------------
(* CD.                                                                     *)

LEMMA CdNumbers ==
  /\ CdLimit \in Nat /\ KubectlTimeout \in Nat /\ EvidenceTime \in Nat
  /\ NodeWait \in Nat /\ Settle \in Nat /\ Poll \in Nat /\ CdDeadline \in Nat
  /\ KubectlTimeout > 0 /\ Poll > 0 /\ Settle > 0
  /\ NodesDeadline = NodeWait
  /\ CdDeadline + KubectlTimeout + KubectlTimeout + EvidenceTime = CdLimit
  /\ NodeWait + KubectlTimeout + KubectlTimeout <= CdDeadline
  /\ NodeWait + KubectlTimeout <= CdDeadline
  /\ NodeWait + KubectlTimeout + KubectlTimeout + EvidenceTime <= CdLimit
  /\ NodeWait + EvidenceTime <= CdLimit
  /\ CdDeadline + KubectlTimeout + EvidenceTime <= CdLimit
  /\ CdDeadline + EvidenceTime <= CdLimit
  /\ CdDeadline' = CdDeadline
BY CdTimes DEF CdDeadline, NodesDeadline, TeardownMargin

(* A call takes no longer than its own timeout and what its deadline       *)
(* leaves; it runs out of time only where that is less.                    *)
LEMMA CallTakes ==
  ASSUME NEW deadline \in Nat, NEW answer, now \in Nat, Call(deadline, answer)
  PROVE  /\ \E t \in Nat : now' = t /\ now <= t /\ t <= now + KubectlTimeout
                            /\ (now <= deadline => t <= deadline)
         /\ answer = "out-of-time" => deadline - now < KubectlTimeout
<1>1. CASE now >= deadline
  BY <1>1, CdNumbers DEF Call
<1>2. CASE ~ (now >= deadline)
  <2>1. PICK t \in now .. (IF deadline - now < KubectlTimeout
                             THEN deadline ELSE now + KubectlTimeout) :
          now' = t /\ (answer = "out-of-time" => deadline - now < KubectlTimeout)
    BY <1>2 DEF Call
  <2>2. t \in Nat /\ now <= t /\ t <= now + KubectlTimeout /\ (now <= deadline => t <= deadline)
    BY <1>2, <2>1, CdNumbers
  <2> QED
    BY <2>1, <2>2
<1> QED
  BY <1>1, <1>2

(* The times that fit a place.                                             *)
LEMMA Fitting ==
  ASSUME NEW t \in Nat
  PROVE  /\ t = 0 => Fits("start", t) /\ Fits("body", t)
         /\ t <= NodeWait => Fits("nodes", t) /\ Fits("create", t)
         /\ t + Poll <= NodeWait => Fits("nodes_sleep", t)
         /\ t + KubectlTimeout <= CdDeadline => Fits("apply", t)
         /\ t <= CdDeadline => Fits("pods", t) /\ Fits("window", t) /\ Fits("judge", t)
         /\ t + Poll <= CdDeadline => Fits("pods_sleep", t)
         /\ t + KubectlTimeout + EvidenceTime <= CdLimit => Fits("delete", t)
         /\ t + EvidenceTime <= CdLimit => \A p \in Ended : Fits(p, t)
<1> USE CdNumbers DEF Fits, CdPlaces, Ended
<1>1. t = 0 => Fits("start", t) /\ Fits("body", t)
  OBVIOUS
<1>2. t <= NodeWait => Fits("nodes", t) /\ Fits("create", t)
  OBVIOUS
<1>3. t + Poll <= NodeWait => Fits("nodes_sleep", t)
  OBVIOUS
<1>4. t + KubectlTimeout <= CdDeadline => Fits("apply", t)
  OBVIOUS
<1>5. t <= CdDeadline => Fits("pods", t) /\ Fits("window", t) /\ Fits("judge", t)
  OBVIOUS
<1>6. t + Poll <= CdDeadline => Fits("pods_sleep", t)
  OBVIOUS
<1>7. t + KubectlTimeout + EvidenceTime <= CdLimit => Fits("delete", t)
  OBVIOUS
<1>8. t + EvidenceTime <= CdLimit => \A p \in Ended : Fits(p, t)
  OBVIOUS
<1> QED
  BY <1>1, <1>2, <1>3, <1>4, <1>5, <1>6, <1>7, <1>8

(* What each place knows of the time.                                      *)
LEMMA Fitted ==
  ASSUME stage = "cd", CdTimeInv
  PROVE  /\ pc \in CdPlaces /\ now \in Nat /\ now + EvidenceTime <= CdLimit
         /\ pc \in {"start", "body"} => now = 0
         /\ pc \in {"nodes", "create"} => now <= NodeWait
         /\ pc = "nodes_sleep" => now + Poll <= NodeWait
         /\ pc = "apply" => now + KubectlTimeout <= CdDeadline
         /\ pc \in {"pods", "window", "judge"} => now <= CdDeadline
         /\ pc = "pods_sleep" => now + Poll <= CdDeadline
         /\ pc = "delete" => now + KubectlTimeout + EvidenceTime <= CdLimit
BY DEF CdTimeInv, Fits

LEMMA CdTimeStep ==
  ASSUME KitInv, CdTimeInv, stage = "cd", CdNext, stage' = stage
  PROVE  CdTimeInv'
<1> USE CdNumbers DEF Concludes, Continues
<1>t. /\ pc \in CdPlaces /\ now \in Nat /\ now + EvidenceTime <= CdLimit
      /\ pc \in {"start", "body"} => now = 0
      /\ pc \in {"nodes", "create"} => now <= NodeWait
      /\ pc = "nodes_sleep" => now + Poll <= NodeWait
      /\ pc = "apply" => now + KubectlTimeout <= CdDeadline
      /\ pc \in {"pods", "window", "judge"} => now <= CdDeadline
      /\ pc = "pods_sleep" => now + Poll <= CdDeadline
      /\ pc = "delete" => now + KubectlTimeout + EvidenceTime <= CdLimit
  BY Fitted
<1> SUFFICES now' \in Nat /\ Fits(pc', now')
  BY DEF CdTimeInv, Fits
<1>f. now' \in Nat =>
        /\ pc' \in {"start", "body"} /\ now' = 0 => Fits(pc', now')
        /\ pc' \in {"nodes", "create"} /\ now' <= NodeWait => Fits(pc', now')
        /\ pc' = "nodes_sleep" /\ now' + Poll <= NodeWait => Fits(pc', now')
        /\ pc' = "apply" /\ now' + KubectlTimeout <= CdDeadline => Fits(pc', now')
        /\ pc' \in {"pods", "window", "judge"} /\ now' <= CdDeadline => Fits(pc', now')
        /\ pc' = "pods_sleep" /\ now' + Poll <= CdDeadline => Fits(pc', now')
        /\ pc' = "delete" /\ now' + KubectlTimeout + EvidenceTime <= CdLimit => Fits(pc', now')
        /\ pc' \in Ended /\ now' + EvidenceTime <= CdLimit => Fits(pc', now')
  BY Fitting
<1>1. CASE ReportGap \/ FindKubectl
  <2>1. now' = 0 /\ pc' \in {"publish", "nodes"}
    BY <1>1, <1>t DEF ReportGap, FindKubectl
  <2>2. now' \in Nat /\ now' <= NodeWait /\ now' + EvidenceTime <= CdLimit
    BY <2>1
  <2> QED
    BY <1>f, <2>1, <2>2, Zenon DEF Ended
<1>2. CASE AskNodes
  <2>1. pc = "nodes" /\ now \in Nat /\ now <= NodeWait
    BY <1>2, <1>t DEF AskNodes
  <2>2. PICK answer \in {"ok", "error", "out-of-time"} :
          /\ Call(NodesDeadline, answer)
          /\ \/ answer = "ok" /\ Continues("create")
             \/ now' + Poll > NodesDeadline /\ Concludes(NodesNotReady)
             \/ now' + Poll <= NodesDeadline /\ Continues("nodes_sleep")
    BY <1>2 DEF AskNodes
  <2>3. PICK t \in Nat : now' = t /\ t <= NodeWait
    <3>1. NodesDeadline \in Nat /\ now <= NodesDeadline
      BY <2>1
    <3>2. \E t \in Nat : now' = t /\ t <= NodesDeadline
      BY <2>1, <2>2, <3>1, CallTakes, Zenon
    <3> QED
      BY <3>2
  <2>4. pc' \in {"create", "publish"} \/ (pc' = "nodes_sleep" /\ t + Poll <= NodeWait)
    BY <2>2, <2>3
  <2>5. t + EvidenceTime <= CdLimit
    BY <2>3
  <2> QED
    BY <1>f, <2>3, <2>4, <2>5, Zenon DEF Ended
<1>3. CASE Sleep
  <2>1. /\ now' = now + Poll
        /\ \/ pc = "nodes_sleep" /\ pc' = "nodes"
           \/ pc = "pods_sleep" /\ pc' = "pods"
    BY <1>3, <1>t DEF Sleep
  <2>2. CASE pc = "nodes_sleep"
    <3>1. now' \in Nat /\ now' <= NodeWait /\ pc' = "nodes"
      BY <1>t, <2>1, <2>2
    <3> QED
      BY <1>f, <3>1, Zenon
  <2>3. CASE pc = "pods_sleep"
    <3>1. now' \in Nat /\ now' <= CdDeadline /\ pc' = "pods"
      BY <1>t, <2>1, <2>3
    <3> QED
      BY <1>f, <3>1, Zenon
  <2> QED
    BY <2>1, <2>2, <2>3
<1>4. CASE CreateNamespace
  <2>1. pc = "create" /\ now \in Nat /\ now <= NodeWait
    BY <1>4, <1>t DEF CreateNamespace
  <2>2. PICK t \in Nat : now' = t /\ t <= now + KubectlTimeout
    <3>1. PICK answer : Call(CdDeadline, answer)
      BY <1>4 DEF CreateNamespace
    <3> QED
      BY <2>1, <3>1, CallTakes, Zenon
  <2>3. t + KubectlTimeout <= CdDeadline /\ t + KubectlTimeout + EvidenceTime <= CdLimit
    BY <2>1, <2>2
  <2>4. pc' \in {"apply", "delete"}
    BY <1>4 DEF CreateNamespace, Ends
  <2> QED
    BY <1>f, <2>2, <2>3, <2>4, Zenon
<1>5. CASE ApplyManifest
  <2>1. pc = "apply" /\ now \in Nat /\ now + KubectlTimeout <= CdDeadline
    BY <1>5, <1>t DEF ApplyManifest
  <2>2. PICK t \in Nat : now' = t /\ t <= now + KubectlTimeout
    <3>1. PICK answer : Call(CdDeadline, answer)
      BY <1>5 DEF ApplyManifest
    <3> QED
      BY <2>1, <3>1, CallTakes, Zenon
  <2>3. t <= CdDeadline /\ t + KubectlTimeout + EvidenceTime <= CdLimit
    BY <2>1, <2>2
  <2>4. pc' \in {"pods", "delete"}
    BY <1>5 DEF ApplyManifest, Ends
  <2> QED
    BY <1>f, <2>2, <2>3, <2>4, Zenon
<1>6. CASE PollPods
  <2>1. pc = "pods" /\ now \in Nat /\ now <= CdDeadline
    BY <1>6, <1>t DEF PollPods
  <2>2. PICK t \in Nat : now' = t /\ t <= CdDeadline
    <3>1. PICK answer : Call(CdDeadline, answer)
      BY <1>6 DEF PollPods
    <3> QED
      BY <2>1, <3>1, CallTakes, Zenon
  <2>3. \/ pc' \in {"window", "delete"}
        \/ pc' = "pods_sleep" /\ t + Poll <= CdDeadline
    <3>1. PICK answer \in {"ok", "error", "out-of-time", "malformed"} :
            \/ answer = "ok" /\ Continues(IF {s \in Services : ~ IsSettled(pods[s])} = {}
                                              \/ t + Poll > CdDeadline
                                            THEN "window" ELSE "pods_sleep")
            \/ Continues("window") \/ Continues("delete")
      BY <1>6, <2>2 DEF PollPods, Ends
    <3> QED
      BY <3>1
  <2>4. t + KubectlTimeout + EvidenceTime <= CdLimit
    BY <2>2
  <2> QED
    BY <1>f, <2>2, <2>3, <2>4, Zenon
<1>7. CASE SettleWindow
  <2>1. pc = "window" /\ now \in Nat /\ now <= CdDeadline /\ pc' = "judge"
    BY <1>7, <1>t DEF SettleWindow
  <2>2. now' = now \/ (now' = now + Settle /\ CdDeadline - now >= Settle)
    BY <1>7 DEF SettleWindow
  <2>3. now' \in Nat /\ now' <= CdDeadline
    BY <2>1, <2>2
  <2> QED
    BY <1>f, <2>1, <2>3, Zenon
<1>8. CASE JudgePods
  <2>1. pc = "judge" /\ now \in Nat /\ now <= CdDeadline
    BY <1>8, <1>t DEF JudgePods
  <2>2. PICK t \in Nat : now' = t /\ t <= now + KubectlTimeout
    <3>1. PICK answer : Call(CdLimit, answer)
      BY <1>8 DEF JudgePods
    <3> QED
      BY <2>1, <3>1, CallTakes, Zenon
  <2>3. t + KubectlTimeout + EvidenceTime <= CdLimit
    BY <2>1, <2>2
  <2>4. pc' = "delete"
    BY <1>8 DEF JudgePods, Ends
  <2> QED
    BY <1>f, <2>2, <2>3, <2>4, Zenon
<1>9. CASE DeleteNamespace
  <2>1. pc = "delete" /\ now \in Nat /\ now + KubectlTimeout + EvidenceTime <= CdLimit
    BY <1>9, <1>t DEF DeleteNamespace
  <2>2. PICK t \in Nat : now' = t /\ t <= now + KubectlTimeout
    <3>1. PICK answer : Call(CdLimit, answer)
      BY <1>9 DEF DeleteNamespace
    <3> QED
      BY <2>1, <3>1, CallTakes, Zenon
  <2>3. t + EvidenceTime <= CdLimit
    BY <2>1, <2>2
  <2>4. pc' \in Ended
    BY <1>9 DEF DeleteNamespace, Raises, Exits, Ended
  <2> QED
    BY <1>f, <2>2, <2>3, <2>4, Zenon
<1>10. CASE PodChanges \/ LateCreate
  BY <1>t, <1>10 DEF PodChanges, LateCreate, CdTimeInv
<1>11. CASE KitNext /\ UNCHANGED cd
  <2>1. now' = now /\ (pc' \in Ended \/ (pc = "start" /\ pc' = "body"))
    BY <1>t, <1>11 DEF KitNext, Begin, Refuse, Publish, PublishRaises, Kill, Exits, Ended
  <2>2. now' \in Nat /\ now' + EvidenceTime <= CdLimit /\ (pc' = "body" => now' = 0)
    BY <1>t, <2>1 DEF Ended
  <2> QED
    BY <1>f, <2>1, <2>2, Zenon
<1> QED
  BY <1>1, <1>2, <1>3, <1>4, <1>5, <1>6, <1>7, <1>8, <1>9, <1>10, <1>11 DEF CdNext, CdBody

LEMMA NamespaceStep ==
  ASSUME KitInv, CdTimeInv, NamespaceInv, stage = "cd", CdNext, stage' = stage
  PROVE  NamespaceInv'
<1> USE CdNumbers DEF NamespaceInv, NamespaceIsDeleted, Untouched, Ended, Concludes, Continues
<1>1. CASE ReportGap \/ FindKubectl \/ AskNodes \/ Sleep
  BY <1>1 DEF ReportGap, FindKubectl, AskNodes, Sleep
<1>2. CASE CreateNamespace \/ ApplyManifest \/ PollPods \/ SettleWindow \/ JudgePods
  <2>1. pc' \in {"apply", "pods", "pods_sleep", "window", "judge", "delete"}
    BY <1>2 DEF CreateNamespace, ApplyManifest, PollPods, SettleWindow, JudgePods, Ends
  <2> QED
    BY <2>1
<1>3. CASE DeleteNamespace
  <2>1. pc = "delete" /\ now \in Nat /\ now + KubectlTimeout + EvidenceTime <= CdLimit
    BY <1>3, Fitted DEF DeleteNamespace
  <2>2. PICK answer \in {"ok", "error", "out-of-time"} :
          /\ Call(CdLimit, answer)
          /\ deleteWas' = answer
          /\ namespace' = IF answer = "ok" /\ namespace = "exists" THEN "deleted" ELSE namespace
    BY <1>3 DEF DeleteNamespace
  <2>3. answer # "out-of-time"
    <3>1. answer = "out-of-time" => CdLimit - now < KubectlTimeout
      BY <2>1, <2>2, CallTakes, Zenon
    <3> QED
      BY <2>1, <3>1
  <2>4. pc' \in Ended
    BY <1>3 DEF DeleteNamespace, Raises, Exits
  <2> QED
    BY <2>1, <2>2, <2>3, <2>4
<1>4. CASE PodChanges
  BY <1>4 DEF PodChanges
<1>5. CASE LateCreate
  BY <1>5 DEF LateCreate
<1>6. CASE KitNext /\ UNCHANGED cd
  BY <1>6 DEF KitInv, KitNext, Begin, Refuse, Publish, PublishRaises, Kill, Exits
<1> QED
  BY <1>1, <1>2, <1>3, <1>4, <1>5, <1>6 DEF CdNext, CdBody

(* What the verdict of a deployment says of each service.                  *)
LEMMA Succeeding ==
  ASSUME NEW views, NEW applied,
         CdVerdict(DeploymentResult(views, applied)).outcome.outcome = "succeeded"
  PROVE  \A s \in Services : views[s] = "deployed"
<1>1. DeploymentOutcome(views) = "succeeded"
  BY DEF CdVerdict, DeploymentResult, Verdict, Outcome, Succeeded, DeploymentOutcome
<1> QED
  BY <1>1 DEF DeploymentOutcome

LEMMA NotSucceeding ==
  /\ ClusterError.outcome.outcome # "succeeded"
  /\ NodesNotReady.outcome.outcome # "succeeded"
  /\ Exception.outcome.outcome # "succeeded"
  /\ Undecided.outcome.outcome # "succeeded"
BY DEF ClusterError, NodesNotReady, Exception, Undecided, Verdict, Outcome

(* A verdict of success at the last look: the pods it saw run, and have    *)
(* not exited.                                                             *)
LEMMA JudgedWell ==
  ASSUME PodsInv, stage = "cd", pc = "judge", NEW t \in Nat, now \in Nat, now <= t,
         CdVerdict(DeploymentResult(
           [s \in Services |-> IF held THEN Judgement(pods[s]) ELSE Cut(Judgement(pods[s]), s)],
           TRUE)).outcome.outcome = "succeeded"
  PROVE  t - seen >= Settle /\ starting = {} /\ exited = {}
<1> DEFINE views == [s \in Services |-> IF held THEN Judgement(pods[s])
                                                  ELSE Cut(Judgement(pods[s]), s)]
<1>1. \A s \in Services : views[s] = "deployed"
  BY Succeeding
<1>2. held
  <2>1. PICK s \in Services : TRUE
    BY ServicesAreComposed
  <2>2. Cut(Judgement(pods[s]), s) # "deployed"
    BY DEF Cut
  <2> QED
    BY <1>1, <2>2
<1>3. ASSUME NEW s \in Services PROVE pods[s] = "running"
  <2>1. pods[s] \in Views
    BY DEF PodsInv
  <2>2. Judgement(pods[s]) = "deployed"
    BY <1>1, <1>2
  <2> QED
    BY <2>1, <2>2 DEF Judgement, Views
<1>4. exited = {}
  BY <1>3 DEF PodsInv
<1>5. starting = {} /\ now - seen >= Settle /\ seen \in Nat
  BY <1>2 DEF PodsInv
<1>6. t - seen >= Settle
  BY <1>5, CdNumbers
<1> QED
  BY <1>4, <1>5, <1>6

LEMMA PodsStep ==
  ASSUME KitInv, CdTimeInv, PodsInv, stage = "cd", CdNext, stage' = stage
  PROVE  PodsInv'
<1> USE CdNumbers, NotSucceeding DEF Concludes, Continues
<1>n. now \in Nat /\ now + EvidenceTime <= CdLimit
  BY Fitted
<1>p. /\ pods \in [Services -> Views]
      /\ exited = {s \in Services : pods[s] \in {"CrashLoopBackOff", "restarted"}}
      /\ seen \in Nat /\ judged \in Nat /\ seen <= now
  BY DEF PodsInv
<1>u. pc \notin Ended => verdict = Undecided
  BY DEF KitInv
<1> DEFINE Watched == UNCHANGED << pods, exited, starting, seen, held, judged >>
<1>1. CASE ReportGap
  <2> DEFINE views == [s \in Services |-> IF Gaps[s] = "pinned" THEN "blocked" ELSE Gaps[s]]
  <2>1. /\ verdict' = CdVerdict(DeploymentResult(views, FALSE)) /\ pc' = "publish"
        /\ Watched /\ now' = now
    BY <1>1 DEF ReportGap
  <2>2. PICK s \in Services : TRUE
    BY ServicesAreComposed
  <2>3. views[s] # "deployed"
    BY DEF Gaps, Gap
  <2>4. verdict'.outcome.outcome # "succeeded"
    BY <2>1, <2>3, Succeeding
  <2> QED
    BY <1>p, <2>1, <2>4 DEF PodsInv, DeployedIsEarned
<1>2. CASE FindKubectl
  <2>1. verdict' \in {ClusterError, Undecided} /\ pc' \in {"publish", "nodes"} /\ Watched /\ now' = now
    BY <1>2, <1>u DEF FindKubectl, Ended
  <2> QED
    BY <1>p, <2>1 DEF PodsInv, DeployedIsEarned
<1>3. CASE AskNodes
  <2>1. /\ verdict' \in {NodesNotReady, Undecided}
        /\ pc' \in {"publish", "create", "nodes_sleep"} /\ Watched
    BY <1>3, <1>u DEF AskNodes, Ended
  <2>2. PICK answer : Call(NodesDeadline, answer)
    BY <1>3 DEF AskNodes
  <2>3. PICK t \in Nat : now' = t /\ now <= t
    <3>1. NodesDeadline \in Nat
      OBVIOUS
    <3> QED
      BY <1>n, <2>2, <3>1, CallTakes, Zenon
  <2>4. seen <= t
    BY <1>n, <1>p, <2>3
  <2> QED
    BY <1>p, <2>1, <2>3, <2>4 DEF PodsInv, DeployedIsEarned
<1>4. CASE Sleep
  <2>1. PICK t \in Nat : now' = t /\ seen <= t
    BY <1>4, <1>n, <1>p DEF Sleep
  <2>2. verdict' = Undecided /\ pc' \in {"nodes", "pods"} /\ Watched
    BY <1>4, <1>u DEF Sleep, Ended
  <2> QED
    BY <1>p, <2>1, <2>2 DEF PodsInv, DeployedIsEarned
<1>5. CASE CreateNamespace \/ ApplyManifest
  <2>1. /\ verdict' = Undecided /\ Watched
        /\ \/ pc' \in {"apply", "pods"}
           \/ pc' = "delete" /\ result' = ClusterError
    BY <1>5, <1>u DEF CreateNamespace, ApplyManifest, Ends, Ended
  <2>2. PICK answer : Call(CdDeadline, answer)
    BY <1>5 DEF CreateNamespace, ApplyManifest
  <2>3. PICK t \in Nat : now' = t /\ now <= t
    BY <1>n, <2>2, CallTakes, Zenon
  <2>4. seen <= t
    BY <1>n, <1>p, <2>3
  <2> QED
    BY <1>p, <2>1, <2>3, <2>4 DEF PodsInv, DeployedIsEarned
<1>6. CASE PollPods
  <2>1. PICK answer : Call(CdDeadline, answer)
    BY <1>6 DEF PollPods
  <2>2. PICK t \in Nat : now' = t /\ now <= t
    BY <1>n, <2>1, CallTakes, Zenon
  <2>3. seen <= t
    BY <1>n, <1>p, <2>2
  <2>4. /\ verdict' = Undecided /\ UNCHANGED << pods, exited, held, judged >>
        /\ seen' \in {seen, t}
        /\ \/ pc' \in {"window", "pods_sleep"}
           \/ pc' = "delete" /\ result' \in {ClusterError, Exception}
    BY <1>6, <1>u, <2>2 DEF PollPods, Ends, Ended
  <2>5. seen' \in Nat /\ seen' <= t
    BY <1>p, <2>3, <2>4
  <2> QED
    BY <1>p, <2>2, <2>4, <2>5 DEF PodsInv, DeployedIsEarned
<1>7. CASE SettleWindow
  <2>1. /\ verdict' = Undecided /\ pc' = "judge"
        /\ UNCHANGED << pods, exited, starting, seen, judged >>
        /\ held' = (starting = {} /\ CdDeadline - now >= Settle)
        /\ now' = IF held' THEN now + Settle ELSE now
    BY <1>7, <1>u DEF SettleWindow, Ended
  <2>2. PICK t \in Nat : now' = t /\ seen <= t /\ (held' => t - seen >= Settle /\ starting = {})
    <3>1. CASE held'
      <4>1. now' = now + Settle /\ starting = {}
        BY <2>1, <3>1
      <4>2. now + Settle \in Nat /\ seen <= now + Settle /\ (now + Settle) - seen >= Settle
        BY <1>n, <1>p
      <4> QED
        BY <4>1, <4>2
    <3>2. CASE ~ held'
      BY <1>n, <1>p, <2>1, <3>2
    <3> QED
      BY <3>1, <3>2
  <2> QED
    BY <1>p, <2>1, <2>2 DEF PodsInv, DeployedIsEarned
<1>8. CASE JudgePods
  <2> DEFINE seenAs == CdVerdict(DeploymentResult(
           [s \in Services |-> IF held THEN Judgement(pods[s]) ELSE Cut(Judgement(pods[s]), s)],
           TRUE))
  <2>1. PICK answer : Call(CdLimit, answer)
    BY <1>8 DEF JudgePods
  <2>2. PICK t \in Nat : now' = t /\ now <= t
    BY <1>n, <2>1, CallTakes, Zenon
  <2>3. seen <= t
    BY <1>n, <1>p, <2>2
  <2>4. /\ verdict' = Undecided /\ UNCHANGED << pods, exited, starting, seen, held >>
        /\ pc' = "delete" /\ pc = "judge"
        /\ \/ result' = seenAs /\ judged' = t
           \/ result' \in {ClusterError, Exception} /\ judged' \in {judged, t}
    <3>1. [s \in Services |-> IF held THEN [r \in Services |-> Judgement(pods[r])][s]
                              ELSE Cut([r \in Services |-> Judgement(pods[r])][s], s)]
            = [s \in Services |-> IF held THEN Judgement(pods[s]) ELSE Cut(Judgement(pods[s]), s)]
      OBVIOUS
    <3> QED
      BY <1>8, <1>u, <2>2, <3>1 DEF JudgePods, Ends, Ended
  <2>5. result'.outcome.outcome = "succeeded" => Earned'
    <3>1. CASE result' = seenAs /\ judged' = t
      BY <1>n, <2>2, <2>4, <3>1, JudgedWell DEF Earned
    <3> QED
      BY <2>4, <3>1
  <2>6. judged' \in Nat
    BY <1>p, <2>4
  <2> QED
    BY <1>p, <2>2, <2>3, <2>4, <2>5, <2>6 DEF PodsInv, DeployedIsEarned
<1>9. CASE DeleteNamespace
  <2>1. PICK answer : Call(CdLimit, answer)
    BY <1>9 DEF DeleteNamespace
  <2>2. PICK t \in Nat : now' = t /\ now <= t
    BY <1>n, <2>1, CallTakes, Zenon
  <2>3. seen <= t
    BY <1>n, <1>p, <2>2
  <2>4. /\ Watched /\ pc = "delete" /\ pc' \in Ended /\ result' = result
        /\ verdict' \in {Undecided, result}
    BY <1>9, <1>u DEF DeleteNamespace, Raises, Exits, Ended
  <2>5. result.outcome.outcome = "succeeded" => Earned
    BY <2>4 DEF PodsInv
  <2> QED
    BY <1>p, <2>2, <2>3, <2>4, <2>5 DEF PodsInv, DeployedIsEarned, Earned, Ended
<1>10. CASE PodChanges
  <2>1. /\ pc \in {"pods", "pods_sleep", "window", "judge"}
        /\ UNCHANGED << starting, seen, held, judged, now, pc, verdict, result >>
    BY <1>10 DEF PodChanges
  <2>2. PICK s \in Services : \E view \in After(pods[s]) :
          /\ pods' = [pods EXCEPT ![s] = view]
          /\ exited' = CASE view = "CrashLoopBackOff" -> exited \cup {s}
                         [] view = "pending" -> exited \ {s}
                         [] OTHER -> exited
    BY <1>10 DEF PodChanges
  <2>3. PICK view \in After(pods[s]) :
          /\ pods' = [pods EXCEPT ![s] = view]
          /\ exited' = CASE view = "CrashLoopBackOff" -> exited \cup {s}
                         [] view = "pending" -> exited \ {s}
                         [] OTHER -> exited
    BY <2>2
  <2>4. pods[s] \in Views
    BY <1>p
  <2>5. /\ view \in Views
        /\ view = "restarted" => pods[s] = "CrashLoopBackOff"
        /\ view \notin {"CrashLoopBackOff", "restarted", "pending"}
             => pods[s] \notin {"CrashLoopBackOff", "restarted"}
    BY <2>3, <2>4 DEF After, Views
  <2>6. pods' \in [Services -> Views]
    BY <1>p, <2>3, <2>5
  <2>7. exited' = {r \in Services : pods'[r] \in {"CrashLoopBackOff", "restarted"}}
    <3>1. ASSUME NEW r
          PROVE  r \in exited' <=> r \in Services /\ pods'[r] \in {"CrashLoopBackOff", "restarted"}
      <4>1. CASE r = s
        BY <1>p, <2>3, <2>5, <4>1
      <4>2. CASE r # s
        BY <1>p, <2>3, <4>2
      <4> QED
        BY <4>1, <4>2
    <3> QED
      BY <3>1
  <2>8. verdict = Undecided
    BY <1>u, <2>1 DEF Ended
  <2> QED
    BY <1>p, <2>1, <2>6, <2>7, <2>8 DEF PodsInv, DeployedIsEarned
<1>11. CASE LateCreate
  BY <1>11 DEF LateCreate, PodsInv, DeployedIsEarned, Earned
<1>12. CASE KitNext /\ UNCHANGED cd
  <2>1. UNCHANGED << now, verdict >> /\ (pc' \in Ended \/ pc' = "body")
    BY <1>12 DEF KitNext, Begin, Refuse, Publish, PublishRaises, Kill, Exits, Ended
  <2> QED
    BY <1>12, <2>1 DEF PodsInv, DeployedIsEarned, Ended
<1> QED
  BY <1>1, <1>2, <1>3, <1>4, <1>5, <1>6, <1>7, <1>8, <1>9, <1>10, <1>11, <1>12 DEF CdNext, CdBody

-----------------------------------------------------------------------------
(* Image build.                                                            *)

LEMMA BuildConstants ==
  /\ BuildLimit \in Nat /\ CancelGrace \in Nat /\ PublishReserve \in Nat
  /\ RegistryTimeout \in Nat /\ BuildPoll \in Nat /\ ReadWaits \in Nat /\ DeadlineReserve \in Nat
  /\ RegistryTimeout > 0 /\ BuildPoll > 0 /\ ReadWaits > 0
  /\ DeadlineReserve >= CancelGrace + PublishReserve
BY BuildTimes

LEMMA BuildNumbers ==
  /\ BuildDeadline \in Int /\ ReadCutoff \in Int /\ BuildDeadline <= ReadCutoff
  /\ ReadCutoff + CancelGrace = BuildLimit - PublishReserve
  /\ CancelGrace \in Nat /\ BuildPoll \in Nat /\ PublishReserve \in Nat /\ BuildLimit \in Nat
  /\ RegistryTimeout \in Nat /\ RegistryTimeout > 0 /\ ReadWaits \in Nat /\ ReadWaits > 0
  /\ Overrun \in Nat
  /\ BuildDeadline' = BuildDeadline /\ ReadCutoff' = ReadCutoff /\ Overrun' = Overrun
  /\ ServicesFit' = ServicesFit
<1>1. Overrun \in Nat
  <2>1. ReadWaits - 1 \in Nat /\ RegistryTimeout \in Nat
    BY BuildConstants
  <2>2. \A a, b \in Nat : a * b \in Nat
    OBVIOUS
  <2> QED
    BY <2>1, <2>2 DEF Overrun
<1> QED
  BY <1>1, BuildConstants DEF BuildDeadline, ReadCutoff, Overrun, ServicesFit

(* A read that has time left before the cutoff.                            *)
LEMMA ReadTakes ==
  ASSUME NEW t \in Nat, NEW timeout \in Nat, timeout <= RegistryTimeout,
         NEW u \in t .. (t + ReadWaits * timeout)
  PROVE  u \in Nat /\ t <= u /\ u <= t + timeout + Overrun
<1>1. ReadWaits - 1 \in Nat /\ RegistryTimeout - timeout \in Nat /\ ReadWaits \in Nat
      /\ RegistryTimeout \in Nat
  BY BuildNumbers
<1>2. \A a, b \in Nat : a * b \in Nat
  OBVIOUS
<1>3. (ReadWaits - 1) * (RegistryTimeout - timeout) \in Nat /\ ReadWaits * timeout \in Nat
  BY <1>1, <1>2
<1>4. (ReadWaits - 1) * (RegistryTimeout - timeout)
        = (ReadWaits - 1) * RegistryTimeout - (ReadWaits * timeout - timeout)
  BY <1>1
<1>5. ReadWaits * timeout <= timeout + Overrun
  BY <1>1, <1>3, <1>4, BuildNumbers DEF Overrun
<1> QED
  BY <1>3, <1>5, BuildNumbers

(* The times that fit a place.                                             *)
LEMMA BuildFitting ==
  ASSUME NEW t \in Nat, NEW failed \in BOOLEAN, NEW p \in BuildPlaces, ServicesFit
  PROVE  /\ p \in {"start", "body", "services"} /\ t = 0 => BuildFits(p, failed, t)
         /\ p \in {"deadline", "starting", "finally"} /\ t <= BuildDeadline
              => BuildFits(p, failed, t)
         /\ p \in {"visiting", "poll_sleep"} /\ t <= ReadCutoff + Overrun
              => BuildFits(p, failed, t)
         /\ p \in {"polling", "stopping"} /\ t <= ReadCutoff + Overrun + BuildPoll
              => BuildFits(p, failed, t)
         /\ p \in Ended \cup {"reading"} \/ (p = "finally" /\ ~ failed)
              => (t <= BuildLimit - PublishReserve + BuildPoll + Overrun => BuildFits(p, failed, t))
<1> USE BuildNumbers
<1>0. BuildDeadline >= 0
  <2>1. \A a, b \in Nat : a * b \in Nat
    OBVIOUS
  <2>2. (1 + ReadWaits) * RegistryTimeout \in Nat
    BY <2>1
  <2> QED
    BY <2>2 DEF ServicesFit
<1>1. p \in {"start", "body", "services"} /\ t = 0 => BuildFits(p, failed, t)
  BY <1>0 DEF BuildFits
<1>2. p \in {"deadline", "starting", "finally"} /\ t <= BuildDeadline => BuildFits(p, failed, t)
  BY DEF BuildFits
<1>3. p \in {"visiting", "poll_sleep"} /\ t <= ReadCutoff + Overrun => BuildFits(p, failed, t)
  BY DEF BuildFits
<1>4. p \in {"polling", "stopping"} /\ t <= ReadCutoff + Overrun + BuildPoll
        => BuildFits(p, failed, t)
  BY DEF BuildFits
<1>5. ASSUME p \in Ended \cup {"reading"} \/ (p = "finally" /\ ~ failed),
             t <= BuildLimit - PublishReserve + BuildPoll + Overrun
      PROVE  BuildFits(p, failed, t)
  BY <1>5 DEF BuildFits, Ended
<1> QED
  BY <1>1, <1>2, <1>3, <1>4, <1>5

(* What is asked for does not change.                                      *)
LEMMA SameOrder ==
  ASSUME UNCHANGED << stage, inputs >>
  PROVE  /\ ToBuild' = ToBuild /\ ToBuild \subseteq Services
         /\ \A s \in Services : Requested(s)' = Requested(s)
BY DEF ToBuild, Requested

LEMMA ClientsStep ==
  ASSUME KitInv, ClientsInv, stage = "image_build", BuildNext, UNCHANGED << stage, inputs >>
  PROVE  ClientsInv'
<1>o. ToBuild' = ToBuild /\ ToBuild \subseteq Services
  BY SameOrder
<1> USE <1>o DEF Concludes, Continues
<1>c. /\ client \in [Services -> {"none", "running", "built", "broken", "stopped"}]
      /\ pc \in Clientless \/ (pc = "finally" /\ ~ raised) => Quiet
      /\ pc \in BuildPlaces /\ raised \in BOOLEAN /\ pending \subseteq ToBuild
      /\ \A s \in pending : client[s] # "none"
      /\ \A s \in Services : client[s] = "running" => s \in pending
      /\ toVisit \subseteq pending
      /\ pc \notin {"visiting", "done"} => toVisit = {}
      /\ toRead \subseteq pending
      /\ pc \notin {"stopping", "reading", "done"} => toRead = {}
      /\ \A s \in toRead : client[s] # "running"
      /\ pc \notin {"finally", "done"} => ~ raised
  BY DEF ClientsInv
<1>s. ASSUME NEW which,
             client' = [s \in Services |-> IF s \in which /\ client[s] = "running"
                                             THEN "stopped" ELSE client[s]]
      PROVE  /\ client' \in [Services -> {"none", "running", "built", "broken", "stopped"}]
             /\ \A s \in pending : client'[s] # "none"
             /\ \A s \in Services : client'[s] = "running" => client[s] = "running" /\ s \notin which
  <2>1. \A s \in Services : client'[s] = IF s \in which /\ client[s] = "running"
                                           THEN "stopped" ELSE client[s]
    BY <1>s
  <2> QED
    BY <1>c, <1>s, <2>1
<1>1. CASE CheckBuildInputs \/ AskServices \/ CheckDeadline
  <2>1. /\ pc \in {"body", "services", "deadline"}
        /\ pc' \in {"publish", "services", "deadline"} \/ (pc' = "starting" /\ ~ raised')
        /\ UNCHANGED build
    <3>1. /\ pc \in {"body", "services", "deadline"} /\ UNCHANGED build
          /\ pc' \in {"publish", "services", "deadline", "starting"}
      BY <1>1 DEF CheckBuildInputs, AskServices, CheckDeadline
    <3>2. ~ raised
      BY <1>c, <3>1
    <3> QED
      BY <3>1, <3>2
  <2>2. Quiet /\ toVisit = {} /\ toRead = {} /\ ~ raised
    BY <1>c, <2>1 DEF Clientless, Ended
  <2>3. Quiet'
    BY <2>1, <2>2 DEF Quiet
  <2>4. pc' \in BuildPlaces /\ pc' \notin {"finally", "done"}
    BY <2>1 DEF BuildPlaces, Ended
  <2> QED
    BY <1>c, <2>1, <2>2, <2>3, <2>4 DEF ClientsInv
<1>2. CASE StartClient
  <2>1. PICK s \in {t \in ToBuild : client[t] = "none"} :
          \/ /\ client' = [client EXCEPT ![s] = "running"]
             /\ pending' = pending \cup {s}
             /\ pc' \in {"polling", "starting"}
             /\ UNCHANGED raised
          \/ raised' = TRUE /\ pc' = "finally" /\ UNCHANGED << client, pending >>
    BY <1>2 DEF StartClient
  <2>2. pc = "starting" /\ UNCHANGED << toVisit, toRead >>
    BY <1>2 DEF StartClient
  <2>3. toRead = {} /\ toVisit = {} /\ ~ raised
    BY <1>c, <2>2
  <2>4. CASE raised' = TRUE /\ pc' = "finally" /\ UNCHANGED << client, pending >>
    BY <1>c, <2>2, <2>3, <2>4 DEF ClientsInv, Quiet, BuildPlaces, Clientless, Ended
  <2>5. CASE /\ client' = [client EXCEPT ![s] = "running"]
             /\ pending' = pending \cup {s}
             /\ pc' \in {"polling", "starting"}
             /\ UNCHANGED raised
    <3>1. client' \in [Services -> {"none", "running", "built", "broken", "stopped"}]
      BY <1>c, <2>5
    <3>2. \A t \in pending' : client'[t] # "none"
      BY <1>c, <2>5
    <3>3. \A t \in Services : client'[t] = "running" => t \in pending'
      BY <1>c, <2>5
    <3> QED
      BY <1>c, <2>2, <2>3, <2>5, <3>1, <3>2, <3>3
         DEF ClientsInv, Quiet, BuildPlaces, Clientless, Ended
  <2> QED
    BY <2>1, <2>4, <2>5
<1>3. CASE BeginPass
  <2>1. /\ pc = "polling" /\ UNCHANGED << client, pending, raised >>
        /\ \/ toVisit' = pending /\ pc' = "visiting" /\ toRead' = toRead
           \/ /\ toRead' = {s \in pending : client[s] # "running"}
              /\ pc' = "stopping" /\ toVisit' = toVisit
    BY <1>3 DEF BeginPass
  <2> QED
    BY <1>c, <2>1 DEF ClientsInv, Quiet, BuildPlaces, Clientless, Ended
<1>4. CASE Visit
  <2>1. PICK s \in toVisit :
          /\ toVisit' = toVisit \ {s}
          /\ \/ client[s] = "running" /\ pending' = pending
             \/ client[s] # "running" /\ pending' = pending \ {s}
    BY <1>4 DEF Visit
  <2>2. /\ pc = "visiting" /\ UNCHANGED << client, toRead, raised >>
        /\ pc' \in {"visiting", "poll_sleep", "polling"}
        /\ pc' # "visiting" => toVisit' = {}
    BY <1>4 DEF Visit
  <2>3. toRead = {} /\ ~ raised
    BY <1>c, <2>2
  <2> QED
    BY <1>c, <2>1, <2>2, <2>3 DEF ClientsInv, Quiet, BuildPlaces, Clientless, Ended
<1>5. CASE PollSleep
  BY <1>5, <1>c DEF PollSleep, ClientsInv, Quiet, BuildPlaces, Clientless, Ended
<1>6. CASE StopUnfinished
  <2>1. /\ client' = [s \in Services |-> IF s \in pending \ toRead /\ client[s] = "running"
                                             THEN "stopped" ELSE client[s]]
        /\ pc = "stopping" /\ pc' = "reading" /\ UNCHANGED << pending, toVisit, toRead, raised >>
    BY <1>6 DEF StopUnfinished, Stopped
  <2>2. /\ client' \in [Services -> {"none", "running", "built", "broken", "stopped"}]
        /\ \A s \in pending : client'[s] # "none"
        /\ \A s \in Services : client'[s] = "running" => client[s] = "running" /\ s \in toRead
    BY <1>c, <1>s, <2>1
  <2>3. \A s \in Services : client'[s] # "running"
    BY <1>c, <2>2
  <2> QED
    BY <1>c, <2>1, <2>2, <2>3 DEF ClientsInv, Quiet, BuildPlaces, Clientless, Ended
<1>7. CASE ReadFinished
  <2>1. /\ pc = "reading" /\ UNCHANGED << client, toVisit, raised >>
        /\ \/ pc' = "reading" /\ \E s \in toRead : toRead' = toRead \ {s} /\ pending' = pending \ {s}
           \/ pc' = "finally" /\ toRead = {} /\ UNCHANGED << toRead, pending >>
    BY <1>7 DEF ReadFinished
  <2>2. Quiet /\ toVisit = {} /\ ~ raised
    BY <1>c, <2>1 DEF Clientless
  <2>3. Quiet'
    BY <2>1, <2>2 DEF Quiet
  <2>4. /\ toRead' \subseteq pending' /\ pending' \subseteq pending
        /\ pc' = "finally" => toRead' = {}
    BY <1>c, <2>1
  <2> QED
    BY <1>c, <2>1, <2>2, <2>3, <2>4 DEF ClientsInv, Quiet, BuildPlaces, Ended
<1>8. CASE StopRunning
  <2>1. /\ client' = [s \in Services |-> IF s \in Services /\ client[s] = "running"
                                             THEN "stopped" ELSE client[s]]
        /\ pc = "finally" /\ UNCHANGED << pending, toVisit, toRead, raised >>
        /\ pc' = "done" \/ (pc' = "publish" /\ ~ raised)
    BY <1>8 DEF StopRunning, Stopped, Raises, Exits
  <2>2. /\ client' \in [Services -> {"none", "running", "built", "broken", "stopped"}]
        /\ \A s \in pending : client'[s] # "none"
        /\ \A s \in Services : client'[s] # "running"
    BY <1>c, <1>s, <2>1
  <2>3. toRead = {} /\ toVisit = {}
    BY <1>c, <2>1
  <2> QED
    BY <1>c, <2>1, <2>2, <2>3 DEF ClientsInv, Quiet, BuildPlaces, Ended
<1>9. CASE ClientExits
  <2>1. PICK s \in Services : /\ client[s] = "running"
                              /\ \/ client' = [client EXCEPT ![s] = "built"]
                                 \/ client' = [client EXCEPT ![s] = "broken"]
    BY <1>9 DEF ClientExits
  <2>2. /\ client' \in [Services -> {"none", "running", "built", "broken", "stopped"}]
        /\ \A t \in Services : \/ client'[t] = client[t]
                               \/ client[t] = "running" /\ client'[t] \in {"built", "broken"}
    BY <1>c, <2>1
  <2>3. UNCHANGED << pc, pending, toVisit, toRead, raised >>
    BY <1>9 DEF ClientExits
  <2> QED
    BY <1>c, <2>2, <2>3 DEF ClientsInv, Quiet
<1>10. CASE BuildKilled
  <2>1. /\ client' = [s \in Services |-> IF s \in Services /\ client[s] = "running"
                                             THEN "stopped" ELSE client[s]]
        /\ pc' = "done" /\ UNCHANGED << pending, toVisit, toRead, raised >>
    BY <1>10 DEF BuildKilled, Kill, Exits
  <2>2. /\ client' \in [Services -> {"none", "running", "built", "broken", "stopped"}]
        /\ \A s \in pending : client'[s] # "none"
        /\ \A s \in Services : client'[s] # "running"
    BY <1>c, <1>s, <2>1
  <2> QED
    BY <1>c, <2>1, <2>2 DEF ClientsInv, Quiet, BuildPlaces, Ended
<1>11. CASE (Begin \/ Refuse \/ Publish \/ PublishRaises) /\ UNCHANGED build
  <2>1. pc \in {"start", "publish"} /\ pc' \in {"body", "done"} /\ UNCHANGED build
    BY <1>11 DEF Begin, Refuse, Publish, PublishRaises, Exits
  <2> QED
    BY <1>c, <2>1 DEF ClientsInv, Quiet, BuildPlaces, Clientless, Ended
<1> QED
  BY <1>1, <1>2, <1>3, <1>4, <1>5, <1>6, <1>7, <1>8, <1>9, <1>10, <1>11 DEF BuildNext, BuildBody

(* The time the parts of the adapter take.                                 *)
LEMMA FinishTakes ==
  ASSUME NEW s, now \in Nat, Finish(s)
  PROVE  \E t \in Nat : now' = t /\ now <= t /\ (t = now \/ t <= ReadCutoff + Overrun)
<1> DEFINE timeout == IF ReadCutoff - now < RegistryTimeout THEN ReadCutoff - now
                                                            ELSE RegistryTimeout
           reads == client[s] = "built" /\ Cardinality(Requested(s)) > 1 /\ timeout > 0
<1>1. now' \in now .. (IF reads THEN now + ReadWaits * timeout ELSE now)
  BY DEF Finish
<1>2. CASE reads
  <2>1. timeout \in Nat /\ timeout <= RegistryTimeout /\ now + timeout <= ReadCutoff
    BY <1>2, BuildNumbers
  <2>2. PICK u \in now .. (now + ReadWaits * timeout) : now' = u
    BY <1>1, <1>2
  <2> HIDE DEF timeout
  <2>3. u \in Nat /\ now <= u /\ u <= now + timeout + Overrun
    BY <2>1, ReadTakes
  <2>4. u <= ReadCutoff + Overrun
    BY <2>1, <2>3, BuildNumbers
  <2> QED
    BY <2>2, <2>3, <2>4
<1>3. CASE ~ reads
  BY <1>1, <1>3
<1> QED
  BY <1>2, <1>3

LEMMA StopTakes ==
  ASSUME NEW which, now \in Nat, Stopped(which)
  PROVE  \E t \in Nat : now' = t /\ now <= t /\ t <= now + CancelGrace
                        /\ (client' = client => t = now)
<1>1. PICK t \in now .. (IF client' = client THEN now ELSE now + CancelGrace) : now' = t
  BY DEF Stopped
<1> QED
  BY <1>1, BuildNumbers

LEMMA BuildTimeStep ==
  ASSUME KitInv, ClientsInv, ClientsInv', BuildTimeInv, stage = "image_build", BuildNext,
         UNCHANGED << stage, inputs >>
  PROVE  BuildTimeInv'
<1> USE DEF Concludes, Continues
<1>b. pc \in BuildPlaces /\ raised \in BOOLEAN /\ pc' \in BuildPlaces /\ raised' \in BOOLEAN
  BY DEF ClientsInv
<1>n. now \in Nat
  BY DEF BuildTimeInv
<1>t. ServicesFit =>
        /\ pc \in {"start", "body", "services"} => now = 0
        /\ pc \in {"deadline", "starting"} \/ (pc = "finally" /\ raised) => now <= BuildDeadline
        /\ pc \in {"visiting", "poll_sleep"} => now <= ReadCutoff + Overrun
        /\ pc \in {"polling", "stopping"} => now <= ReadCutoff + Overrun + BuildPoll
        /\ now <= BuildLimit - PublishReserve + BuildPoll + Overrun
  BY DEF BuildTimeInv, BuildFits
<1>f. ASSUME NEW t \in Nat, now' = t,
             ServicesFit =>
               \/ pc' \in {"start", "body", "services"} /\ t = 0
               \/ pc' \in {"deadline", "starting", "finally"} /\ t <= BuildDeadline
               \/ pc' \in {"visiting", "poll_sleep"} /\ t <= ReadCutoff + Overrun
               \/ pc' \in {"polling", "stopping"} /\ t <= ReadCutoff + Overrun + BuildPoll
               \/ (pc' \in Ended \cup {"reading"} \/ (pc' = "finally" /\ ~ raised'))
                    /\ t <= BuildLimit - PublishReserve + BuildPoll + Overrun
      PROVE  BuildTimeInv'
  <2>1. ServicesFit => BuildFits(pc', raised', t)
    BY <1>b, <1>f, BuildFitting, Zenon
  <2>2. BuildFits(pc', raised', now') = BuildFits(pc, raised, now)'
    BY BuildNumbers DEF BuildFits
  <2> QED
    BY <1>f, <2>1, <2>2, BuildNumbers DEF BuildTimeInv
<1>d. BuildDeadline <= ReadCutoff + Overrun /\ ReadCutoff + Overrun <= ReadCutoff + Overrun + BuildPoll
      /\ BuildDeadline + CancelGrace <= BuildLimit - PublishReserve + BuildPoll + Overrun
      /\ ReadCutoff + Overrun + BuildPoll + CancelGrace
           = BuildLimit - PublishReserve + BuildPoll + Overrun
  BY BuildNumbers
<1>1. CASE CheckBuildInputs
  BY <1>1, <1>f, <1>n, <1>t, BuildNumbers DEF CheckBuildInputs, Ended
<1>2. CASE AskServices
  <2>1. pc = "services" /\ pc' \in {"publish", "deadline"}
    BY <1>2 DEF AskServices
  <2>2. PICK t \in now .. now + (1 + ReadWaits) * RegistryTimeout : now' = t
    BY <1>2 DEF AskServices
  <2>3. (1 + ReadWaits) * RegistryTimeout \in Int
    BY BuildNumbers
  <2>4. t \in Nat /\ t <= now + (1 + ReadWaits) * RegistryTimeout
    BY <1>n, <2>2, <2>3
  <2>5. ServicesFit => t <= BuildDeadline
    BY <1>t, <2>1, <2>3, <2>4, BuildNumbers DEF ServicesFit
  <2>6. t <= BuildDeadline => t <= BuildLimit - PublishReserve + BuildPoll + Overrun
    BY <2>4, BuildNumbers
  <2> QED
    BY <1>f, <2>1, <2>2, <2>4, <2>5, <2>6, Zenon DEF Ended
<1>3. CASE CheckDeadline
  BY <1>3, <1>f, <1>n, <1>t DEF CheckDeadline, Ended
<1>4. CASE StartClient
  <2>1. /\ pc = "starting" /\ now' = now
        /\ pc' \in {"polling", "starting", "finally"}
    BY <1>4 DEF StartClient
  <2>2. now <= BuildDeadline => now <= ReadCutoff + Overrun + BuildPoll
    BY <1>d, <1>n, BuildNumbers
  <2> QED
    BY <1>f, <1>n, <1>t, <2>1, <2>2, Zenon
<1>5. CASE BeginPass
  <2>1. /\ pc = "polling" /\ now' = now
        /\ \/ pc' = "visiting" /\ now < BuildDeadline
           \/ pc' = "stopping"
    BY <1>5 DEF BeginPass
  <2>2. now < BuildDeadline => now <= ReadCutoff + Overrun
    BY <1>n, BuildNumbers
  <2> QED
    BY <1>f, <1>n, <1>t, <2>1, <2>2, Zenon
<1>6. CASE Visit
  <2>1. pc = "visiting" /\ pc' \in {"visiting", "poll_sleep", "polling"}
    BY <1>6 DEF Visit
  <2>2. PICK s : now' = now \/ Finish(s)
    BY <1>6 DEF Visit
  <2>3. PICK t \in Nat : now' = t /\ (t = now \/ t <= ReadCutoff + Overrun)
    BY <1>n, <2>2, FinishTakes, Zenon
  <2>4. ServicesFit => t <= ReadCutoff + Overrun
    BY <1>t, <2>1, <2>3
  <2>5. t <= ReadCutoff + Overrun => t <= ReadCutoff + Overrun + BuildPoll
    BY <2>3, BuildNumbers
  <2> QED
    BY <1>f, <2>1, <2>3, <2>4, <2>5, Zenon
<1>7. CASE PollSleep
  <2>1. pc = "poll_sleep" /\ pc' = "polling" /\ now' = now + BuildPoll
    BY <1>7 DEF PollSleep
  <2>2. now + BuildPoll \in Nat
        /\ (now <= ReadCutoff + Overrun => now + BuildPoll <= ReadCutoff + Overrun + BuildPoll)
    BY <1>n, BuildNumbers
  <2> QED
    BY <1>f, <1>t, <2>1, <2>2, Zenon
<1>8. CASE StopUnfinished
  <2>1. pc = "stopping" /\ pc' = "reading" /\ Stopped(pending \ toRead)
    BY <1>8 DEF StopUnfinished
  <2>2. PICK t \in Nat : now' = t /\ t <= now + CancelGrace
    BY <1>n, <2>1, StopTakes, Zenon
  <2>3. ServicesFit => t <= BuildLimit - PublishReserve + BuildPoll + Overrun
    BY <1>d, <1>n, <1>t, <2>1, <2>2, BuildNumbers
  <2> QED
    BY <1>f, <2>1, <2>2, <2>3, Zenon
<1>9. CASE ReadFinished
  <2>1. pc = "reading" /\ (pc' = "reading" \/ (pc' = "finally" /\ ~ raised'))
    <3>1. pc = "reading" /\ pc' \in {"reading", "finally"} /\ raised' = raised
      BY <1>9 DEF ReadFinished
    <3> QED
      BY <3>1 DEF ClientsInv
  <2>2. PICK s : now' = now \/ Finish(s)
    BY <1>9 DEF ReadFinished
  <2>3. PICK t \in Nat : now' = t /\ (t = now \/ t <= ReadCutoff + Overrun)
    BY <1>n, <2>2, FinishTakes, Zenon
  <2>4. t <= ReadCutoff + Overrun => t <= BuildLimit - PublishReserve + BuildPoll + Overrun
    BY <1>d, <2>3, BuildNumbers
  <2> QED
    BY <1>f, <1>t, <2>1, <2>3, <2>4, Zenon
<1>10. CASE StopRunning
  <2>1. /\ pc = "finally" /\ Stopped(Services) /\ pc' \in Ended
    BY <1>10 DEF StopRunning, Raises, Exits, Ended
  <2>2. PICK t \in Nat : now' = t /\ t <= now + CancelGrace /\ (client' = client => t = now)
    BY <1>n, <2>1, StopTakes, Zenon
  <2>3. ~ raised => client' = client
    BY <2>1 DEF ClientsInv, Quiet, Stopped
  <2>4. ServicesFit => t <= BuildLimit - PublishReserve + BuildPoll + Overrun
    <3>1. CASE raised
      BY <1>d, <1>n, <1>t, <2>1, <2>2, <3>1, BuildNumbers
    <3>2. CASE ~ raised
      BY <1>t, <2>2, <2>3, <3>2
    <3> QED
      BY <3>1, <3>2
  <2> QED
    BY <1>f, <2>1, <2>2, <2>4, Zenon
<1>11. CASE ClientExits
  <2>1. UNCHANGED << now, pc, raised, stage >>
    BY <1>11 DEF ClientExits
  <2> QED
    BY <2>1, BuildNumbers DEF BuildTimeInv, BuildFits
<1>12. CASE BuildKilled
  <2>1. now' = now /\ pc' \in Ended
    BY <1>12 DEF BuildKilled, Kill, Exits, Ended
  <2> QED
    BY <1>f, <1>n, <1>t, <2>1, Zenon
<1>13. CASE (Begin \/ Refuse \/ Publish \/ PublishRaises) /\ UNCHANGED build
  <2>1. now' = now /\ (pc' \in Ended \/ (pc = "start" /\ pc' = "body"))
    BY <1>13 DEF Begin, Refuse, Publish, PublishRaises, Exits, Ended
  <2> QED
    BY <1>f, <1>n, <1>t, <2>1, Zenon
<1> QED
  BY <1>1, <1>2, <1>3, <1>4, <1>5, <1>6, <1>7, <1>8, <1>9, <1>10, <1>11, <1>12, <1>13
     DEF BuildNext, BuildBody

(* A single architecture is pushed as a whole.                             *)
LEMMA OneArchitecture ==
  ASSUME NEW asked \in SUBSET Architectures, ~ (Cardinality(asked) > 1),
         NEW got \in SUBSET asked, got # {}
  PROVE  got = asked
<1>1. asked # Architectures
  <2>1. Cardinality(Architectures) = 2
    <3>1. Cardinality({}) = 0 /\ IsFiniteSet({})
      BY FS_EmptySet
    <3>2. Cardinality({"amd64"}) = 1 /\ IsFiniteSet({"amd64"})
      BY FS_Singleton
    <3>3. Cardinality({"amd64"} \cup {"arm64"}) = Cardinality({"amd64"}) + 1
      BY <3>2, FS_AddElement
    <3>4. Architectures = {"amd64"} \cup {"arm64"}
      BY DEF Architectures
    <3> QED
      BY <3>2, <3>3, <3>4
  <2> QED
    BY <2>1
<1> QED
  BY <1>1 DEF Architectures

(* What the record of a finished client says.                              *)
LEMMA FinishRecords ==
  ASSUME RecordsInv, InputsInv, stage = "image_build", now \in Nat, NEW s \in Services,
         Finish(s), UNCHANGED << client, pushed, stage, inputs >>
  PROVE  /\ records' \in [Services -> [status : {"none", "built", "build-failed", "work-limit"},
                                       platforms : SUBSET Architectures]]
         /\ ImageRecordsAreTrue'
<1> DEFINE timeout == IF ReadCutoff - now < RegistryTimeout THEN ReadCutoff - now
                                                            ELSE RegistryTimeout
           reads == client[s] = "built" /\ Cardinality(Requested(s)) > 1 /\ timeout > 0
           All == [status : {"none", "built", "build-failed", "work-limit"},
                   platforms : SUBSET Architectures]
<1>1. /\ records \in [Services -> All] /\ pushed \in [Services -> SUBSET Architectures]
      /\ client[s] = "built" => pushed[s] # {} /\ pushed[s] \subseteq Requested(s)
      /\ ImageRecordsAreTrue
  BY DEF RecordsInv
<1>2. Requested(s) \in SUBSET Architectures
  <2>1. inputs \in BuildInputs
    BY DEF InputsInv
  <2>2. inputs.recipes[s] \in Recipes
    BY <2>1 DEF BuildInputs
  <2> QED
    BY <2>2 DEF Recipes, Requested
<1>3. PICK record \in {BuiltImage(pushed[s]), BuiltImage(Requested(s)),
                       FailedImage("build-failed"), FailedImage("work-limit")} :
        /\ records' = [records EXCEPT ![s] = record]
        /\ record.status = "built" =>
             /\ client[s] = "built"
             /\ record.platforms = pushed[s] \/ (~ (Cardinality(Requested(s)) > 1)
                                                 /\ record.platforms = Requested(s))
        /\ record.status = "work-limit" => timeout <= 0
  <2>1. PICK record \in
          (IF client[s] # "built" THEN {FailedImage("build-failed")}
           ELSE IF reads THEN {IF pushed[s] = Requested(s) THEN BuiltImage(pushed[s])
                                                           ELSE FailedImage("build-failed"),
                               FailedImage("build-failed")}
           ELSE IF Cardinality(Requested(s)) > 1 THEN {FailedImage("work-limit")}
           ELSE {BuiltImage(Requested(s)), FailedImage("build-failed")}) :
          records' = [records EXCEPT ![s] = record]
    BY DEF Finish
  <2>2. timeout \in Int
    BY BuildNumbers
  <2> HIDE DEF timeout
  <2>3. ~ (timeout > 0) => timeout <= 0
    BY <2>2
  <2> QED
    BY <2>1, <2>3 DEF BuiltImage, FailedImage
<1>4. record.status = "work-limit" => now >= BuildDeadline
  BY <1>3, BuildNumbers
<1>5. record.status = "built" => client[s] = "built" /\ record.platforms = pushed[s]
  BY <1>1, <1>2, <1>3, OneArchitecture
<1>6. record \in All
  BY <1>1, <1>2, <1>3 DEF BuiltImage, FailedImage
<1>7. PICK t \in Nat : now' = t /\ now <= t
  BY FinishTakes, Zenon
<1>8. ASSUME NEW r \in Services
      PROVE  /\ Built(records'[r]) => client[r] = "built" /\ records'[r].platforms = pushed[r]
             /\ records'[r].status = "work-limit" => t >= BuildDeadline
  <2>1. CASE r = s
    BY <1>1, <1>3, <1>4, <1>5, <1>7, <2>1, BuildNumbers DEF Built
  <2>2. CASE r # s
    <3>1. records'[r] = records[r]
      BY <1>1, <1>3, <2>2
    <3>2. records[r].status = "work-limit" => now >= BuildDeadline
      BY <1>1 DEF ImageRecordsAreTrue
    <3>3. records[r].status = "work-limit" => t >= BuildDeadline
      BY <1>7, <3>2, BuildNumbers
    <3> QED
      BY <1>1, <3>1, <3>3 DEF ImageRecordsAreTrue
  <2> QED
    BY <2>1, <2>2
<1>9. ImageRecordsAreTrue'
  BY <1>7, <1>8, BuildNumbers DEF ImageRecordsAreTrue, Built
<1> QED
  BY <1>1, <1>3, <1>6, <1>9

(* Records last while what they say of the clients does.                   *)
LEMMA RecordsLast ==
  ASSUME RecordsInv, now \in Nat, NEW t \in Nat, now' = t, now <= t, UNCHANGED records,
         \A s \in Services : client[s] = "built" => client'[s] = "built" /\ pushed'[s] = pushed[s]
  PROVE  ImageRecordsAreTrue'
<1>1. ASSUME NEW s \in Services
      PROVE  /\ Built(records[s]) => client'[s] = "built" /\ records[s].platforms = pushed'[s]
             /\ records[s].status = "work-limit" => t >= BuildDeadline
  <2>1. /\ Built(records[s]) => client[s] = "built" /\ records[s].platforms = pushed[s]
        /\ records[s].status = "work-limit" => now >= BuildDeadline
    BY DEF RecordsInv, ImageRecordsAreTrue
  <2> QED
    BY <2>1, BuildNumbers
<1> QED
  BY <1>1, BuildNumbers DEF ImageRecordsAreTrue, Built

LEMMA RecordsStep ==
  ASSUME KitInv, InputsInv, ClientsInv, BuildTimeInv, RecordsInv, stage = "image_build",
         BuildNext, UNCHANGED << stage, inputs >>
  PROVE  RecordsInv'
<1> USE DEF Concludes, Continues
<1>n. now \in Nat
  BY DEF BuildTimeInv
<1>o. ToBuild \subseteq Services /\ \A s \in Services : Requested(s)' = Requested(s)
  BY SameOrder
<1>r. /\ records \in [Services -> [status : {"none", "built", "build-failed", "work-limit"},
                                  platforms : SUBSET Architectures]]
      /\ ImageRecordsAreTrue
      /\ pushed \in [Services -> SUBSET Architectures]
      /\ \A s \in Services : client[s] = "built" => pushed[s] # {} /\ pushed[s] \subseteq Requested(s)
      /\ pc \in {"stopping", "reading"} /\ pending # {} => now >= BuildDeadline
      /\ client \in [Services -> {"none", "running", "built", "broken", "stopped"}]
  BY DEF RecordsInv, ClientsInv
<1>k. ASSUME UNCHANGED << records, pushed >>, NEW t \in Nat, now' = t, now <= t,
             \A s \in Services : (client'[s] = "built" <=> client[s] = "built"),
             pc' \in {"stopping", "reading"} /\ pending' # {} => t >= BuildDeadline
      PROVE  RecordsInv'
  <2>1. ImageRecordsAreTrue'
    BY <1>k, <1>n, RecordsLast
  <2>2. \A s \in Services : client'[s] = "built" => pushed'[s] # {} /\ pushed'[s] \subseteq Requested(s)'
    BY <1>k, <1>o, <1>r
  <2> QED
    BY <1>k, <1>r, <2>1, <2>2, BuildNumbers DEF RecordsInv
<1>s. ASSUME NEW which,
             client' = [s \in Services |-> IF s \in which /\ client[s] = "running"
                                             THEN "stopped" ELSE client[s]]
      PROVE  \A s \in Services : (client'[s] = "built" <=> client[s] = "built")
  <2>1. \A s \in Services : client'[s] = IF s \in which /\ client[s] = "running"
                                           THEN "stopped" ELSE client[s]
    BY <1>s
  <2> QED
    BY <2>1
<1>1. CASE CheckBuildInputs \/ CheckDeadline \/ StartClient
  <2>1. /\ UNCHANGED << records, pushed, now >> /\ pc' \notin {"stopping", "reading"}
        /\ \/ client' = client
           \/ \E s \in Services : client[s] = "none" /\ client' = [client EXCEPT ![s] = "running"]
    BY <1>1, <1>o DEF CheckBuildInputs, CheckDeadline, StartClient
  <2>2. \A s \in Services : (client'[s] = "built" <=> client[s] = "built")
    BY <1>r, <2>1
  <2> QED
    BY <1>k, <1>n, <2>1, <2>2
<1>2. CASE AskServices
  <2>1. UNCHANGED << records, pushed, client >> /\ pc' \notin {"stopping", "reading"}
    BY <1>2 DEF AskServices
  <2>2. PICK t \in now .. now + (1 + ReadWaits) * RegistryTimeout : now' = t
    BY <1>2 DEF AskServices
  <2>3. (1 + ReadWaits) * RegistryTimeout \in Int
    BY BuildNumbers
  <2>4. t \in Nat /\ now <= t
    BY <1>n, <2>2, <2>3
  <2> QED
    BY <1>k, <2>1, <2>2, <2>4
<1>3. CASE BeginPass
  <2>1. /\ UNCHANGED << records, pushed, client, now, pending >>
        /\ pc' = "visiting" \/ ~ (pending # {} /\ now < BuildDeadline)
    BY <1>3 DEF BeginPass
  <2>2. pending # {} => pc' = "visiting" \/ now >= BuildDeadline
    BY <1>n, <2>1, BuildNumbers
  <2> QED
    BY <1>k, <1>n, <2>1, <2>2
<1>4. CASE Visit
  <2>1. /\ UNCHANGED << pushed, client >> /\ pc' \notin {"stopping", "reading"}
    BY <1>4 DEF Visit
  <2>2. PICK s \in Services : UNCHANGED << now, records >> \/ Finish(s)
    BY <1>4, <1>o DEF Visit, ClientsInv
  <2>3. CASE UNCHANGED << now, records >>
    BY <1>k, <1>n, <2>1, <2>3
  <2>4. CASE Finish(s)
    BY <1>n, <1>o, <1>r, <2>1, <2>4, FinishRecords DEF RecordsInv
  <2> QED
    BY <2>2, <2>3, <2>4
<1>5. CASE PollSleep
  <2>1. /\ UNCHANGED << pushed, client, records >> /\ pc' \notin {"stopping", "reading"}
        /\ now' = now + BuildPoll
    BY <1>5 DEF PollSleep
  <2>2. now + BuildPoll \in Nat /\ now <= now + BuildPoll
    BY <1>n, BuildNumbers
  <2> QED
    BY <1>k, <2>1, <2>2
<1>6. CASE StopUnfinished
  <2>1. /\ UNCHANGED << pushed, records, pending >> /\ pc = "stopping" /\ Stopped(pending \ toRead)
    BY <1>6 DEF StopUnfinished
  <2>2. PICK t \in Nat : now' = t /\ now <= t
    BY <1>n, <2>1, StopTakes, Zenon
  <2>3. \A s \in Services : (client'[s] = "built" <=> client[s] = "built")
    BY <1>s, <2>1 DEF Stopped
  <2>4. pending # {} => t >= BuildDeadline
    BY <1>n, <1>r, <2>1, <2>2, BuildNumbers
  <2> QED
    BY <1>k, <2>1, <2>2, <2>3, <2>4
<1>7. CASE ReadFinished
  <2>1. /\ UNCHANGED << pushed, client >> /\ pc = "reading"
    BY <1>7 DEF ReadFinished
  <2>2. CASE toRead # {}
    <3>1. PICK s \in toRead : Finish(s) /\ pending' = pending \ {s} /\ pc' = "reading"
      BY <1>7, <2>2 DEF ReadFinished
    <3>2. s \in Services /\ s \in pending
      BY <1>o, <3>1 DEF ClientsInv
    <3>3. PICK t \in Nat : now' = t /\ now <= t
      BY <1>n, <3>1, FinishTakes, Zenon
    <3>4. t >= BuildDeadline
      BY <1>n, <1>r, <2>1, <3>2, <3>3, BuildNumbers
    <3> QED
      BY <1>n, <1>o, <1>r, <2>1, <3>1, <3>2, <3>3, <3>4, FinishRecords, BuildNumbers
         DEF RecordsInv
  <2>3. CASE toRead = {}
    <3>1. /\ records' = [s \in Services |-> IF s \in pending THEN FailedImage("work-limit")
                                                               ELSE records[s]]
          /\ pc' = "finally" /\ UNCHANGED << now, pending >>
      BY <1>7, <2>3 DEF ReadFinished
    <3>2. \A s \in Services : records'[s] = IF s \in pending THEN FailedImage("work-limit")
                                                               ELSE records[s]
      BY <3>1
    <3>3. pending # {} => now >= BuildDeadline
      BY <1>r, <2>1
    <3>4. records' \in [Services -> [status : {"none", "built", "build-failed", "work-limit"},
                                     platforms : SUBSET Architectures]]
      BY <1>r, <3>1 DEF FailedImage
    <3>5. ImageRecordsAreTrue'
      BY <1>r, <2>1, <3>1, <3>2, <3>3, BuildNumbers DEF ImageRecordsAreTrue, Built, FailedImage
    <3> QED
      BY <1>o, <1>r, <2>1, <3>1, <3>4, <3>5 DEF RecordsInv
  <2> QED
    BY <2>2, <2>3
<1>8. CASE StopRunning
  <2>1. /\ UNCHANGED << pushed, records >> /\ Stopped(Services) /\ pc' \in {"done", "publish"}
    BY <1>8 DEF StopRunning, Raises, Exits
  <2>2. PICK t \in Nat : now' = t /\ now <= t
    BY <1>n, <2>1, StopTakes, Zenon
  <2>3. \A s \in Services : (client'[s] = "built" <=> client[s] = "built")
    BY <1>s, <2>1 DEF Stopped
  <2> QED
    BY <1>k, <2>1, <2>2, <2>3
<1>9. CASE ClientExits
  <2>1. PICK s \in Services :
          /\ client[s] = "running"
          /\ \/ /\ client' = [client EXCEPT ![s] = "built"]
                /\ \E platforms \in (SUBSET Requested(s)) \ {{}} :
                     pushed' = [pushed EXCEPT ![s] = platforms]
             \/ client' = [client EXCEPT ![s] = "broken"] /\ UNCHANGED pushed
    BY <1>9 DEF ClientExits
  <2>2. UNCHANGED << now, pc, pending, records >>
    BY <1>9 DEF ClientExits
  <2>3. CASE client' = [client EXCEPT ![s] = "broken"] /\ UNCHANGED pushed
    <3>1. \A r \in Services : (client'[r] = "built" <=> client[r] = "built")
      BY <1>r, <2>1, <2>3
    <3> QED
      BY <1>k, <1>n, <1>r, <2>2, <2>3, <3>1
  <2>4. CASE /\ client' = [client EXCEPT ![s] = "built"]
             /\ \E platforms \in (SUBSET Requested(s)) \ {{}} :
                  pushed' = [pushed EXCEPT ![s] = platforms]
    <3>1. PICK platforms \in (SUBSET Requested(s)) \ {{}} :
            pushed' = [pushed EXCEPT ![s] = platforms]
      BY <2>4
    <3>2. Requested(s) \in SUBSET Architectures
      <4>1. inputs \in BuildInputs
        BY DEF InputsInv
      <4>2. inputs.recipes[s] \in Recipes
        BY <4>1 DEF BuildInputs
      <4> QED
        BY <4>2 DEF Recipes, Requested
    <3>3. pushed' \in [Services -> SUBSET Architectures]
      BY <1>r, <3>1, <3>2
    <3>4. \A r \in Services : client[r] = "built" => client'[r] = "built" /\ pushed'[r] = pushed[r]
      BY <1>r, <2>1, <2>4, <3>1
    <3>5. \A r \in Services : client'[r] = "built"
            => pushed'[r] # {} /\ pushed'[r] \subseteq Requested(r)'
      <4>1. platforms # {} /\ platforms \subseteq Requested(s)
        BY <3>1
      <4>2. ASSUME NEW r \in Services, client'[r] = "built"
            PROVE  pushed'[r] # {} /\ pushed'[r] \subseteq Requested(r)
        <5>1. CASE r = s
          BY <1>r, <3>1, <4>1, <5>1
        <5>2. CASE r # s
          BY <1>r, <2>4, <3>1, <4>2, <5>2
        <5> QED
          BY <5>1, <5>2
      <4> QED
        BY <1>o, <4>2
    <3>6. ImageRecordsAreTrue'
      BY <1>n, <2>2, <3>4, RecordsLast
    <3> QED
      BY <1>r, <2>2, <3>3, <3>5, <3>6, BuildNumbers DEF RecordsInv
  <2> QED
    BY <2>1, <2>3, <2>4
<1>10. CASE BuildKilled
  <2>1. /\ client' = [s \in Services |-> IF s \in Services /\ client[s] = "running"
                                             THEN "stopped" ELSE client[s]]
        /\ pc' = "done" /\ UNCHANGED << pushed, records, now >>
    BY <1>10 DEF BuildKilled, Kill, Exits
  <2>2. \A s \in Services : (client'[s] = "built" <=> client[s] = "built")
    BY <1>s, <2>1
  <2> QED
    BY <1>k, <1>n, <2>1, <2>2
<1>11. CASE (Begin \/ Refuse \/ Publish \/ PublishRaises) /\ UNCHANGED build
  <2>1. UNCHANGED << now, client, pushed, records >> /\ pc' \in {"body", "done"}
    BY <1>11 DEF Begin, Refuse, Publish, PublishRaises, Exits
  <2> QED
    BY <1>k, <1>n, <2>1
<1> QED
  BY <1>1, <1>2, <1>3, <1>4, <1>5, <1>6, <1>7, <1>8, <1>9, <1>10, <1>11 DEF BuildNext, BuildBody

-----------------------------------------------------------------------------
(* CV.                                                                     *)

(* What a container is started to, and nothing else.                       *)
States == {"none", "created", "running", "exited", "late"}

LEMMA Starting ==
  ASSUME container \in [Containers -> States], NEW c \in Containers,
         NEW answer \in {"ok", "refused", "none", "running", "late"}, Start(c, answer)
  PROVE  /\ container' \in [Containers -> States]
         /\ \A d \in Containers : d # c => container'[d] = container[d]
         /\ answer \in {"ok", "refused"} => container'[c] \in {"running", "created"}
         /\ container'[c] # "exited"
         /\ container'[c] = "late" => answer = "late"
BY DEF Start, States

LEMMA Removing ==
  ASSUME container \in [Containers -> States], container' = Removed
  PROVE  /\ container' \in [Containers -> States]
         /\ \A c \in Containers : /\ container'[c] \in {"none", "late"}
                                  /\ container'[c] = "late" <=> container[c] = "late"
         /\ Standing' = Late /\ Late' = Late
<1>1. \A c \in Containers : container'[c] = IF container[c] = "late" THEN "late" ELSE "none"
  BY DEF Removed
<1>2. container' \in [Containers -> States]
  BY DEF Removed, States
<1> QED
  BY <1>1, <1>2 DEF Standing, Late, Containers

LEMMA ContainersStep ==
  ASSUME KitInv, ContainersInv, stage = "cv", CvNext, UNCHANGED << stage, inputs >>
  PROVE  ContainersInv'
<1> USE DEF Concludes, Continues
<1>c. /\ container \in [Containers -> States]
      /\ RunsDoNotMix
      /\ Late # {} => finding.error \in {"start-failed", "engine-unreachable"}
      /\ Lone(Late)
      /\ pc \in CvPlaces
      /\ pc \in {"start", "body", "cleanup", "prepare", "sim"} => Standing = {}
      /\ pc \in {"prepare", "sim", "placements"} \cup Running => ~ leftovers
      /\ pc \notin {"recording", "teardown"} \cup Ended => finding = NoFinding
      /\ pc \in Ended /\ exit # "killed"
          /\ finding.error \notin {"raised", "engine-unreachable"} =>
            IF finding.error = "start-failed" THEN Lone(Standing) ELSE Standing = {}
  BY DEF ContainersInv, States
<1>u. finding = NoFinding => Late = {}
  BY <1>c DEF NoFinding, CvError
<1>k. ASSUME UNCHANGED container, leftovers' => leftovers,
             pc' \in CvPlaces,
             pc' \in {"start", "body", "cleanup", "prepare", "sim"} => Standing = {},
             pc' \in {"prepare", "sim", "placements"} \cup Running => ~ leftovers',
             \/ UNCHANGED finding
             \/ Late = {} \/ finding'.error \in {"start-failed", "engine-unreachable"},
             pc' \notin {"recording", "teardown"} \cup Ended => finding' = NoFinding,
             pc' \notin Ended \/ Standing = {} \/ exit' = "killed"
               \/ (pc \in Ended /\ exit # "killed" /\ UNCHANGED finding)
      PROVE  ContainersInv'
  <2>1. Standing' = Standing /\ Late' = Late
    BY <1>k DEF Standing, Late, Containers
  <2>2. RunsDoNotMix'
    BY <1>c, <1>k DEF RunsDoNotMix, Containers
  <2>3. Late # {} => finding'.error \in {"start-failed", "engine-unreachable"}
    BY <1>c, <1>k
  <2>4. pc' \in Ended /\ exit' # "killed"
          /\ finding'.error \notin {"raised", "engine-unreachable"} =>
            IF finding'.error = "start-failed" THEN Lone(Standing) ELSE Standing = {}
    BY <1>c, <1>k DEF Lone
  <2>5. container' \in [Containers' -> States]
    BY <1>c, <1>k DEF Containers
  <2> QED
    BY <1>c, <1>k, <2>1, <2>2, <2>3, <2>4, <2>5 DEF ContainersInv, States, Lone
<1>l. ASSUME container' \in [Containers -> States], UNCHANGED << pc, exit, leftovers, finding >>,
             \A c \in Containers : container'[c] = "none" <=> container[c] = "none",
             \A c \in Containers : container'[c] = "late" => container[c] = "late"
      PROVE  ContainersInv'
  <2>1. Standing' = Standing /\ Late' \subseteq Late
    BY <1>l DEF Standing, Late, Containers
  <2>2. RunsDoNotMix'
    BY <1>c, <1>l DEF RunsDoNotMix, Containers
  <2> QED
    BY <1>c, <1>l, <2>1, <2>2 DEF ContainersInv, Lone, States, Containers
<1>s. ASSUME NEW c \in Containers, NEW answer \in {"ok", "refused", "none", "running", "late"},
             Start(c, answer), pc \in {"sim", "placements"}, UNCHANGED leftovers,
             \/ answer \in {"ok", "refused"} /\ finding' = finding /\ pc' \in {"placements", "wait"}
             \/ finding' = CvError("start-failed") /\ pc' = "teardown"
      PROVE  ContainersInv'
  <2>1. finding = NoFinding /\ Late = {} /\ ~ leftovers
    BY <1>c, <1>s, <1>u DEF Running, Ended
  <2>2. /\ container' \in [Containers -> States]
        /\ \A d \in Containers : d # c => container'[d] = container[d]
        /\ container'[c] = "late" => answer = "late"
    BY <1>c, <1>s, Starting
  <2>3. \A d \in Late' : d = c /\ answer = "late"
    BY <2>1, <2>2 DEF Late, Containers
  <2>4. RunsDoNotMix'
    BY <1>s, <2>1 DEF RunsDoNotMix
  <2>5. Late' # {} => finding'.error = "start-failed"
    BY <1>s, <2>3 DEF CvError
  <2> QED
    BY <1>s, <2>1, <2>2, <2>3, <2>4, <2>5
       DEF ContainersInv, CvPlaces, Lone, States, Running, Ended, Containers
<1>1. CASE Declare
  <2>1. /\ pc = "body" /\ pc' \in {"publish", "cleanup"}
        /\ UNCHANGED << container, leftovers, finding >>
    BY <1>1 DEF Declare
  <2> QED
    BY <1>c, <1>k, <2>1 DEF CvPlaces, Running, Ended
<1>2. CASE CleanUp
  <2>1. /\ pc = "cleanup" /\ UNCHANGED container
        /\ \/ leftovers' = FALSE /\ pc' = "prepare" /\ finding' = finding
           \/ pc' = "teardown" /\ leftovers' = leftovers
    BY <1>2 DEF CleanUp, Lost, Comes
  <2> QED
    BY <1>c, <1>k, <1>u, <2>1 DEF CvPlaces, Running, Ended
<1>3. CASE Prepare
  <2>1. /\ pc = "prepare" /\ UNCHANGED << container, leftovers >>
        /\ pc' = "teardown" \/ (pc' = "sim" /\ finding' = finding)
    BY <1>3 DEF Prepare, Comes
  <2> QED
    BY <1>c, <1>k, <1>u, <2>1 DEF CvPlaces, Running, Ended
<1>4. CASE StartSim \/ StartOrchestrator
  <2>1. PICK c \in {"sim", "orchestrator"},
             answer \in {"ok", "refused", "none", "running", "late"} :
          /\ Start(c, answer) /\ pc \in {"sim", "placements"} /\ UNCHANGED leftovers
          /\ \/ answer \in {"ok", "refused"} /\ finding' = finding /\ pc' \in {"placements", "wait"}
             \/ finding' = CvError("start-failed") /\ pc' = "teardown"
    BY <1>4 DEF StartSim, StartOrchestrator, StartRequired, Comes
  <2>2. c \in Containers
    BY DEF Containers
  <2> QED
    BY <1>s, <2>1, <2>2
<1>5. CASE StartPlacement
  <2>1. PICK s \in Services, answer \in {"ok", "refused", "none", "running", "late"} :
          /\ Start(s, answer) /\ pc \in {"sim", "placements"} /\ UNCHANGED leftovers
          /\ \/ answer \in {"ok", "refused"} /\ finding' = finding /\ pc' \in {"placements", "wait"}
             \/ finding' = CvError("start-failed") /\ pc' = "teardown"
    BY <1>5 DEF StartPlacement, Comes
  <2>2. s \in Containers
    BY DEF Containers
  <2> QED
    BY <1>s, <2>1, <2>2
<1>6. CASE Wait \/ ReadSim \/ ReadPlacement
  <2>1. /\ pc \in {"wait", "sim_state", "states"} /\ UNCHANGED << container, leftovers >>
        /\ pc' = "teardown" \/ (pc' \in {"sim_state", "states"} /\ finding' = finding)
    BY <1>6 DEF Wait, ReadSim, ReadPlacement, Lost, Comes
  <2> QED
    BY <1>c, <1>k, <1>u, <2>1 DEF CvPlaces, Running, Ended
<1>7. CASE ReadResult \/ ReadRecording
  <2>1. /\ UNCHANGED << container, leftovers >> /\ pc' \in {"teardown", "recording"}
        /\ pc = "states" \/ (pc = "recording" /\ pc' = "teardown" /\ finding' = finding)
    BY <1>7 DEF ReadResult, ReadRecording, Lost, Comes
  <2> QED
    BY <1>c, <1>k, <1>u, <2>1 DEF CvPlaces, Running, Ended
<1>8. CASE Teardown
  <2>1. /\ pc = "teardown" /\ UNCHANGED leftovers /\ pc' \in Ended
        /\ \/ container' = Removed /\ finding' = finding
           \/ /\ container' \in {container, Removed}
              /\ \/ finding.error = "raised" /\ finding' = finding
                 \/ finding' = CvError("engine-unreachable")
           \/ /\ finding.error = "none" /\ container' = Removed
              /\ finding' = CvError("evidence-too-large")
    BY <1>8 DEF Teardown, Raises, Exits, Ended
  <2>2. \/ container' = container /\ Standing' = Standing /\ Late' = Late
        \/ Standing' = Late /\ Late' = Late
    BY <1>c, <2>1, Removing DEF Standing, Late, Containers
  <2>3. container' \in [Containers -> States]
    BY <1>c, <2>1, Removing
  <2>4. RunsDoNotMix'
    <3>1. CASE container' = container
      BY <1>c, <2>1, <3>1 DEF RunsDoNotMix, Containers
    <3>2. CASE container' = Removed
      <4>1. ASSUME leftovers, NEW c \in Containers PROVE container'[c] = "none"
        BY <1>c, <3>2, <4>1, Removing DEF RunsDoNotMix
      <4> QED
        BY <2>1, <4>1 DEF RunsDoNotMix, Containers
    <3> QED
      BY <2>1, <3>1, <3>2
  <2>5. Late # {} => finding'.error \in {"start-failed", "engine-unreachable"}
    BY <1>c, <2>1 DEF CvError
  <2>6. finding'.error \notin {"raised", "engine-unreachable"} =>
          IF finding'.error = "start-failed" THEN Lone(Standing') ELSE Standing' = {}
    <3>1. CASE Standing' = Late
      BY <1>c, <2>5, <3>1
    <3>2. CASE container' = container
      <4>1. container = Removed \/ finding'.error \in {"raised", "engine-unreachable"}
        BY <2>1, <3>2 DEF CvError
      <4>2. container' = Removed => Standing' = Late
        BY <1>c, Removing
      <4> QED
        BY <3>1, <3>2, <4>1, <4>2
    <3> QED
      BY <2>2, <3>1, <3>2
  <2> QED
    BY <1>c, <2>1, <2>2, <2>3, <2>4, <2>5, <2>6
       DEF ContainersInv, CvPlaces, Lone, States, Running, Ended, Containers
<1>9. CASE ContainerExits
  <2>1. PICK c \in Containers : container[c] = "running" /\ container' = [container EXCEPT ![c] = "exited"]
    BY <1>9 DEF ContainerExits
  <2>2. /\ container' \in [Containers -> States]
        /\ \A d \in Containers : container'[d] = container[d]
                                \/ (container[d] = "running" /\ container'[d] = "exited")
    BY <1>c, <2>1 DEF States
  <2>3. UNCHANGED << pc, exit, leftovers, finding >>
    BY <1>9 DEF ContainerExits
  <2> QED
    BY <1>l, <2>2, <2>3
<1>10. CASE LateStart
  <2>1. PICK c \in Containers : container[c] = "late" /\ container' = [container EXCEPT ![c] = "running"]
    BY <1>10 DEF LateStart
  <2>2. /\ container' \in [Containers -> States]
        /\ \A d \in Containers : container'[d] = container[d]
                                \/ (container[d] = "late" /\ container'[d] = "running")
    BY <1>c, <2>1 DEF States
  <2>3. UNCHANGED << pc, exit, leftovers, finding >>
    BY <1>10 DEF LateStart
  <2> QED
    BY <1>l, <2>2, <2>3
<1>11. CASE ServiceSends
  <2>1. UNCHANGED << container, pc, exit, leftovers, finding >>
    BY <1>11 DEF ServiceSends
  <2> QED
    BY <1>c, <1>l, <2>1
<1>12. CASE KitNext /\ UNCHANGED cv
  <2>1. /\ UNCHANGED << container, leftovers, finding >>
        /\ \/ pc = "start" /\ pc' \in {"body", "done"}
           \/ pc = "publish" /\ pc' = "done"
           \/ pc' = "done" /\ exit' = "killed"
    BY <1>12 DEF KitNext, Begin, Refuse, Publish, PublishRaises, Kill, Exits
  <2>2. exit = "none" \/ pc = "done"
    BY DEF KitInv
  <2> QED
    BY <1>c, <1>k, <2>1, <2>2 DEF CvPlaces, Running, Ended
<1> QED
  BY <1>1, <1>2, <1>3, <1>4, <1>5, <1>6, <1>7, <1>8, <1>9, <1>10, <1>11, <1>12 DEF CvNext, CvBody

LEMMA AliveStep ==
  ASSUME ContainersInv, AliveInv, stage = "cv", CvNext, UNCHANGED << stage, inputs >>
  PROVE  AliveInv'
<1> USE DEF Concludes, Continues
<1>c. /\ container \in [Containers -> States]
      /\ Late # {} => finding.error \in {"start-failed", "engine-unreachable"}
      /\ pc \in CvPlaces
      /\ pc \in {"start", "body", "cleanup", "prepare", "sim"} => Standing = {}
      /\ pc \notin {"recording", "teardown"} \cup Ended => finding = NoFinding
  BY DEF ContainersInv, States
<1>a. /\ alive \subseteq Services /\ sent \subseteq Services
      /\ seenState \in [Containers -> States]
      /\ pc \in {"start", "body", "cleanup", "prepare", "sim", "placements", "wait"}
           => ~ waited /\ \A c \in Containers : seenState[c] = "none"
      /\ pc = "placements" => container["orchestrator"] = "none"
      /\ pc \in Running => Observed
      /\ finding.error = "none" => container["orchestrator"] \in {"none", "exited"}
  BY DEF AliveInv, States
<1>r. /\ "orchestrator" \in Containers /\ "sim" \in Containers
      /\ "orchestrator" \notin Services /\ "sim" \notin Services
      /\ \A s \in Services : s \in Containers
  BY RolesAreNoServices DEF Containers
<1>n. NoFinding.error = "undecided"
  BY DEF NoFinding, CvError
<1>k. ASSUME UNCHANGED << container, sent, alive, seenState, waited >>,
             pc' \in {"start", "body", "cleanup", "prepare", "sim", "placements", "wait"}
               => pc \in {"start", "body", "cleanup", "prepare", "sim", "placements", "wait"},
             pc' = "placements" => pc \in {"sim", "placements"},
             pc' \in Running => pc \in Running,
             \/ finding' = finding \/ finding'.error # "none" \/ Standing = {}
             \/ container["orchestrator"] = "exited"
      PROVE  AliveInv'
  <2>1. Standing = {} => container["orchestrator"] = "none"
    BY <1>r DEF Standing
  <2>2. pc' = "placements" => container["orchestrator"] = "none"
    BY <1>c, <1>a, <1>k, <2>1
  <2>3. pc' \in Running => Observed'
    BY <1>a, <1>k DEF Observed, Late, Containers
  <2>4. finding'.error = "none" => container["orchestrator"] \in {"none", "exited"}
    BY <1>a, <1>k, <2>1
  <2> QED
    BY <1>a, <1>k, <2>2, <2>3, <2>4 DEF AliveInv, States, Containers
<1>1. CASE Declare
  <2>1. /\ pc = "body" /\ pc' \in {"publish", "cleanup"}
        /\ UNCHANGED << container, sent, alive, seenState, waited, finding >>
    BY <1>1 DEF Declare
  <2> QED
    BY <1>k, <2>1 DEF Running
<1>2. CASE CleanUp
  <2>1. /\ pc = "cleanup" /\ UNCHANGED << container, sent, alive, seenState, waited >>
        /\ \/ pc' = "prepare" /\ finding' = finding
           \/ pc' = "teardown"
    BY <1>2 DEF CleanUp, Lost, Comes
  <2> QED
    BY <1>c, <1>k, <2>1 DEF Running
<1>3. CASE Prepare
  <2>1. /\ pc = "prepare" /\ UNCHANGED << container, sent, alive, seenState, waited >>
        /\ pc' = "teardown" \/ (pc' = "sim" /\ finding' = finding)
    BY <1>3 DEF Prepare, Comes
  <2> QED
    BY <1>c, <1>k, <2>1 DEF Running
<1>s. ASSUME NEW c \in Containers, NEW answer \in {"ok", "refused", "none", "running", "late"},
             Start(c, answer), pc \in {"sim", "placements"},
             UNCHANGED << sent, alive, seenState, waited >>,
             \/ finding' = finding /\ pc' = "placements" /\ c # "orchestrator"
             \/ finding' = finding /\ pc' = "wait" /\ c = "orchestrator" /\ answer = "ok"
             \/ finding' = CvError("start-failed") /\ pc' = "teardown"
      PROVE  AliveInv'
  <2>1. finding = NoFinding /\ Late = {}
    BY <1>c, <1>s, <1>n DEF Ended
  <2>2. /\ container' \in [Containers -> States]
        /\ \A d \in Containers : d # c => container'[d] = container[d]
        /\ container'[c] # "exited"
        /\ container'[c] = "late" => answer = "late"
    BY <1>c, <1>s, Starting
  <2>3. container["orchestrator"] = "none"
    BY <1>c, <1>a, <1>s, <1>r DEF Standing
  <2>4. pc' = "placements" => container'["orchestrator"] = "none"
    BY <1>s, <1>r, <2>2, <2>3
  <2>5. pc' \in Running => Observed'
    <3>1. ASSUME pc' \in Running PROVE pc' = "wait" /\ c = "orchestrator" /\ answer = "ok"
      BY <1>s, <3>1 DEF Running
    <3>2. ASSUME pc' \in Running PROVE Late' = {}
      BY <1>s, <2>1, <2>2, <3>1, <3>2 DEF Late, Containers
    <3>3. ASSUME pc' \in Running PROVE container'["orchestrator"] # "exited"
      BY <2>2, <3>1, <3>3
    <3> QED
      BY <1>a, <1>s, <1>r, <3>2, <3>3 DEF Observed
  <2>6. finding'.error # "none"
    BY <1>s, <2>1, <1>n DEF CvError
  <2> QED
    BY <1>a, <1>s, <2>4, <2>5, <2>6 DEF AliveInv, States, Containers
<1>4. CASE StartSim \/ StartOrchestrator
  <2>1. PICK c \in {"sim", "orchestrator"},
             answer \in {"ok", "refused", "none", "running", "late"} :
          /\ Start(c, answer) /\ pc \in {"sim", "placements"}
          /\ UNCHANGED << sent, alive, seenState, waited >>
          /\ \/ finding' = finding /\ pc' = "placements" /\ c # "orchestrator"
             \/ finding' = finding /\ pc' = "wait" /\ c = "orchestrator" /\ answer = "ok"
             \/ finding' = CvError("start-failed") /\ pc' = "teardown"
    BY <1>4 DEF StartSim, StartOrchestrator, StartRequired, Comes
  <2> QED
    BY <1>s, <1>r, <2>1
<1>5. CASE StartPlacement
  <2>1. PICK s \in Services, answer \in {"ok", "refused", "none", "running", "late"} :
          /\ Start(s, answer) /\ pc \in {"sim", "placements"}
          /\ UNCHANGED << sent, alive, seenState, waited >>
          /\ \/ finding' = finding /\ pc' = "placements"
             \/ finding' = CvError("start-failed") /\ pc' = "teardown"
    BY <1>5 DEF StartPlacement, Comes
  <2> QED
    BY <1>s, <1>r, <2>1
<1>6. CASE Wait
  <2>1. /\ pc = "wait" /\ UNCHANGED << container, sent, alive, seenState >>
        /\ \/ /\ pc' = "sim_state" /\ finding' = finding
              /\ waited' => container["orchestrator"] = "exited"
           \/ pc' = "teardown" /\ finding' = CvError("engine-unreachable")
    BY <1>6 DEF Wait, Lost, Comes
  <2>2. Observed /\ \A c \in Containers : seenState[c] = "none"
    BY <1>a, <2>1 DEF Running
  <2>3. pc' \in Running => Observed'
    <3>1. pc' \in Running => (waited' => container["orchestrator"] = "exited")
      BY <2>1 DEF Running
    <3>2. Late' = Late
      BY <2>1 DEF Late, Containers
    <3>3. \A s \in Services : seenState[s] = "none"
      BY <1>r, <2>2
    <3> QED
      BY <2>1, <2>2, <3>1, <3>2, <3>3 DEF Observed
  <2>4. finding'.error = "none" => container["orchestrator"] \in {"none", "exited"}
    BY <1>a, <2>1 DEF CvError
  <2> QED
    BY <1>a, <2>1, <2>3, <2>4 DEF AliveInv, States, Containers
<1>7. CASE ReadSim \/ ReadPlacement
  <2>1. /\ pc \in {"sim_state", "states"} /\ UNCHANGED << container, sent, alive, waited >>
        /\ \/ pc' = "teardown" /\ finding' = CvError("engine-unreachable")
              /\ UNCHANGED seenState
           \/ pc' = "states" /\ finding' = finding
              /\ \E c \in Containers : seenState' = [seenState EXCEPT ![c] = container[c]]
    BY <1>7, <1>r DEF ReadSim, ReadPlacement, ReadState, Lost, Comes
  <2>2. CASE pc' = "teardown"
    BY <1>k, <2>1, <2>2 DEF CvError, Running
  <2>3. CASE pc' = "states"
    <3>1. PICK c \in Containers : seenState' = [seenState EXCEPT ![c] = container[c]]
      BY <2>1, <2>3
    <3>2. /\ seenState' \in [Containers -> States]
          /\ \A d \in Containers : seenState'[d] = seenState[d] \/ seenState'[d] = container[d]
      BY <1>a, <1>c, <3>1
    <3>3. Observed
      BY <1>a, <2>1 DEF Running
    <3>4. \A s \in Services : container[s] \in {"none", "created", "running", "exited"}
      BY <1>c, <1>r, <3>3 DEF Observed, Late, States
    <3>5. Observed'
      BY <1>r, <2>1, <3>2, <3>3, <3>4 DEF Observed, Late, Containers
    <3>6. finding'.error = "none" => container["orchestrator"] \in {"none", "exited"}
      BY <1>a, <2>1, <2>3
    <3> QED
      BY <1>a, <2>1, <2>3, <3>2, <3>5, <3>6 DEF AliveInv, States, Containers
  <2> QED
    BY <2>1, <2>2, <2>3
<1>8. CASE ReadResult
  <2>1. /\ pc = "states" /\ UNCHANGED << container, sent, alive, seenState, waited >>
        /\ pc' \in {"teardown", "recording"}
        /\ waited \/ finding'.error # "none"
        /\ finding'.error # "none" \/ pc' = "recording"
    BY <1>8 DEF ReadResult, Lost, Comes, CvError
  <2>2. waited => container["orchestrator"] = "exited"
    BY <1>a, <2>1 DEF Observed, Running
  <2> QED
    BY <1>k, <2>1, <2>2 DEF Running
<1>9. CASE ReadRecording
  <2>1. /\ pc = "recording" /\ pc' = "teardown"
        /\ UNCHANGED << container, sent, alive, seenState, waited, finding >>
    BY <1>9 DEF ReadRecording
  <2> QED
    BY <1>k, <2>1 DEF Running
<1>10. CASE Teardown
  <2>1. /\ pc = "teardown" /\ pc' \in Ended /\ UNCHANGED << sent, alive, seenState, waited >>
        /\ finding' = finding \/ finding'.error # "none"
        /\ container' \in {container, Removed}
    BY <1>10 DEF Teardown, Raises, Exits, Ended, CvError
  <2>2. finding'.error = "none" => container'["orchestrator"] \in {"none", "exited"}
    <3>1. CASE container' = container
      BY <1>a, <2>1, <3>1
    <3>2. CASE container' = Removed
      <4>1. finding'.error = "none" => container["orchestrator"] \in {"none", "exited"}
        BY <1>a, <2>1
      <4>2. /\ container'["orchestrator"] \in {"none", "late"}
            /\ container'["orchestrator"] = "late" <=> container["orchestrator"] = "late"
        BY <1>c, <1>r, <3>2, Removing
      <4> QED
        BY <4>1, <4>2
    <3> QED
      BY <2>1, <3>1, <3>2
  <2> QED
    BY <1>a, <2>1, <2>2 DEF AliveInv, States, Containers, Running, Ended
<1>11. CASE ContainerExits
  <2>1. PICK c \in Containers :
          /\ container[c] = "running" /\ container' = [container EXCEPT ![c] = "exited"]
          /\ alive' = IF c = "orchestrator"
                        THEN {s \in Services : container[s] = "running"} ELSE alive
    BY <1>11 DEF ContainerExits
  <2>2. /\ container' \in [Containers -> States]
        /\ container'[c] = "exited"
        /\ \A d \in Containers : d # c => container'[d] = container[d]
    BY <1>c, <2>1 DEF States
  <2>3. UNCHANGED << pc, sent, seenState, waited, finding >>
    BY <1>11 DEF ContainerExits
  <2>4. pc = "placements" => container'["orchestrator"] = "none"
    BY <1>a, <1>r, <2>1, <2>2
  <2>5. ASSUME Observed PROVE Observed'
    <3>1. Late' = {}
      BY <2>2, <2>5 DEF Observed, Late, Containers
    <3>2. CASE c = "orchestrator"
      <4>1. ~ waited
        BY <2>1, <2>5, <3>2 DEF Observed
      <4>2. \A s \in Services : container'[s] = "running" => s \in alive'
        BY <1>r, <2>1, <2>2, <3>2
      <4> QED
        BY <2>3, <2>5, <3>1, <4>1, <4>2 DEF Observed
    <3>3. CASE c # "orchestrator"
      <4>1. /\ container'["orchestrator"] = container["orchestrator"] /\ alive' = alive
            /\ \A s \in Services : container'[s] = "running" => container[s] = "running"
        BY <1>r, <2>1, <2>2, <3>3
      <4> QED
        BY <2>3, <2>5, <3>1, <4>1 DEF Observed
    <3> QED
      BY <3>2, <3>3
  <2>6. alive' \subseteq Services
    BY <1>a, <2>1
  <2>7. finding.error = "none" => container'["orchestrator"] \in {"none", "exited"}
    BY <1>a, <1>r, <2>2
  <2> QED
    BY <1>a, <2>2, <2>3, <2>4, <2>5, <2>6, <2>7 DEF AliveInv, States, Containers
<1>12. CASE LateStart
  <2>1. PICK c \in Containers : container[c] = "late" /\ container' = [container EXCEPT ![c] = "running"]
    BY <1>12 DEF LateStart
  <2>2. /\ finding.error \in {"start-failed", "engine-unreachable"}
        /\ pc \in {"recording", "teardown"} \cup Ended
    BY <1>c, <1>n, <2>1 DEF Late
  <2>3. pc \notin Running /\ pc # "placements"
    BY <1>a, <2>1, <2>2 DEF Observed, Late, Running, Ended
  <2>4. UNCHANGED << pc, sent, alive, seenState, waited, finding >>
    BY <1>12 DEF LateStart
  <2> QED
    BY <1>a, <2>2, <2>3, <2>4 DEF AliveInv, States, Containers
<1>13. CASE ServiceSends
  <2>1. /\ UNCHANGED << container, pc, alive, seenState, waited, finding >>
        /\ sent' \subseteq Services
    BY <1>a, <1>13 DEF ServiceSends
  <2> QED
    BY <1>a, <2>1 DEF AliveInv, States, Containers, Observed, Late
<1>14. CASE KitNext /\ UNCHANGED cv
  <2>1. /\ UNCHANGED << container, sent, alive, seenState, waited, finding >>
        /\ (pc = "start" /\ pc' = "body") \/ pc' = "done"
    BY <1>14 DEF KitNext, Begin, Refuse, Publish, PublishRaises, Kill, Exits
  <2> QED
    BY <1>k, <2>1 DEF Running
<1> QED
  BY <1>1, <1>2, <1>3, <1>4, <1>5, <1>6, <1>7, <1>8, <1>9, <1>10, <1>11, <1>12, <1>13, <1>14
     DEF CvNext, CvBody

(* What the result says of a service is said of one that ran when the      *)
(* orchestrator exited, and that has sent what is counted for it alone.    *)
LEMMA FinishedIsEarned ==
  ASSUME Observed, waited, sent \subseteq Services, \A s \in Services : seenState[s] # "none",
         NEW heard \in SUBSET (Audible \cap CountingTopics), NEW s \in Services
  PROVE  /\ Participation(s, heard) \in Participating => s \in alive
         /\ Participation(s, heard) = "participated" => s \in sent
<1>1. Participation(s, heard) \in Participating => seenState[s] = "running"
  BY DEF Participation, Participating, Observed
<1>2. ASSUME Participation(s, heard) = "participated" PROVE s \in sent
  <2>1. PICK t \in Counting(s) : t \in heard
    BY <1>2 DEF Participation
  <2>2. /\ t \notin TopicConstant
        /\ \A other \in Services \ {s} : t \notin inputs.publishes[other]
    BY <2>1 DEF Counting
  <2>3. PICK other \in sent : t \in inputs.publishes[other]
    BY <2>1, <2>2 DEF Audible
  <2> QED
    BY <2>2, <2>3
<1> QED
  BY <1>1, <1>2 DEF Observed

LEMMA ParticipationStep ==
  ASSUME AliveInv, ParticipationIsEarned, stage = "cv", CvNext, UNCHANGED << stage, inputs >>
  PROVE  ParticipationIsEarned'
<1> USE DEF Concludes, Continues
<1>e. \A err : CvError(err).error = err
  BY DEF CvError
<1>k. ASSUME finding' = finding,
             alive' = alive \/ finding.error # "none", sent \subseteq sent'
      PROVE  ParticipationIsEarned'
  BY <1>k DEF ParticipationIsEarned
<1>f. ASSUME finding'.error # "none" PROVE ParticipationIsEarned'
  BY <1>f DEF ParticipationIsEarned
<1>u. ASSUME NEW causes, finding' = Unevaluated(causes),
             \A s \in DOMAIN causes : causes[s] \notin Participating
      PROVE  ParticipationIsEarned'
  <2>1. \A s \in Services : finding'.evidence.services[s] \notin Participating
    BY <1>u DEF Unevaluated, Judged, Participating
  <2> QED
    BY <2>1 DEF ParticipationIsEarned, Participating
<1>1. CASE Prepare
  <2>1. \/ finding' = finding /\ UNCHANGED << alive, sent >>
        \/ finding'.error # "none"
        \/ \E pull \in [Services -> PullOutcomes] :
             finding' = Unevaluated([s \in {t \in Services : pull[t] # "pulled"} |-> pull[s]])
    <3>1. CASE \E err \in {"sim-build-failed", "pull-failed"} : Comes(CvError(err))
      BY <1>e, <3>1 DEF Comes
    <3>2. ASSUME NEW pull \in [Services -> PullOutcomes],
                 LET blocked == {s \in Services : pull[s] # "pulled"}
                 IN  CASE blocked # {} -> Comes(Unevaluated([s \in blocked |-> pull[s]]))
                       [] blocked = {} /\ now' >= CvDeadline -> Comes(CvError("no-time-to-start"))
                       [] OTHER -> Continues("sim") /\ UNCHANGED finding
          PROVE  \/ finding' = finding \/ finding'.error # "none"
                 \/ finding' = Unevaluated([s \in {t \in Services : pull[t] # "pulled"} |-> pull[s]])
      <4> DEFINE blocked == {s \in Services : pull[s] # "pulled"}
      <4>1. CASE blocked # {}
        <5>1. Comes(Unevaluated([s \in blocked |-> pull[s]]))
          BY <3>2, <4>1
        <5> QED
          BY <5>1 DEF Comes
      <4>2. CASE blocked = {}
        BY <1>e, <3>2, <4>2 DEF Comes
      <4> QED
        BY <4>1, <4>2
    <3>3. UNCHANGED << alive, sent >>
      BY <1>1 DEF Prepare
    <3> QED
      BY <1>1, <3>1, <3>2, <3>3 DEF Prepare
  <2>2. ASSUME NEW pull \in [Services -> PullOutcomes],
               finding' = Unevaluated([s \in {t \in Services : pull[t] # "pulled"} |-> pull[s]])
        PROVE  ParticipationIsEarned'
    <3> DEFINE causes == [s \in {t \in Services : pull[t] # "pulled"} |-> pull[s]]
    <3>1. \A s \in DOMAIN causes : causes[s] \notin Participating
      BY DEF PullOutcomes, Participating
    <3> QED
      BY <1>u, <2>2, <3>1
  <2> QED
    BY <1>k, <1>f, <2>1, <2>2
<1>2. CASE ReadResult
  <2>1. CASE Finished /\ waited
    <3>1. pc = "states" /\ \A s \in Services : seenState[s] # "none"
      BY <1>2 DEF ReadResult
    <3>2. Observed /\ sent \subseteq Services /\ UNCHANGED << alive, sent >>
      BY <1>2, <3>1 DEF AliveInv, Running, ReadResult
    <3>3. ASSUME NEW mission \in {"completed", "failed"},
                 NEW heard \in SUBSET (Audible \cap CountingTopics),
                 finding' = Judged([s \in Services |-> Participation(s, heard)], mission, Digests)
          PROVE  ParticipationIsEarned'
      <4>1. \A s \in Services : finding'.evidence.services[s] = Participation(s, heard)
        BY <3>3 DEF Judged
      <4>2. \A s \in Services : /\ Participation(s, heard) \in Participating => s \in alive
                                /\ Participation(s, heard) = "participated" => s \in sent
        BY <2>1, <3>1, <3>2, FinishedIsEarned
      <4> QED
        BY <3>2, <4>1, <4>2 DEF ParticipationIsEarned
    <3>4. ASSUME NEW causes \in SUBSET Services,
                 finding' = Judged([s \in Services |-> IF s \in causes THEN "unloadable-type"
                                                                      ELSE "blocked"],
                                   "none", Digests)
          PROVE  ParticipationIsEarned'
      <4>1. \A s \in Services : finding'.evidence.services[s] \in {"unloadable-type", "blocked"}
        BY <3>4 DEF Judged
      <4> QED
        BY <4>1 DEF ParticipationIsEarned, Participating
    <3>5. CASE \E mission \in {"completed", "failed"}, heard \in SUBSET (Audible \cap CountingTopics) :
                 finding' = Judged([s \in Services |-> Participation(s, heard)], mission, Digests)
      BY <3>3, <3>5
    <3>6. CASE \E unloadable \in SUBSET CountingTopics :
       LET causes == {s \in Services : ~ Loosened(s) /\ Counting(s) \cap unloadable # {}}
       IN  finding' = IF causes = {} THEN CvError("invalid-result")
                      ELSE Judged([s \in Services |-> IF s \in causes THEN "unloadable-type"
                                                                     ELSE "blocked"],
                                  "none", Digests)
      <4>1. PICK unloadable \in SUBSET CountingTopics :
       LET causes == {s \in Services : ~ Loosened(s) /\ Counting(s) \cap unloadable # {}}
       IN  finding' = IF causes = {} THEN CvError("invalid-result")
                      ELSE Judged([s \in Services |-> IF s \in causes THEN "unloadable-type"
                                                                     ELSE "blocked"],
                                  "none", Digests)
        BY <3>6
      <4> DEFINE causes == {s \in Services : ~ Loosened(s) /\ Counting(s) \cap unloadable # {}}
      <4>2. CASE causes = {}
        BY <1>e, <1>f, <4>1, <4>2
      <4>3. CASE causes # {}
        BY <3>4, <4>1, <4>3
      <4> QED
        BY <4>2, <4>3
    <3> QED
      BY <2>1, <3>5, <3>6 DEF Finished
  <2>2. CASE finding'.error # "none"
    BY <1>f, <2>2
  <2>3. (Finished /\ waited) \/ finding'.error # "none"
    BY <1>2, <1>e DEF ReadResult, Lost, Comes
  <2> QED
    BY <2>1, <2>2, <2>3
<1>3. CASE ContainerExits
  <2>1. alive' = alive \/ container["orchestrator"] = "running"
    BY <1>3 DEF ContainerExits
  <2> QED
    BY <1>3, <1>k, <2>1 DEF ContainerExits, AliveInv
<1>4. CASE Declare \/ StartSim \/ StartOrchestrator \/ StartPlacement
  <2>1. CASE Declare
    BY <1>k, <2>1 DEF Declare, cv
  <2>2. CASE StartSim \/ StartOrchestrator \/ StartPlacement
    <3>1. /\ UNCHANGED << alive, sent >>
          /\ UNCHANGED finding \/ Comes(CvError("start-failed"))
      BY <2>2 DEF StartSim, StartOrchestrator, StartRequired, StartPlacement
    <3>2. UNCHANGED finding \/ finding'.error = "start-failed"
      BY <1>e, <3>1 DEF Comes
    <3> QED
      BY <1>f, <1>k, <3>1, <3>2
  <2> QED
    BY <1>4, <2>1, <2>2
<1>5. CASE CleanUp \/ Wait \/ ReadSim \/ ReadPlacement \/ ReadRecording
  BY <1>5, <1>e, <1>k, <1>f
     DEF CleanUp, Wait, ReadSim, ReadPlacement, ReadRecording, Lost, Comes
<1>6. CASE Teardown
  BY <1>6, <1>e, <1>k, <1>f DEF Teardown, Raises
<1>7. CASE ServiceSends \/ LateStart \/ (KitNext /\ UNCHANGED cv)
  <2>1. UNCHANGED << finding, alive >> /\ sent \subseteq sent'
    BY <1>7 DEF ServiceSends, LateStart
  <2> QED
    BY <1>k, <2>1
<1> QED
  BY <1>1, <1>2, <1>3, <1>4, <1>5, <1>6, <1>7 DEF CvNext, CvBody

-----------------------------------------------------------------------------
(* Composition.  Its places.                                               *)

LEMMA PlacesStep ==
  ASSUME PlacesInv, UNCHANGED stage,
         stage # "composition" \/ UNCHANGED kit \/ CompositionNext
  PROVE  PlacesInv'
<1> USE DEF Concludes, Continues, CompositionPlaces, Ended
<1>1. CASE stage # "composition" \/ UNCHANGED kit
  BY <1>1 DEF PlacesInv
<1>2. CASE ReadDescriptions \/ Embeds \/ Admits \/ Traces \/ Discovers
  BY <1>2 DEF ReadDescriptions, Embeds, Admits, Traces, Discovers, Composes, PlacesInv
<1>3. CASE Generate
  BY <1>3 DEF Generate, Composes, PlacesInv
<1>4. CASE Compose
  BY <1>4 DEF Compose, Composes, Raises, Exits, PlacesInv
<1>5. CASE KitNext
  BY <1>5 DEF KitNext, Begin, Refuse, Publish, PublishRaises, Kill, Exits, PlacesInv
<1> QED
  BY <1>1, <1>2, <1>3, <1>4, <1>5 DEF CompositionNext, CompositionBody

(* What a sequence holds, of the ways an agenda is made.                   *)

LEMMA Joined ==
  ASSUME NEW S, NEW a \in Seq(S), NEW b \in Seq(S)
  PROVE  a \o b \in Seq(S) /\ Members(a \o b) = Members(a) \cup Members(b)
<1>1. /\ a \o b \in Seq(S) /\ Len(a) \in Nat /\ Len(b) \in Nat
      /\ Len(a \o b) = Len(a) + Len(b)
      /\ \A i \in 1 .. Len(a) : (a \o b)[i] = a[i]
      /\ \A i \in 1 .. Len(b) : (a \o b)[Len(a) + i] = b[i]
  OBVIOUS
<1>2. \A i \in 1 .. Len(a \o b) :
        i \in 1 .. Len(a) \/ \E j \in 1 .. Len(b) : i = Len(a) + j
  <2> TAKE i \in 1 .. Len(a \o b)
  <2>1. CASE i > Len(a)
    <3>1. i - Len(a) \in 1 .. Len(b) /\ i = Len(a) + (i - Len(a))
      BY <1>1, <2>1
    <3> QED
      BY <3>1
  <2> QED
    BY <1>1, <2>1
<1>3. \A j \in 1 .. Len(b) : Len(a) + j \in 1 .. Len(a \o b)
  BY <1>1
<1>4. \A i \in 1 .. Len(a) : i \in 1 .. Len(a \o b)
  BY <1>1
<1>5. Members(a \o b) \subseteq Members(a) \cup Members(b)
  BY <1>1, <1>2 DEF Members
<1>6. Members(a) \cup Members(b) \subseteq Members(a \o b)
  BY <1>1, <1>3, <1>4 DEF Members
<1> QED
  BY <1>1, <1>5, <1>6

LEMMA Single ==
  ASSUME NEW S, NEW x \in S
  PROVE  << x >> \in Seq(S) /\ Members(<< x >>) = {x}
<1>1. Len(<< x >>) = 1 /\ << x >>[1] = x
  OBVIOUS
<1> QED
  BY <1>1 DEF Members

LEMMA Split ==
  ASSUME NEW S, NEW a \in Seq(S), a # <<>>
  PROVE  /\ Head(a) \in S /\ Tail(a) \in Seq(S)
         /\ Members(a) = {Head(a)} \cup Members(Tail(a))
<1>1. /\ Head(a) \in S /\ Tail(a) \in Seq(S) /\ Len(a) \in Nat \ {0}
      /\ Len(Tail(a)) = Len(a) - 1 /\ Head(a) = a[1]
      /\ \A i \in 1 .. Len(a) - 1 : Tail(a)[i] = a[i + 1]
  OBVIOUS
<1>2. \A i \in 1 .. Len(a) : i = 1 \/ \E j \in 1 .. Len(a) - 1 : i = j + 1
  <2> TAKE i \in 1 .. Len(a)
  <2>1. CASE i # 1
    <3>1. i - 1 \in 1 .. Len(a) - 1 /\ i = (i - 1) + 1
      BY <1>1, <2>1
    <3> QED
      BY <3>1
  <2> QED
    BY <2>1
<1>3. \A j \in 1 .. Len(a) - 1 : j + 1 \in 1 .. Len(a)
  BY <1>1
<1>4. 1 \in 1 .. Len(a)
  BY <1>1
<1>5. Members(a) \subseteq {Head(a)} \cup Members(Tail(a))
  <2>1. \A j \in 1 .. Len(a) - 1 : a[j + 1] \in Members(Tail(a))
    BY <1>1 DEF Members
  <2>2. \A i \in 1 .. Len(a) : a[i] \in {Head(a)} \cup Members(Tail(a))
    BY <1>1, <1>2, <2>1
  <2> QED
    BY <2>2 DEF Members
<1>6. {Head(a)} \cup Members(Tail(a)) \subseteq Members(a)
  BY <1>1, <1>3, <1>4 DEF Members
<1> QED
  BY <1>1, <1>5, <1>6

LEMMA Empty == Members(<<>>) = {}
<1>1. Len(<<>>) = 0
  OBVIOUS
<1> QED
  BY <1>1 DEF Members

LEMMA InSequence ==
  ASSUME NEW S, NEW a \in Seq(S)
  PROVE  Members(a) \subseteq S /\ (a # <<>> => Members(a) # {})
<1>1. \A i \in 1 .. Len(a) : a[i] \in S
  OBVIOUS
<1>2. a # <<>> => 1 \in 1 .. Len(a)
  OBVIOUS
<1> QED
  BY <1>1, <1>2 DEF Members

LEMMA SameElements == \A list : D!Elements(list) = Members(list)
BY DEF D!Elements, Members

LEMMA IsSequence ==
  ASSUME NEW S, NEW n \in Nat, NEW f \in [1 .. n -> S]
  PROVE  f \in Seq(S) /\ Len(f) = n
<1>1. f \in Seq(S)
  BY SeqDef, Zenon
<1>2. 1 .. Len(f) = 1 .. n /\ Len(f) \in Nat
  BY <1>1, LenProperties
<1>3. \A m \in Nat : 1 .. m = 1 .. n => m = n
  <2> SUFFICES ASSUME NEW m \in Nat, 1 .. m = 1 .. n PROVE m = n
    OBVIOUS
  <2>1. n > 0 => n \in 1 .. m
    OBVIOUS
  <2>2. m > 0 => m \in 1 .. n
    OBVIOUS
  <2> QED
    BY <2>1, <2>2
<1> QED
  BY <1>1, <1>2, <1>3

LEMMA Expanded ==
  ASSUME NEW label \in Labels, NEW references \in Seq(Seq(Described))
  PROVE  /\ D!Expansion(label, references) \in Seq(Entry)
         /\ Members(D!Expansion(label, references)) =
              {D!Reference(label, references[i]) : i \in DOMAIN references}
         /\ \A e \in Members(D!Expansion(label, references)) : e.providers = e.rest
<1> DEFINE expansion == D!Expansion(label, references)
<1>1. /\ DOMAIN references = 1 .. Len(references) /\ Len(references) \in Nat
      /\ \A i \in 1 .. Len(references) : references[i] \in Seq(Described)
  OBVIOUS
<1>2. \A i \in 1 .. Len(references) : D!Reference(label, references[i]) \in Entry
  BY <1>1 DEF D!Reference, Entry
<1>3. expansion = [i \in 1 .. Len(references) |-> D!Reference(label, references[i])]
  BY DEF D!Expansion
<1>4. expansion \in Seq(Entry) /\ Len(expansion) = Len(references)
  <2> HIDE DEF expansion
  <2>1. expansion \in [1 .. Len(references) -> Entry]
    BY <1>2, <1>3
  <2> QED
    BY <1>1, <2>1, IsSequence
<1>5. Members(expansion) = {D!Reference(label, references[i]) : i \in DOMAIN references}
  <2> HIDE DEF expansion
  <2> QED
    BY <1>1, <1>3, <1>4 DEF Members
<1>6. \A i : D!Reference(label, references[i]).providers = D!Reference(label, references[i]).rest
  BY DEF D!Reference
<1> QED
  BY <1>4, <1>5, <1>6

LEMMA Queried ==
  ASSUME NEW rankings \in Seq(Seq(Described)), NEW n \in 1 .. TopK * Len(rankings)
  PROVE  D!Turn(rankings, n) \in Entry /\ D!Turn(rankings, n).providers = <<>>
<1> DEFINE L == Len(rankings)
           q == 1 + ((n - 1) % L)
           rank == 1 + ((n - 1) \div L)
<1>1. L \in Nat /\ TopK \in Nat
  BY TopKIsNatural
<1>2. L # 0
  <2>1. TopK * 0 = 0
    BY <1>1
  <2> QED
    BY <2>1
<1>3. n - 1 \in Nat /\ n \in Nat
  <2>1. \A a, b \in Nat : a * b \in Nat
    OBVIOUS
  <2>2. TopK * L \in Nat
    BY <1>1, <2>1
  <2> QED
    BY <2>2
<1>4. q \in 1 .. L /\ rank \in Nat \ {0}
  <2> HIDE DEF L
  <2>1. \A k \in Nat, l \in Nat \ {0} : k % l \in 0 .. l - 1 /\ k \div l \in Nat
    <3> TAKE k \in Nat, l \in Nat \ {0}
    <3>1. k % l \in 0 .. l - 1 /\ k \div l \in Int /\ k = l * (k \div l) + (k % l)
      OBVIOUS
    <3>2. PICK d \in Int : d = k \div l
      BY <3>1
    <3>3. PICK r \in 0 .. l - 1 : r = k % l
      BY <3>1
    <3>4. k = l * d + r
      BY <3>1, <3>2, <3>3
    <3>5. CASE d < 0
      <4>1. -1 - d \in Nat /\ l \in Nat
        BY <3>5
      <4>2. \A a, b \in Nat : a * b \in Nat
        OBVIOUS
      <4>3. l * (-1 - d) >= 0
        BY <4>1, <4>2
      <4>4. l * (-1 - d) = - l - l * d
        OBVIOUS
      <4>5. PICK p \in Int : p = l * d
        OBVIOUS
      <4>6. - l - p >= 0 /\ k = p + r
        BY <3>4, <4>3, <4>4, <4>5
      <4>7. \A x \in Nat : \A y \in Nat \ {0} : \A z \in Int : \A w \in 0 .. y - 1 :
              ~ (- y - z >= 0 /\ x = z + w)
        OBVIOUS
      <4> QED
        BY <4>6, <4>7
    <3> QED
      BY <3>1, <3>2, <3>5
  <2>2. (n - 1) % L \in 0 .. L - 1 /\ (n - 1) \div L \in Nat
    BY <1>1, <1>2, <1>3, <2>1
  <2> QED
    BY <1>1, <2>2
<1> DEFINE ranking == rankings[q]
<1>5. ranking \in Seq(Described)
  BY <1>4
<1>6. rank <= Len(ranking) => ranking[rank] \in Described
  <2> HIDE DEF ranking, rank
  <2> QED
    BY <1>4, <1>5
<1> DEFINE list == IF rank <= Len(ranking) THEN << ranking[rank] >> ELSE <<>>
<1>7. list \in Seq(Described)
  <2> HIDE DEF ranking, rank
  <2> QED
    BY <1>6
<1>8. D!Turn(rankings, n) = D!Hit(list)
  BY DEF D!Turn
<1>9. <<>> \in Seq(Described)
  OBVIOUS
<1> HIDE DEF list
<1> QED
  BY <1>7, <1>8, <1>9 DEF D!Hit, Entry, Labels

(* What discovery starts with.                                             *)
LEMMA AgendaFits ==
  ASSUME inputs \in CompositionInputs
  PROVE  LET agenda0 == D!Agenda(inputs.repository, inputs.rankings)
         IN  /\ agenda0 \in Seq(Entry)
             /\ \A e \in Members(agenda0) : Members(e.providers) \subseteq Members(e.rest)
<1> DEFINE orchestrator == inputs.repository.orchestrator
           rankings == inputs.rankings
           wanted == D!Expansion("orchestrator", orchestrator)
           hits == [n \in 1 .. TopK * Len(rankings) |-> D!Turn(rankings, n)]
<1>1. orchestrator \in Seq(Seq(Described)) /\ rankings \in Seq(Seq(Described))
  BY DEF CompositionInputs
<1>2. TopK * Len(rankings) \in Nat
  <2>1. Len(rankings) \in Nat /\ TopK \in Nat
    BY <1>1, TopKIsNatural
  <2>2. \A a, b \in Nat : a * b \in Nat
    OBVIOUS
  <2> QED
    BY <2>1, <2>2
<1>3. \A n \in 1 .. TopK * Len(rankings) :
        D!Turn(rankings, n) \in Entry /\ D!Turn(rankings, n).providers = <<>>
  BY <1>1, Queried
<1>4. /\ wanted \in Seq(Entry)
      /\ \A e \in Members(wanted) : e.providers = e.rest
  <2>1. "orchestrator" \in Labels
    BY DEF Labels
  <2> QED
    BY <1>1, <2>1, Expanded
<1> HIDE DEF rankings, wanted
<1>5. hits \in Seq(Entry) /\ Len(hits) = TopK * Len(rankings)
  <2>1. hits \in [1 .. TopK * Len(rankings) -> Entry]
    BY <1>3
  <2> QED
    BY <1>2, <2>1, IsSequence
<1>6. \A e \in Members(hits) : e.providers = <<>>
  BY <1>3, <1>5 DEF Members
<1>7. D!Agenda(inputs.repository, inputs.rankings) = wanted \o hits
  BY DEF D!Agenda, wanted, rankings
<1>8. wanted \o hits \in Seq(Entry) /\ Members(wanted \o hits) = Members(wanted) \cup Members(hits)
  <2> HIDE DEF hits
  <2> QED
    BY <1>4, <1>5, Joined
<1> HIDE DEF hits
<1> QED
  BY <1>4, <1>6, <1>7, <1>8, Empty

LEMMA AdmittedFits ==
  ASSUME NEW repository, repository.size \in [Described -> Nat \ {0}], NEW budget \in Nat,
         NEW service \in Described,
         NEW so \in [selected : SUBSET Described, used : Nat, overBudget : SUBSET Described,
                     unexpanded : SUBSET (Labels \X Seq(Described))],
         so.used <= budget, so.selected \cap so.overBudget = {},
         NEW new, new = D!Admitted(repository, budget, service, so)
  PROVE  /\ new \in [selected : SUBSET Described, used : Nat, overBudget : SUBSET Described,
                     unexpanded : SUBSET (Labels \X Seq(Described))]
         /\ new.used <= budget
         /\ new.selected \cap new.overBudget = {}
         /\ new.unexpanded = so.unexpanded
         /\ so.selected \subseteq new.selected /\ so.overBudget \subseteq new.overBudget
         /\ new.selected \subseteq so.selected \cup {service}
         /\ service \in new.selected \cup new.overBudget
<1>1. CASE service \in so.selected \cup so.overBudget
  BY <1>1 DEF D!Admitted
<1>2. CASE service \notin so.selected \cup so.overBudget /\ so.used + repository.size[service] > budget
  <2>1. D!Admitted(repository, budget, service, so)
          = [so EXCEPT !.overBudget = @ \cup {service}]
    BY <1>2 DEF D!Admitted
  <2> QED
    BY <1>2, <2>1
<1>3. CASE service \notin so.selected \cup so.overBudget /\ ~ so.used + repository.size[service] > budget
  <2>1. D!Admitted(repository, budget, service, so)
          = [so EXCEPT !.selected = @ \cup {service}, !.used = @ + repository.size[service]]
    BY <1>3 DEF D!Admitted
  <2>2. PICK sum \in Nat : sum = so.used + repository.size[service] /\ sum <= budget
    BY <1>3
  <2>3. new = [so EXCEPT !.selected = so.selected \cup {service}, !.used = sum]
    BY <2>1, <2>2
  <2>4. /\ new.selected = so.selected \cup {service} /\ new.used = sum
        /\ new.overBudget = so.overBudget /\ new.unexpanded = so.unexpanded
    BY <2>3
  <2>5. new \in [selected : SUBSET Described, used : Nat, overBudget : SUBSET Described,
                 unexpanded : SUBSET (Labels \X Seq(Described))]
    <3>1. so.selected \cup {service} \subseteq Described
      OBVIOUS
    <3>2. PICK grown \in SUBSET Described : grown = so.selected \cup {service}
      BY <3>1
    <3> QED
      BY <2>2, <2>3, <3>2
  <2>6. new.used <= budget /\ new.unexpanded = so.unexpanded
    BY <2>2, <2>4
  <2>7. /\ new.selected \cap new.overBudget = {}
        /\ so.selected \subseteq new.selected /\ so.overBudget \subseteq new.overBudget
        /\ new.selected \subseteq so.selected \cup {service}
        /\ service \in new.selected \cup new.overBudget
    BY <1>3, <2>4, Zenon
  <2> QED
    BY <2>5, <2>6, <2>7, Zenon
<1> QED
  BY <1>1, <1>2, <1>3

LEMMA TracedFits ==
  ASSUME NEW e \in Entry,
         NEW so \in [selected : SUBSET Described, used : Nat, overBudget : SUBSET Described,
                     unexpanded : SUBSET (Labels \X Seq(Described))],
         Members(e.providers) \subseteq so.selected \cup so.overBudget
  PROVE  LET new == D!Traced(e, so)
         IN  /\ new \in [selected : SUBSET Described, used : Nat, overBudget : SUBSET Described,
                         unexpanded : SUBSET (Labels \X Seq(Described))]
             /\ new.used = so.used /\ new.selected = so.selected /\ new.overBudget = so.overBudget
             /\ so.unexpanded \subseteq new.unexpanded
             /\ \A open \in new.unexpanded : open \in so.unexpanded
                  \/ (open[2] # <<>> /\ Members(open[2]) \subseteq so.overBudget)
             /\ \/ e.providers = <<>>
                \/ << e.label, e.providers >> \in new.unexpanded
                \/ Members(e.providers) \cap new.selected # {}
<1>1. D!Elements(e.providers) = Members(e.providers)
  BY SameElements
<1>2. e.label \in Labels /\ e.providers \in Seq(Described)
  BY DEF Entry
<1>3. CASE e.providers # <<>> /\ Members(e.providers) \cap so.selected = {}
  <2>1. D!Traced(e, so) = [so EXCEPT !.unexpanded = @ \cup {<< e.label, e.providers >>}]
    BY <1>1, <1>3 DEF D!Traced
  <2>2. << e.label, e.providers >>[2] = e.providers
    OBVIOUS
  <2> QED
    BY <1>2, <1>3, <2>1, <2>2
<1>4. CASE ~ (e.providers # <<>> /\ Members(e.providers) \cap so.selected = {})
  BY <1>1, <1>4 DEF D!Traced
<1> QED
  BY <1>3, <1>4

LEMMA JoinedEntries ==
  \A a, b \in Seq(Entry) :
    a \o b \in Seq(Entry) /\ Members(a \o b) = Members(a) \cup Members(b)
BY Joined

(* The first entry of the agenda, and the others.                          *)
LEMMA FirstEntry ==
  ASSUME agenda \in Seq(Entry), agenda # <<>>
  PROVE  /\ Head(agenda) \in Entry /\ Tail(agenda) \in Seq(Entry)
         /\ Members(agenda) = {Head(agenda)} \cup Members(Tail(agenda))
BY Split

LEMMA AdmitsStep ==
  ASSUME inputs \in CompositionInputs, DiscoveryInv, stage = "composition", Admits,
         UNCHANGED << stage, inputs >>
  PROVE  DiscoveryInv'
<1> DEFINE first == Head(agenda)
           service == Head(first.rest)
           left == [first EXCEPT !.rest = Tail(@)]
           later == << left >> \o Tail(agenda)
           own == D!Expansion(service, inputs.repository.references[service])
<1>1. /\ agenda # <<>> /\ first.rest # <<>> /\ pc' = "discover"
      /\ discovery' = D!Admitted(inputs.repository, inputs.budget, service, discovery)
      /\ agenda' = IF discovery'.selected = discovery.selected THEN later ELSE own \o later
  BY DEF Admits, Continues
<1>2. /\ inputs.repository.size \in [Described -> Nat \ {0}] /\ inputs.budget \in Nat
      /\ inputs.repository.references \in [Described -> Seq(Seq(Described))]
  BY DEF CompositionInputs
<1>3. /\ discovery \in [selected : SUBSET Described, used : Nat, overBudget : SUBSET Described,
                        unexpanded : SUBSET (Labels \X Seq(Described))]
      /\ agenda \in Seq(Entry)
      /\ discovery.used <= inputs.budget
      /\ discovery.selected \cap discovery.overBudget = {}
      /\ \A e \in Members(agenda) :
           Members(e.providers) \subseteq
             Members(e.rest) \cup discovery.selected \cup discovery.overBudget
      /\ \A open \in discovery.unexpanded :
           open[2] # <<>> /\ Members(open[2]) \subseteq discovery.overBudget
      /\ \A s \in discovery.selected : \A i \in DOMAIN inputs.repository.references[s] :
           \/ Settled(s, inputs.repository.references[s][i])
           \/ \E e \in Members(agenda) :
                e.label = s /\ e.providers = inputs.repository.references[s][i]
  BY DEF DiscoveryInv
<1>4. /\ first \in Entry /\ Tail(agenda) \in Seq(Entry)
      /\ Members(agenda) = {first} \cup Members(Tail(agenda))
  BY <1>1, <1>3, FirstEntry
<1>5. /\ service \in Described /\ Tail(first.rest) \in Seq(Described)
      /\ Members(first.rest) = {service} \cup Members(Tail(first.rest))
  <2>1. first.rest \in Seq(Described) /\ first.rest # <<>>
    BY <1>1, <1>4 DEF Entry
  <2> QED
    BY <2>1, Split
<1>6. /\ left \in Entry /\ left.label = first.label /\ left.providers = first.providers
      /\ left.rest = Tail(first.rest)
  BY <1>4, <1>5 DEF Entry
<1>7. /\ discovery' \in [selected : SUBSET Described, used : Nat, overBudget : SUBSET Described,
                         unexpanded : SUBSET (Labels \X Seq(Described))]
      /\ discovery'.used <= inputs.budget
      /\ discovery'.selected \cap discovery'.overBudget = {}
      /\ discovery'.unexpanded = discovery.unexpanded
      /\ discovery.selected \subseteq discovery'.selected
      /\ discovery.overBudget \subseteq discovery'.overBudget
      /\ discovery'.selected \subseteq discovery.selected \cup {service}
      /\ service \in discovery'.selected \cup discovery'.overBudget
  <2>1. inputs.budget \in Nat /\ service \in Described
    BY <1>2, <1>5
  <2> HIDE DEF service
  <2>2. discovery' = D!Admitted(inputs.repository, inputs.budget, service, discovery)
    BY <1>1
  <2>3. inputs.repository.size \in [Described -> Nat \ {0}]
    BY <1>2
  <2>4. /\ discovery \in [selected : SUBSET Described, used : Nat, overBudget : SUBSET Described,
                          unexpanded : SUBSET (Labels \X Seq(Described))]
        /\ discovery.used <= inputs.budget
        /\ discovery.selected \cap discovery.overBudget = {}
    BY <1>3
  <2> QED
    BY <2>1, <2>2, <2>3, <2>4, AdmittedFits, SMTT(30)
<1> HIDE DEF service, left, first
<1>8. later \in Seq(Entry) /\ Members(later) = {left} \cup Members(Tail(agenda))
  <2>1. << left >> \in Seq(Entry) /\ Members(<< left >>) = {left}
    BY <1>6, Single
  <2> QED
    BY <1>4, <2>1, JoinedEntries
<1>9. /\ own \in Seq(Entry)
      /\ Members(own) = {D!Reference(service, inputs.repository.references[service][i]) :
                           i \in DOMAIN inputs.repository.references[service]}
      /\ \A e \in Members(own) : e.providers = e.rest
  <2>1. service \in Labels /\ inputs.repository.references[service] \in Seq(Seq(Described))
    BY <1>2, <1>5 DEF Labels
  <2> QED
    BY <2>1, Expanded
<1> HIDE DEF later, own
<1>10. /\ agenda' \in Seq(Entry)
       /\ Members(agenda') = Members(later)
            \cup (IF discovery'.selected = discovery.selected THEN {} ELSE Members(own))
  BY <1>1, <1>8, <1>9, JoinedEntries
<1>11. \A e \in Members(agenda') :
         Members(e.providers) \subseteq
           Members(e.rest) \cup discovery'.selected \cup discovery'.overBudget
  <2> SUFFICES ASSUME NEW e \in Members(agenda')
               PROVE  Members(e.providers) \subseteq
                        Members(e.rest) \cup discovery'.selected \cup discovery'.overBudget
    OBVIOUS
  <2>1. CASE e \in Members(own)
    BY <1>9, <2>1
  <2>2. CASE e = left
    <3>1. Members(first.providers) \subseteq
            Members(first.rest) \cup discovery.selected \cup discovery.overBudget
      BY <1>3, <1>4
    <3> QED
      BY <1>5, <1>6, <1>7, <2>2, <3>1
  <2>3. CASE e \in Members(Tail(agenda))
    <3>1. Members(e.providers) \subseteq
            Members(e.rest) \cup discovery.selected \cup discovery.overBudget
      BY <1>3, <1>4, <2>3
    <3> QED
      BY <1>7, <3>1
  <2> QED
    BY <1>8, <1>10, <2>1, <2>2, <2>3
<1>12. \A open \in discovery'.unexpanded :
         open[2] # <<>> /\ Members(open[2]) \subseteq discovery'.overBudget
  BY <1>3, <1>7
<1>13. ASSUME NEW s \in discovery'.selected, NEW i \in DOMAIN inputs.repository.references[s]
       PROVE  \/ Settled(s, inputs.repository.references[s][i])'
              \/ \E e \in Members(agenda') :
                   e.label = s /\ e.providers = inputs.repository.references[s][i]
  <2> DEFINE providers == inputs.repository.references[s][i]
  <2>1. CASE s \in discovery.selected
    <3>1. CASE Settled(s, providers)
      BY <1>7, <3>1 DEF Settled
    <3>2. CASE \E e \in Members(agenda) : e.label = s /\ e.providers = providers
      <4>1. PICK e \in Members(agenda) : e.label = s /\ e.providers = providers
        BY <3>2
      <4>2. CASE e = first
        <5>1. left \in Members(agenda') /\ left.label = s /\ left.providers = providers
          BY <1>6, <1>8, <1>10, <4>1, <4>2
        <5> QED
          BY <5>1
      <4>3. CASE e \in Members(Tail(agenda))
        <5>1. e \in Members(agenda')
          BY <1>8, <1>10, <4>3
        <5> QED
          BY <4>1, <5>1
      <4> QED
        BY <1>4, <4>2, <4>3
    <3> QED
      BY <1>3, <2>1, <3>1, <3>2
  <2>2. CASE s \notin discovery.selected
    <3>1. s = service /\ discovery'.selected # discovery.selected
      BY <1>7, <2>2
    <3>2. D!Reference(service, providers) \in Members(agenda')
      BY <1>9, <1>10, <3>1
    <3>3. /\ D!Reference(service, providers).label = s
          /\ D!Reference(service, providers).providers = providers
      BY <3>1 DEF D!Reference
    <3> QED
      BY <3>2, <3>3
  <2> QED
    BY <2>1, <2>2
<1> QED
  BY <1>1, <1>7, <1>10, <1>11, <1>12, <1>13 DEF DiscoveryInv

LEMMA TracesStep ==
  ASSUME inputs \in CompositionInputs, DiscoveryInv, stage = "composition", Traces,
         UNCHANGED << stage, inputs >>
  PROVE  DiscoveryInv'
<1> DEFINE first == Head(agenda)
<1>1. /\ agenda # <<>> /\ first.rest = <<>> /\ pc' = "discover"
      /\ discovery' = D!Traced(first, discovery) /\ agenda' = Tail(agenda)
  BY DEF Traces, Continues
<1>3. /\ discovery \in [selected : SUBSET Described, used : Nat, overBudget : SUBSET Described,
                        unexpanded : SUBSET (Labels \X Seq(Described))]
      /\ agenda \in Seq(Entry)
      /\ discovery.used <= inputs.budget
      /\ discovery.selected \cap discovery.overBudget = {}
      /\ \A e \in Members(agenda) :
           Members(e.providers) \subseteq
             Members(e.rest) \cup discovery.selected \cup discovery.overBudget
      /\ \A open \in discovery.unexpanded :
           open[2] # <<>> /\ Members(open[2]) \subseteq discovery.overBudget
      /\ \A s \in discovery.selected : \A i \in DOMAIN inputs.repository.references[s] :
           \/ Settled(s, inputs.repository.references[s][i])
           \/ \E e \in Members(agenda) :
                e.label = s /\ e.providers = inputs.repository.references[s][i]
  BY DEF DiscoveryInv
<1>4. /\ first \in Entry /\ Tail(agenda) \in Seq(Entry)
      /\ Members(agenda) = {first} \cup Members(Tail(agenda))
  BY <1>1, <1>3, FirstEntry
<1>5. Members(first.providers) \subseteq discovery.selected \cup discovery.overBudget
  BY <1>1, <1>3, <1>4, Empty
<1> HIDE DEF first
<1>6. /\ discovery' \in [selected : SUBSET Described, used : Nat, overBudget : SUBSET Described,
                         unexpanded : SUBSET (Labels \X Seq(Described))]
      /\ discovery'.used = discovery.used /\ discovery'.selected = discovery.selected
      /\ discovery'.overBudget = discovery.overBudget
      /\ discovery.unexpanded \subseteq discovery'.unexpanded
      /\ \A open \in discovery'.unexpanded : open \in discovery.unexpanded
           \/ (open[2] # <<>> /\ Members(open[2]) \subseteq discovery.overBudget)
      /\ \/ first.providers = <<>>
         \/ << first.label, first.providers >> \in discovery'.unexpanded
         \/ Members(first.providers) \cap discovery'.selected # {}
  BY <1>1, <1>3, <1>4, <1>5, TracedFits
<1>7. ASSUME NEW s \in discovery'.selected, NEW i \in DOMAIN inputs.repository.references[s]
      PROVE  \/ Settled(s, inputs.repository.references[s][i])'
             \/ \E e \in Members(agenda') :
                  e.label = s /\ e.providers = inputs.repository.references[s][i]
  <2> DEFINE providers == inputs.repository.references[s][i]
  <2>1. CASE Settled(s, providers)
    BY <1>6, <2>1 DEF Settled
  <2>2. CASE first.label = s /\ first.providers = providers
    BY <1>6, <2>2 DEF Settled
  <2>3. CASE \E e \in Members(Tail(agenda)) : e.label = s /\ e.providers = providers
    BY <1>1, <2>3
  <2> QED
    BY <1>3, <1>4, <1>6, <2>1, <2>2, <2>3
<1>8. \A e \in Members(agenda') :
        Members(e.providers) \subseteq
          Members(e.rest) \cup discovery'.selected \cup discovery'.overBudget
  BY <1>1, <1>3, <1>4, <1>6
<1>9. \A open \in discovery'.unexpanded :
        open[2] # <<>> /\ Members(open[2]) \subseteq discovery'.overBudget
  BY <1>3, <1>6
<1> QED
  BY <1>1, <1>3, <1>4, <1>6, <1>7, <1>8, <1>9 DEF DiscoveryInv

LEMMA DiscoveryRests ==
  ASSUME DiscoveryInv, UNCHANGED << stage, inputs, discovery, agenda >>,
         pc' \in {"start", "body", "embed"} => pc \in {"start", "body", "embed"}
  PROVE  DiscoveryInv'
<1>1. \A s, providers : Settled(s, providers)' = Settled(s, providers)
  BY DEF Settled
<1> QED
  BY <1>1 DEF DiscoveryInv, Settled

LEMMA DiscoveryStep ==
  ASSUME InputsInv, DiscoveryInv, stage = "composition", CompositionNext,
         UNCHANGED << stage, inputs >>
  PROVE  DiscoveryInv'
<1> USE DEF Concludes, Continues
<1>0. inputs \in CompositionInputs
  BY DEF InputsInv
<1>1. CASE ReadDescriptions \/ Discovers
  BY <1>1, DiscoveryRests DEF ReadDescriptions, Discovers, Composes
<1>2. CASE Generate
  BY <1>2, DiscoveryRests DEF Generate, Composes
<1>3. CASE Compose
  BY <1>3, DiscoveryRests DEF Compose, Composes, Raises, Exits
<1>4. CASE KitNext /\ UNCHANGED composing
  BY <1>4, DiscoveryRests
     DEF KitNext, Begin, Refuse, Publish, PublishRaises, Kill, Exits
<1>5. CASE Admits
  BY <1>0, <1>5, AdmitsStep
<1>6. CASE Traces
  BY <1>0, <1>6, TracesStep
<1>7. CASE Embeds
  <2>1. /\ pc' = "discover" /\ discovery' = discovery
        /\ agenda' = D!Agenda(inputs.repository, inputs.rankings)
        /\ discovery = D!NothingSelected
    BY <1>7 DEF Embeds, DiscoveryInv
  <2>2. /\ agenda' \in Seq(Entry)
        /\ \A e \in Members(agenda') : Members(e.providers) \subseteq Members(e.rest)
    BY <1>0, <2>1, AgendaFits
  <2>3. discovery.selected = {} /\ discovery.unexpanded = {}
    BY <2>1 DEF D!NothingSelected
  <2> QED
    BY <2>1, <2>2, <2>3 DEF DiscoveryInv
<1> QED
  BY <1>1, <1>2, <1>3, <1>4, <1>5, <1>6, <1>7 DEF CompositionNext, CompositionBody

LEMMA PreferredIsBest ==
  ASSUME NEW list, Preferred(list) # 0
  PROVE  Preferred(list) \in DOMAIN list /\ list[Preferred(list)].eligible
<1>1. Best(list) # {}
  BY DEF Preferred
<1>2. Preferred(list) \in Best(list)
  BY <1>1 DEF Preferred
<1> QED
  BY <1>2 DEF Best

(* A placement that is resolved names a host the service can use.          *)
LEMMA ResolvedIsUsable ==
  ASSUME NEW p, NEW description, PlacementOf(p, description, Profile) = "resolved"
  PROVE  /\ \E a \in DOMAIN description.artifacts :
              ArchitectureOf(HostOf(p)) \in description.artifacts[a].architectures
         /\ description.devices \subseteq Profile.hosts[HostOf(p)].devices
<1>1. PlacementGaps(p, description, Profile) = {}
  BY DEF PlacementOf
<1>2. HasArtifact(p, description) /\ p.host \in Hosts
  BY <1>1 DEF PlacementGaps
<1>3. ~ Conflicts(p, description, Profile)
  BY <1>2 DEF PlacementOf
<1>4. HostOf(p) = p.host
  BY <1>2 DEF HostOf
<1>5. ArchitectureOf(p.host) \in description.artifacts[p.artifact].architectures
  BY <1>2, <1>3 DEF Conflicts
<1>6. description.devices = {} \/ Profile.hosts[p.host].listed
  BY <1>1, <1>2 DEF PlacementGaps
<1>7. Profile.hosts[p.host].listed
        => description.devices \subseteq Profile.hosts[p.host].devices
  BY <1>3 DEF Conflicts
<1> QED
  BY <1>2, <1>4, <1>5, <1>6, <1>7 DEF HasArtifact

LEMMA ProposalIsGrounded ==
  ASSUME NEW proposal, NEW p, p = Assessed(proposal, Descriptions, Profile), p.eligible
  PROVE  /\ Blueprint(p).services \subseteq Chosen(proposal)
         /\ \A r \in Requirements : Blueprint(p).coverage[r].status = "supported" =>
              /\ p.coverage[r].services # <<>>
              /\ Members(p.coverage[r].services) \subseteq Blueprint(p).services
         /\ \A s \in DOMAIN DeploymentOf(p) : DeploymentOf(p)[s].resolved
              => /\ \E a \in DOMAIN Descriptions[s].artifacts :
                      ArchitectureOf(DeploymentOf(p)[s].host)
                        \in Descriptions[s].artifacts[a].architectures
                 /\ Descriptions[s].devices
                      \subseteq Profile.hosts[DeploymentOf(p)[s].host].devices
<1> DEFINE present == {q.service : q \in p.kept}
<1>1. /\ p.kept # {} /\ p.kept \subseteq Members(proposal.services)
      /\ p.coverage = FinalCoverage(proposal, present)
  BY DEF Assessed, Kept
<1>2. Blueprint(p).services = present
  BY DEF Blueprint
<1>3. present \subseteq Chosen(proposal)
  BY <1>1 DEF Chosen
<1>4. ASSUME NEW r \in Requirements, Blueprint(p).coverage[r].status = "supported"
      PROVE  /\ p.coverage[r].services # <<>>
             /\ Members(p.coverage[r].services) \subseteq present
  <2> DEFINE claim == CHOOSE c \in Members(proposal.coverage) : c.requirement = r
  <2>1. p.coverage[r] = [status |-> IF Downgraded(claim, present) THEN "missing" ELSE claim.status,
                         services |-> claim.services]
    BY <1>1 DEF FinalCoverage
  <2>2. Blueprint(p).coverage[r] = [p.coverage[r] EXCEPT !.services = CitedIn(@, present)]
    BY DEF Blueprint
  <2> HIDE DEF claim, present
  <2>3. Blueprint(p).coverage[r].status = p.coverage[r].status
    BY <2>1, <2>2
  <2>4. ~ Downgraded(claim, present) /\ claim.status = "supported"
    BY <1>4, <2>1, <2>3
  <2>5. Members(claim.services) # {} /\ Members(claim.services) \subseteq present
    BY <2>4 DEF Downgraded
  <2> QED
    BY <2>1, <2>5, Empty
<1>5. ASSUME NEW s \in DOMAIN DeploymentOf(p), DeploymentOf(p)[s].resolved
      PROVE  /\ \E a \in DOMAIN Descriptions[s].artifacts :
                  ArchitectureOf(DeploymentOf(p)[s].host)
                    \in Descriptions[s].artifacts[a].architectures
             /\ Descriptions[s].devices \subseteq Profile.hosts[DeploymentOf(p)[s].host].devices
  <2>1. s \in present
    BY DEF DeploymentOf
  <2> DEFINE q == CHOOSE x \in p.kept : x.service = s
  <2>2. DeploymentOf(p)[s] = [resolved |-> PlacementOf(q, Descriptions[s], Profile) = "resolved",
                              host |-> HostOf(q)]
    BY <2>1 DEF DeploymentOf
  <2> HIDE DEF q
  <2>3. PlacementOf(q, Descriptions[s], Profile) = "resolved" /\ DeploymentOf(p)[s].host = HostOf(q)
    <3>1. DeploymentOf(p)[s].host = HostOf(q)
      BY <2>2
    <3>2. DeploymentOf(p)[s].resolved = (PlacementOf(q, Descriptions[s], Profile) = "resolved")
      BY <2>2
    <3> QED
      BY <1>5, <3>1, <3>2, Zenon
  <2> QED
    BY <2>3, ResolvedIsUsable
<1> QED
  BY <1>1, <1>2, <1>3, <1>4, <1>5

LEMMA BlueprintRests ==
  ASSUME BlueprintInv, UNCHANGED << stage, inputs, composing >>,
         \/ stage # "composition" \/ pc' = pc
         \/ (pc' # "compose" /\ (pc \in Ended => pc' \in Ended)),
         code = "preferred-proposal" => UNCHANGED verdict
  PROVE  BlueprintInv'
BY DEF BlueprintInv, BlueprintIsGrounded, IsWithinContract

LEMMA BlueprintStep ==
  ASSUME KitInv, PlacesInv, BlueprintInv, stage = "composition", CompositionNext,
         UNCHANGED << stage, inputs >>
  PROVE  BlueprintInv'
<1> USE DEF Concludes, Continues
<1>p. pc \in CompositionPlaces
  BY DEF PlacesInv
<1>c. pc \notin Ended => code = "none"
  BY DEF BlueprintInv
<1>o. ASSUME code' # "preferred-proposal", pc' # "compose", pc' \in Ended \/ code' = "none"
      PROVE  BlueprintInv'
  BY <1>o DEF BlueprintInv, BlueprintIsGrounded
<1>1. CASE ReadDescriptions \/ Embeds \/ Admits \/ Traces
  BY <1>1, <1>c, <1>o DEF ReadDescriptions, Embeds, Admits, Traces, Composes, Ended
<1>2. CASE Discovers
  <2>1. D!StopReason(discovery) # "preferred-proposal"
    BY DEF D!StopReason
  <2> QED
    BY <1>2, <1>c, <1>o, <2>1 DEF Discovers, Composes, Ended
<1>3. CASE Generate
  <2>1. CASE pc' = "publish"
    BY <1>3, <1>o, <2>1 DEF Generate, Composes, Ended
  <2>2. CASE pc' # "publish"
    <3>1. /\ IsWithinContract(inputs.answer) /\ pc' = "compose" /\ code' = code
          /\ assessed' = [i \in DOMAIN inputs.answer |->
                            Assessed(inputs.answer[i], Descriptions, Profile)]
          /\ UNCHANGED discovery /\ code = "none"
      BY <1>3, <1>c, <2>2 DEF Generate, Composes, Ended
    <3> QED
      BY <3>1 DEF BlueprintInv, BlueprintIsGrounded, IsWithinContract, Ended
  <2> QED
    BY <2>1, <2>2
<1>4. CASE Compose
  <2> DEFINE best == Preferred(assessed)
  <2>1. /\ pc = "compose" /\ UNCHANGED << discovery, assessed >>
        /\ IsWithinContract(inputs.answer)
        /\ assessed = [i \in DOMAIN inputs.answer |->
                         Assessed(inputs.answer[i], Descriptions, Profile)]
    BY <1>4 DEF Compose, BlueprintInv
  <2>2. CASE code' = "preferred-proposal"
    <3>0. best # 0
      <4>1. best = 0 => AssessmentOutcome(assessed) # "preferred-proposal"
        BY DEF AssessmentOutcome
      <4>2. best = 0 => code' = AssessmentOutcome(assessed)
        BY <1>4 DEF Compose, Composes
      <4> QED
        BY <2>2, <4>1, <4>2
    <3>1. /\ pc' = "publish"
          /\ verdict' = Verdict(CompositionOutcome("preferred-proposal"),
                                PreferredDocuments(assessed[best]), {})
      BY <1>4, <2>2, <3>0 DEF Compose, Composes
    <3>2. best \in DOMAIN inputs.answer /\ assessed[best].eligible
      BY <2>1, <3>0, PreferredIsBest
    <3>3. /\ verdict'.documents["composition_blueprint"] = Blueprint(assessed[best])
          /\ verdict'.documents["deployment_schema"] = DeploymentOf(assessed[best])
      BY <3>1 DEF Verdict, PreferredDocuments, DomainOutputs
    <3>4. assessed[best] = Assessed(inputs.answer[best], Descriptions, Profile)
      BY <2>1, <3>2
    <3>5. Chosen(inputs.answer[best]) \subseteq discovery.selected
      BY <2>1, <3>2 DEF IsWithinContract
    <3> HIDE DEF best
    <3>6. Preferred(assessed)' = best
      BY <2>1 DEF best
    <3>7. PICK p : p = assessed[best]
      OBVIOUS
    <3>8. /\ Blueprint(p).services \subseteq Chosen(inputs.answer[best])
          /\ \A r \in Requirements : Blueprint(p).coverage[r].status = "supported" =>
               /\ p.coverage[r].services # <<>>
               /\ Members(p.coverage[r].services) \subseteq Blueprint(p).services
          /\ \A s \in DOMAIN DeploymentOf(p) : DeploymentOf(p)[s].resolved
               => /\ \E a \in DOMAIN Descriptions[s].artifacts :
                       ArchitectureOf(DeploymentOf(p)[s].host)
                         \in Descriptions[s].artifacts[a].architectures
                  /\ Descriptions[s].devices
                       \subseteq Profile.hosts[DeploymentOf(p)[s].host].devices
      <4>1. p = Assessed(inputs.answer[best], Descriptions, Profile) /\ p.eligible
        BY <3>2, <3>4, <3>7
      <4> QED
        BY <4>1, ProposalIsGrounded
    <3>9. /\ verdict'.documents["composition_blueprint"] = Blueprint(p)
          /\ verdict'.documents["deployment_schema"] = DeploymentOf(p)
          /\ assessed'[Preferred(assessed)'] = p /\ discovery' = discovery
      BY <2>1, <3>3, <3>6, <3>7
    <3>10. BlueprintIsGrounded'
      BY <3>5, <3>8, <3>9 DEF BlueprintIsGrounded
    <3> QED
      BY <3>1, <3>10 DEF BlueprintInv, Ended
  <2>3. CASE code' # "preferred-proposal"
    <3>1. pc' \in Ended
      BY <1>4 DEF Compose, Composes, Raises, Exits, Ended
    <3> QED
      BY <1>o, <2>3, <3>1 DEF Ended
  <2> QED
    BY <2>2, <2>3
<1>5. CASE KitNext /\ UNCHANGED composing
  <2>1. UNCHANGED verdict /\ pc' # "compose" /\ (pc \in Ended => pc' \in Ended)
    BY <1>5, <1>p DEF KitNext, Begin, Refuse, Publish, PublishRaises, Kill, Exits, Ended
  <2> QED
    BY <1>5, <2>1, BlueprintRests
<1> QED
  BY <1>1, <1>2, <1>3, <1>4, <1>5 DEF CompositionNext, CompositionBody

-----------------------------------------------------------------------------
(* What the runtime accepts.                                               *)

(* A verdict without documents that is no success has nothing to answer.   *)
LEMMA FailureIsAcceptable ==
  ASSUME NEW name, NEW given, NEW v, v.documents = NoDocuments,
         v.outcome.conclusion # "succeeded"
  PROVE  Acceptable(name, given, v)
BY DEF Acceptable, NoDocuments

(* CD and CV hand on one document of evidence.                             *)
LEMMA EvidenceIsAcceptable ==
  ASSUME NEW name \in {"cd", "cv"}, NEW given, NEW v, NEW slot, NEW document,
         slot = IF name = "cd" THEN "deployment_result" ELSE "validation_evidence",
         DOMAIN v.documents = {slot}, v.documents[slot] = document,
         ImagesFit(given.images, given.deployment),
         document.outcome = v.outcome.outcome, DocumentIsValid(slot, document),
         name = "cv" => \A s \in document.digests : "amd64" \in given.images[s].platforms
  PROVE  Acceptable(name, given, v)
<1>1. DomainOutputs(name) = {}
  BY DEF DomainOutputs
<1>2. RequiredEvidence(name) \subseteq DOMAIN v.documents
  BY DEF RequiredEvidence, Evidence
<1>3. CASE name = "cd"
  BY <1>1, <1>2, <1>3 DEF Acceptable, DocumentsFit, CheckCd
<1>4. CASE name = "cv"
  BY <1>1, <1>2, <1>4 DEF Acceptable, DocumentsFit, CheckCv
<1> QED
  BY <1>3, <1>4

LEMMA DeploymentIsAcceptable ==
  ASSUME NEW given, NEW placements, NEW applied, ImagesFit(given.images, given.deployment),
         GapIsValid(Undeployed(placements), placements),
         applied = (Undeployed(placements) = {})
  PROVE  Acceptable("cd", given, CdVerdict(DeploymentResult(placements, applied)))
<1> DEFINE document == DeploymentResult(placements, applied)
           v == CdVerdict(document)
<1>1. document.outcome = DeploymentOutcome(placements) /\ document.placements = placements
  BY DEF DeploymentResult
<1>2. document.outcome \in {"not_evaluated", "failed", "succeeded"}
  BY <1>1 DEF DeploymentOutcome
<1>3. DocumentIsValid("deployment_result", document)
  <2>1. document.manifest = (Undeployed(placements) = {})
    BY DEF DeploymentResult
  <2>2. DeploymentIsValid(document)
    BY <1>1, <2>1, Zenon DEF DeploymentIsValid
  <2> QED
    BY <2>2 DEF DocumentIsValid
<1>4. DOMAIN v.documents = {"deployment_result"} /\ v.documents["deployment_result"] = document
  BY DEF CdVerdict, Verdict
<1>5. v.outcome.outcome = document.outcome
  BY <1>2 DEF CdVerdict, Verdict, Succeeded, Outcome
<1> HIDE DEF v, document
<1>6. Acceptable("cd", given, v)
  BY <1>3, <1>4, <1>5, EvidenceIsAcceptable
<1> QED
  BY <1>6 DEF v, document

LEMMA ValidationIsAcceptable ==
  ASSUME NEW given, NEW evidence, NEW recorded, EvidenceFits(given, evidence),
         ImagesFit(given.images, given.deployment)
  PROVE  Acceptable("cv", given, CvVerdict(evidence, recorded))
<1> DEFINE v == CvVerdict(evidence, recorded)
<1>1. evidence.outcome \in {"not_evaluated", "failed", "succeeded"}
  BY DEF EvidenceFits, ValidationIsValid, ValidationVerdict
<1>2. DocumentIsValid("validation_evidence", evidence)
  BY DEF DocumentIsValid, EvidenceFits
<1>3. DOMAIN v.documents = {"validation_evidence"} /\ v.documents["validation_evidence"] = evidence
  BY DEF CvVerdict, Verdict
<1>4. v.outcome.outcome = evidence.outcome
  BY <1>1 DEF CvVerdict, Verdict, Succeeded, Outcome
<1>5. \A s \in evidence.digests : "amd64" \in given.images[s].platforms
  BY DEF EvidenceFits
<1> HIDE DEF v
<1>6. Acceptable("cv", given, v)
  BY <1>2, <1>3, <1>4, <1>5, EvidenceIsAcceptable
<1> QED
  BY <1>6 DEF v


(* Of the steps of the shell only the publication makes an exit code of 0, *)
(* and it checks what it writes.                                           *)
LEMMA PublishedIsDeclared ==
  ASSUME KitInv, AcceptedInv, ShellMove, UNCHANGED << stage, mode, inputs >>
  PROVE  exit' = "0" => Declared(verdict)' /\ ResponseIsValid(Response(verdict))'
<1>1. exit # "none" <=> pc = "done"
  BY DEF KitInv
<1>2. CASE BodyMove
  BY <1>1, <1>2 DEF BodyMove, Concluding, Raises, Exits, Continuing, Ended
<1>3. CASE UNCHANGED kit
  BY <1>3 DEF AcceptedInv, Declared, Response
<1>4. CASE Publish
  BY <1>4 DEF Publish, Declared, Response
<1>5. CASE Begin \/ Refuse \/ PublishRaises \/ Kill
  BY <1>1, <1>5 DEF Begin, Refuse, PublishRaises, Kill, Exits
<1> QED
  BY <1>2, <1>3, <1>4, <1>5 DEF ShellMove, KitNext

(* A placement that keeps the others off the cluster is a gap of its own.  *)
LEMMA GapsAreReported ==
  ASSUME stage = "cd", inputs \in CdInputs, ~ Pinned
  PROVE  Acceptable("cd", inputs, CdVerdict(DeploymentResult(
           [s \in Services |-> IF Gaps[s] = "pinned" THEN "blocked" ELSE Gaps[s]], FALSE)))
<1> DEFINE reported == [s \in Services |-> IF Gaps[s] = "pinned" THEN "blocked" ELSE Gaps[s]]
<1>1. \A s \in Services : Gaps[s] = "pinned" \/ Gaps[s] \in DeploymentGaps \ {"blocked"}
  BY DEF Gaps, Gap, DeploymentGaps
<1>2. PICK gap \in Services : Gaps[gap] # "pinned"
  BY DEF Pinned
<1>3. \A s \in Services : reported[s] \in DeploymentGaps
  BY <1>1 DEF DeploymentGaps
<1>4. Undeployed(reported) = Services
  BY <1>3 DEF Undeployed
<1>5. reported[gap] # "blocked"
  BY <1>1, <1>2
<1>6. GapIsValid(Undeployed(reported), reported) /\ Undeployed(reported) # {}
  BY <1>2, <1>4, <1>5 DEF GapIsValid
<1>7. FALSE = (Undeployed(reported) = {})
  BY <1>6
<1>8. ImagesFit(inputs.images, inputs.deployment)
  BY DEF CdInputs
<1> HIDE DEF reported
<1>9. Acceptable("cd", inputs, CdVerdict(DeploymentResult(reported, FALSE)))
  BY <1>6, <1>7, <1>8, DeploymentIsAcceptable
<1> QED
  BY <1>9 DEF reported

(* No judgement of a pod is a gap.                                         *)
LEMMA JudgedIsReported ==
  ASSUME inputs \in CdInputs, NEW settled,
         settled = [s \in Services |-> IF held THEN Judgement(pods[s])
                                               ELSE Cut(Judgement(pods[s]), s)]
  PROVE  Acceptable("cd", inputs, CdVerdict(DeploymentResult(settled, TRUE)))
<1>1. \A view : Judgement(view) \notin DeploymentGaps
  BY DEF Judgement, DeploymentGaps
<1>2. \A s \in Services : settled[s] \notin DeploymentGaps
  BY <1>1 DEF Cut, DeploymentGaps
<1>3. Undeployed(settled) = {}
  BY <1>2 DEF Undeployed
<1>4. GapIsValid(Undeployed(settled), settled) /\ TRUE = (Undeployed(settled) = {})
  BY <1>3 DEF GapIsValid
<1>5. ImagesFit(inputs.images, inputs.deployment)
  BY DEF CdInputs
<1> QED
  BY <1>4, <1>5, DeploymentIsAcceptable

LEMMA FixedVerdicts ==
  \A name, given :
    /\ Acceptable(name, given, Undecided) /\ Acceptable(name, given, Exception)
    /\ Acceptable(name, given, ClusterError)
    /\ \A category : Acceptable(name, given, BuildFails(category))
    /\ \A err : Acceptable(name, given, ErrorVerdict(err))
BY FailureIsAcceptable
   DEF Undecided, Exception, ClusterError, NodesNotReady, BuildFails, ErrorVerdict, Verdict, Outcome

LEMMA CdAcceptedStep ==
  ASSUME KitInv, InputsInv, AcceptedInv, stage = "cd", CdNext,
         UNCHANGED << stage, mode, inputs >>
  PROVE  AcceptedInv'
<1> USE DEF Concludes, Continues
<1>i. inputs \in CdInputs
  BY DEF InputsInv
<1>d. exit' = "0" => Declared(verdict)' /\ ResponseIsValid(Response(verdict))'
  BY CdMoves, PublishedIsDeclared
<1>f. /\ Acceptable("cd", inputs, Undecided) /\ Acceptable("cd", inputs, Exception)
      /\ Acceptable("cd", inputs, ClusterError)
  BY FixedVerdicts
<1>k. ASSUME Acceptable("cd", inputs, verdict'),
             pc' = "delete" => Acceptable("cd", inputs, result')
      PROVE  AcceptedInv'
  BY <1>d, <1>k DEF AcceptedInv
<1>v. /\ Acceptable("cd", inputs, verdict)
      /\ pc = "delete" => Acceptable("cd", inputs, result)
  BY DEF AcceptedInv
<1>1. CASE ReportGap
  BY <1>1, <1>i, <1>k, GapsAreReported DEF ReportGap
<1>2. CASE FindKubectl \/ AskNodes \/ Sleep
  <2>1. verdict' \in {verdict, ClusterError} /\ pc' # "delete"
    BY <1>2 DEF FindKubectl, AskNodes, Sleep, NodesNotReady, ClusterError
  <2> QED
    BY <1>f, <1>k, <1>v, <2>1
<1>3. CASE CreateNamespace \/ ApplyManifest
  <2>1. verdict' = verdict /\ (pc' = "delete" => result' = ClusterError)
    BY <1>3 DEF CreateNamespace, ApplyManifest, Ends
  <2> QED
    BY <1>f, <1>k, <1>v, <2>1
<1>4. CASE PollPods
  <2>1. verdict' = verdict /\ (pc' = "delete" => result' \in {ClusterError, Exception})
    BY <1>4 DEF PollPods, Ends
  <2> QED
    BY <1>f, <1>k, <1>v, <2>1
<1>5. CASE SettleWindow
  BY <1>5, <1>k, <1>v DEF SettleWindow
<1>6. CASE JudgePods
  <2> DEFINE settled == [s \in Services |-> IF held THEN Judgement(pods[s])
                                                    ELSE Cut(Judgement(pods[s]), s)]
  <2>1. /\ verdict' = verdict /\ pc' = "delete"
        /\ result' \in {CdVerdict(DeploymentResult(settled, TRUE)), ClusterError, Exception}
    BY <1>6 DEF JudgePods, Ends
  <2>2. Acceptable("cd", inputs, CdVerdict(DeploymentResult(settled, TRUE)))
    BY <1>i, JudgedIsReported
  <2> HIDE DEF settled
  <2> QED
    BY <1>f, <1>k, <1>v, <2>1, <2>2
<1>7. CASE DeleteNamespace
  BY <1>7, <1>k, <1>v DEF DeleteNamespace, Raises, Exits
<1>8. CASE PodChanges \/ LateCreate \/ (KitNext /\ UNCHANGED cd)
  <2>1. UNCHANGED << verdict, result >> /\ (pc' = "delete" => pc = "delete")
    BY <1>8 DEF PodChanges, LateCreate, KitNext, Begin, Refuse, Publish, PublishRaises, Kill, Exits
  <2> QED
    BY <1>k, <1>v, <2>1
<1> QED
  BY <1>1, <1>2, <1>3, <1>4, <1>5, <1>6, <1>7, <1>8 DEF CdNext, CdBody

(* The result of the image build fits the placements it was asked for.     *)
LEMMA RecordedIsAcceptable ==
  ASSUME inputs \in BuildInputs, NEW kept,
         \A s \in Services : /\ kept[s].status \in {"none", "built", "build-failed", "work-limit"}
                             /\ Built(kept[s]) => kept[s].platforms = Requested(s)
  PROVE  Acceptable("image_build", inputs, Recorded(kept))
<1> DEFINE images == [s \in Services |-> IF s \in ToBuild THEN kept[s] ELSE Unplanned(s)]
           v == Recorded(kept)
<1>1. ASSUME NEW s \in Services
      PROVE  /\ Built(images[s]) =>
                  /\ inputs.deployment[s].resolved
                  /\ ArchitectureOf(inputs.deployment[s].host) \in images[s].platforms
             /\ images[s].status = "unresolved-placement" => ~ inputs.deployment[s].resolved
             /\ images[s].status \in {"no-recipe", "build-failed", "work-limit"}
                  => inputs.deployment[s].resolved
  <2>1. CASE s \in ToBuild
    <3>1. images[s] = kept[s] /\ inputs.deployment[s].resolved
      BY <2>1 DEF ToBuild
    <3>2. ArchitectureOf(inputs.deployment[s].host) \in Requested(s)
      BY <3>1 DEF BuildInputs, Requested
    <3> HIDE DEF images
    <3> QED
      BY <3>1, <3>2
  <2>2. CASE s \notin ToBuild
    <3>1. images[s] = Unplanned(s)
      BY <2>2
    <3> HIDE DEF images
    <3> QED
      BY <3>1 DEF Unplanned, FailedImage, Built
  <2> QED
    BY <2>1, <2>2
<1>2. ImagesFit(images, inputs.deployment)
  BY <1>1 DEF ImagesFit
<1>3. /\ DOMAIN v.documents = {"image_build_result"}
      /\ v.documents["image_build_result"] = images
      /\ v.outcome.outcome = "succeeded"
  BY DEF Recorded, Verdict, Outcome
<1> HIDE DEF images, v
<1>4. DomainOutputs("image_build") = {"image_build_result"}
      /\ RequiredEvidence("image_build") = {}
  BY DEF DomainOutputs, RequiredEvidence, Evidence
<1>5. DocumentsFit("image_build", v.outcome.outcome, v.documents, inputs)
  BY <1>2, <1>3, <1>4 DEF DocumentsFit, CheckImageBuild
<1>6. DocumentIsValid("image_build_result", images)
  BY DEF DocumentIsValid
<1>7. Acceptable("image_build", inputs, v)
  BY <1>3, <1>4, <1>5, <1>6 DEF Acceptable
<1> QED
  BY <1>7 DEF v

LEMMA BuildAcceptedStep ==
  ASSUME KitInv, InputsInv, BuildInv, AcceptedInv, stage = "image_build", BuildNext, RecordsInv',
         UNCHANGED << stage, mode, inputs >>
  PROVE  AcceptedInv'
<1> USE DEF Concludes, Continues
<1>i. inputs \in BuildInputs /\ RecordsInv
  BY DEF InputsInv, BuildInv
<1>d. exit' = "0" => Declared(verdict)' /\ ResponseIsValid(Response(verdict))'
  BY BuildMoves, PublishedIsDeclared
<1>f. \A category : Acceptable("image_build", inputs, BuildFails(category))
  BY FixedVerdicts
<1>r. \A s \in Services :
        /\ records[s].status \in {"none", "built", "build-failed", "work-limit"}
        /\ Built(records[s]) => records[s].platforms = Requested(s)
  BY <1>i DEF RecordsInv, AcceptedInv
<1>v. Acceptable("image_build", inputs, verdict)
  BY DEF AcceptedInv
<1>q. \A s \in Services : Requested(s)' = Requested(s)
  BY DEF Requested
<1>k. ASSUME Acceptable("image_build", inputs, verdict'),
             \A s \in Services : Built(records'[s]) => records'[s].platforms = Requested(s)
      PROVE  AcceptedInv'
  BY <1>d, <1>k, <1>q DEF AcceptedInv
<1>w. Acceptable("image_build", inputs, Recorded(records))
  BY <1>i, <1>r, RecordedIsAcceptable
<1>l. Acceptable("image_build", inputs, Recorded([s \in Services |-> FailedImage("work-limit")]))
  <2> DEFINE late == [s \in Services |-> FailedImage("work-limit")]
  <2>1. \A s \in Services : late[s].status = "work-limit"
    BY DEF FailedImage
  <2> HIDE DEF late
  <2>2. Acceptable("image_build", inputs, Recorded(late))
    BY <1>i, <2>1, RecordedIsAcceptable DEF Built
  <2> QED
    BY <2>2 DEF late
<1>p. ASSUME NEW s \in Services, Finish(s), UNCHANGED << client, pushed >>
      PROVE  \A r \in Services : Built(records'[r]) => records'[r].platforms = Requested(r)
  <2> DEFINE timeout == IF ReadCutoff - now < RegistryTimeout THEN ReadCutoff - now
                                                              ELSE RegistryTimeout
             reads == client[s] = "built" /\ Cardinality(Requested(s)) > 1 /\ timeout > 0
  <2>0. PICK record \in
          (IF client[s] # "built" THEN {FailedImage("build-failed")}
           ELSE IF reads THEN {IF pushed[s] = Requested(s) THEN BuiltImage(pushed[s])
                                                           ELSE FailedImage("build-failed"),
                               FailedImage("build-failed")}
           ELSE IF Cardinality(Requested(s)) > 1 THEN {FailedImage("work-limit")}
           ELSE {BuiltImage(Requested(s)), FailedImage("build-failed")}) :
          records' = [records EXCEPT ![s] = record]
    BY <1>p DEF Finish
  <2> HIDE DEF timeout, reads
  <2>1. Built(record) => record.platforms = Requested(s)
    BY <2>0 DEF Built, BuiltImage, FailedImage
  <2>2. \A r \in Services : records'[r] = IF r = s THEN record ELSE records[r]
    BY <1>i, <2>0 DEF RecordsInv
  <2> QED
    BY <1>r, <2>1, <2>2
<1>1. CASE CheckBuildInputs
  <2>1. verdict' \in {verdict, Recorded(records)} \cup {BuildFails("input")} /\ records' = records
    BY <1>1 DEF CheckBuildInputs
  <2> QED
    BY <1>f, <1>k, <1>r, <1>v, <1>w, <2>1
<1>2. CASE AskServices
  <2>1. verdict' \in {verdict, BuildFails("dependency")} /\ records' = records
    BY <1>2 DEF AskServices
  <2> QED
    BY <1>f, <1>k, <1>r, <1>v, <2>1
<1>3. CASE CheckDeadline
  <2>1. /\ verdict' \in {verdict, Recorded([s \in Services |-> FailedImage("work-limit")])}
        /\ records' = records
    BY <1>3 DEF CheckDeadline
  <2> QED
    BY <1>k, <1>l, <1>r, <1>v, <2>1
<1>4. CASE StartClient \/ BeginPass \/ PollSleep \/ StopUnfinished
  <2>1. UNCHANGED << verdict, records >>
    BY <1>4 DEF StartClient, BeginPass, PollSleep, StopUnfinished
  <2> QED
    BY <1>k, <1>r, <1>v, <2>1
<1>5. CASE Visit
  <2>1. UNCHANGED << verdict, client, pushed >>
    BY <1>5 DEF Visit
  <2>2. (\E s \in toVisit : Finish(s)) \/ UNCHANGED records
    BY <1>5 DEF Visit
  <2>3. toVisit \subseteq Services
    BY SameOrder DEF BuildInv, ClientsInv
  <2> QED
    BY <1>k, <1>p, <1>r, <1>v, <2>1, <2>2, <2>3
<1>6. CASE ReadFinished
  <2>1. UNCHANGED << verdict, client, pushed >>
    BY <1>6 DEF ReadFinished
  <2>2. toRead \subseteq Services
    BY SameOrder DEF BuildInv, ClientsInv
  <2>3. CASE \E s \in toRead : Finish(s)
    BY <1>k, <1>p, <1>v, <2>1, <2>2, <2>3
  <2>4. CASE records' = [s \in Services |-> IF s \in pending THEN FailedImage("work-limit")
                                                             ELSE records[s]]
    <3>1. \A s \in Services : records'[s] \in {records[s], FailedImage("work-limit")}
      BY <2>4
    <3>2. ~ Built(FailedImage("work-limit"))
      BY DEF Built, FailedImage
    <3> QED
      BY <1>k, <1>r, <1>v, <2>1, <3>1, <3>2
  <2> QED
    BY <1>6, <2>3, <2>4 DEF ReadFinished
<1>7. CASE StopRunning
  <2>1. verdict' \in {verdict, Recorded(records)} /\ records' = records
    BY <1>7 DEF StopRunning, Raises, Exits
  <2> QED
    BY <1>k, <1>r, <1>v, <1>w, <2>1
<1>8. CASE ClientExits \/ BuildKilled \/ ((Begin \/ Refuse \/ Publish \/ PublishRaises) /\ UNCHANGED build)
  <2>1. UNCHANGED << verdict, records >>
    BY <1>8 DEF ClientExits, BuildKilled, Begin, Refuse, Publish, PublishRaises, Kill
  <2> QED
    BY <1>k, <1>r, <1>v, <2>1
<1> QED
  BY <1>1, <1>2, <1>3, <1>4, <1>5, <1>6, <1>7, <1>8 DEF BuildNext, BuildBody

(* A judgement that is consistent fits the images it judges.               *)
LEMMA JudgementFits ==
  ASSUME NEW given, NEW participation, NEW mission, NEW digests, NEW judgement,
         judgement = Judged(participation, mission, digests),
         GapIsValid(Unjudged(participation), participation),
         (mission = "none") = (Unjudged(participation) # {}),
         \A s \in digests : "amd64" \in given.images[s].platforms
  PROVE  EvidenceFits(given, judgement.evidence)
<1>1. /\ judgement.evidence.services = participation
      /\ judgement.evidence.mission = mission
      /\ judgement.evidence.digests = digests
      /\ judgement.evidence.outcome = ValidationVerdict(participation, mission)
  BY DEF Judged
<1>2. ValidationIsValid(judgement.evidence)
  BY <1>1, Zenon DEF ValidationIsValid
<1> QED
  BY <1>1, <1>2 DEF EvidenceFits

(* A gap leaves every service unevaluated, and one of them for its own     *)
(* cause.                                                                  *)
LEMMA GapFits ==
  ASSUME NEW given, NEW participation, NEW digests, NEW judgement,
         judgement = Judged(participation, "none", digests),
         \A s \in Services : participation[s] \notin Participating \cup NonParticipating,
         \E s \in Services : participation[s] # "blocked",
         \A s \in digests : "amd64" \in given.images[s].platforms
  PROVE  EvidenceFits(given, judgement.evidence)
<1>1. Unjudged(participation) = Services /\ Services # {}
  BY DEF Unjudged
<1>2. GapIsValid(Unjudged(participation), participation)
  BY <1>1 DEF GapIsValid
<1>3. ("none" = "none") = (Unjudged(participation) # {})
  BY <1>1
<1> QED
  BY <1>2, <1>3, JudgementFits

LEMMA UnevaluatedFits ==
  ASSUME NEW given, NEW causes, DOMAIN causes \subseteq Services, DOMAIN causes # {},
         \A s \in DOMAIN causes : causes[s] \notin Participating \cup NonParticipating \cup {"blocked"}
  PROVE  EvidenceFits(given, Unevaluated(causes).evidence)
<1> DEFINE participation == [s \in Services |-> IF s \in DOMAIN causes THEN causes[s] ELSE "blocked"]
<1>1. \A s \in Services : participation[s] \notin Participating \cup NonParticipating
  BY DEF Participating, NonParticipating
<1>2. \E s \in Services : participation[s] # "blocked"
  OBVIOUS
<1>3. PICK judgement, digests : judgement = Unevaluated(causes) /\ digests = {}
  OBVIOUS
<1>4. judgement = Judged(participation, "none", digests)
  BY <1>3 DEF Unevaluated
<1> HIDE DEF participation
<1>5. \A s \in digests : "amd64" \in given.images[s].platforms
  BY <1>3
<1>6. EvidenceFits(given, judgement.evidence)
  BY <1>1, <1>2, <1>4, <1>5, GapFits
<1> QED
  BY <1>3, <1>6

(* What is read of a run that came to its end judges every service.        *)
LEMMA FinishedFits ==
  ASSUME AllFit, Finished, finding'.error = "none"
  PROVE  EvidenceFits(inputs, finding'.evidence)
<1>1. \A s \in Digests : "amd64" \in inputs.images[s].platforms
  BY DEF AllFit, Unfit, Digests
<1>2. ASSUME NEW mission \in {"completed", "failed"}, NEW heard,
             finding' = Judged([s \in Services |-> Participation(s, heard)], mission, Digests)
      PROVE  EvidenceFits(inputs, finding'.evidence)
  <2> DEFINE participation == [s \in Services |-> Participation(s, heard)]
  <2>1. \A s \in Services : participation[s] \in Participating \cup NonParticipating
    BY DEF Participation, Participating, NonParticipating
  <2>2. Unjudged(participation) = {}
    BY <2>1 DEF Unjudged
  <2>3. GapIsValid(Unjudged(participation), participation)
    BY <2>2 DEF GapIsValid
  <2>4. (mission = "none") = (Unjudged(participation) # {})
    BY <2>2
  <2> HIDE DEF participation
  <2>5. finding' = Judged(participation, mission, Digests)
    BY <1>2 DEF participation
  <2> QED
    BY <1>1, <2>3, <2>4, <2>5, JudgementFits
<1>3. ASSUME NEW causes \in SUBSET Services, causes # {},
             finding' = Judged([s \in Services |-> IF s \in causes THEN "unloadable-type"
                                                                  ELSE "blocked"],
                               "none", Digests)
      PROVE  EvidenceFits(inputs, finding'.evidence)
  <2> DEFINE participation == [s \in Services |-> IF s \in causes THEN "unloadable-type"
                                                                  ELSE "blocked"]
  <2>1. \A s \in Services : participation[s] \notin Participating \cup NonParticipating
    BY DEF Participating, NonParticipating
  <2>2. \E s \in Services : participation[s] # "blocked"
    BY <1>3
  <2> HIDE DEF participation
  <2>3. finding' = Judged(participation, "none", Digests)
    BY <1>3 DEF participation
  <2> QED
    BY <1>1, <2>1, <2>2, <2>3, GapFits
<1>4. CASE \E mission \in {"completed", "failed"}, heard \in SUBSET (Audible \cap CountingTopics) :
             finding' = Judged([s \in Services |-> Participation(s, heard)], mission, Digests)
  BY <1>2, <1>4
<1>5. ASSUME NEW unloadable \in SUBSET CountingTopics, NEW causes,
             causes = {s \in Services : ~ Loosened(s) /\ Counting(s) \cap unloadable # {}},
             finding' = IF causes = {} THEN CvError("invalid-result")
                        ELSE Judged([s \in Services |-> IF s \in causes THEN "unloadable-type"
                                                                       ELSE "blocked"],
                                    "none", Digests)
      PROVE  EvidenceFits(inputs, finding'.evidence)
  <2>1. causes # {}
    BY <1>5 DEF CvError
  <2> QED
    BY <1>3, <1>5, <2>1
<1>6. CASE \E unloadable \in SUBSET CountingTopics :
       LET causes == {s \in Services : ~ Loosened(s) /\ Counting(s) \cap unloadable # {}}
       IN  finding' = IF causes = {} THEN CvError("invalid-result")
                      ELSE Judged([s \in Services |-> IF s \in causes THEN "unloadable-type"
                                                                     ELSE "blocked"],
                                  "none", Digests)
  BY <1>5, <1>6
<1> QED
  BY <1>4, <1>6 DEF Finished

LEMMA CvAcceptedStep ==
  ASSUME KitInv, InputsInv, AcceptedInv, stage = "cv", CvNext, UNCHANGED << stage, mode, inputs >>
  PROVE  AcceptedInv'
<1> USE DEF Concludes, Continues
<1>i. inputs \in CvInputs /\ ImagesFit(inputs.images, inputs.deployment)
  BY DEF InputsInv, CvInputs
<1>d. exit' = "0" => Declared(verdict)' /\ ResponseIsValid(Response(verdict))'
  BY CvMoves, PublishedIsDeclared
<1>e. \A err : CvError(err).error = err
  BY DEF CvError
<1>f. \A err : Acceptable("cv", inputs, ErrorVerdict(err))
  BY FixedVerdicts
<1>v. /\ Acceptable("cv", inputs, verdict)
      /\ pc \notin {"start", "body"} \cup Ended => AllFit
      /\ finding.error = "none" => EvidenceFits(inputs, finding.evidence)
  BY DEF AcceptedInv
<1>a. AllFit' = AllFit
  BY DEF AllFit, Unfit, Counting
<1>k. ASSUME Acceptable("cv", inputs, verdict'),
             pc' \notin {"start", "body"} \cup Ended => AllFit,
             finding'.error = "none" => EvidenceFits(inputs, finding'.evidence)
      PROVE  AcceptedInv'
  <2>1. pc' \notin {"start", "body"} \cup Ended' => AllFit'
    BY <1>a, <1>k DEF Ended
  <2> QED
    BY <1>d, <1>k, <2>1 DEF AcceptedInv
<1>1. CASE Declare
  <2>1. finding' = finding
    BY <1>1 DEF Declare
  <2>2. CASE ~ inputs.sameRepository \/ ~ inputs.knownRobot
    BY <1>1, <1>f, <1>k, <1>v, <2>1, <2>2 DEF Declare, Ended
  <2>3. CASE inputs.sameRepository /\ inputs.knownRobot /\ AllFit
    BY <1>1, <1>k, <1>v, <2>1, <2>3 DEF Declare
  <2>4. CASE inputs.sameRepository /\ inputs.knownRobot /\ ~ AllFit
    <3> DEFINE causes == [s \in {t \in Services : Unfit(t) # "fit"} |-> Unfit(s)]
               evidence == Unevaluated(causes).evidence
    <3>1. DOMAIN causes \subseteq Services /\ DOMAIN causes # {}
      BY <2>4 DEF AllFit
    <3>2. \A s \in DOMAIN causes :
            causes[s] \notin Participating \cup NonParticipating \cup {"blocked"}
      BY DEF Unfit, Participating, NonParticipating
    <3>3. EvidenceFits(inputs, evidence)
      BY <3>1, <3>2, UnevaluatedFits
    <3>4. pc' = "publish" /\ verdict' = CvVerdict(evidence, FALSE)
      BY <1>1, <2>4 DEF Declare
    <3> HIDE DEF evidence
    <3>5. Acceptable("cv", inputs, verdict')
      BY <1>i, <3>3, <3>4, ValidationIsAcceptable
    <3> QED
      BY <1>k, <1>v, <2>1, <3>4, <3>5 DEF Ended
  <2> QED
    BY <2>2, <2>3, <2>4
<1>2. CASE Prepare
  <2>1. UNCHANGED verdict /\ AllFit
    BY <1>2, <1>v DEF Prepare, Comes, Ended
  <2>2. ASSUME NEW pull \in [Services -> PullOutcomes], NEW blocked,
               blocked = {s \in Services : pull[s] # "pulled"}, blocked # {},
               finding' = Unevaluated([s \in blocked |-> pull[s]])
        PROVE  EvidenceFits(inputs, finding'.evidence)
    <3> DEFINE causes == [s \in blocked |-> pull[s]]
    <3>1. DOMAIN causes \subseteq Services /\ DOMAIN causes # {}
      BY <2>2
    <3>2. \A s \in DOMAIN causes :
            causes[s] \notin Participating \cup NonParticipating \cup {"blocked"}
      BY <2>2 DEF PullOutcomes, Participating, NonParticipating
    <3> QED
      BY <2>2, <3>1, <3>2, UnevaluatedFits
  <2>3. ASSUME NEW pull \in [Services -> PullOutcomes], NEW blocked,
               blocked = {s \in Services : pull[s] # "pulled"},
               CASE blocked # {} -> Comes(Unevaluated([s \in blocked |-> pull[s]]))
                 [] blocked = {} /\ now' >= CvDeadline -> Comes(CvError("no-time-to-start"))
                 [] OTHER -> Continues("sim") /\ UNCHANGED finding
        PROVE  finding'.error = "none" => EvidenceFits(inputs, finding'.evidence)
    <3>1. CASE blocked # {}
      <4>1. Comes(Unevaluated([s \in blocked |-> pull[s]]))
        BY <2>3, <3>1
      <4> QED
        BY <2>2, <2>3, <3>1, <4>1 DEF Comes
    <3>2. CASE blocked = {}
      BY <1>e, <1>v, <2>3, <3>2 DEF Comes
    <3> QED
      BY <3>1, <3>2
  <2>4. ASSUME NEW err \in {"sim-build-failed", "pull-failed"}, Comes(CvError(err))
        PROVE  finding'.error # "none"
    BY <1>e, <2>4 DEF Comes
  <2>5. finding'.error = "none" => EvidenceFits(inputs, finding'.evidence)
    BY <1>2, <2>3, <2>4 DEF Prepare
  <2> QED
    BY <1>k, <1>v, <2>1, <2>5
<1>3. CASE ReadResult
  <2>1. UNCHANGED verdict /\ AllFit
    BY <1>3, <1>v DEF ReadResult, Lost, Comes, Ended
  <2>2. Finished \/ finding'.error # "none"
    BY <1>3, <1>e DEF ReadResult, Lost, Comes
  <2>3. finding'.error = "none" => EvidenceFits(inputs, finding'.evidence)
    BY <2>1, <2>2, FinishedFits
  <2> QED
    BY <1>k, <1>v, <2>1, <2>3
<1>4. CASE StartSim \/ StartOrchestrator \/ StartPlacement
  BY <1>4, <1>e, <1>k, <1>v
     DEF StartSim, StartOrchestrator, StartRequired, StartPlacement, Comes, Ended
<1>5. CASE CleanUp \/ Wait \/ ReadSim \/ ReadPlacement \/ ReadRecording
  BY <1>5, <1>e, <1>k, <1>v
     DEF CleanUp, Wait, ReadSim, ReadPlacement, ReadRecording, Lost, Comes, Ended
<1>6. CASE Teardown
  <2>1. pc' \in Ended
    BY <1>6 DEF Teardown, Raises, Exits, Ended
  <2>2. \/ verdict' = verdict
        \/ finding.error = "none" /\ verdict' = CvVerdict(finding.evidence, recording)
        \/ \E err : verdict' = ErrorVerdict(err)
    BY <1>6 DEF Teardown, Raises
  <2>3. Acceptable("cv", inputs, verdict')
    BY <1>f, <1>i, <1>v, <2>2, ValidationIsAcceptable
  <2>4. finding' = finding \/ finding'.error # "none"
    BY <1>6, <1>e DEF Teardown
  <2> QED
    BY <1>k, <1>v, <2>1, <2>3, <2>4 DEF Ended
<1>7. CASE ContainerExits \/ ServiceSends \/ LateStart
  BY <1>7, <1>k, <1>v DEF ContainerExits, ServiceSends, LateStart
<1>8. CASE KitNext /\ UNCHANGED cv
  <2>1. UNCHANGED << verdict, finding >> /\ pc' \in {"body"} \cup Ended
    BY <1>8 DEF KitNext, Begin, Refuse, Publish, PublishRaises, Kill, Exits, Ended
  <2> QED
    BY <1>k, <1>v, <2>1
<1> QED
  BY <1>1, <1>2, <1>3, <1>4, <1>5, <1>6, <1>7, <1>8 DEF CvNext, CvBody

(* The documents of a proposal hold together, and a rejection has evidence *)
(* only.                                                                   *)
LEMMA PreferredIsAcceptable ==
  ASSUME NEW given, NEW proposal, BlueprintIsValid(Blueprint(proposal))
  PROVE  Acceptable("composition", given,
                    Verdict(CompositionOutcome("preferred-proposal"), PreferredDocuments(proposal), {}))
<1> DEFINE documents == PreferredDocuments(proposal)
           v == Verdict(CompositionOutcome("preferred-proposal"), documents, {})
<1>1. DomainOutputs("composition") = {"composition_blueprint", "deployment_schema"}
      /\ Evidence("composition") = {"composition_evidence"}
      /\ RequiredEvidence("composition") = {}
  BY DEF DomainOutputs, Evidence, RequiredEvidence
<1>2. /\ DOMAIN documents = {"composition_blueprint", "deployment_schema", "composition_evidence"}
      /\ documents["composition_blueprint"] = Blueprint(proposal)
      /\ documents["deployment_schema"] = DeploymentOf(proposal)
  BY <1>1 DEF PreferredDocuments
<1>3. DOMAIN DeploymentOf(proposal) = Blueprint(proposal).services
  BY DEF DeploymentOf, Blueprint
<1>4. v.documents = documents /\ v.outcome.outcome = "succeeded"
  BY DEF Verdict, CompositionOutcome, Outcome, Rejections, InputFailures
<1> HIDE DEF documents
<1>5. \A slot \in DOMAIN documents : DocumentIsValid(slot, documents[slot])
  BY <1>2 DEF DocumentIsValid
<1>6. CheckComposition("succeeded", documents)
  BY <1>2, <1>3 DEF CheckComposition, CompositionFits
<1>7. DocumentsFit("composition", "succeeded", documents, given)
  BY <1>1, <1>6 DEF DocumentsFit
<1> HIDE DEF v
<1>8. Acceptable("composition", given, v)
  BY <1>1, <1>2, <1>4, <1>5, <1>7 DEF Acceptable
<1> QED
  BY <1>8 DEF v, documents

LEMMA RejectionIsAcceptable ==
  ASSUME NEW given, NEW of \in Rejections
  PROVE  Acceptable("composition", given, Verdict(CompositionOutcome(of), CompositionEvidence, {}))
<1> DEFINE v == Verdict(CompositionOutcome(of), CompositionEvidence, {})
<1>1. v.documents = CompositionEvidence /\ v.outcome.outcome = "failed"
  BY DEF Verdict, CompositionOutcome, Outcome, Rejections, InputFailures
<1>2. DOMAIN CompositionEvidence = {"composition_evidence"}
  BY DEF CompositionEvidence
<1>3. /\ DomainOutputs("composition") = {"composition_blueprint", "deployment_schema"}
      /\ RequiredEvidence("composition") = {}
  BY DEF DomainOutputs, RequiredEvidence, Evidence
<1>4. DocumentsFit("composition", "failed", CompositionEvidence, given)
  BY <1>2, <1>3 DEF DocumentsFit, CheckComposition
<1>5. \A slot \in DOMAIN CompositionEvidence : DocumentIsValid(slot, CompositionEvidence[slot])
  BY <1>2 DEF DocumentIsValid
<1> HIDE DEF v
<1>6. Acceptable("composition", given, v)
  BY <1>1, <1>2, <1>3, <1>4, <1>5 DEF Acceptable
<1> QED
  BY <1>6 DEF v

(* What composition cannot do is a failed execution.                       *)
LEMMA CompositionFailureIsAcceptable ==
  ASSUME NEW given, NEW of, of # "preferred-proposal", of \notin Rejections
  PROVE  Acceptable("composition", given, Verdict(CompositionOutcome(of), NoDocuments, {}))
BY FailureIsAcceptable DEF Verdict, CompositionOutcome, Outcome

LEMMA CompositionAcceptedStep ==
  ASSUME KitInv, AcceptedInv, stage = "composition", CompositionNext,
         UNCHANGED << stage, mode, inputs >>
  PROVE  AcceptedInv'
<1> USE DEF Concludes, Continues
<1>d. exit' = "0" => Declared(verdict)' /\ ResponseIsValid(Response(verdict))'
  BY CompositionMoves, PublishedIsDeclared
<1>v. Acceptable("composition", inputs, verdict)
  BY DEF AcceptedInv
<1>k. ASSUME Acceptable("composition", inputs, verdict') PROVE AcceptedInv'
  BY <1>d, <1>k DEF AcceptedInv
<1>f. ASSUME NEW of, of # "preferred-proposal", of \notin Rejections,
             Composes(of, NoDocuments)
      PROVE  AcceptedInv'
  BY <1>f, <1>k, CompositionFailureIsAcceptable DEF Composes
<1>r. ASSUME NEW of \in Rejections, Composes(of, CompositionEvidence)
      PROVE  AcceptedInv'
  BY <1>r, <1>k, RejectionIsAcceptable DEF Composes
<1>u. ASSUME UNCHANGED verdict PROVE AcceptedInv'
  BY <1>k, <1>u, <1>v
<1>1. CASE ReadDescriptions
  BY <1>1, <1>f, <1>u DEF ReadDescriptions, Rejections
<1>2. CASE Embeds \/ Admits \/ Traces
  BY <1>2, <1>u DEF Embeds, Admits, Traces
<1>3. CASE Discovers
  <2>1. D!StopReason(discovery) \notin Rejections \cup {"preferred-proposal"}
    BY DEF D!StopReason, Rejections
  <2>2. \/ Composes("dense-discovery-unavailable", NoDocuments)
        \/ Composes(D!StopReason(discovery), NoDocuments)
        \/ UNCHANGED verdict
    BY <1>3 DEF Discovers
  <2>3. "dense-discovery-unavailable" \notin Rejections \cup {"preferred-proposal"}
    BY DEF Rejections
  <2> QED
    BY <1>f, <1>u, <2>1, <2>2, <2>3
<1>4. CASE Generate
  <2>1. \/ \E failure \in {"generation-invalid", "generation-refused", "provider-error"} :
             Composes(failure, NoDocuments)
        \/ Composes("bounded-no-result", CompositionEvidence)
        \/ UNCHANGED verdict
    BY <1>4 DEF Generate
  <2>2. /\ {"generation-invalid", "generation-refused", "provider-error"}
             \cap (Rejections \cup {"preferred-proposal"}) = {}
        /\ "bounded-no-result" \in Rejections
    BY DEF Rejections
  <2> QED
    BY <1>f, <1>r, <1>u, <2>1, <2>2
<1>5. CASE Compose
  <2> DEFINE best == Preferred(assessed)
  <2>1. CASE best = 0
    <3>1. AssessmentOutcome(assessed) \in Rejections
      BY <2>1 DEF AssessmentOutcome, Rejections
    <3>2. Composes(AssessmentOutcome(assessed), CompositionEvidence)
      BY <1>5, <2>1 DEF Compose
    <3> QED
      BY <1>r, <3>1, <3>2
  <2>2. CASE best # 0 /\ BlueprintIsValid(Blueprint(assessed[best]))
    <3>1. Composes("preferred-proposal", PreferredDocuments(assessed[best]))
      BY <1>5, <2>2 DEF Compose
    <3> HIDE DEF best
    <3> QED
      BY <1>k, <2>2, <3>1, PreferredIsAcceptable DEF Composes
  <2>3. CASE best # 0 /\ ~ BlueprintIsValid(Blueprint(assessed[best]))
    BY <1>5, <1>u, <2>3 DEF Compose, Raises
  <2> QED
    BY <2>1, <2>2, <2>3
<1>6. CASE KitNext /\ UNCHANGED composing
  BY <1>6, <1>u DEF KitNext, Begin, Refuse, Publish, PublishRaises, Kill
<1> QED
  BY <1>1, <1>2, <1>3, <1>4, <1>5, <1>6 DEF CompositionNext, CompositionBody

(* A step that only stutters keeps what is acceptable.                     *)
LEMMA AcceptedStep ==
  ASSUME AdaptersInv, [Next]_vars, RecordsInv'
  PROVE  AcceptedInv'
<1>0. UNCHANGED << stage, mode, inputs >>
  BY Moves
<1>1. CASE stage = "cd" /\ CdNext
  BY <1>0, <1>1, CdAcceptedStep DEF AdaptersInv
<1>2. CASE stage = "image_build" /\ BuildNext
  BY <1>0, <1>2, BuildAcceptedStep DEF AdaptersInv
<1>3. CASE stage = "cv" /\ CvNext
  BY <1>0, <1>3, CvAcceptedStep DEF AdaptersInv
<1>4. CASE stage = "composition" /\ CompositionNext
  BY <1>0, <1>4, CompositionAcceptedStep DEF AdaptersInv
<1>5. CASE UNCHANGED vars
  <2>1. /\ exit' = exit /\ Declared(verdict)' = Declared(verdict)
        /\ ResponseIsValid(Response(verdict))' = ResponseIsValid(Response(verdict))
        /\ AllFit' = AllFit /\ \A s \in Services : Requested(s)' = Requested(s)
    BY <1>5 DEF vars, kit, Declared, Response, AllFit, Unfit, Counting, Requested
  <2> QED
    BY <1>5, <2>1 DEF vars, kit, cd, build, cv, AdaptersInv, AcceptedInv, Ended
<1> QED
  BY <1>1, <1>2, <1>3, <1>4, <1>5 DEF Next

-----------------------------------------------------------------------------
(* The adapters together.  What is not of the Stage of the attempt is left *)
(* alone.                                                                  *)

LEMMA CdRests ==
  ASSUME CdInv, UNCHANGED << stage, cd >>, stage # "cd" \/ UNCHANGED kit
  PROVE  CdInv'
<1>1. CdTimeInv'
  BY DEF CdInv, CdTimeInv, Fits
<1>2. NamespaceInv'
  BY DEF CdInv, NamespaceInv, Untouched, NamespaceIsDeleted
<1>3. PodsInv'
  BY DEF CdInv, PodsInv, Earned, DeployedIsEarned
<1> QED
  BY <1>1, <1>2, <1>3 DEF CdInv

LEMMA BuildRests ==
  ASSUME BuildInv, UNCHANGED << stage, inputs, build >>, stage # "image_build" \/ UNCHANGED kit
  PROVE  BuildInv'
<1>1. ClientsInv'
  <2>1. ToBuild' = ToBuild
    BY DEF ToBuild
  <2> QED
    BY <2>1 DEF BuildInv, ClientsInv, Quiet
<1>2. BuildTimeInv'
  BY DEF BuildInv, BuildTimeInv
<1>3. RecordsInv'
  <2>1. \A s \in Services : Requested(s)' = Requested(s)
    BY DEF Requested
  <2>2. ImageRecordsAreTrue'
    <3>1. CASE UNCHANGED kit
      BY <3>1 DEF BuildInv, RecordsInv, ImageRecordsAreTrue
    <3>2. CASE stage # "image_build"
      <4>1. \A s \in Services : records'[s].status = "none"
        BY <3>2 DEF BuildInv, RecordsInv
      <4> QED
        BY <4>1 DEF ImageRecordsAreTrue, Built
    <3> QED
      BY <3>1, <3>2
  <2> QED
    BY <2>1, <2>2 DEF BuildInv, RecordsInv
<1> QED
  BY <1>1, <1>2, <1>3 DEF BuildInv

LEMMA CvRests ==
  ASSUME CvInv, UNCHANGED << stage, inputs, cv >>, stage # "cv" \/ UNCHANGED kit
  PROVE  CvInv'
<1>0. Standing' = Standing /\ Late' = Late
  BY DEF Standing, Late, Containers
<1>1. ContainersInv'
  BY <1>0 DEF CvInv, ContainersInv, RunsDoNotMix, Lone, Containers
<1>2. AliveInv'
  <2>1. Observed' = Observed
    BY <1>0 DEF Observed
  <2> QED
    BY <2>1 DEF CvInv, AliveInv, Containers
<1>3. ParticipationIsEarned'
  BY DEF CvInv, ParticipationIsEarned
<1> QED
  BY <1>1, <1>2, <1>3 DEF CvInv

LEMMA CompositionRests ==
  ASSUME CompositionInv, UNCHANGED << stage, inputs, composing >>,
         stage # "composition" \/ UNCHANGED kit
  PROVE  CompositionInv'
<1>1. PlacesInv'
  BY PlacesStep DEF CompositionInv
<1>2. DiscoveryInv'
  <2>1. CASE stage # "composition"
    BY <2>1 DEF DiscoveryInv
  <2>2. CASE UNCHANGED kit
    BY <2>2, DiscoveryRests DEF CompositionInv
  <2> QED
    BY <2>1, <2>2
<1>3. BlueprintInv'
  <2>1. CASE stage # "composition"
    <3>1. code = "none"
      BY <2>1 DEF CompositionInv, BlueprintInv
    <3> QED
      BY <2>1, <3>1, BlueprintRests DEF CompositionInv
  <2>2. CASE UNCHANGED kit
    BY <2>2, BlueprintRests DEF CompositionInv
  <2> QED
    BY <2>1, <2>2
<1> QED
  BY <1>1, <1>2, <1>3 DEF CompositionInv

LEMMA AdaptersStep == AdaptersInv /\ [Next]_vars => AdaptersInv'
<1> SUFFICES ASSUME AdaptersInv, [Next]_vars PROVE AdaptersInv'
  OBVIOUS
<1>1. UNCHANGED << stage, mode, inputs >>
  BY Moves
<1>2. KitInv' /\ InputsInv'
  BY KitStep DEF AdaptersInv
<1>3. CompositionInv'
  <2>1. CASE stage = "composition" /\ CompositionNext
    BY <1>1, <2>1, PlacesStep, DiscoveryStep, BlueprintStep DEF AdaptersInv, CompositionInv
  <2>2. CASE ~ (stage = "composition" /\ CompositionNext)
    BY <1>1, <2>2, CompositionRests DEF AdaptersInv, Next
  <2> QED
    BY <2>1, <2>2
<1>4. CdInv'
  <2>1. CASE stage = "cd" /\ CdNext
    BY <1>1, <2>1, CdTimeStep, NamespaceStep, PodsStep DEF AdaptersInv, CdInv
  <2>2. CASE ~ (stage = "cd" /\ CdNext)
    BY <1>1, <2>2, CdRests DEF AdaptersInv, Next
  <2> QED
    BY <2>1, <2>2
<1>5. BuildInv'
  <2>1. CASE stage = "image_build" /\ BuildNext
    <3>1. ClientsInv'
      BY <1>1, <2>1, ClientsStep DEF AdaptersInv, BuildInv
    <3>2. BuildTimeInv'
      BY <1>1, <2>1, <3>1, BuildTimeStep DEF AdaptersInv, BuildInv
    <3>3. RecordsInv'
      BY <1>1, <2>1, RecordsStep DEF AdaptersInv, BuildInv
    <3> QED
      BY <3>1, <3>2, <3>3 DEF BuildInv
  <2>2. CASE ~ (stage = "image_build" /\ BuildNext)
    BY <1>1, <2>2, BuildRests DEF AdaptersInv, Next
  <2> QED
    BY <2>1, <2>2
<1>6. CvInv'
  <2>1. CASE stage = "cv" /\ CvNext
    BY <1>1, <2>1, ContainersStep, AliveStep, ParticipationStep DEF AdaptersInv, CvInv
  <2>2. CASE ~ (stage = "cv" /\ CvNext)
    BY <1>1, <2>2, CvRests DEF AdaptersInv, Next
  <2> QED
    BY <2>1, <2>2
<1>7. AcceptedInv'
  BY <1>5, AcceptedStep DEF BuildInv
<1> QED
  BY <1>2, <1>3, <1>4, <1>5, <1>6, <1>7 DEF AdaptersInv

LEMMA AdaptersStart == Init => AdaptersInv
<1> SUFFICES ASSUME Init PROVE AdaptersInv
  OBVIOUS
<1>1. KitInv /\ InputsInv
  BY KitStart
<1>2. /\ pc = "start" /\ now = 0 /\ verdict = Undecided /\ exit = "none"
      /\ CdIdle /\ BuildIdle /\ CvIdle /\ CompositionIdle
  BY DEF Init, KitInit
<1>3. CompositionInv
  <2>1. PlacesInv
    BY <1>2 DEF PlacesInv, CompositionPlaces
  <2>2. DiscoveryInv
    <3>1. discovery = [selected |-> {}, used |-> 0, overBudget |-> {}, unexpanded |-> {}]
          /\ discovery = D!NothingSelected /\ agenda = <<>>
      BY <1>2 DEF CompositionIdle, D!NothingSelected
    <3>2. stage = "composition" => inputs.budget \in Nat
      BY <1>1 DEF InputsInv, CompositionInputs
    <3>3. agenda \in Seq(Entry)
      BY <3>1
    <3> QED
      BY <3>1, <3>2, <3>3, Empty DEF DiscoveryInv
  <2>3. BlueprintInv
    BY <1>2 DEF CompositionIdle, BlueprintInv, BlueprintIsGrounded, Ended
  <2> QED
    BY <2>1, <2>2, <2>3 DEF CompositionInv
<1>4. CdInv
  <2>1. CdTimeInv
    BY <1>2, CdNumbers, CdTimes DEF CdTimeInv, Fits, CdPlaces, CdDeadline
  <2>2. NamespaceInv
    BY <1>2 DEF CdIdle, NamespaceInv, Untouched, NamespaceIsDeleted
  <2>3. PodsInv
    <3>1. Undecided.outcome.outcome = "none"
      BY DEF Undecided, Verdict, Outcome
    <3>2. pods \in [Services -> Views] /\ exited = {} /\ pods = [s \in Services |-> "absent"]
      BY <1>2 DEF CdIdle, Views
    <3>3. exited = {s \in Services : pods[s] \in {"CrashLoopBackOff", "restarted"}}
      BY <3>2
    <3> QED
      BY <1>2, <3>1, <3>2, <3>3 DEF CdIdle, PodsInv, DeployedIsEarned
  <2> QED
    BY <2>1, <2>2, <2>3 DEF CdInv
<1>5. BuildInv
  <2>1. ClientsInv
    BY <1>2 DEF BuildIdle, ClientsInv, Quiet, BuildPlaces, Clientless
  <2>2. BuildTimeInv
    <3>1. ServicesFit => BuildDeadline >= 0
      <4>1. 1 + ReadWaits \in Nat /\ RegistryTimeout \in Nat /\ BuildDeadline \in Int
        BY BuildNumbers
      <4>2. \A a, b \in Nat : a * b >= 0
        OBVIOUS
      <4>3. (1 + ReadWaits) * RegistryTimeout >= 0 /\ (1 + ReadWaits) * RegistryTimeout \in Int
        BY <4>1, <4>2
      <4> QED
        BY <4>1, <4>3 DEF ServicesFit
    <3>2. ServicesFit => 0 <= BuildLimit - PublishReserve + BuildPoll + Overrun
      BY <3>1, BuildNumbers
    <3> QED
      BY <1>2, <3>2 DEF BuildTimeInv, BuildFits
  <2>3. RecordsInv
    <3>1. \A s \in Services : records[s].status = "none"
      BY <1>2 DEF BuildIdle, FailedImage
    <3> QED
      BY <1>2, <3>1 DEF BuildIdle, RecordsInv, ImageRecordsAreTrue, FailedImage, Built
  <2> QED
    BY <2>1, <2>2, <2>3 DEF BuildInv
<1>6. CvInv
  <2>1. Standing = {} /\ Late = {}
    BY <1>2 DEF CvIdle, Standing, Late
  <2>2. ContainersInv
    BY <1>2, <2>1 DEF CvIdle, ContainersInv, RunsDoNotMix, Lone, CvPlaces, Running, Ended
  <2>3. AliveInv
    BY <1>2 DEF CvIdle, AliveInv, Running, NoFinding, CvError
  <2>4. ParticipationIsEarned
    BY <1>2 DEF CvIdle, ParticipationIsEarned, NoFinding, CvError
  <2> QED
    BY <2>2, <2>3, <2>4 DEF CvInv
<1>7. AcceptedInv
  <2>1. Acceptable(stage, inputs, verdict)
    BY <1>2, FixedVerdicts
  <2>2. \A s \in Services : ~ Built(records[s])
    BY <1>2 DEF BuildIdle, FailedImage, Built
  <2>3. finding.error # "none"
    BY <1>2 DEF CvIdle, NoFinding, CvError
  <2> QED
    BY <1>2, <2>1, <2>2, <2>3 DEF AcceptedInv
<1> QED
  BY <1>1, <1>3, <1>4, <1>5, <1>6, <1>7 DEF AdaptersInv

(* The invariant: what each adapter has taken up it will take down, has    *)
(* time for, has earned, and has put into a form the runtime accepts.      *)
THEOREM AdaptersAlways == Spec => []AdaptersInv
BY AdaptersStart, AdaptersStep, PTL DEF Spec

(* The containers of one run never stand beside those of an earlier run.   *)
THEOREM OneRunAtATime == Spec => []RunsDoNotMix
<1>1. AdaptersInv => RunsDoNotMix
  BY DEF AdaptersInv, CvInv, ContainersInv
<1> QED
  BY <1>1, AdaptersAlways, PTL

LEMMA AtMostOne ==
  ASSUME NEW S, Lone(S)
  PROVE  Cardinality(S) <= 1
<1>1. CASE S = {}
  BY <1>1, FS_EmptySet
<1>2. ASSUME NEW c \in S PROVE Cardinality(S) <= 1
  <2>1. S = {c}
    BY <1>2 DEF Lone
  <2> QED
    BY <2>1, FS_Singleton
<1> QED
  BY <1>1, <1>2

(* An adapter that ended by itself has taken down its namespace, its       *)
(* buildctl clients and the containers of its run.                         *)
THEOREM EverythingIsTakenDown == Spec => []NothingStaysBehind
<1>1. AdaptersInv => NothingStaysBehind
  <2> SUFFICES ASSUME AdaptersInv PROVE NothingStaysBehind
    OBVIOUS
  <2>1. NamespaceIsDeleted
    BY DEF AdaptersInv, CdInv, NamespaceInv
  <2>2. ClientsAreStopped
    <3>1. exit # "none" => pc = "done"
      BY DEF AdaptersInv, KitInv
    <3> QED
      BY <3>1 DEF AdaptersInv, BuildInv, ClientsInv, Quiet, Clientless, Ended, ClientsAreStopped
  <2>3. OwnContainersAreRemoved
    <3> SUFFICES ASSUME pc \in {"publish", "done"}, exit # "killed",
                        finding.error \notin {"raised", "engine-unreachable"}
                 PROVE  Cardinality(Standing)
                          <= (IF finding.error = "start-failed" THEN 1 ELSE 0)
      BY DEF OwnContainersAreRemoved, Standing
    <3>1. IF finding.error = "start-failed" THEN Lone(Standing) ELSE Standing = {}
      BY DEF AdaptersInv, CvInv, ContainersInv, Lone, NoFinding, CvError, Ended
    <3> QED
      BY <3>1, AtMostOne, FS_EmptySet
  <2> QED
    BY <2>1, <2>2, <2>3 DEF NothingStaysBehind
<1> QED
  BY <1>1, AdaptersAlways, PTL

(* The adapters leave the time they reserve for teardown and publishing.   *)
THEOREM ReservesAlwaysKept == Spec => []ReservesAreKept
<1>1. AdaptersInv => ReservesAreKept
  <2> SUFFICES ASSUME AdaptersInv PROVE ReservesAreKept
    OBVIOUS
  <2>1. CdKeepsItsTime
    <3>1. pc \in {"create", "apply", "delete"} => stage = "cd"
      BY DEF AdaptersInv, KitInv, StageNames, CompositionInv, PlacesInv,
             CompositionPlaces, BuildInv, ClientsInv,
             BuildPlaces, CvInv, ContainersInv, CvPlaces, Ended
    <3>2. stage = "cd" => Fits(pc, now)
      BY DEF AdaptersInv, CdInv, CdTimeInv
    <3>3. \A t \in Nat : Fits("create", t) => CdDeadline - t >= 2 * KubectlTimeout
      BY CdNumbers, CdTimes DEF Fits
    <3>4. \A t \in Nat : Fits("apply", t) => CdDeadline - t >= KubectlTimeout
      BY CdNumbers DEF Fits
    <3>5. \A t \in Nat : Fits("delete", t) => CdLimit - t >= KubectlTimeout + EvidenceTime
      BY CdNumbers DEF Fits
    <3>6. \A p : \A t \in Nat : Fits(p, t) => t <= CdLimit - EvidenceTime
      BY CdNumbers DEF Fits
    <3>7. stage = "cd" => now \in Nat
      BY <3>2 DEF Fits
    <3> QED
      BY <3>1, <3>2, <3>3, <3>4, <3>5, <3>6, <3>7 DEF CdKeepsItsTime
  <2>2. BuildKeepsItsTime
    <3>1. stage = "image_build" /\ ServicesFit => BuildFits(pc, raised, now)
      BY DEF AdaptersInv, BuildInv, BuildTimeInv
    <3> QED
      BY <3>1 DEF BuildFits, BuildKeepsItsTime, ServicesFit, Overrun
  <2> QED
    BY <2>1, <2>2 DEF ReservesAreKept
<1> QED
  BY <1>1, AdaptersAlways, PTL

(* What the evidence says of a service is what happened to its pod, its    *)
(* image or its container.                                                 *)
THEOREM VerdictAlwaysEarned == Spec => []VerdictIsEarned
<1>1. AdaptersInv => VerdictIsEarned
  <2> SUFFICES ASSUME AdaptersInv PROVE VerdictIsEarned
    OBVIOUS
  <2>1. DeployedIsEarned
    BY DEF AdaptersInv, CdInv, PodsInv, DeployedIsEarned
  <2>2. ImageRecordsAreTrue /\ ParticipationIsEarned
    BY DEF AdaptersInv, BuildInv, RecordsInv, CvInv
  <2> QED
    BY <2>1, <2>2 DEF VerdictIsEarned
<1> QED
  BY <1>1, AdaptersAlways, PTL

(* A selection keeps its budget, and a reference of a selected service is  *)
(* traced as unexpanded exactly when none of its providers was supplied.   *)
THEOREM DiscoveryAlwaysTraced == Spec => []DiscoveryIsTraced
<1>1. AdaptersInv => DiscoveryIsTraced
  <2> SUFFICES ASSUME AdaptersInv, stage = "composition"
               PROVE  /\ discovery.used <= inputs.budget
                      /\ agenda = <<>> => \A s \in discovery.selected :
                           \A i \in DOMAIN inputs.repository.references[s] :
                             LET providers == inputs.repository.references[s][i]
                             IN  << s, providers >> \in discovery.unexpanded
                                   <=> providers # <<>>
                                       /\ Members(providers) \cap discovery.selected = {}
    BY DEF DiscoveryIsTraced
  <2>1. DiscoveryInv
    BY DEF AdaptersInv, CompositionInv
  <2>2. ASSUME agenda = <<>>, NEW s \in discovery.selected,
               NEW i \in DOMAIN inputs.repository.references[s],
               NEW providers, providers = inputs.repository.references[s][i]
        PROVE  << s, providers >> \in discovery.unexpanded
                 <=> providers # <<>> /\ Members(providers) \cap discovery.selected = {}
    <3>1. Settled(s, providers)
      BY <2>1, <2>2, Empty DEF DiscoveryInv
    <3>2. << s, providers >>[2] = providers
      OBVIOUS
    <3>3. ASSUME << s, providers >> \in discovery.unexpanded
          PROVE  providers # <<>> /\ Members(providers) \subseteq discovery.overBudget
      BY <2>1, <3>2, <3>3 DEF DiscoveryInv
    <3>4. discovery.selected \cap discovery.overBudget = {}
      BY <2>1 DEF DiscoveryInv
    <3> QED
      BY <3>1, <3>3, <3>4 DEF Settled
  <2>3. discovery.used <= inputs.budget
    BY <2>1 DEF DiscoveryInv
  <2> QED
    BY <2>2, <2>3
<1> QED
  BY <1>1, AdaptersAlways, PTL

(* What composition hands on holds together.                               *)
THEOREM BlueprintAlwaysGrounded == Spec => []BlueprintIsGrounded
<1>1. AdaptersInv => BlueprintIsGrounded
  BY DEF AdaptersInv, CompositionInv, BlueprintInv
<1> QED
  BY <1>1, AdaptersAlways, PTL

(* A verdict that was published and is acceptable is captured, and the     *)
(* attempt it makes is loaded by a later process.                          *)
THEOREM VerdictsAlwaysAccepted == Spec => []VerdictsAreAccepted
<1>1. AdaptersInv => VerdictsAreAccepted
  <2> SUFFICES ASSUME AdaptersInv, exit = "0"
               PROVE  (IsCaptured <=> flaw = "none") /\ Loadable(stage, Envelope)
    BY DEF VerdictsAreAccepted
  <2> DEFINE conclusion == verdict.outcome.conclusion
             outcome == verdict.outcome.outcome
             category == verdict.outcome.category
             produced == DOMAIN verdict.documents \cup verdict.attachments
             response == Response(verdict)
             envelope == AcceptedEnvelope(mode, response)
  <2>1. /\ stage \in StageNames /\ mode = "implemented"
        /\ files = produced \cup {"diagnostic", "response"}
        /\ Declared(verdict) /\ ResponseIsValid(response)
        /\ Acceptable(stage, inputs, verdict)
        /\ flaw # "none" => flaw \in files
    BY DEF AdaptersInv, KitInv, AcceptedInv, Response
  <2>2. /\ response.conclusion = conclusion /\ response.outcome = outcome
        /\ response.category = category /\ response.consumed = "all"
        /\ response.produced = produced
    BY DEF Response
  <2>3. /\ conclusion \in {"succeeded", "failed"}
        /\ conclusion = "failed" => outcome = "not_evaluated" /\ produced = {} /\ category # "none"
        /\ outcome = "failed" => conclusion = "succeeded" /\ category = "domain"
    BY <2>1, <2>2 DEF ResponseIsValid
  <2>4. /\ DomainOutputs(stage) \cap (Evidence(stage) \cup Attachments(stage)) = {}
        /\ {"diagnostic", "response"} \cap GrantedSlots(stage) = {}
    BY <2>1 DEF StageNames, DomainOutputs, Evidence, Attachments, GrantedSlots
  <2>5. produced \subseteq GrantedSlots(stage) /\ verdict.attachments \subseteq Attachments(stage)
    BY <2>1 DEF Declared, GrantedSlots
  <2>6. conclusion = "succeeded" =>
          IF outcome = "failed" THEN DomainOutputs(stage) \cap produced = {}
                                ELSE DomainOutputs(stage) \subseteq produced
    BY <2>1, <2>4, <2>5 DEF Acceptable
  <2>7. /\ conclusion = "succeeded" => DocumentsFit(stage, outcome, verdict.documents, inputs)
        /\ \A slot \in DOMAIN verdict.documents : DocumentIsValid(slot, verdict.documents[slot])
    BY <2>1 DEF Acceptable
  <2>8. /\ envelope.conclusion = conclusion /\ envelope.outcome = outcome
        /\ envelope.category = category /\ envelope.mode = "implemented"
        /\ envelope.accepted = TRUE /\ envelope.ended = "exited" /\ envelope.code = 0
        /\ envelope.files = produced \cup {"diagnostic"}
    BY <2>1, <2>2 DEF AcceptedEnvelope
  <2> HIDE DEF conclusion, outcome, category, produced, response, envelope
  <2>9. IsCaptured <=> flaw = "none"
    <3>1. flaw \notin files <=> flaw = "none"
      <4>1. "none" \notin files
        BY <2>1, <2>5 DEF GrantedSlots, DomainOutputs, Evidence, Attachments, StageNames, produced
      <4> QED
        BY <2>1, <4>1
    <3>2. Captured(stage, mode, response, files, flaw, verdict.documents, inputs) <=> flaw \notin files
      <4>1. SlotsAreGranted(stage, response) /\ KeepsFixtureLimits(mode, response)
        BY <2>1, <2>2, <2>5, <2>6 DEF SlotsAreGranted, KeepsFixtureLimits
      <4>2. InventoryMatches(response, files) /\ "response" \in files
        BY <2>1, <2>2 DEF InventoryMatches
      <4> QED
        BY <2>1, <2>2, <2>7, <4>1, <4>2 DEF Captured
    <3> QED
      BY <3>1, <3>2 DEF IsCaptured, response
  <2>10. Loadable(stage, envelope)
    <3>1. EnvelopeIsValid(envelope)
      BY <2>3, <2>8 DEF EnvelopeIsValid
    <3>2. /\ envelope.files \subseteq GrantedSlots(stage) \cup {"diagnostic"}
          /\ envelope.files \cap GrantedSlots(stage) = produced
      BY <2>4, <2>5, <2>8
    <3>3. envelope.files \cap DomainOutputs(stage) = produced \cap DomainOutputs(stage)
      BY <3>2 DEF GrantedSlots
    <3>4. envelope.files \cap (Evidence(stage) \cup Attachments(stage)) # {}
            => conclusion = "succeeded"
      BY <2>3, <3>2 DEF GrantedSlots
    <3>5. IF conclusion = "succeeded" /\ outcome # "failed"
            THEN envelope.files \cap DomainOutputs(stage) = DomainOutputs(stage)
            ELSE envelope.files \cap DomainOutputs(stage) = {}
      BY <2>3, <2>6, <3>3
    <3> QED
      BY <2>8, <3>1, <3>2, <3>4, <3>5 DEF Loadable
  <2>11. Loadable(stage, FailureEnvelope(mode, "failed", "exited", 0))
    BY <2>1 DEF Loadable, EnvelopeIsValid, FailureEnvelope
  <2> QED
    BY <2>9, <2>10, <2>11 DEF response, envelope, Envelope
<1> QED
  BY <1>1, AdaptersAlways, PTL
=============================================================================
