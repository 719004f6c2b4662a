-------------------------- MODULE AdaptersInvariant --------------------------
(***************************************************************************)
(* The inductive invariant behind the theorems about StageAdapters: a part *)
(* for the shell, and parts for each adapter.                              *)
(***************************************************************************)
EXTENDS StageAdapters

Ended == {"publish", "done"}

(* Only the runtime's kill and the process's own end leave an exit code,   *)
(* and nothing is published before.                                        *)
KitInv ==
  /\ stage \in StageNames
  /\ mode = "implemented"
  /\ exit # "none" <=> pc = "done"
  /\ pc \notin Ended => verdict = Undecided
  /\ exit \in {"none", "killed"} => files = {}
  /\ exit = "0" => files = Response(verdict).produced \cup {"diagnostic", "response"}
  /\ flaw # "none" => exit = "0" /\ flaw \in files

InputsInv ==
  /\ stage = "cd" => inputs \in CdInputs
  /\ stage = "image_build" => inputs \in BuildInputs
  /\ stage = "cv" => inputs \in CvInputs
  /\ stage = "composition" => inputs \in CompositionInputs

-----------------------------------------------------------------------------
(* Composition.                                                            *)

CompositionPlaces == {"start", "body", "embed", "discover", "generate", "compose"} \cup Ended
PlacesInv == stage = "composition" => pc \in CompositionPlaces

Labels == Described \cup {"orchestrator", "query"}
Entry == [label : Labels, providers : Seq(Described), rest : Seq(Described)]

Settled(s, providers) ==
  \/ providers = <<>>
  \/ << s, providers >> \in discovery.unexpanded
  \/ Members(providers) \cap discovery.selected # {}

(* A reference is pending until it is settled for good: what is over the   *)
(* budget is never selected after all.                                     *)
DiscoveryInv ==
  stage = "composition" =>
    /\ discovery \in [selected : SUBSET Described, used : Nat, overBudget : SUBSET Described,
                      unexpanded : SUBSET (Labels \X Seq(Described))]
    /\ agenda \in Seq(Entry)
    /\ pc \in {"start", "body", "embed"} => discovery = D!NothingSelected /\ agenda = <<>>
    /\ discovery.used <= inputs.budget
    /\ discovery.selected \cap discovery.overBudget = {}
    /\ \A e \in Members(agenda) :
         Members(e.providers) \subseteq
           Members(e.rest) \cup discovery.selected \cup discovery.overBudget
    /\ \A open \in discovery.unexpanded :
         open[2] # <<>> /\ Members(open[2]) \subseteq discovery.overBudget
    /\ \A s \in discovery.selected : \A i \in DOMAIN inputs.repository.references[s] :
         \/ Settled(s, inputs.repository.references[s][i])
         \/ \E e \in Members(agenda) :
              e.label = s /\ e.providers = inputs.repository.references[s][i]

(* What is composed is the answer that was found within its contract.      *)
BlueprintInv ==
  /\ stage # "composition" => code = "none"
  /\ stage = "composition" =>
       /\ pc \notin Ended => code = "none"
       /\ pc = "compose" =>
            /\ IsWithinContract(inputs.answer)
            /\ assessed = [i \in DOMAIN inputs.answer |->
                             Assessed(inputs.answer[i], Descriptions, Profile)]
  /\ BlueprintIsGrounded

CompositionInv == PlacesInv /\ DiscoveryInv /\ BlueprintInv

-----------------------------------------------------------------------------
(* CD: each place leaves the time the ones after it need.                  *)

CdPlaces == {"start", "body", "nodes", "nodes_sleep", "create", "apply", "pods",
             "pods_sleep", "window", "judge", "delete"} \cup Ended

(* The time t is early enough for the place p.                             *)
Fits(p, t) ==
  /\ p \in CdPlaces
  /\ t \in Nat
  /\ t + EvidenceTime <= CdLimit
  /\ p \in {"start", "body"} => t = 0
  /\ p \in {"nodes", "create"} => t <= NodeWait
  /\ p = "nodes_sleep" => t + Poll <= NodeWait
  /\ p = "apply" => t + KubectlTimeout <= CdDeadline
  /\ p \in {"pods", "window", "judge"} => t <= CdDeadline
  /\ p = "pods_sleep" => t + Poll <= CdDeadline
  /\ p = "delete" => t + KubectlTimeout + EvidenceTime <= CdLimit

CdTimeInv == stage = "cd" => Fits(pc, now)

(* No namespace is asked for before the nodes are ready.                   *)
Untouched == namespace = "none" /\ create = "none"

NamespaceInv ==
  /\ stage # "cd" \/ pc \in {"start", "body", "nodes", "nodes_sleep", "create"} => Untouched
  /\ NamespaceIsDeleted

(* A success waits for the teardown with what has earned it.               *)
Earned == judged - seen >= Settle /\ starting = {} /\ exited = {}

PodsInv ==
  stage = "cd" =>
    /\ pods \in [Services -> Views]
    /\ exited = {s \in Services : pods[s] \in {"CrashLoopBackOff", "restarted"}}
    /\ seen \in Nat /\ judged \in Nat
    /\ seen <= now
    /\ pc = "judge" /\ held => starting = {} /\ now - seen >= Settle
    /\ pc = "delete" /\ result.outcome.outcome = "succeeded" => Earned
    /\ DeployedIsEarned

CdInv == CdTimeInv /\ NamespaceInv /\ PodsInv

-----------------------------------------------------------------------------
(* Image build.                                                            *)

BuildPlaces == {"start", "body", "services", "deadline", "starting", "polling", "visiting",
                "poll_sleep", "stopping", "reading", "finally"} \cup Ended
Clientless == {"start", "body", "services", "deadline", "reading"} \cup Ended

Quiet == \A s \in Services : client[s] # "running"

(* The clients: those that run are pending until they are stopped.         *)
ClientsInv ==
  /\ client \in [Services -> {"none", "running", "built", "broken", "stopped"}]
  /\ stage # "image_build" \/ pc \in Clientless \/ (pc = "finally" /\ ~ raised) => Quiet
  /\ stage = "image_build" =>
       /\ pc \in BuildPlaces
       /\ raised \in BOOLEAN
       /\ pending \subseteq ToBuild
       /\ \A s \in pending : client[s] # "none"
       /\ \A s \in Services : client[s] = "running" => s \in pending
       /\ toVisit \subseteq pending
       /\ pc \notin {"visiting", "done"} => toVisit = {}
       /\ toRead \subseteq pending
       /\ pc \notin {"stopping", "reading", "done"} => toRead = {}
       /\ \A s \in toRead : client[s] # "running"
       /\ pc \notin {"finally", "done"} => ~ raised

(* The longest a read may take beyond the time left to the cutoff.         *)
Overrun == (ReadWaits - 1) * RegistryTimeout
ServicesFit == BuildDeadline >= (1 + ReadWaits) * RegistryTimeout

(* The time t is early enough for the place p; a run that failed to start  *)
(* a client still has to stop the others.                                  *)
BuildFits(p, failed, t) ==
  /\ p \in {"start", "body", "services"} => t = 0
  /\ p \in {"deadline", "starting"} \/ (p = "finally" /\ failed) => t <= BuildDeadline
  /\ p \in {"visiting", "poll_sleep"} => t <= ReadCutoff + Overrun
  /\ p \in {"polling", "stopping"} => t <= ReadCutoff + Overrun + BuildPoll
  /\ t <= BuildLimit - PublishReserve + BuildPoll + Overrun

BuildTimeInv ==
  stage = "image_build" => now \in Nat /\ (ServicesFit => BuildFits(pc, raised, now))

(* A record says what its client has done.                                 *)
RecordsInv ==
  /\ records \in [Services -> [status : {"none", "built", "build-failed", "work-limit"},
                               platforms : SUBSET Architectures]]
  /\ ImageRecordsAreTrue
  /\ stage # "image_build" => \A s \in Services : records[s].status = "none"
  /\ stage = "image_build" =>
       /\ pushed \in [Services -> SUBSET Architectures]
       /\ \A s \in Services : client[s] = "built" =>
            pushed[s] # {} /\ pushed[s] \subseteq Requested(s)
       /\ pc \in {"stopping", "reading"} /\ pending # {} => now >= BuildDeadline

BuildInv == ClientsInv /\ BuildTimeInv /\ RecordsInv

-----------------------------------------------------------------------------
(* CV.                                                                     *)

CvPlaces == {"start", "body", "cleanup", "prepare", "sim", "placements", "wait", "sim_state",
             "states", "recording", "teardown"} \cup Ended
Running == {"wait", "sim_state", "states", "recording"}
Lone(S) == \A c, d \in S : c = d

Standing == {c \in Containers : container[c] # "none"}
Late == {c \in Containers : container[c] = "late"}

(* Only a request that ended the run can still start a container, and      *)
(* there is one such request at most.                                      *)
ContainersInv ==
  /\ container \in [Containers -> {"none", "created", "running", "exited", "late"}]
  /\ RunsDoNotMix
  /\ Late # {} => finding.error \in {"start-failed", "engine-unreachable"}
  /\ Lone(Late)
  /\ stage # "cv" => Standing = {} /\ finding = NoFinding
  /\ stage = "cv" =>
       /\ pc \in CvPlaces
       /\ pc \in {"start", "body", "cleanup", "prepare", "sim"} => Standing = {}
       /\ pc \in {"prepare", "sim", "placements"} \cup Running => ~ leftovers
       /\ pc \notin {"recording", "teardown"} \cup Ended => finding = NoFinding
       /\ pc \in Ended /\ exit # "killed"
          /\ finding.error \notin {"raised", "engine-unreachable"} =>
            IF finding.error = "start-failed" THEN Lone(Standing) ELSE Standing = {}

(* From the start of the orchestrator on, a service that runs after its    *)
(* exit ran when it exited, and what the snapshot shows running too.       *)
Observed ==
  /\ Late = {}
  /\ waited => container["orchestrator"] = "exited"
  /\ container["orchestrator"] = "exited" =>
       \A s \in Services : container[s] = "running" => s \in alive
  /\ \A s \in Services : seenState[s] \in {"none", "created", "running", "exited"}
  /\ waited => \A s \in Services : seenState[s] = "running" => s \in alive

AliveInv ==
  stage = "cv" =>
    /\ alive \subseteq Services /\ sent \subseteq Services
    /\ seenState \in [Containers -> {"none", "created", "running", "exited", "late"}]
    /\ pc \in {"start", "body", "cleanup", "prepare", "sim", "placements", "wait"}
         => ~ waited /\ \A c \in Containers : seenState[c] = "none"
    /\ pc = "placements" => container["orchestrator"] = "none"
    /\ pc \in Running => Observed
    /\ finding.error = "none" => container["orchestrator"] \in {"none", "exited"}

CvInv == ContainersInv /\ AliveInv /\ ParticipationIsEarned

-----------------------------------------------------------------------------
(* What the runtime asks of a verdict that the adapter does not check      *)
(* itself when it publishes it.                                            *)
Acceptable(name, given, v) ==
  /\ v.outcome.conclusion = "succeeded" =>
       /\ IF v.outcome.outcome = "failed"
            THEN DomainOutputs(name) \cap DOMAIN v.documents = {}
            ELSE DomainOutputs(name) \subseteq DOMAIN v.documents
       /\ DocumentsFit(name, v.outcome.outcome, v.documents, given)
  /\ \A slot \in DOMAIN v.documents : DocumentIsValid(slot, v.documents[slot])

EvidenceFits(given, evidence) ==
  /\ ValidationIsValid(evidence)
  /\ \A s \in evidence.digests : "amd64" \in given.images[s].platforms

(* Every verdict is acceptable, and so is what is kept to be one.          *)
AcceptedInv ==
  /\ exit = "0" => Declared(verdict) /\ ResponseIsValid(Response(verdict))
  /\ Acceptable(stage, inputs, verdict)
  /\ stage = "cd" /\ pc = "delete" => Acceptable(stage, inputs, result)
  /\ stage = "image_build" =>
       \A s \in Services : Built(records[s]) => records[s].platforms = Requested(s)
  /\ stage = "cv" =>
       /\ pc \notin {"start", "body"} \cup Ended => AllFit
       /\ finding.error = "none" => EvidenceFits(inputs, finding.evidence)

AdaptersInv ==
  KitInv /\ InputsInv /\ CompositionInv /\ CdInv /\ BuildInv /\ CvInv /\ AcceptedInv
=============================================================================
