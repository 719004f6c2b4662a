--------------------------- MODULE StageDocuments ---------------------------
(***************************************************************************)
(* What the Stages hand to each other: the grants of a Stage               *)
(* (_stage_registry.py), the contracts of its documents                    *)
(* (_domain_contracts.py) and the checks of a Stage's documents against    *)
(* the ones it was given (_stage_documents.py).  No state.                 *)
(*                                                                         *)
(* A document is reduced to the facts these rules compare.  Records that   *)
(* the contracts key by service_id are functions on Services.              *)
(***************************************************************************)
EXTENDS Sequences, FiniteSets, Naturals

CONSTANTS
  Services,    \* the services of the composition
  Hosts,       \* the hosts of the target profile
  Arm64,       \* those of them that are arm64; the others are amd64
  ClusterHosts \* CLUSTER_HOSTS, the hosts with a node in the stand-in cluster

ASSUME ServicesAreComposed == Services # {} /\ IsFiniteSet(Services)
ASSUME HostsAreKnown == Arm64 \subseteq Hosts /\ "none" \notin Hosts

Architectures == {"amd64", "arm64"}
ArchitectureOf(host) == IF host \in Arm64 THEN "arm64" ELSE "amd64"

StageNames == {"composition", "image_build", "cv", "cd"}

(* The slots a Stage is granted, by role.                                  *)
DomainOutputs(stage) ==
  CASE stage = "composition" -> {"composition_blueprint", "deployment_schema"}
    [] stage = "image_build" -> {"image_build_result"}
    [] OTHER -> {}
Evidence(stage) ==
  CASE stage = "composition" -> {"composition_evidence"}
    [] stage = "cv" -> {"validation_evidence"}
    [] stage = "cd" -> {"deployment_result"}
    [] OTHER -> {}
RequiredEvidence(stage) == Evidence(stage) \ {"composition_evidence"}
Attachments(stage) == IF stage = "cv" THEN {"sim_recording"} ELSE {}
GrantedSlots(stage) == DomainOutputs(stage) \cup Evidence(stage) \cup Attachments(stage)

(* ServicePlacement: a resolved placement has a host; an unresolved one    *)
(* may.                                                                    *)
Placements == {p \in [resolved : BOOLEAN, host : Hosts \cup {"none"}] :
                 p.resolved => p.host # "none"}
Deployments == [Services -> Placements]

(* BuiltImageRecord and FailedImageRecord.                                 *)
FailedImageReasons == {"unresolved-placement", "no-recipe", "build-failed", "work-limit"}
BuiltImage(platforms) == [status |-> "built", platforms |-> platforms]
FailedImage(reason) == [status |-> reason, platforms |-> {}]
Built(image) == image.status = "built"
Images == {FailedImage(r) : r \in FailedImageReasons}
            \cup {BuiltImage(p) : p \in (SUBSET Architectures) \ {{}}}

(* _check_image_records: an image for exactly the placements that are      *)
(* resolved, unless its build failed, and one that runs on the host.       *)
ImagesFit(images, deployment) ==
  \A s \in Services :
    /\ Built(images[s]) => /\ deployment[s].resolved
                           /\ ArchitectureOf(deployment[s].host) \in images[s].platforms
    /\ images[s].status = "unresolved-placement" => ~ deployment[s].resolved
    /\ images[s].status \in {"no-recipe", "build-failed", "work-limit"}
         => deployment[s].resolved

(* CompositionBlueprint.validate_services: a service names each of its     *)
(* dependencies once, and the coverage of a requirement each service once. *)
Distinct(list) == \A i, j \in 1 .. Len(list) : list[i] = list[j] => i = j
Members(list) == {list[i] : i \in 1 .. Len(list)}

BlueprintIsValid(blueprint) ==
  /\ blueprint.services # {}
  /\ \A s \in blueprint.services : Distinct(blueprint.dependsOn[s])
  /\ \A requirement \in DOMAIN blueprint.coverage :
       /\ Distinct(blueprint.coverage[requirement].services)
       /\ Members(blueprint.coverage[requirement].services) \subseteq blueprint.services

(* A gap in the inputs of CV or CD leaves every service unevaluated, and   *)
(* one of them for a cause of its own.                                     *)
GapIsValid(unevaluated, reason) ==
  unevaluated # {} => /\ unevaluated = Services
                      /\ \E s \in Services : reason[s] # "blocked"

(* validation_verdict and ValidationEvidence.validate_verdict.  The mission*)
(* is "none", "completed" or "failed".                                     *)
Participating == {"participated", "participated_loosened"}
NonParticipating == {"container-exited", "failed-to-start", "no-message"}

ValidationVerdict(services, mission) ==
  CASE mission = "none" -> "not_evaluated"
    [] mission = "completed" /\ (\A s \in Services : services[s] \in Participating) -> "succeeded"
    [] OTHER -> "failed"

Unjudged(services) == {s \in Services : services[s] \notin Participating \cup NonParticipating}

ValidationIsValid(evidence) ==
  /\ GapIsValid(Unjudged(evidence.services), evidence.services)
  /\ (evidence.mission = "none") = (Unjudged(evidence.services) # {})
  /\ evidence.outcome = ValidationVerdict(evidence.services, evidence.mission)

(* deployment_outcome and DeploymentResult.validate_outcome.               *)
DeploymentGaps == {"unresolved-placement", "image-not-built", "no-image-for-architecture",
                   "host-not-in-cluster", "blocked"}
Undeployed(placements) == {s \in Services : placements[s] \in DeploymentGaps}

DeploymentOutcome(placements) ==
  IF Undeployed(placements) # {} THEN "not_evaluated"
  ELSE IF \E s \in Services : placements[s] # "deployed" THEN "failed"
  ELSE "succeeded"

DeploymentIsValid(result) ==
  /\ GapIsValid(Undeployed(result.placements), result.placements)
  /\ result.manifest = (Undeployed(result.placements) = {})
  /\ result.outcome = DeploymentOutcome(result.placements)

(* The contract of a document, where the capture parses it.                *)
DocumentIsValid(slot, document) ==
  CASE slot = "composition_blueprint" -> BlueprintIsValid(document)
    [] slot = "validation_evidence" -> ValidationIsValid(document)
    [] slot = "deployment_result" -> DeploymentIsValid(document)
    [] OTHER -> TRUE

(* The checks of one Stage's documents against its inputs; the outcome is  *)
(* the one its response claims.                                            *)
CompositionFits(blueprint, deployment) == DOMAIN deployment = blueprint.services

CheckComposition(outcome, documents) ==
  outcome # "failed" => CompositionFits(documents["composition_blueprint"],
                                        documents["deployment_schema"])

CheckImageBuild(outcome, documents, inputs) ==
  outcome # "failed" => ImagesFit(documents["image_build_result"], inputs.deployment)

CheckCv(outcome, documents, inputs) ==
  "validation_evidence" \in DOMAIN documents =>
    LET evidence == documents["validation_evidence"]
    IN  /\ ImagesFit(inputs.images, inputs.deployment)
        /\ evidence.outcome = outcome
        /\ \A s \in evidence.digests : "amd64" \in inputs.images[s].platforms

CheckCd(outcome, documents, inputs) ==
  "deployment_result" \in DOMAIN documents =>
    /\ ImagesFit(inputs.images, inputs.deployment)
    /\ documents["deployment_result"].outcome = outcome

(* validate_stage_documents for an implemented adapter.                    *)
DocumentsFit(stage, outcome, documents, inputs) ==
  /\ RequiredEvidence(stage) \subseteq DOMAIN documents
  /\ outcome = "failed" => DomainOutputs(stage) \cap DOMAIN documents = {}
  /\ CASE stage = "composition" -> CheckComposition(outcome, documents)
       [] stage = "image_build" -> CheckImageBuild(outcome, documents, inputs)
       [] stage = "cv" -> CheckCv(outcome, documents, inputs)
       [] stage = "cd" -> CheckCd(outcome, documents, inputs)
=============================================================================
