----------------------------- MODULE Composition -----------------------------
(***************************************************************************)
(* The composition adapter (_composition_adapter.py, _discovery.py,        *)
(* _generation.py, _assessment.py): it discovers the descriptions the      *)
(* model may choose from, asks the model once, assesses its proposals, and *)
(* publishes the preferred one as blueprint and deployment schema.         *)
(*                                                                         *)
(* The providers are the environment: either may fail, and the model's     *)
(* answer is any that the proposal contract lets through.  The adapter     *)
(* does not look at the clock.                                             *)
(***************************************************************************)
EXTENDS AdapterKit, Assessment

CONSTANTS
  Described,     \* the services the repository describes
  Descriptions,  \* what it says of each of them
  Profile,       \* what the target profile says
  TopK           \* TOP_K

ASSUME TopKIsNatural == TopK \in Nat

D == INSTANCE Discovery

VARIABLES
  discovery,  \* what discovery selected
  agenda,     \* the references and hits discovery has still to work off
  assessed,   \* the model's proposals after their checks
  code        \* the outcome code of the composition, "raised" for an exception

composing == << discovery, agenda, assessed, code >>

(* OUTCOMES.                                                               *)
Rejections == {"bounded-no-result", "scoped-rejection", "insufficient-proposals"}
InputFailures == {"discovery-no-result", "discovery-over-budget", "invalid-service-description"}

(* A mutant: a rejection is no verdict.                                    *)
RejectionsAreGaps(of) ==
  CASE of = "preferred-proposal" -> Outcome("succeeded", "succeeded", "domain")
    [] of \in Rejections -> Outcome("succeeded", "not_evaluated", "domain")
    [] of \in InputFailures -> Outcome("failed", "not_evaluated", "input")
    [] OTHER -> Outcome("failed", "not_evaluated", "tool")

CompositionOutcome(of) ==
  CASE of = "preferred-proposal" -> Outcome("succeeded", "succeeded", "domain")
    [] of \in Rejections -> Outcome("succeeded", "failed", "domain")
    [] of \in InputFailures -> Outcome("failed", "not_evaluated", "input")
    [] OTHER -> Outcome("failed", "not_evaluated", "tool")

Composes(as, documents) ==
  /\ code' = as
  /\ Concludes(Verdict(CompositionOutcome(as), documents, {}))

CompositionEvidence == [slot \in {"composition_evidence"} |-> "evidence"]

(* An attempt's inputs, and what the model would answer.                   *)
CompositionInputs ==
  [repository : [size : [Described -> Nat \ {0}],
                 references : [Described -> Seq(Seq(Described))],
                 orchestrator : Seq(Seq(Described))],
   budget : Nat, rankings : Seq(Seq(Described)), embeddings : {"optional", "fail"},
   answer : Seq([services : Seq([service : Described, artifact : STRING, host : STRING]),
                 coverage : Seq([requirement : Requirements, status : CoverageStatuses,
                                 services : Seq(Described)])])]

CompositionIdle ==
  /\ discovery = D!NothingSelected
  /\ agenda = <<>>
  /\ assessed = <<>>
  /\ code = "none"

(* parse_service_repository: a description that is invalid, or names an    *)
(* unknown service, or depends on itself.                                  *)
ReadDescriptions ==
  /\ stage = "composition"
  /\ pc = "body"
  /\ \/ Composes("invalid-service-description", NoDocuments)
     \/ Continues("embed") /\ UNCHANGED code
  /\ UNCHANGED << now, discovery, agenda, assessed >>

(* _embed and the rankings of the queries.  Embeddings that do not come    *)
(* only change the rankings.                                               *)
Embeds ==
  /\ pc = "embed"
  /\ agenda' = D!Agenda(inputs.repository, inputs.rankings)
  /\ Continues("discover")
  /\ UNCHANGED << now, discovery, assessed, code >>

(* One call of admit; a service it selects is expanded before the rest.    *)
Admits ==
  /\ pc = "discover"
  /\ agenda # <<>> /\ Head(agenda).rest # <<>>
  /\ LET service == Head(Head(agenda).rest)
         later == << [Head(agenda) EXCEPT !.rest = Tail(@)] >> \o Tail(agenda)
     IN  /\ discovery' = D!Admitted(inputs.repository, inputs.budget, service, discovery)
         /\ agenda' = IF discovery'.selected = discovery.selected THEN later
                      ELSE D!Expansion(service, inputs.repository.references[service]) \o later
  /\ Continues("discover")
  /\ UNCHANGED << now, assessed, code >>

Traces ==
  /\ pc = "discover"
  /\ agenda # <<>> /\ Head(agenda).rest = <<>>
  /\ discovery' = D!Traced(Head(agenda), discovery)
  /\ agenda' = Tail(agenda)
  /\ Continues("discover")
  /\ UNCHANGED << now, assessed, code >>

(* stop_reason: embeddings that were declared and did not come stop the run*)
(* unless lexical search alone will do.                                    *)
Discovers ==
  /\ pc = "discover"
  /\ agenda = <<>>
  /\ \/ inputs.embeddings = "fail" /\ Composes("dense-discovery-unavailable", NoDocuments)
     \/ IF D!StopReason(discovery) # "none"
          THEN Composes(D!StopReason(discovery), NoDocuments)
          ELSE Continues("generate") /\ UNCHANGED code
  /\ UNCHANGED << now, discovery, agenda, assessed >>

(* generate_proposals and _interpret: one request, which is not repeated.  *)
(* An answer names only services that were selected, else it is invalid;   *)
(* assess_proposals checks its proposals.                                  *)
IsWithinContract(proposals) ==
  \A i \in 1 .. Len(proposals) : Chosen(proposals[i]) \subseteq discovery.selected

(* A mutant: a provider that failed is asked again.                        *)
GenerateRetrying ==
  /\ pc = "generate"
  /\ \/ Continues("generate") /\ UNCHANGED << code, assessed >>
     \/ /\ IsWithinContract(inputs.answer)
        /\ assessed' = [i \in DOMAIN inputs.answer |->
                          Assessed(inputs.answer[i], Descriptions, Profile)]
        /\ Continues("compose")
        /\ UNCHANGED code
  /\ UNCHANGED << now, discovery, agenda >>

Generate ==
  /\ pc = "generate"
  /\ \/ /\ \E failure \in {"generation-invalid", "generation-refused", "provider-error"} :
             Composes(failure, NoDocuments)
        /\ UNCHANGED assessed
     \/ Composes("bounded-no-result", CompositionEvidence) /\ UNCHANGED assessed
     \/ /\ IsWithinContract(inputs.answer)
        /\ assessed' = [i \in DOMAIN inputs.answer |->
                          Assessed(inputs.answer[i], Descriptions, Profile)]
        /\ Continues("compose")
        /\ UNCHANGED code
  /\ UNCHANGED << now, discovery, agenda >>

(* _blueprint_documents: the kept services, the coverage of each           *)
(* requirement as far as they carry it, and a placement for each of them.  *)
CitedIn(list, services) == SelectSeq(list, LAMBDA s : s \in services)

Blueprint(proposal) ==
  LET services == {p.service : p \in proposal.kept}
  IN  [services |-> services,
       dependsOn |-> [s \in services |-> Descriptions[s].dependsOn],
       coverage |-> [r \in Requirements |->
                       [proposal.coverage[r] EXCEPT !.services = CitedIn(@, services)]]]

DeploymentOf(proposal) ==
  [s \in {p.service : p \in proposal.kept} |->
     LET p == CHOOSE q \in proposal.kept : q.service = s
     IN  [resolved |-> PlacementOf(p, Descriptions[s], Profile) = "resolved",
          host |-> HostOf(p)]]

PreferredDocuments(proposal) ==
  [slot \in DomainOutputs("composition") \cup Evidence("composition") |->
     CASE slot = "composition_blueprint" -> Blueprint(proposal)
       [] slot = "deployment_schema" -> DeploymentOf(proposal)
       [] OTHER -> "evidence"]

(* The documents of the preferred proposal; a blueprint that breaks its    *)
(* contract raises an InputError.                                          *)
Compose ==
  /\ pc = "compose"
  /\ LET preferred == Preferred(assessed)
     IN  CASE preferred = 0 -> Composes(AssessmentOutcome(assessed), CompositionEvidence)
           [] preferred # 0 /\ BlueprintIsValid(Blueprint(assessed[preferred])) ->
                Composes("preferred-proposal", PreferredDocuments(assessed[preferred]))
           [] OTHER -> code' = "raised" /\ Raises
  /\ UNCHANGED << now, discovery, agenda, assessed >>

CompositionBody ==
  ReadDescriptions \/ Embeds \/ Admits \/ Traces \/ Discovers \/ Generate \/ Compose

CompositionNext ==
  \/ KitNext /\ UNCHANGED composing
  \/ CompositionBody

-----------------------------------------------------------------------------

(* A selection keeps its budget, and once discovery is over a reference of *)
(* a selected service is traced as unexpanded exactly when none of its     *)
(* providers was supplied: no later hit supplies one after all.            *)
DiscoveryIsTraced ==
  stage = "composition" =>
    /\ discovery.used <= inputs.budget
    /\ agenda = <<>> => \A s \in discovery.selected :
         \A i \in DOMAIN inputs.repository.references[s] :
           LET providers == inputs.repository.references[s][i]
           IN  << s, providers >> \in discovery.unexpanded
                 <=> providers # <<>> /\ Members(providers) \cap discovery.selected = {}

(* What composition hands on holds together: every service of the          *)
(* blueprint was supplied to the model, a requirement is supported only by *)
(* services that are in it, and a resolved placement names a host whose    *)
(* architecture and devices the service can use.                           *)
BlueprintIsGrounded ==
  code = "preferred-proposal" =>
    LET blueprint == verdict.documents["composition_blueprint"]
        deployment == verdict.documents["deployment_schema"]
    IN  /\ blueprint.services \subseteq discovery.selected
        /\ \A r \in Requirements : blueprint.coverage[r].status = "supported" =>
             LET cited == assessed[Preferred(assessed)].coverage[r].services
             IN  cited # <<>> /\ Members(cited) \subseteq blueprint.services
        /\ \A s \in DOMAIN deployment : deployment[s].resolved
             => /\ \E a \in DOMAIN Descriptions[s].artifacts :
                     ArchitectureOf(deployment[s].host)
                       \in Descriptions[s].artifacts[a].architectures
                /\ Descriptions[s].devices
                     \subseteq Profile.hosts[deployment[s].host].devices

(* "assesses them against the whole repository ..., and publishes the      *)
(* preferred proposal as the composition blueprint and deployment schema"  *)
(* (integration/README.md:131-134).                                        *)
PreferredProposalIsPublished ==
  stage = "composition" => code # "raised"
=============================================================================
