----------------------------- MODULE Assessment -----------------------------
(***************************************************************************)
(* The checks of the model's proposals (_assessment.py).  No state.        *)
(*                                                                         *)
(* A proposal lists its services, each with an artifact and a host or      *)
(* "none", and claims a coverage for requirements.  A description is       *)
(* [artifacts, devices, dependsOn, needs, provides]; an artifact is        *)
(* [architectures, baseline], with baseline "none" when any host will do;  *)
(* an endpoint stands for a name with all that a binding compares.         *)
(* A profile is [hosts, connections, needs, provides], the last two those  *)
(* of the orchestrator; a host is [baseline, listed, devices], with        *)
(* baseline "none" or without listed devices where it declares none.       *)
(***************************************************************************)
EXTENDS StageDocuments

CONSTANT Requirements   \* the requirement_ids of the specification

CoverageStatuses == {"supported", "missing", "uncertain", "outside_composition"}

Chosen(proposal) == {i.service : i \in Members(proposal.services)}

(* _ineligibility: unknown services or artifacts, a service twice, a       *)
(* coverage that is not one claim per requirement, or cites services for a *)
(* requirement it does not cover.                                          *)
Ineligible(proposal, descriptions) ==
  \/ \E p \in Members(proposal.services) :
       \/ p.service \notin DOMAIN descriptions
       \/ /\ p.artifact # "none"
          /\ DOMAIN descriptions[p.service].artifacts # {}
          /\ p.artifact \notin DOMAIN descriptions[p.service].artifacts
  \/ Cardinality(Chosen(proposal)) # Len(proposal.services)
  \/ {c.requirement : c \in Members(proposal.coverage)} # Requirements
  \/ Len(proposal.coverage) # Cardinality(Requirements)
  \/ \E c \in Members(proposal.coverage) :
       c.status \in {"missing", "outside_composition"} /\ c.services # <<>>

(* _place: what the artifact and the devices of a service want of the host.*)
HasArtifact(p, description) == p.artifact \in DOMAIN description.artifacts

Conflicts(p, description, profile) ==
  LET host == profile.hosts[p.host]
      artifact == description.artifacts[p.artifact]
  IN  \/ /\ HasArtifact(p, description)
         /\ \/ ArchitectureOf(p.host) \notin artifact.architectures
            \/ "none" \notin {artifact.baseline, host.baseline} /\ artifact.baseline # host.baseline
      \/ host.listed /\ ~ description.devices \subseteq host.devices

(* The gaps of a placement: no artifact, no host, or a host that does not  *)
(* say whether it has what the service wants.                              *)
PlacementGaps(p, description, profile) ==
  {g \in {"artifact", "host", "baseline", "devices"} :
     CASE g = "artifact" -> ~ HasArtifact(p, description)
       [] g = "host" -> p.host \notin Hosts
       [] g = "baseline" -> /\ p.host \in Hosts
                            /\ HasArtifact(p, description)
                            /\ description.artifacts[p.artifact].baseline # "none"
                            /\ profile.hosts[p.host].baseline = "none"
       [] g = "devices" -> /\ p.host \in Hosts
                           /\ description.devices # {}
                           /\ ~ profile.hosts[p.host].listed}

PlacementOf(p, description, profile) ==
  IF p.host \in Hosts /\ Conflicts(p, description, profile) THEN "rejected"
  ELSE IF PlacementGaps(p, description, profile) # {} THEN "unresolved"
  ELSE "resolved"

(* The participants: the services that survive placement, and the          *)
(* orchestrator.                                                           *)
Kept(proposal, descriptions, profile) ==
  {p \in Members(proposal.services) :
     PlacementOf(p, descriptions[p.service], profile) # "rejected"}

HostOf(p) == IF p.host \in Hosts THEN p.host ELSE "none"

Participants(proposal, descriptions, profile) ==
  {[label |-> p.service, host |-> HostOf(p), needs |-> descriptions[p.service].needs,
    provides |-> descriptions[p.service].provides] : p \in Kept(proposal, descriptions, profile)}
  \cup {[label |-> "orchestrator", host |-> "none", needs |-> profile.needs,
         provides |-> profile.provides]}

(* _bind: the inputs nobody provides, and the pairs of hosts that would    *)
(* need a connection the profile does not declare.                         *)
MissingProviders(participants) ==
  UNION {{<< c.label, n >> : n \in {m \in c.needs : \A p \in participants \ {c} : m \notin p.provides}}
           : c \in participants}

Unconnected(participants, connections) ==
  {{pair[1].host, pair[2].host} : pair \in
     {cp \in participants \X participants :
        LET c == cp[1]
            p == cp[2]
        IN  /\ c # p /\ c.needs \cap p.provides # {}
            /\ "none" \notin {c.host, p.host} /\ c.host # p.host
            /\ {c.host, p.host} \notin connections}}

(* The dependencies that are not in the proposal.                          *)
UnmetDependencies(kept, descriptions) ==
  LET present == {p.service : p \in kept}
  IN  UNION {{<< s, d >> : d \in Members(descriptions[s].dependsOn) \ present} : s \in present}

(* A mutant: one service that is left carries a whole claim.               *)
DowngradedWhenAlone(claim, present) ==
  claim.status \in {"supported", "uncertain"} /\ Members(claim.services) \cap present = {}

(* _final_coverage: a claim whose services are gone becomes missing.       *)
Downgraded(claim, present) ==
  LET cited == Members(claim.services)
  IN  \/ claim.status = "supported" /\ (cited = {} \/ ~ cited \subseteq present)
      \/ claim.status = "uncertain" /\ cited \cap present = {}

FinalCoverage(proposal, present) ==
  [r \in Requirements |->
     LET claim == CHOOSE c \in Members(proposal.coverage) : c.requirement = r
     IN  [status |-> IF Downgraded(claim, present) THEN "missing" ELSE claim.status,
          services |-> claim.services]]

(* _check of an eligible proposal: how many findings are of GAP_KINDS, and  *)
(* the score that ranks it.  One that loses every service is not scored.   *)
GapCount(proposal, descriptions, profile) ==
  LET kept == Kept(proposal, descriptions, profile)
      participants == Participants(proposal, descriptions, profile)
      placing == UNION {{<< p.service, g >> :
                           g \in PlacementGaps(p, descriptions[p.service], profile)} : p \in kept}
  IN  Cardinality(placing) + Cardinality(UnmetDependencies(kept, descriptions))
        + Cardinality(MissingProviders(participants))
        + Cardinality(Unconnected(participants, profile.connections))

Assessed(proposal, descriptions, profile) ==
  LET checked == ~ Ineligible(proposal, descriptions)
      kept == IF checked THEN Kept(proposal, descriptions, profile) ELSE {}
      coverage == FinalCoverage(proposal, {p.service : p \in kept})
  IN  [checked |-> checked,
       eligible |-> kept # {},
       kept |-> kept,
       coverage |-> IF kept # {} THEN coverage ELSE << >>,
       supported |-> IF kept # {}
                       THEN Cardinality({r \in Requirements : coverage[r].status = "supported"})
                       ELSE 0,
       gaps |-> IF kept # {} THEN GapCount(proposal, descriptions, profile) ELSE 0]

(* assess_proposals: most supported, then fewest gaps, then the first.     *)
RanksBefore(one, other) ==
  \/ one.supported > other.supported
  \/ one.supported = other.supported /\ one.gaps < other.gaps

Best(assessed) ==
  {i \in DOMAIN assessed :
     /\ assessed[i].eligible
     /\ \A j \in DOMAIN assessed : assessed[j].eligible =>
          /\ ~ RanksBefore(assessed[j], assessed[i])
          /\ j < i => RanksBefore(assessed[i], assessed[j])}

Preferred(assessed) == IF Best(assessed) = {} THEN 0 ELSE CHOOSE i \in Best(assessed) : TRUE

(* Assessment.outcome.                                                     *)
AssessmentOutcome(assessed) ==
  CASE Preferred(assessed) # 0 -> "preferred-proposal"
    [] Preferred(assessed) = 0 /\ (\A i \in DOMAIN assessed : assessed[i].checked) ->
         "scoped-rejection"
    [] OTHER -> "insufficient-proposals"
=============================================================================
