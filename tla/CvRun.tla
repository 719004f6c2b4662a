-------------------------------- MODULE CvRun --------------------------------
(***************************************************************************)
(* The CV adapter (_cv_adapter.py, _cv_run.py, _cv_verdict.py): each       *)
(* service must be fit to be judged; then the sim, one container per       *)
(* service and the orchestrator are started on the CV engine, the          *)
(* orchestrator is waited for, what runs is read, the counts of the        *)
(* orchestrator are turned into a participation of each service, and the   *)
(* containers of the run are removed.                                      *)
(*                                                                         *)
(* Containers send and exit between any two steps.  A request to the       *)
(* engine is answered, refused, or lost; a container whose request is lost *)
(* may still be started, at once or later.                                 *)
(***************************************************************************)
EXTENDS AdapterKit

CONSTANTS
  Topics,           \* the topics the services declare
  TopicConstant,    \* TOPIC_CONSTANT: those of them the sim publishes itself
  CvLimit,          \* work_limit_seconds
  TeardownReserve   \* TEARDOWN_RESERVE_SECONDS

ASSUME CvTimes == {CvLimit, TeardownReserve} \subseteq Nat

(* The containers of the sim and of the orchestrator are no service's,     *)
(* whatever the services are called.                                       *)
ASSUME RolesAreNoServices == {"sim", "orchestrator"} \cap Services = {}
ASSUME CvTopics == TopicConstant \subseteq Topics

VARIABLES
  container,  \* the containers of this run: none, created, running, exited, late
  leftovers,  \* the engine holds containers of an earlier run
  sent,       \* the services that have published while the orchestrator counted
  alive,      \* the services that ran when the orchestrator exited
  seenState,  \* what the snapshot holds of each container
  waited,     \* the wait has seen the orchestrator exit
  finding,    \* what the run came to, before its teardown
  recording   \* the recording was read

cv == << container, leftovers, sent, alive, seenState, waited, finding, recording >>

CvDeadline == CvLimit - TeardownReserve
Containers == Services \cup {"sim", "orchestrator"}

(* A mutant: a topic counts for every service that publishes it.           *)
CountingShared(s) == inputs.publishes[s] \ TopicConstant

(* _declare: a service that needs a device CV cannot simulate is unfit, one*)
(* with simulated devices participates by running, every other one by what *)
(* is counted on the topics that only it publishes.                        *)
Counting(s) ==
  {t \in inputs.publishes[s] \ TopicConstant :
     \A other \in Services \ {s} : t \notin inputs.publishes[other]}

Loosened(s) == inputs.devices[s] = "simulated"

Unfit(s) ==
  IF ~ Built(inputs.images[s]) THEN "image-unavailable"
  ELSE IF "amd64" \notin inputs.images[s].platforms THEN "no-amd64"
  ELSE IF inputs.devices[s] = "other" THEN "needs-gpu-or-device"
  ELSE IF inputs.devices[s] = "none" /\ Counting(s) = {} THEN "no-counting-output"
  ELSE "fit"

AllFit == \A s \in Services : Unfit(s) = "fit"
CountingTopics == UNION {Counting(s) : s \in {t \in Services : ~ Loosened(t)}}

(* A Judgement: the participation of each service, the mission, and the    *)
(* services whose image digest it names.                                   *)
Judged(participation, mission, digests) ==
  [error |-> "none",
   evidence |-> [services |-> participation, mission |-> mission, digests |-> digests,
                 outcome |-> ValidationVerdict(participation, mission)]]

Unevaluated(causes) ==
  Judged([s \in Services |-> IF s \in DOMAIN causes THEN causes[s] ELSE "blocked"], "none", {})

CvError(code) == [error |-> code, evidence |-> "none"]
NoFinding == CvError("undecided")

(* ERRORS: every error is a failed execution.                              *)
InputErrors == {"input-mismatch", "unsupported-robot"}
DependencyErrors == {"engine-unreachable", "pull-failed"}

ErrorVerdict(code) ==
  Verdict(Outcome("failed", "not_evaluated",
                  CASE code \in InputErrors -> "input"
                    [] code \in DependencyErrors -> "dependency"
                    [] OTHER -> "tool"), NoDocuments, {})

(* Judgement.outcome.                                                      *)
CvVerdict(evidence, recorded) ==
  Verdict(CASE evidence.outcome = "succeeded" -> Succeeded
            [] evidence.outcome = "failed" -> Outcome("succeeded", "failed", "domain")
            [] OTHER -> Outcome("succeeded", "not_evaluated", "dependency"),
          [slot \in {"validation_evidence"} |-> evidence],
          IF recorded THEN {"sim_recording"} ELSE {})

CvIdle ==
  /\ container = [c \in Containers |-> "none"]
  /\ leftovers \in BOOLEAN
  /\ sent = {}
  /\ alive = {}
  /\ seenState = [c \in Containers |-> "none"]
  /\ waited = FALSE
  /\ finding = NoFinding
  /\ recording = FALSE

(* The inputs and the declarations, before the engine is asked anything.   *)
Declare ==
  /\ stage = "cv"
  /\ pc = "body"
  /\ CASE ~ inputs.sameRepository -> Concludes(ErrorVerdict("input-mismatch"))
       [] inputs.sameRepository /\ ~ inputs.knownRobot ->
            Concludes(ErrorVerdict("unsupported-robot"))
       [] OTHER ->
            IF AllFit
              THEN Continues("cleanup")
              ELSE Concludes(CvVerdict(Unevaluated(
                     [s \in {t \in Services : Unfit(t) # "fit"} |-> Unfit(s)]).evidence, FALSE))
  /\ UNCHANGED << now, cv >>

(* The run comes to an end: the teardown follows.  An exception leaves the *)
(* teardown's own failure a note.                                          *)
Comes(to) == finding' = to /\ Continues("teardown")
Lost == Comes(CvError("engine-unreachable"))

(* A mutant: the leftovers of an earlier run are not looked for.           *)
CleanUpNothing ==
  /\ pc = "cleanup"
  /\ Continues("prepare")
  /\ UNCHANGED << now, cv >>

(* Leftover cleanup: every container of any run is removed.                *)
CleanUp ==
  /\ pc = "cleanup"
  /\ \/ leftovers' = FALSE /\ Continues("prepare") /\ UNCHANGED finding
     \/ Lost /\ UNCHANGED leftovers
  /\ UNCHANGED << now, container, sent, alive, seenState, waited, recording >>

(* The sim image, which may have to be built, and the pulls.               *)
PullOutcomes == {"pulled", "image-unavailable", "unsupported-command"}

Prepare ==
  /\ pc = "prepare"
  /\ now' \in now .. CvLimit
  /\ \/ Comes(CvError("sim-build-failed"))
     \/ Comes(CvError("pull-failed"))
     \/ \E pull \in [Services -> PullOutcomes] :
          LET blocked == {s \in Services : pull[s] # "pulled"}
          IN  CASE blocked # {} -> Comes(Unevaluated([s \in blocked |-> pull[s]]))
                [] blocked = {} /\ now' >= CvDeadline -> Comes(CvError("no-time-to-start"))
                [] OTHER -> Continues("sim") /\ UNCHANGED finding
  /\ UNCHANGED << container, leftovers, sent, alive, seenState, waited, recording >>

(* containers.run.                                                         *)
Start(c, answer) ==
  container' = [container EXCEPT ![c] =
    CASE answer = "ok" -> "running"
      [] answer = "refused" -> "created"
      [] OTHER -> answer]

(* start_required: a sim or an orchestrator that is refused or lost ends   *)
(* the run.                                                                *)
StartRequired(c, next) ==
  /\ \E answer \in {"ok", "refused", "none", "running", "late"} :
       /\ Start(c, answer)
       /\ IF answer = "ok"
            THEN Continues(next) /\ UNCHANGED finding
            ELSE Comes(CvError("start-failed"))
  /\ UNCHANGED << now, leftovers, sent, alive, seenState, waited, recording >>

StartSim == pc = "sim" /\ StartRequired("sim", "placements")
StartOrchestrator ==
  /\ pc = "placements"
  /\ \A s \in Services : container[s] # "none"
  /\ StartRequired("orchestrator", "wait")

(* start_placement: a refusal is that service's, a lost request ends the   *)
(* run.                                                                    *)
StartPlacement ==
  /\ pc = "placements"
  /\ \E s \in {t \in Services : container[t] = "none"} :
       \E answer \in {"ok", "refused", "none", "running", "late"} :
         /\ Start(s, answer)
         /\ IF answer \in {"ok", "refused"}
              THEN Continues("placements") /\ UNCHANGED finding
              ELSE Comes(CvError("start-failed"))
  /\ UNCHANGED << now, leftovers, sent, alive, seenState, waited, recording >>

(* wait until the deadline; a lost connection counts as the timeout, an    *)
(* error the engine answers with does not.                                 *)
Wait ==
  /\ pc = "wait"
  /\ now' \in now .. CvDeadline
  /\ \/ /\ waited' = (container["orchestrator"] = "exited")
        /\ Continues("sim_state")
        /\ UNCHANGED finding
     \/ /\ waited' = FALSE
        /\ Continues("sim_state")
        /\ UNCHANGED finding
     \/ Lost /\ UNCHANGED waited
  /\ UNCHANGED << container, leftovers, sent, alive, seenState, recording >>

(* _state of each container: first the sim, then the services.  A service  *)
(* that did not start is not read again.                                   *)
ReadState(c) == seenState' = [seenState EXCEPT ![c] = container[c]]

ReadSim ==
  /\ pc = "sim_state"
  /\ \/ ReadState("sim") /\ Continues("states") /\ UNCHANGED finding
     \/ Lost /\ UNCHANGED seenState
  /\ UNCHANGED << now, container, leftovers, sent, alive, waited, recording >>

ReadPlacement ==
  /\ pc = "states"
  /\ \E s \in {t \in Services : seenState[t] = "none"} :
       \/ ReadState(s) /\ Continues("states") /\ UNCHANGED finding
       \/ container[s] # "created" /\ Lost /\ UNCHANGED seenState
  /\ UNCHANGED << now, container, leftovers, sent, alive, waited, recording >>

(* _participation of one service, from the topics that were heard.         *)
Participation(s, heard) ==
  IF seenState[s] = "created" THEN "failed-to-start"
  ELSE IF seenState[s] = "exited" THEN "container-exited"
  ELSE IF Loosened(s) THEN "participated_loosened"
  ELSE IF Counting(s) \cap heard # {} THEN "participated"
  ELSE "no-message"

Digests == {s \in Services : seenState[s] # "created"}

(* A topic is counted when a service that declares it, or the sim, sent.   *)
Audible == TopicConstant \cup UNION {inputs.publishes[s] : s \in sent}

(* _finished: without a mission, the result names the types it could not   *)
(* load, and their services are the causes.                                *)
Finished ==
  \/ \E mission \in {"completed", "failed"}, heard \in SUBSET (Audible \cap CountingTopics) :
       finding' = Judged([s \in Services |-> Participation(s, heard)], mission, Digests)
  \/ \E unloadable \in SUBSET CountingTopics :
       LET causes == {s \in Services : ~ Loosened(s) /\ Counting(s) \cap unloadable # {}}
       IN  finding' = IF causes = {} THEN CvError("invalid-result")
                      ELSE Judged([s \in Services |-> IF s \in causes THEN "unloadable-type"
                                                                     ELSE "blocked"],
                                  "none", Digests)

ReadResult ==
  /\ pc = "states"
  /\ \A s \in Services : seenState[s] # "none"
  /\ CASE ~ waited -> Comes(CvError("orchestrator-timeout"))
       [] waited /\ seenState["sim"] # "running" -> Comes(CvError("sim-not-running"))
       [] OTHER ->
            \/ \E code \in {"no-result", "result-too-large", "invalid-result"} :
                 Comes(CvError(code))
            \/ Lost
            \/ Comes(CvError("raised"))
            \/ Finished /\ Continues("recording")
  /\ UNCHANGED << now, container, leftovers, sent, alive, seenState, waited, recording >>

(* The result is read first, so the recording cannot change it.            *)
ReadRecording ==
  /\ pc = "recording"
  /\ recording' \in (IF finding.error # "none" THEN {FALSE} ELSE BOOLEAN)
  /\ Continues("teardown")
  /\ UNCHANGED << now, container, leftovers, sent, alive, seenState, waited, finding >>

(* _remove of the containers of this run, and what the adapter makes of    *)
(* the run.  A teardown the engine does not complete replaces its outcome. *)
Removed == [c \in Containers |-> IF container[c] = "late" THEN "late" ELSE "none"]

Teardown ==
  /\ pc = "teardown"
  /\ \/ /\ container' = Removed
        /\ CASE finding.error = "raised" -> Raises
             [] finding.error = "none" -> Concludes(CvVerdict(finding.evidence, recording))
             [] OTHER -> Concludes(ErrorVerdict(finding.error))
        /\ UNCHANGED finding
     \/ /\ container' \in {container, Removed}
        /\ IF finding.error = "raised"
             THEN Raises /\ UNCHANGED finding
             ELSE /\ finding' = CvError("engine-unreachable")
                  /\ Concludes(ErrorVerdict("engine-unreachable"))
     \/ /\ finding.error = "none"
        /\ container' = Removed
        /\ finding' = CvError("evidence-too-large")
        /\ Concludes(ErrorVerdict("evidence-too-large"))
  /\ UNCHANGED << now, leftovers, sent, alive, seenState, waited, recording >>

(* The engine and its containers.                                          *)
ContainerExits ==
  /\ stage = "cv"
  /\ \E c \in Containers :
       /\ container[c] = "running"
       /\ container' = [container EXCEPT ![c] = "exited"]
       /\ alive' = IF c = "orchestrator"
                     THEN {s \in Services : container[s] = "running"} ELSE alive
  /\ UNCHANGED << kit, leftovers, sent, seenState, waited, finding, recording >>

ServiceSends ==
  /\ stage = "cv"
  /\ pc = "wait"
  /\ container["sim"] = "running" /\ container["orchestrator"] = "running"
  /\ \E s \in Services \ sent : container[s] = "running" /\ sent' = sent \cup {s}
  /\ UNCHANGED << kit, container, leftovers, alive, seenState, waited, finding, recording >>

LateStart ==
  /\ stage = "cv"
  /\ \E c \in Containers :
       container[c] = "late" /\ container' = [container EXCEPT ![c] = "running"]
  /\ UNCHANGED << kit, leftovers, sent, alive, seenState, waited, finding, recording >>

CvBody ==
  \/ Declare \/ CleanUp \/ Prepare \/ StartSim \/ StartPlacement \/ StartOrchestrator
  \/ Wait \/ ReadSim \/ ReadPlacement \/ ReadResult \/ ReadRecording \/ Teardown

CvNext ==
  \/ KitNext /\ UNCHANGED cv
  \/ CvBody \/ ContainerExits \/ ServiceSends \/ LateStart

CvInputs ==
  {i \in [sameRepository : BOOLEAN, knownRobot : BOOLEAN, deployment : Deployments,
          images : [Services -> Images], publishes : [Services -> SUBSET Topics],
          devices : [Services -> {"none", "simulated", "other"}]] :
     ImagesFit(i.images, i.deployment)}

-----------------------------------------------------------------------------

(* No container of this run stands beside one of an earlier run that was   *)
(* killed: the leftovers are removed first, whatever run they are of.      *)
RunsDoNotMix ==
  leftovers => \A c \in Containers : container[c] = "none"

(* A run that ended by itself has removed its containers, unless the engine*)
(* failed it or has still to start one.                                    *)
OwnContainersAreRemoved ==
  pc \in {"publish", "done"} /\ exit # "killed"
  /\ finding.error \notin {"raised", "engine-unreachable"}
    => Cardinality({c \in Containers : container[c] # "none"})
         <= (IF finding.error = "start-failed" THEN 1 ELSE 0)

(* ParticipatingService: "A service still running when the orchestrator    *)
(* exited."  Unless its participation is loosened it has sent a message    *)
(* itself, however many services and the sim share a topic.                *)
ParticipationIsEarned ==
  finding.error = "none" =>
    \A s \in Services :
      /\ finding.evidence.services[s] \in Participating => s \in alive
      /\ finding.evidence.services[s] = "participated" => s \in sent
=============================================================================
