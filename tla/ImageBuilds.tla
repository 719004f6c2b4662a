----------------------------- MODULE ImageBuilds -----------------------------
(***************************************************************************)
(* The image-build adapter (_image_build_adapter.py): one buildctl client  *)
(* per placement, all at once, each recorded as built or failed; at the    *)
(* deadline the clients still running are stopped, and finished images are *)
(* read back until the cutoff.                                             *)
(*                                                                         *)
(* The clients are processes of their own: each may exit between any two   *)
(* steps of the adapter.  A registry read waits for bytes several times,   *)
(* and its timeout bounds each wait (the timeout of requests).             *)
(***************************************************************************)
EXTENDS AdapterKit

CONSTANTS
  BuildLimit,       \* work_limit_seconds
  DeadlineReserve,  \* DEADLINE_RESERVE_SECONDS
  CancelGrace,      \* CANCEL_GRACE_SECONDS
  PublishReserve,   \* PUBLISH_RESERVE_SECONDS
  RegistryTimeout,  \* REGISTRY_TIMEOUT_SECONDS, and PROBE_TIMEOUT_SECONDS
  BuildPoll,        \* POLL_SECONDS
  ReadWaits,        \* the waits of one registry read, at most
  MaxPlacements     \* MAX_PLACEMENTS

ASSUME BuildTimes ==
  /\ {BuildLimit, CancelGrace, PublishReserve, MaxPlacements} \subseteq Nat
  /\ {RegistryTimeout, BuildPoll, ReadWaits} \subseteq Nat \ {0}
  /\ DeadlineReserve \in Nat /\ DeadlineReserve >= CancelGrace + PublishReserve

VARIABLES
  client,    \* each buildctl client: none, running, built, broken, stopped
  pushed,    \* the platforms of the image a client pushed
  pending,   \* the clients not seen to have exited
  toVisit,   \* what this pass over the pending clients has not polled yet
  toRead,    \* the clients that finished before the others were stopped
  records,   \* the record of each placement, "none" while it has none
  raised     \* a client could not be started

build == << client, pushed, pending, toVisit, toRead, records, raised >>

BuildDeadline == BuildLimit - DeadlineReserve
ReadCutoff == BuildDeadline + DeadlineReserve - CancelGrace - PublishReserve

(* _plan: what the artifact of a placement can be built for, unless the    *)
(* description lacks it or it names no captured recipe.                    *)
Recipes == {r \in [usable : BOOLEAN, architectures : SUBSET Architectures] :
              r.architectures # {}}

ToBuild == {s \in Services : inputs.deployment[s].resolved /\ inputs.recipes[s].usable}
Unplanned(s) ==
  FailedImage(IF inputs.deployment[s].resolved THEN "no-recipe" ELSE "unresolved-placement")
Requested(s) == inputs.recipes[s].architectures

BuildFails(category) ==
  Verdict(Outcome("failed", "not_evaluated", category), NoDocuments, {})

(* _merge, ImageBuildResult and RECORDED.                                  *)
Recorded(built) ==
  Verdict(Outcome("succeeded", "succeeded", "domain"),
          [slot \in {"image_build_result"} |->
             [s \in Services |-> IF s \in ToBuild THEN built[s] ELSE Unplanned(s)]], {})

BuildIdle ==
  /\ client = [s \in Services |-> "none"]
  /\ pushed = [s \in Services |-> {}]
  /\ pending = {}
  /\ toVisit = {}
  /\ toRead = {}
  /\ records = [s \in Services |-> FailedImage("none")]
  /\ raised = FALSE

(* A repository other than the one composition read, too many placements,  *)
(* or nothing to build.                                                    *)
CheckBuildInputs ==
  /\ stage = "image_build"
  /\ pc = "body"
  /\ IF ~ inputs.sameRepository \/ Cardinality(Services) > MaxPlacements
       THEN Concludes(BuildFails("input"))
       ELSE IF ToBuild = {} THEN Concludes(Recorded(records)) ELSE Continues("services")
  /\ UNCHANGED << now, build >>

(* _build_services_failure: the builder lists its workers, the registry    *)
(* answers, and an arm64 image has a worker.                               *)
AskServices ==
  /\ pc = "services"
  /\ now' \in now .. now + (1 + ReadWaits) * RegistryTimeout
  /\ \/ Concludes(BuildFails("dependency"))
     \/ Continues("deadline")
  /\ UNCHANGED build

(* _run_builds at a deadline that has passed: no build is started.         *)
CheckDeadline ==
  /\ pc = "deadline"
  /\ IF now >= BuildDeadline
       THEN Concludes(Recorded([s \in Services |-> FailedImage("work-limit")]))
       ELSE Continues("starting")
  /\ UNCHANGED << now, build >>

(* One at a time; a client that cannot be started ends the run.            *)
StartClient ==
  /\ pc = "starting"
  /\ \E s \in {t \in ToBuild : client[t] = "none"} :
       \/ /\ client' = [client EXCEPT ![s] = "running"]
          /\ pending' = pending \cup {s}
          /\ Continues(IF pending' = ToBuild THEN "polling" ELSE "starting")
          /\ UNCHANGED raised
       \/ raised' = TRUE /\ Continues("finally") /\ UNCHANGED << client, pending >>
  /\ UNCHANGED << now, pushed, toVisit, toRead, records >>

(* A pass over the pending clients does not look at the clock again.       *)
BeginPass ==
  /\ pc = "polling"
  /\ IF pending # {} /\ now < BuildDeadline
       THEN toVisit' = pending /\ Continues("visiting") /\ UNCHANGED toRead
       ELSE /\ toRead' = {s \in pending : client[s] # "running"}
            /\ Continues("stopping")
            /\ UNCHANGED toVisit
  /\ UNCHANGED << now, client, pushed, pending, records, raised >>

(* A mutant: a read is given its whole timeout, whatever the time.         *)
FinishUncapped(s) ==
  LET reads == client[s] = "built" /\ Cardinality(Requested(s)) > 1
      readBack == IF pushed[s] = Requested(s) THEN BuiltImage(pushed[s])
                                              ELSE FailedImage("build-failed")
  IN  /\ now' \in now .. (IF reads THEN now + ReadWaits * RegistryTimeout ELSE now)
      /\ \E record \in
            (IF client[s] # "built" THEN {FailedImage("build-failed")}
             ELSE IF reads THEN {readBack, FailedImage("build-failed")}
             ELSE {BuiltImage(Requested(s)), FailedImage("build-failed")}) :
            records' = [records EXCEPT ![s] = record]

(* _finished_record of a client that has exited.  The image of a single    *)
(* architecture is not read back, another one is, until the cutoff.        *)
Finish(s) ==
  LET timeout == IF ReadCutoff - now < RegistryTimeout THEN ReadCutoff - now ELSE RegistryTimeout
      reads == client[s] = "built" /\ Cardinality(Requested(s)) > 1 /\ timeout > 0
      readBack == IF pushed[s] = Requested(s) THEN BuiltImage(pushed[s])
                                              ELSE FailedImage("build-failed")
  IN  /\ now' \in now .. (IF reads THEN now + ReadWaits * timeout ELSE now)
      /\ \E record \in
            (IF client[s] # "built" THEN {FailedImage("build-failed")}
             ELSE IF reads THEN {readBack, FailedImage("build-failed")}
             ELSE IF Cardinality(Requested(s)) > 1 THEN {FailedImage("work-limit")}
             ELSE {BuiltImage(Requested(s)), FailedImage("build-failed")}) :
            records' = [records EXCEPT ![s] = record]

(* One client of the pass; after the last one the adapter sleeps if some   *)
(* are still pending.                                                      *)
Visit ==
  /\ pc = "visiting"
  /\ \E s \in toVisit :
       /\ toVisit' = toVisit \ {s}
       /\ IF client[s] = "running"
            THEN UNCHANGED << now, pending, records >>
            ELSE Finish(s) /\ pending' = pending \ {s}
  /\ Continues(CASE toVisit' # {} -> "visiting"
                 [] toVisit' = {} /\ pending' # {} -> "poll_sleep"
                 [] OTHER -> "polling")
  /\ UNCHANGED << client, pushed, toRead, raised >>

PollSleep ==
  /\ pc = "poll_sleep"
  /\ now' = now + BuildPoll
  /\ Continues("polling")
  /\ UNCHANGED build

(* _stop: SIGTERM to every client still running, SIGKILL to those that     *)
(* outlive the grace, and none is left.                                    *)
Stopped(which) ==
  /\ client' = [s \in Services |-> IF s \in which /\ client[s] = "running"
                                     THEN "stopped" ELSE client[s]]
  /\ now' \in now .. (IF client' = client THEN now ELSE now + CancelGrace)

StopUnfinished ==
  /\ pc = "stopping"
  /\ Stopped(pending \ toRead)
  /\ Continues("reading")
  /\ UNCHANGED << pushed, pending, toVisit, toRead, records, raised >>

ReadFinished ==
  /\ pc = "reading"
  /\ IF toRead # {}
       THEN /\ \E s \in toRead :
                 Finish(s) /\ toRead' = toRead \ {s} /\ pending' = pending \ {s}
            /\ Continues("reading")
       ELSE /\ records' = [s \in Services |-> IF s \in pending THEN FailedImage("work-limit")
                                                               ELSE records[s]]
            /\ Continues("finally")
            /\ UNCHANGED << now, toRead, pending >>
  /\ UNCHANGED << client, pushed, toVisit, raised >>

(* The finally clause; then the result, or the exception.                  *)
StopRunning ==
  /\ pc = "finally"
  /\ Stopped(Services)
  /\ IF raised THEN Raises ELSE Concludes(Recorded(records))
  /\ UNCHANGED << pushed, pending, toVisit, toRead, records, raised >>

(* A client exits: it has pushed an image, for the requested platforms or  *)
(* fewer, or it has failed.                                                *)
ClientExits ==
  /\ stage = "image_build"
  /\ \E s \in Services :
       /\ client[s] = "running"
       /\ \/ /\ client' = [client EXCEPT ![s] = "built"]
             /\ \E platforms \in (SUBSET Requested(s)) \ {{}} :
                  pushed' = [pushed EXCEPT ![s] = platforms]
          \/ client' = [client EXCEPT ![s] = "broken"] /\ UNCHANGED pushed
  /\ UNCHANGED << kit, pending, toVisit, toRead, records, raised >>

BuildBody ==
  \/ CheckBuildInputs \/ AskServices \/ CheckDeadline \/ StartClient \/ BeginPass
  \/ Visit \/ PollSleep \/ StopUnfinished \/ ReadFinished \/ StopRunning

(* The runtime kills the process group, and the clients are in it.         *)
BuildKilled ==
  /\ Kill
  /\ client' = [s \in Services |-> IF client[s] = "running" THEN "stopped" ELSE client[s]]
  /\ UNCHANGED << pushed, pending, toVisit, toRead, records, raised >>

BuildNext ==
  \/ (Begin \/ Refuse \/ Publish \/ PublishRaises) /\ UNCHANGED build
  \/ BuildKilled \/ BuildBody \/ ClientExits

(* Composition places a service on a host only with an artifact that runs  *)
(* on it (_place).                                                         *)
BuildInputs ==
  {i \in [sameRepository : BOOLEAN, deployment : Deployments, recipes : [Services -> Recipes]] :
     \A s \in Services : i.deployment[s].resolved
        => ArchitectureOf(i.deployment[s].host) \in i.recipes[s].architectures}

-----------------------------------------------------------------------------

(* No buildctl client outlives the adapter, however it ends: the deadline, *)
(* a client that could not be started, or the runtime's kill of the group. *)
ClientsAreStopped ==
  exit # "none" => \A s \in Services : client[s] # "running"

(* An image is recorded as built only if its client has pushed it for      *)
(* every platform asked for, and the work limit is blamed only once the    *)
(* deadline has come.                                                      *)
ImageRecordsAreTrue ==
  \A s \in Services :
    /\ Built(records[s]) => client[s] = "built" /\ records[s].platforms = pushed[s]
    /\ records[s].status = "work-limit" => now >= BuildDeadline

(* The reads and the stop of the clients leave the reserve for publishing  *)
(* the result (PUBLISH_RESERVE_SECONDS, and the comment on read_cutoff),   *)
(* but for one sleep between polls, which looks at no cutoff, and the waits*)
(* of one read after its first, each of which has the whole timeout.       *)
BuildKeepsItsTime ==
  stage = "image_build" /\ BuildDeadline >= (1 + ReadWaits) * RegistryTimeout
    => now <= BuildLimit - PublishReserve + BuildPoll + (ReadWaits - 1) * RegistryTimeout
=============================================================================
