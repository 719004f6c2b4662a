--------------------------- MODULE StackOperations ---------------------------
(***************************************************************************)
(* The maintenance of a running installation (deployment/jenkins/bin/stack,*)
(* and the administrator's checks of bin/smoke-check): quiesce, resume and *)
(* reconcile-agent, while GitHub assigns jobs to the runners and Jenkins   *)
(* takes up what they submit.                                              *)
(*                                                                         *)
(* One operator runs one command at a time, but any command or request of  *)
(* it may fail, and HUP, INT or TERM may end the script between two of its *)
(* steps.  A runner whose container has stopped submits nothing any more.  *)
(***************************************************************************)
EXTENDS Naturals, FiniteSets

CONSTANTS
  Runners,   \* the GitHub runners of the installation
  MaxQueue   \* a bound of the model: the builds waiting in Jenkins

ASSUME QueueIsBounded == MaxQueue \in Nat

VARIABLES
  runner,      \* each runner's container: stopped, idle, or executing a job
  controller,  \* Jenkins: up or stopped
  quiet,       \* its quiet mode
  queued,      \* the builds in its queue
  building,    \* one of the fixed jobs has a build that runs
  op,          \* the command the operator runs, or "none"
  at,          \* where it is
  stopped,     \* stopped_runners of quiesce
  failing,     \* operation_status of the command is not 0
  ended        \* the last command, and how it ended: ok, refused, broken

jenkins == << controller, quiet, queued, building >>
command == << op, at, stopped, failing, ended >>
stack   == << runner, jenkins, command >>

Running == {r \in Runners : runner[r] # "stopped"}
Active == queued > 0 \/ building

StackInit ==
  /\ runner \in [Runners -> {"stopped", "idle"}]
  /\ controller = "up"
  /\ quiet = FALSE
  /\ queued = 0
  /\ building = FALSE
  /\ op = "none"
  /\ at = "idle"
  /\ stopped = {}
  /\ failing = FALSE
  /\ ended = << "none", "ok" >>

-----------------------------------------------------------------------------
(* The world: a job hands a run off, and waits for it or gives up.         *)

AssignJob ==
  /\ \E r \in Runners : runner[r] = "idle" /\ runner' = [runner EXCEPT ![r] = "job"]
  /\ UNCHANGED << jenkins, command >>

EndJob ==
  /\ \E r \in Runners : runner[r] = "job" /\ runner' = [runner EXCEPT ![r] = "idle"]
  /\ UNCHANGED << jenkins, command >>

Submit ==
  /\ \E r \in Runners : runner[r] = "job"
  /\ controller = "up" /\ queued < MaxQueue
  /\ queued' = queued + 1
  /\ UNCHANGED << runner, controller, quiet, building, command >>

(* In quiet mode Jenkins starts nothing, and what runs goes on.            *)
StartBuild ==
  /\ controller = "up" /\ ~ quiet /\ ~ building /\ queued > 0
  /\ queued' = queued - 1
  /\ building' = TRUE
  /\ UNCHANGED << runner, controller, quiet, command >>

EndBuild ==
  /\ controller = "up" /\ building
  /\ building' = FALSE
  /\ UNCHANGED << runner, controller, quiet, queued, command >>

(* A handoff that is cancelled, or whose queue deadline has passed, takes   *)
(* its item out of the queue (_jenkins_handoff.py), as any user may.       *)
CancelQueued ==
  /\ controller = "up" /\ queued > 0
  /\ queued' = queued - 1
  /\ UNCHANGED << runner, controller, quiet, building, command >>

World == AssignJob \/ EndJob \/ Submit \/ StartBuild \/ EndBuild \/ CancelQueued

-----------------------------------------------------------------------------
(* The commands.  A script goes on at the next step, or ends.              *)

GoesOn(next) ==
  /\ at' = next
  /\ UNCHANGED << op, failing, ended >>

Ends(how) ==
  /\ op' = "none"
  /\ at' = "idle"
  /\ failing' = FALSE
  /\ ended' = << op, how >>

Commands == {"quiesce", "resume", "reconcile-agent", "stop"}
FirstStep(o) ==
  CASE o = "resume" -> "resume"
    [] o = "reconcile-agent" -> "quiet down"
    [] o = "stop" -> "stop stack"
    [] OTHER -> "probe"

BeginCommand ==
  /\ op = "none" /\ controller = "up"
  /\ op' \in Commands
  /\ at' = FirstStep(op')
  /\ stopped' = {}
  /\ UNCHANGED << runner, jenkins, failing, ended >>

(* refuse_active_runner_job, and the list of the running containers.       *)
ProbeRunners ==
  /\ at = "probe"
  /\ \/ (\E r \in Runners : runner[r] = "job") /\ Ends("refused")
     \/ (\A r \in Runners : runner[r] # "job") /\ GoesOn("stop runners")
     \/ Ends("broken")
  /\ UNCHANGED << runner, jenkins, stopped >>

(* docker stop: a job that was assigned since the probe is cancelled.      *)
StopRunners ==
  /\ at = "stop runners"
  /\ \/ /\ stopped' = Running
        /\ runner' = [r \in Runners |-> "stopped"]
        /\ GoesOn("quiet down")
     \/ /\ \E some \in SUBSET Running :
             runner' = [r \in Runners |-> IF r \in some THEN "stopped" ELSE runner[r]]
        /\ Ends("broken")
        /\ UNCHANGED stopped
  /\ UNCHANGED jenkins

(* A mutant: the two reads without the quiet mode.                         *)
QuietDownNever ==
  /\ at = "quiet down"
  /\ GoesOn("read queue")
  /\ UNCHANGED << runner, jenkins, stopped >>

(* _idle with quiesce: quiet mode first, then the two reads.  A request    *)
(* that fails may have been handled.                                       *)
QuietDown ==
  /\ at = "quiet down"
  /\ \/ quiet' = TRUE /\ GoesOn("read queue")
     \/ /\ quiet' \in {quiet, TRUE}
        /\ failing' = TRUE
        /\ at' = "refused"
        /\ UNCHANGED << op, ended >>
  /\ UNCHANGED << runner, controller, queued, building, stopped >>

(* _assert_no_active_run: the queue, then the builds of the fixed jobs.    *)
ReadQueue ==
  /\ at = "read queue"
  /\ \/ queued = 0 /\ GoesOn("read builds")
     \/ queued > 0 /\ GoesOn("cancel quiet")
     \/ failing' = TRUE /\ at' = "cancel quiet" /\ UNCHANGED << op, ended >>
  /\ UNCHANGED << runner, jenkins, stopped >>

ReadBuilds ==
  /\ at = "read builds"
  /\ \/ ~ building /\ op = "reconcile-agent" /\ GoesOn("replace")
     \/ ~ building /\ op = "quiesce" /\ Ends("ok")
     \/ ~ building /\ op = "snapshot" /\ GoesOn("stop stack")
     \/ building /\ GoesOn("cancel quiet")
     \/ failing' = TRUE /\ at' = "cancel quiet" /\ UNCHANGED << op, ended >>
  /\ UNCHANGED << runner, jenkins, stopped >>

CancelQuiet ==
  /\ at = "cancel quiet"
  /\ \/ quiet' = FALSE /\ GoesOn("refused")
     \/ /\ quiet' \in {quiet, FALSE}
        /\ failing' = TRUE
        /\ at' = "refused"
        /\ UNCHANGED << op, ended >>
  /\ UNCHANGED << runner, controller, queued, building, stopped >>

(* A refused quiesce restarts the runners it has stopped; a refused        *)
(* reconcile-agent has stopped none.                                       *)
Refused ==
  /\ at = "refused"
  /\ \/ /\ runner' = [r \in Runners |-> IF r \in stopped THEN "idle" ELSE runner[r]]
        /\ Ends(IF failing THEN "broken" ELSE "refused")
     \/ /\ stopped # {}
        /\ Ends("broken")
        /\ UNCHANGED runner
  /\ UNCHANGED << jenkins, stopped >>

(* The image is built and checked and the agent's container replaced; then *)
(* resume_after_reconciliation, which every way out runs through.          *)
ReplaceAgent ==
  /\ at = "replace"
  /\ at' = "idle queue"
  /\ failing' \in BOOLEAN
  /\ UNCHANGED << runner, jenkins, op, stopped, ended >>

LookAgain ==
  /\ at \in {"idle queue", "idle builds"}
  /\ \/ IF at = "idle queue" THEN queued = 0 /\ GoesOn("idle builds")
                             ELSE ~ building /\ GoesOn("resume")
     \/ (IF at = "idle queue" THEN queued > 0 ELSE building) /\ Ends("refused")
     \/ Ends("broken")
  /\ UNCHANGED << runner, jenkins, stopped >>

(* admin_check resume; the resume command then starts every runner.        *)
Resume ==
  /\ at = "resume"
  /\ \/ /\ quiet' = FALSE
        /\ IF op = "resume"
             THEN \/ runner' = [r \in Runners |-> IF r \in Running THEN runner[r] ELSE "idle"]
                     /\ Ends("ok")
                  \/ runner' \in [Runners -> {"stopped", "idle", "job"}]
                     /\ (\A r \in Running : runner'[r] = runner[r])
                     /\ (\A r \in Runners \ Running : runner'[r] # "job")
                     /\ Ends("broken")
             ELSE Ends(IF failing THEN "broken" ELSE "ok") /\ UNCHANGED runner
     \/ quiet' \in {quiet, FALSE} /\ Ends("broken") /\ UNCHANGED runner
  /\ UNCHANGED << controller, queued, building, stopped >>

(* stop: a container that had to be killed, or that cannot be looked at,   *)
(* ends it.  A build that runs stays unfinished on the volume.             *)
StopStack ==
  /\ at = "stop stack"
  /\ \/ /\ controller' = "stopped"
        /\ runner' = [r \in Runners |-> "stopped"]
        /\ IF op = "stop" THEN Ends("ok") ELSE GoesOn("archive")
     \/ /\ controller' \in {controller, "stopped"}
        /\ \E some \in SUBSET Running :
             runner' = [r \in Runners |-> IF r \in some THEN "stopped" ELSE runner[r]]
        /\ Ends("broken")
  /\ UNCHANGED << quiet, queued, building, stopped >>

(* start: it refuses while a runner executes a job, and Jenkins does not   *)
(* come up quiet.                                                          *)
StartStack ==
  /\ op = "none" /\ controller = "stopped"
  /\ \A r \in Runners : runner[r] # "job"
  /\ controller' \in {"up", "stopped"}
  /\ runner' \in [Runners -> {"stopped", "idle"}]
  /\ (controller' = "stopped" => runner' = runner)
  /\ quiet' = FALSE
  /\ ended' = << "start", IF Running' = Runners THEN "ok" ELSE "broken" >>
  /\ UNCHANGED << queued, building, op, at, stopped, failing >>

(* HUP, INT or TERM.  Only reconcile-agent has a trap, once Jenkins is     *)
(* quiet, and only its replacement is interrupted into it.                 *)
Interrupt ==
  /\ op \in Commands
  /\ IF at = "replace"
       THEN at' = "idle queue" /\ failing' = TRUE /\ UNCHANGED << op, ended >>
       ELSE Ends("broken")
  /\ UNCHANGED << runner, jenkins, stopped >>

Steps ==
  \/ ProbeRunners \/ StopRunners \/ QuietDown \/ ReadQueue \/ ReadBuilds \/ CancelQuiet
  \/ Refused \/ ReplaceAgent \/ LookAgain \/ Resume \/ StopStack

StackNext == World \/ BeginCommand \/ Steps \/ Interrupt

-----------------------------------------------------------------------------

(* An agent is replaced while no build runs: "refuses replacement unless   *)
(* the queue and both fixed jobs are idle" (lines 658-659 of               *)
(* deployment/jenkins/README.md).                                          *)
ReplacedWhileIdle == op = "reconcile-agent" /\ at = "replace" => ~ building

(* A quiesce has stopped every runner and left Jenkins quiet and idle; one *)
(* that refused has started again the runners it had stopped, and leaves   *)
(* Jenkins quiet only if it found a job before it had stopped any.  A      *)
(* reconcile-agent that refused after the replacement may leave Jenkins    *)
(* quiet, but then no build runs beside the new agent: what it found waits *)
(* in the queue, or has been withdrawn since.                              *)
CommandsAreWhole ==
  /\ ended = << "quiesce", "ok" >> /\ op = "none" => quiet /\ Running = {} /\ ~ Active
  /\ ended = << "quiesce", "refused" >> /\ op = "none" 
       => stopped \subseteq Running /\ (stopped # {} => ~ quiet)
  /\ ended = << "reconcile-agent", "refused" >> /\ op = "none" /\ quiet => ~ building
=============================================================================
