------------------------------ MODULE EventRows ------------------------------
(***************************************************************************)
(* The rows of the pipeline events (_pipeline_event_rows.py, with          *)
(* derive_ci_status of _pipeline_events.py) and the order in which the     *)
(* runtime prints the lines of one Stage (_stage_runtime.py).  The module  *)
(* has no state.                                                           *)
(*                                                                         *)
(* A row is reduced to its line and its statuses.  The fields copied from  *)
(* result files, the messages and the adapter lines, which no adapter      *)
(* prints yet, are left out.                                               *)
(***************************************************************************)
EXTENDS StageAttempts

RunLevel == 0   \* the stage of a run-level line

RunSteps == {"run-accepted", "run-finished"}
LimitSteps == {"work-limit-reached", "run-deadline-reached"}
StageSteps == {"stage-started", "adapter-running", "checking-output", "publishing",
               "stage-finished"} \cup LimitSteps

TerminalStatuses == {"SUCCEEDED", "FAILED", "SKIPPED", "NOT_EVALUATED"}
Statuses == {"PENDING", "RUNNING"} \cup TerminalStatuses

(* The Reason of an attempt: the code of a skip; the limit of the run, or  *)
(* anything else, for an execution that failed; "domain" for a negative    *)
(* outcome; and "none" exactly for a positive one, as a fixture states its *)
(* limits and an adapter says why it could not evaluate.                   *)
RanReasons == {"none", "unevaluated", "domain", "adapter", "deadline_exceeded"}

Reasons(a) ==
  CASE a.ended = "skipped" -> {a.code}
    [] a.ended = "failed" -> {"adapter", "deadline_exceeded"}
    [] a.ended = "negative" -> {"domain"}
    [] OTHER -> {"unevaluated"} \cup (IF a.mode = "fixture" THEN {} ELSE {"none"})

(* What a printer holds of a Stage that has an attempt.                    *)
Accepted(a, reason) == [attempt |-> a, reason |-> reason]

(* attempt_status.                                                         *)
AttemptStatus(a, reason) ==
  CASE a.ended = "skipped" /\ reason # "deadline_exceeded" -> "SKIPPED"
    [] a.ended = "passed" -> IF reason = "none" THEN "SUCCEEDED" ELSE "NOT_EVALUATED"
    [] OTHER -> "FAILED"

(* stage_states: the Stages of a printer that holds the attempts "done",   *)
(* while the Stage "running" runs.                                         *)
StageStates(done, running) ==
  LET blocked(i) == \E j \in DOMAIN done : j < i /\ Blocks(done[j].attempt) IN
  [i \in Stages |->
     IF i = running THEN [status |-> "RUNNING", reason |-> "none"]
     ELSE IF i \in DOMAIN done
       THEN [status |-> AttemptStatus(done[i].attempt, done[i].reason),
             reason |-> done[i].reason]
     ELSE [status |-> IF blocked(i) THEN "SKIPPED" ELSE "PENDING", reason |-> "none"]]

(* Faulty variant: every skip is told after what was not evaluated.        *)
TierOfSkipsLast(state) ==
  IF state.reason \in {"none", "prerequisite_blocked"} THEN 4
  ELSE IF state.status = "FAILED" THEN 1
  ELSE 3

(* StageState.tier, 4 for a Stage that gives no reason.                    *)
Tier(state) ==
  IF state.reason \in {"none", "prerequisite_blocked"} THEN 4
  ELSE CASE state.status = "FAILED" -> 1
         [] state.status = "SKIPPED" -> IF state.reason \in RedCodes THEN 2 ELSE 3
         [] state.status = "NOT_EVALUATED" -> 3
         [] OTHER -> 4

(* failure_reason: of the earliest Stage of the first tier.                *)
Precedes(states, i, j) ==
  \/ Tier(states[i]) < Tier(states[j])
  \/ Tier(states[i]) = Tier(states[j]) /\ i <= j

FailureReason(states) ==
  IF \A i \in Stages : Tier(states[i]) = 4 THEN "none"
  ELSE states[CHOOSE i \in Stages : \A j \in Stages : Precedes(states, i, j)].reason

(* _CI_SEVERITY.                                                           *)
Severity == [s \in TerminalStatuses |->
               CASE s = "FAILED" -> 3 [] s = "SKIPPED" -> 2
                 [] s = "NOT_EVALUATED" -> 1 [] s = "SUCCEEDED" -> 0]

(* derive_ci_status, for the printers of a run and of a single Stage.      *)
CiStatus(composition, imageBuild, scope) ==
  LET halves == {composition, imageBuild}
      ended == halves \ {"PENDING"}
  IN  IF "RUNNING" \in halves THEN "RUNNING"
      ELSE IF ended = {} THEN "PENDING"
      ELSE IF ended # halves /\ scope = "run" THEN "RUNNING"
      ELSE CHOOSE worst \in ended : \A other \in ended : Severity[other] <= Severity[worst]

(* build_row.                                                              *)
Row(scope, stage, step, done) ==
  LET running == IF step = "stage-finished" THEN RunLevel ELSE stage
      states == StageStates(done, running)
      statuses == [i \in Stages |-> states[i].status]
  IN  [stage |-> stage, step |-> step, final |-> step = "run-finished",
       statuses |-> statuses, ci |-> CiStatus(statuses[1], statuses[2], scope),
       reason |-> FailureReason(states)]

(* What a reader of a final row takes for red: a failed CV or CD, or a     *)
(* Reason that is not an outcome of Composition or of Image build.         *)
RowIsRed(event) ==
  \/ \E i \in Judges : event.statuses[i] = "FAILED"
  \/ event.reason \in {"adapter"} \cup RedCodes

-----------------------------------------------------------------------------
(* _run_adapter and execute_identified_stage: the line after a line, and   *)
(* the attempts that fit the last line before publishing.                  *)
NextSteps(step, deadlinePassed) ==
  CASE step = "stage-started" -> {"adapter-running", "publishing"}
    [] step = "adapter-running" ->
         {"checking-output", "work-limit-reached", "publishing"}
           \cup (IF deadlinePassed THEN {"run-deadline-reached"} ELSE {})
    [] step = "checking-output" \/ step \in LimitSteps -> {"publishing"}
    [] OTHER -> {}

Fits(step, a, reason) ==
  CASE step = "checking-output" -> reason # "deadline_exceeded"
    [] step = "run-deadline-reached" -> reason = "deadline_exceeded"
    [] OTHER -> reason = "adapter"
=============================================================================
