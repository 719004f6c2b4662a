----------------------------- MODULE EventCheck -----------------------------
(***************************************************************************)
(* check-events --real-run (_pipeline_event_check.py, with the paths of    *)
(* _pipeline_event_catalogue.py): which consoles conform.  The module has  *)
(* no state.  A console is its sequence of rows.  The rules about bytes,   *)
(* messages, golden files and adapter lines are left out, and so is the    *)
(* identity of the run, which every row here shares.                       *)
(***************************************************************************)
EXTENDS EventRows

(* STAGE_PATHS.                                                            *)
StagePaths ==
  {<< "stage-started", "adapter-running", "checking-output", "publishing",
      "stage-finished" >>,
   << "stage-started", "publishing", "stage-finished" >>,
   << "stage-started", "adapter-running", "publishing", "stage-finished" >>,
   << "stage-started", "adapter-running", "work-limit-reached", "publishing",
      "stage-finished" >>,
   << "stage-started", "adapter-running", "run-deadline-reached", "publishing",
      "stage-finished" >>,
   << "stage-finished" >>}

IsStageLine(event) == event.stage # RunLevel
Finishes(event) == IsStageLine(event) /\ event.step = "stage-finished"

HasRunLevel(events) == \E k \in 1 .. Len(events) : ~ IsStageLine(events[k])

(* _line_rules.                                                            *)
LineConforms(event, scope) ==
  /\ event.step \in (IF IsStageLine(event) THEN StageSteps ELSE RunSteps)
  /\ event.final <=> event.step = "run-finished"
  /\ IsStageLine(event) =>
       event.statuses[event.stage] \in
         (IF event.step = "stage-finished" THEN TerminalStatuses ELSE {"RUNNING"})
  /\ event.ci = CiStatus(event.statuses[1], event.statuses[2], scope)

(* _sequence_rules and _succeeded_problems.                                *)
SucceededBy(events, k, i) ==
  \E j \in 1 .. k : /\ Finishes(events[j]) /\ events[j].stage = i
                    /\ events[j].statuses[i] = "SUCCEEDED"

SequenceConforms(events) ==
  \A k \in 1 .. Len(events) :
    /\ events[k].final => k = Len(events)
    /\ \A j \in 1 .. k - 1 : Finishes(events[j]) => events[k].stage # events[j].stage
    /\ \A i \in Stages :
         ~ events[k].final =>
           (events[k].statuses[i] = "SUCCEEDED" <=> SucceededBy(events, k, i))

(* _add_to_group: the lines of the Stage are the ones from "first" on, and *)
(* they are the first n steps of the path.  A Stage with two groups breaks *)
(* the order of the Stages, and a run-level line inside a group the order  *)
(* of the lines.                                                           *)
IsGroup(events, i, first, n, path) ==
  /\ first + n <= Len(events) + 1
  /\ \A k \in 1 .. n : events[first + k - 1].step = path[k]
  /\ \A k \in 1 .. Len(events) : events[k].stage = i <=> first <= k /\ k < first + n

(* _stage_groups and _path_rules: the last group may stop short of the end *)
(* of its path (KILLED_PREFIXES).                                          *)
StageLines(events) == {k \in 1 .. Len(events) : IsStageLine(events[k])}

PathsConform(events) ==
  LET lines == StageLines(events)
      isLast(i) == \A k \in lines : events[k].stage <= i
  IN  /\ \A j, k \in lines : j <= k => events[j].stage <= events[k].stage
      /\ \A i \in {events[k].stage : k \in lines} :
           \E path \in StagePaths : \E n \in 1 .. Len(path) :
             /\ n = Len(path) \/ isLast(i)
             /\ \E first \in 1 .. Len(events) : IsGroup(events, i, first, n, path)
      /\ \A k \in 1 .. Len(events) :
           events[k].step = "run-accepted" =>
             \A j \in 1 .. k - 1 :
               ~ IsStageLine(events[j]) /\ events[j].step # "run-accepted"
      /\ ~ HasRunLevel(events) =>
           \A j, k \in lines : events[j].stage = events[k].stage

(* allowed_final_statuses, for a final line whose reason is the run        *)
(* deadline: the Stage that was due, or the one that finished last, whose  *)
(* attempt was not accepted in time.                                       *)
CutAt(statuses, cut) ==
  [i \in Stages |-> IF i < cut THEN statuses[i] ELSE IF i = cut THEN "FAILED" ELSE "SKIPPED"]

FirstPending(statuses) ==
  {i \in Stages : statuses[i] = "PENDING" /\ \A j \in 1 .. i - 1 : statuses[j] # "PENDING"}

(* Faulty variant: whoever finished has been accepted.                     *)
AllowedFinalsUnraced(told, reason, finished) ==
  {told} \cup IF reason # "deadline_exceeded" THEN {}
              ELSE {CutAt(told, cut) : cut \in FirstPending(told)}

AllowedFinals(told, reason, finished) ==
  {told} \cup IF reason # "deadline_exceeded" THEN {}
              ELSE {CutAt(told, cut) : cut \in FirstPending(told) \cup finished}

(* _final_statuses_rule.                                                   *)
FinalConforms(events) ==
  \A k \in 1 .. Len(events) :
    events[k].final /\ (\A j \in 1 .. k - 1 : ~ events[j].final) =>
      LET finishing == {j \in 1 .. k - 1 : Finishes(events[j])}
          last == CHOOSE j \in finishing : \A h \in finishing : h <= j
      IN  events[k].statuses \in
            IF finishing = {}
              THEN AllowedFinals([i \in Stages |-> "PENDING"], events[k].reason, {})
              ELSE AllowedFinals(events[last].statuses, events[k].reason,
                                 {events[last].stage})

(* check_events.                                                           *)
Conforms(events) ==
  LET scope == IF HasRunLevel(events) THEN "run" ELSE "single_stage" IN
  /\ \A k \in 1 .. Len(events) : LineConforms(events[k], scope)
  /\ PathsConform(events)
  /\ SequenceConforms(events)
  /\ FinalConforms(events)
=============================================================================
