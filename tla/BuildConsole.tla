---------------------------- MODULE BuildConsole ----------------------------
(***************************************************************************)
(* The console of one Jenkins build: PipelineRun with the pipeline events  *)
(* its processes print.  Each process prints with the attempts it was      *)
(* given: the preflight with none, an execute-jenkins-stage with the       *)
(* accepted ones, the finalization with the whole result                   *)
(* (_jenkins_pipeline.py, _stage_runtime.py, _pipeline_event_printer.py).  *)
(*                                                                         *)
(* Printing and what follows it are two steps, so a process can be stopped *)
(* after any of its lines: a Stage may have told its end and not be        *)
(* accepted, and the finalization then tells another one.                  *)
(***************************************************************************)
EXTENDS PipelineRun, EventCheck

VARIABLES
  console,  \* the rows of the build, in order
  whys      \* the Reason of each attempt that ran, as its Stage published it

telling == << console, whys >>
consoleVars == << vars, telling >>

Events == [stage : Stages \cup {RunLevel}, step : StageSteps \cup RunSteps,
           final : BOOLEAN, statuses : [Stages -> Statuses], ci : Statuses,
           reason : RanReasons \cup SkipCodes]

ConsoleTypeOK ==
  /\ console \in Seq(Events)
  /\ whys \in [Stages -> RanReasons]

ConsoleInit ==
  /\ Init
  /\ console = << >>
  /\ whys = [i \in Stages |-> "none"]

-----------------------------------------------------------------------------
(* What the printers hold: accepted attempts, or a result.                 *)
Held(attempts) ==
  [i \in 1 .. Len(attempts) |->
     Accepted(attempts[i], IF attempts[i].ended = "skipped" THEN attempts[i].code
                           ELSE whys[i])]

LastStep == IF console = << >> THEN "none" ELSE console[Len(console)].step
LastStage == IF console = << >> THEN RunLevel ELSE console[Len(console)].stage

(* EventPrinter.emit.                                                      *)
Emit(at, step, attempts) ==
  console' = Append(console, Row("run", at, step, Held(attempts)))

(* preflight_jenkins_run, its last act.                                    *)
AcceptRun ==
  /\ pc = "preflight" /\ console = << >>
  /\ Emit(RunLevel, "run-accepted", << >>)
  /\ UNCHANGED << vars, whys >>

Prepare ==
  /\ Preflight
  /\ pc = "preflight" => console # << >>
  /\ UNCHANGED telling

(* The Stage starts its adapter, or is skipped before it without a word.   *)
StartStage ==
  /\ LaunchAdapter
  /\ IF PreSpawnSkip(modes[Current], accepted) = "none"
       THEN Emit(Current, "stage-started", accepted)
       ELSE UNCHANGED console
  /\ UNCHANGED whys

SayNext ==
  /\ pc = "execute" /\ agent = "running"
  /\ \E step \in NextSteps(LastStep, clock >= RunDeadline) :
       Emit(Current, step, accepted)
  /\ UNCHANGED << vars, whys >>

(* The attempt that the lines before "publishing" have announced.          *)
PublishAnnounced ==
  /\ LastStep = "publishing"
  /\ PublishAttempt
  /\ \E why \in Reasons(attempt') :
       /\ Fits(console[Len(console) - 1].step, attempt', why)
       /\ whys' = [whys EXCEPT ![Current] = why]
  /\ UNCHANGED console

FinishStage ==
  /\ pc = "execute" /\ agent = "published"
  /\ ~ (LastStage = Current /\ LastStep = "stage-finished")
  /\ Emit(Current, "stage-finished", Append(accepted, attempt))
  /\ UNCHANGED << vars, whys >>

(* The process ends when it has told its end, or when it is too late.      *)
EndStage ==
  /\ agent = "published" => LastStage = Current /\ LastStep = "stage-finished"
  /\ Executed
  /\ UNCHANGED telling

(* Faulty variant: the final line tells the accepted attempts.             *)
FinishRunAccepted ==
  /\ pc = "conclude" /\ LastStep # "run-finished"
  /\ Emit(RunLevel, "run-finished", accepted)
  /\ UNCHANGED << vars, whys >>

(* finalize_jenkins_run, its last act.                                     *)
FinishRun ==
  /\ pc = "conclude" /\ LastStep # "run-finished"
  /\ Emit(RunLevel, "run-finished", bundle)
  /\ UNCHANGED << vars, whys >>

Conclude ==
  /\ Archive
  /\ pc = "conclude" => LastStep = "run-finished"
  /\ UNCHANGED telling

(* The steps of the build that print nothing.                              *)
Silent ==
  /\ \/ Tick \/ NextStage \/ Checkout \/ CheckDeadline \/ Stash \/ AllowContinuation
     \/ SafetyTimeout \/ SchedulingTimeout
     \/ Finalize \/ Assemble \/ Colour
     \/ RunTimeout \/ Break \/ Abort
     \/ pc = "done" /\ UNCHANGED vars
  /\ UNCHANGED telling

ConsoleNext ==
  \/ AcceptRun \/ Prepare
  \/ StartStage \/ SayNext \/ PublishAnnounced \/ FinishStage \/ EndStage
  \/ FinishRun \/ Conclude
  \/ Silent

(* Printing waits for nothing and promises nothing: the fairness is that   *)
(* of the build.                                                           *)
ConsoleSpec == ConsoleInit /\ [][ConsoleNext]_consoleVars
                 /\ WF_vars(Tick) /\ WF_vars(SchedulingTimeout) /\ WF_vars(RunTimeout)

-----------------------------------------------------------------------------
(* Properties.                                                             *)

(* Whatever a build has printed when it is looked at conforms: wherever    *)
(* its processes were stopped, check-events --real-run finds nothing.      *)
ConsoleConforms == Conforms(console)

(* What a row says about a Stage that has ended stays true: only the final *)
(* line takes it back, only by the run deadline, and only of the Stage     *)
(* whose end was told but whose attempt never reached the result.          *)
OnlyTheFinalLineCorrects ==
  \A k \in 2 .. Len(console) : \A i \in Stages :
    LET before == console[k - 1].statuses[i]
        after == console[k].statuses[i]
    IN  after # before =>
          \/ before = "PENDING"
          \/ before = "RUNNING" /\ after \in TerminalStatuses
          \/ /\ console[k].final /\ console[k].reason = "deadline_exceeded"
             /\ i = Len(accepted) + 1 /\ after = "FAILED"

(* A reader of the final line can tell the colour of the result, and a     *)
(* build that ended green has told so: one that ended green though its     *)
(* result is red, since its conclusion was lost, has said that it is red.  *)
FinalLineTellsTheColour ==
  /\ LastStep = "run-finished" =>
       bundle # << >> /\ (RowIsRed(console[Len(console)]) <=> Red(bundle))
  /\ verdict = "SUCCESS" =>
       /\ LastStep = "run-finished"
       /\ RowIsRed(console[Len(console)]) => conclusion = "lost"

-----------------------------------------------------------------------------
(* The inductive invariant behind the theorems.                            *)

Explains(a, why) == a.ended # "skipped" => why \in Reasons(a)

(* The Reasons belong to the attempts, and the final line is printed once  *)
(* the result is there, and with it.                                       *)
WhysInv ==
  /\ \A i \in 1 .. Len(accepted) : Explains(accepted[i], whys[i])
  /\ pc \in {"execute", "stash"} /\ agent = "published" => Explains(attempt, whys[Current])

Concluded == {"archive", "archiving", "manifest", "colour"}

FinalLineInv ==
  /\ LastStep = "run-finished" =>
       /\ bundle # << >>
       /\ pc \in {"conclude", "done"} \cup Concluded
       /\ console[Len(console)] = Row("run", RunLevel, "run-finished", Held(bundle))
  /\ pc \in Concluded \/ verdict = "SUCCESS" => LastStep = "run-finished"

(* What a line tells of an attempt of Stage i, and the statuses of those   *)
(* that passed.                                                            *)
Told(a, i) == AttemptStatus(a, IF a.ended = "skipped" THEN a.code ELSE whys[i])
Passing == {"SUCCEEDED", "NOT_EVALUATED"}

(* A line of a Stage tells the accepted attempts before it, its own Stage  *)
(* and, of the Stages behind it, only whether it blocks them.              *)
LineTells(line) ==
  LET at == line.stage
      ended == line.step = "stage-finished"
  IN  /\ at \in Stages /\ at <= Current
      /\ line.step \in StageSteps
      /\ line.statuses[at] \in (IF ended THEN TerminalStatuses ELSE {"RUNNING"})
      /\ \A i \in Stages :
           /\ i <= Len(accepted) /\ (i < at \/ (i = at /\ ended)) =>
                line.statuses[i] = Told(accepted[i], i)
           /\ i > at =>
                line.statuses[i] =
                  IF ~ ended \/ line.statuses[at] \in Passing THEN "PENDING" ELSE "SKIPPED"

(* The lines, one by one.                                                  *)
RowsInv ==
  \A k \in 1 .. Len(console) :
    /\ console[k].final <=> console[k].step = "run-finished"
    /\ console[k].ci = CiStatus(console[k].statuses[1], console[k].statuses[2], "run")
    /\ IF IsStageLine(console[k]) THEN LineTells(console[k]) /\ k > 1
       ELSE \/ /\ k = 1 /\ console[k].step = "run-accepted"
               /\ \A i \in Stages : console[k].statuses[i] = "PENDING"
            \/ k = Len(console) /\ console[k].step = "run-finished"

(* The lines of two Stages stand in their order, and after its end a Stage *)
(* prints nothing.                                                         *)
OrderInv ==
  \A k \in StageLines(console) : \A j \in StageLines(console) :
    j < k => /\ console[j].stage <= console[k].stage
             /\ Finishes(console[j]) => console[j].stage # console[k].stage

(* Every accepted attempt stands at the end of a path, and the Stage that  *)
(* is due may have begun one.                                              *)
Mute(i) == \A k \in 1 .. Len(console) : console[k].stage # i

GroupsInv ==
  /\ \A i \in 1 .. Len(accepted) : \E path \in StagePaths : \E first \in 1 .. Len(console) :
       IsGroup(console, i, first, Len(path), path)
  /\ Mute(Current) \/ /\ ~ Blocked(accepted)
                      /\ \E path \in StagePaths :
                           \E n \in 1 .. Len(path), first \in 1 .. Len(console) :
                             IsGroup(console, Current, first, n, path)

(* The lines of the Stage that is due, and where its process is.           *)
Finished == LastStage = Current /\ LastStep = "stage-finished"

ProcessInv ==
  /\ pc \in {"loop"} \cup StageWork => console # << >>
  /\ pc \in Scheduling =>
       \/ Mute(Current)
       \/ pc \in {"execute", "stash"} /\ agent \in {"running", "published"}
            /\ LastStage = Current
  /\ pc = "execute" /\ agent = "running" =>
       LastStage = Current /\ LastStep # "stage-finished"
  /\ pc = "execute" /\ agent = "published" =>
       Finished \/ Mute(Current) \/ LastStep = "publishing"
  /\ pc = "stash" => Finished
  /\ pc \in {"execute", "stash"} /\ agent = "published" /\ Finished =>
       console[Len(console)].statuses[Current] = Told(attempt, Current)

ShapeInv == RowsInv /\ OrderInv /\ GroupsInv /\ ProcessInv

ConsoleInv == IInv /\ ConsoleTypeOK /\ WhysInv /\ FinalLineInv /\ ShapeInv
=============================================================================
