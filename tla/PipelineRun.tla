----------------------------- MODULE PipelineRun -----------------------------
(***************************************************************************)
(* One Jenkins build of the root Jenkinsfile: the scheduler, the agent     *)
(* that executes the current Stage (execute_jenkins_stage) and the         *)
(* finalization (finalize_jenkins_run), all in _jenkins_pipeline.py.       *)
(*                                                                         *)
(* Time is the number of limits that have passed: the run deadline, the    *)
(* scheduling limit, the run limit.  Jenkins acts on a limit some time     *)
(* after it has passed, and its timeout steps interrupt whichever step is  *)
(* waiting; a node, a checkout, an adapter or a stash may take any time,   *)
(* or fail.                                                                *)
(***************************************************************************)
EXTENDS StageAttempts

CONSTANT Descriptors   \* the adapter modes a commit may select, Stage by Stage

ASSUME DescriptorsAreModes ==
  Descriptors # {} /\ Descriptors \subseteq [Stages -> Modes]

VARIABLES
  modes,          \* the Jenkins descriptors at the submitted commit
  clock,          \* the limits that have passed
  pc,             \* where the build is
  accepted,       \* acceptedStages, with their stashed attempts
  continueChain,
  expired,        \* runDeadlineExpired
  agent,          \* the execute-jenkins-stage process of the current Stage
  attempt,        \* what it has published in its workspace
  launched,       \* the Stages whose adapter was started, in order
  bundle,         \* the attempts of the assembled result, << >> before
  conclusion,     \* what the build knows of bundle-conclusion: nothing yet,
                  \* its status, or that it did not end by itself
  archived,       \* how much of the bundle Jenkins has archived
  verdict         \* the result of the build

chain == << accepted, continueChain, expired >>
stage == << agent, attempt, launched >>
ending == << bundle, conclusion, archived >>
vars == << modes, clock, pc, chain, stage, ending, verdict >>

RunDeadline == 1
SchedulingLimit == 2
RunLimit == 3
NoAttempt == [mode |-> "none", ended |-> "none", code |-> "none"]

(* Inside the inner timeout, in it while an agent works on a Stage, and in *)
(* the Finalize stage.                                                     *)
StageWork == {"checkout", "execute", "stash", "continue"}
Scheduling == {"resources", "preflight", "loop"} \cup StageWork
Finalizing == {"finalize", "assemble", "conclude", "archive", "archiving", "manifest",
               "colour"}

TypeOK ==
  /\ modes \in Descriptors
  /\ clock \in 0 .. RunLimit
  /\ pc \in Scheduling \cup Finalizing \cup {"done"}
  /\ accepted \in Seq(Attempts) /\ Len(accepted) <= StageCount
  /\ continueChain \in BOOLEAN
  /\ expired \in BOOLEAN
  /\ agent \in {"idle", "started", "checked", "running", "published", "expired"}
  /\ attempt \in Attempts \cup {NoAttempt}
  /\ launched \in Seq(Stages)
  /\ bundle \in Seq(Attempts) /\ Len(bundle) \in {0, StageCount}
  /\ conclusion \in {"none", "told", "lost"}
  /\ archived \in {"none", "partial", "whole"}
  /\ verdict \in {"none", "SUCCESS", "FAILURE", "ABORTED"}

Init ==
  /\ modes \in Descriptors
  /\ clock = 0
  /\ pc = "resources"
  /\ accepted = << >>
  /\ continueChain = TRUE
  /\ expired = FALSE
  /\ agent = "idle"
  /\ attempt = NoAttempt
  /\ launched = << >>
  /\ bundle = << >>
  /\ conclusion = "none"
  /\ archived = "none"
  /\ verdict = "none"

-----------------------------------------------------------------------------
Current == Len(accepted) + 1

End(result) == pc' = "done" /\ verdict' = result

Tick ==
  /\ verdict = "none"
  /\ clock < RunLimit
  /\ clock' = clock + 1
  /\ UNCHANGED << modes, pc, chain, stage, ending, verdict >>

(* Every agent is allocated once, and the integration agent revalidates    *)
(* the submitted run.                                                      *)
Preflight ==
  /\ \/ pc = "resources" /\ pc' = "preflight"
     \/ pc = "preflight" /\ pc' = "loop"
  /\ UNCHANGED << modes, clock, chain, stage, ending, verdict >>

(* The head of the Stage loop.                                             *)
NextStage ==
  /\ pc = "loop"
  /\ IF ~ continueChain \/ Len(accepted) = StageCount
       THEN pc' = "finalize" /\ UNCHANGED expired
       ELSE IF clock >= RunDeadline
              THEN pc' = "finalize" /\ expired' = TRUE
              ELSE pc' = "checkout" /\ UNCHANGED expired
  /\ UNCHANGED << modes, clock, accepted, continueChain, stage, ending, verdict >>

(* A node of the Stage, the submitted commit, the accepted attempts.       *)
Checkout ==
  /\ pc = "checkout"
  /\ pc' = "execute"
  /\ agent' = "started"
  /\ UNCHANGED << modes, clock, chain, attempt, launched, ending, verdict >>

(* The agent revalidates what it was given and looks at the run deadline.  *)
CheckDeadline ==
  /\ pc = "execute" /\ agent = "started"
  /\ ~ Blocked(accepted) /\ Current \in Stages
  /\ agent' = IF clock >= RunDeadline THEN "expired" ELSE "checked"
  /\ UNCHANGED << modes, clock, pc, chain, attempt, launched, ending, verdict >>

LaunchAdapter ==
  /\ pc = "execute" /\ agent = "checked"
  /\ IF PreSpawnSkip(modes[Current], accepted) = "none"
       THEN /\ agent' = "running"
            /\ launched' = Append(launched, Current)
            /\ UNCHANGED attempt
       ELSE /\ agent' = "published"
            /\ attempt' \in Executions(modes[Current], accepted)
            /\ UNCHANGED launched
  /\ UNCHANGED << modes, clock, pc, chain, ending, verdict >>

(* The adapter ended, or was stopped at its work limit or at the run       *)
(* deadline, and its attempt is published.                                 *)
PublishAttempt ==
  /\ pc = "execute" /\ agent = "running"
  /\ attempt' \in Executions(modes[Current], accepted)
  /\ agent' = "published"
  /\ UNCHANGED << modes, clock, pc, chain, launched, ending, verdict >>

(* The exit statuses 0 and 3 of the agent.                                 *)
Executed ==
  /\ pc = "execute"
  /\ \/ /\ agent = "published"
        /\ pc' = "stash"
        /\ UNCHANGED << continueChain, expired, agent >>
     \/ /\ agent = "expired"
        /\ pc' = "loop"
        /\ continueChain' = FALSE /\ expired' = TRUE /\ agent' = "idle"
  /\ UNCHANGED << modes, clock, accepted, attempt, launched, ending, verdict >>

(* A step can be interrupted until it has ended, so the attempt counts     *)
(* from the end of its stash.                                              *)
Stash ==
  /\ pc = "stash"
  /\ accepted' = Append(accepted, attempt)
  /\ pc' = "continue"
  /\ agent' = "idle" /\ attempt' = NoAttempt
  /\ UNCHANGED << modes, clock, continueChain, expired, launched, ending, verdict >>

AllowContinuation ==
  /\ pc = "continue"
  /\ continueChain' = ~ Blocks(accepted[Len(accepted)])
  /\ pc' = "loop"
  /\ UNCHANGED << modes, clock, accepted, expired, stage, ending, verdict >>

(* The safety timeout around a Stage, before the scheduling limit; after   *)
(* it, it is taken for the scheduling timeout.                             *)
SafetyTimeout ==
  /\ pc = "execute" /\ clock < SchedulingLimit
  /\ End("FAILURE")
  /\ UNCHANGED << modes, clock, chain, stage, ending >>

(* Faulty variant: only the Stages are bounded.                            *)
SchedulingTimeoutInStages ==
  /\ pc \in StageWork /\ clock >= SchedulingLimit
  /\ pc' = "finalize"
  /\ expired' = TRUE
  /\ agent' = "idle" /\ attempt' = NoAttempt
  /\ UNCHANGED << modes, clock, accepted, continueChain, launched, ending, verdict >>

(* Faulty variant: the interrupted Stages are not marked.                  *)
SchedulingTimeoutUnmarked ==
  /\ pc \in Scheduling /\ clock >= SchedulingLimit
  /\ pc' = "finalize"
  /\ agent' = "idle" /\ attempt' = NoAttempt
  /\ UNCHANGED << modes, clock, chain, launched, ending, verdict >>

(* A timeout step interrupts the scheduling, whatever it waits for; the    *)
(* workspace of the Stage is deleted and its process is stopped.           *)
SchedulingTimeout ==
  /\ pc \in Scheduling /\ clock >= SchedulingLimit
  /\ pc' = "finalize"
  /\ expired' = TRUE
  /\ agent' = "idle" /\ attempt' = NoAttempt
  /\ UNCHANGED << modes, clock, accepted, continueChain, launched, ending, verdict >>

-----------------------------------------------------------------------------
(* A node, the submitted commit, the accepted attempts.                    *)
Finalize ==
  /\ pc = "finalize"
  /\ pc' = "assemble"
  /\ UNCHANGED << modes, clock, chain, stage, ending, verdict >>

(* Faulty variant: the deadline explains whatever is missing first.        *)
CompletedByDeadline ==
  [i \in Stages |->
     IF i <= Len(accepted) THEN accepted[i]
     ELSE IF i = Len(accepted) + 1 /\ expired
            THEN Skip(modes[i], "deadline_exceeded")
            ELSE Skip(modes[i], "prerequisite_blocked")]

(* The accepted attempts with the typed skips for what is missing.         *)
Completed ==
  [i \in Stages |->
     IF i <= Len(accepted) THEN accepted[i]
     ELSE IF i = Len(accepted) + 1 /\ ~ Blocked(accepted)
            THEN Skip(modes[i], "deadline_exceeded")
            ELSE Skip(modes[i], "prerequisite_blocked")]

Missing == Len(accepted) < StageCount /\ ~ Blocked(accepted)
WorkAfterBlocker == \E i \in 1 .. Len(accepted) - 1 : Blocks(accepted[i])

(* Faulty variant: the result is what was accepted.                        *)
AssembleAccepted ==
  /\ pc = "assemble"
  /\ bundle' = accepted
  /\ pc' = "conclude"
  /\ UNCHANGED << modes, clock, chain, stage, conclusion, archived, verdict >>

(* finalize-jenkins-run: what would be refused ends the build.             *)
Assemble ==
  /\ pc = "assemble"
  /\ IF WorkAfterBlocker \/ (Missing /\ ~ expired) \/ ~ ValidResult(Completed)
       THEN End("FAILURE") /\ UNCHANGED bundle
       ELSE /\ bundle' = Completed
            /\ pc' = "conclude"
            /\ UNCHANGED verdict
  /\ UNCHANGED << modes, clock, chain, stage, conclusion, archived >>

(* The conclusion, which validates the bundle again, and the archive of    *)
(* the bundle and of the manifest.  The conclusion can end with a status   *)
(* that is none of its own: it was killed, or never started.               *)
Archive ==
  /\ \/ /\ pc = "conclude" /\ pc' = "archive"
        /\ conclusion' \in {"told", "lost"}
        /\ UNCHANGED archived
     \/ /\ pc = "archive" /\ pc' = "archiving" /\ archived' = "partial"
        /\ UNCHANGED conclusion
     \/ /\ pc = "archiving" /\ pc' = "manifest" /\ archived' = "whole"
        /\ UNCHANGED conclusion
     \/ pc = "manifest" /\ pc' = "colour" /\ UNCHANGED << conclusion, archived >>
  /\ UNCHANGED << modes, clock, chain, stage, bundle, verdict >>

(* Faulty variant: the conclusion is not looked at.                        *)
ColourBlind ==
  /\ pc = "colour"
  /\ End("SUCCESS")
  /\ UNCHANGED << modes, clock, chain, stage, ending >>

(* The conclusion 1 ends the build after the archive.  A status that is    *)
(* neither 1 nor 2 passes for 0, whatever the result says.                 *)
Colour ==
  /\ pc = "colour"
  /\ End(IF conclusion = "told" /\ Red(bundle) THEN "FAILURE" ELSE "SUCCESS")
  /\ UNCHANGED << modes, clock, chain, stage, ending >>

(* The outer timeout.  While the scheduling runs, its interruption is      *)
(* caught there, like SchedulingTimeout.                                   *)
RunTimeout ==
  /\ pc \in Finalizing /\ clock >= RunLimit
  /\ End("FAILURE")
  /\ UNCHANGED << modes, clock, chain, stage, ending >>

(* Any step can fail: a node, a checkout, a stale image, a refused         *)
(* transfer, a stash, the limit of the finalization.                       *)
Break ==
  /\ pc # "done"
  /\ End("FAILURE")
  /\ UNCHANGED << modes, clock, chain, stage, ending >>

(* A user, or the handoff, stops the build.                                *)
Abort ==
  /\ pc # "done"
  /\ End("ABORTED")
  /\ UNCHANGED << modes, clock, chain, stage, ending >>

Next ==
  \/ Tick \/ Preflight
  \/ NextStage \/ Checkout \/ CheckDeadline \/ LaunchAdapter \/ PublishAttempt
  \/ Executed \/ Stash \/ AllowContinuation
  \/ SafetyTimeout \/ SchedulingTimeout
  \/ Finalize \/ Assemble \/ Archive \/ Colour
  \/ RunTimeout \/ Break \/ Abort
  \/ pc = "done" /\ UNCHANGED vars

(* Time passes and the timeout steps act.  Nothing else is sure to happen: *)
(* a node may never come, an adapter may never end.                        *)
Spec == Init /\ [][Next]_vars
             /\ WF_vars(Tick) /\ WF_vars(SchedulingTimeout) /\ WF_vars(RunTimeout)

-----------------------------------------------------------------------------
(* Properties.                                                             *)

(* Each adapter runs once, in Stage order, and only after every adapter    *)
(* before it has passed: no retry, no restart after a timeout and no       *)
(* transfer makes a Stage run twice or behind a blocker.                   *)
StagesRunOnceInOrder ==
  \A i \in 2 .. Len(launched) :
    /\ launched[i - 1] < launched[i]
    /\ launched[i - 1] <= Len(accepted)
    /\ ~ Blocks(accepted[launched[i - 1]])

(* Wherever the scheduling was left, by its end, by the deadline or by an  *)
(* interruption, the finalization can account for every Stage: it is       *)
(* never "missing the accepted attempt" and its result is valid.           *)
FinalizationIsPossible ==
  pc \in {"finalize", "assemble"} =>
    ~ WorkAfterBlocker /\ (Missing => expired) /\ ValidResult(Completed)

(* A skip in the result says why: behind a blocker, or because of its      *)
(* adapter, the Stage launched nothing; a deadline skip stands for a Stage *)
(* that was due, after a limit had passed.                                 *)
Launched(i) == \E k \in 1 .. Len(launched) : launched[k] = i

SkipsSayWhy ==
  \A i \in 1 .. Len(bundle) :
    bundle[i].ended = "skipped" =>
      IF bundle[i].code = "deadline_exceeded"
        THEN clock >= RunDeadline /\ \A j \in 1 .. i - 1 : ~ Blocks(bundle[j])
        ELSE ~ Launched(i)

(* A green build has archived its whole and valid result, and that result  *)
(* is green unless bundle-conclusion was lost: its status is looked at     *)
(* twice, before and after the archive step, and only 1 and 2 are red.     *)
GreenBuildIsProved ==
  verdict = "SUCCESS" =>
    /\ archived = "whole" /\ ValidResult(bundle)
    /\ Red(bundle) => conclusion = "lost"

(* Every build ends, though nothing but time is sure to pass.              *)
BuildEnds == <>(verdict # "none")

(* A build keeps the promise of a run, whose result is there when the      *)
(* bundle is archived.                                                     *)
Promise == INSTANCE RunPromise WITH
  attempts <- IF archived = "whole" THEN bundle ELSE accepted,
  result <- IF archived # "whole" THEN "none"
            ELSE IF Red(bundle) THEN "red" ELSE "green"

KeepsPromise == Promise!Spec

(* The summary of a deadline skip says "The Pipeline integration run       *)
(* deadline expired before Stage work."                                    *)
DeadlineSkipMeansNoWork ==
  \A i \in 1 .. Len(bundle) :
    bundle[i].code = "deadline_exceeded" => ~ Launched(i)

-----------------------------------------------------------------------------
(* The inductive invariant behind the theorems.                            *)

(* What has been accepted could be the beginning of a result, and only its *)
(* last attempt may block.                                                 *)
AcceptedInv ==
  /\ ~ WorkAfterBlocker
  /\ \A i \in 1 .. Len(accepted) :
       ValidAt(accepted, i) /\ accepted[i].mode = modes[i]
                            /\ accepted[i].code # "deadline_exceeded"
                            /\ accepted[i].code # "prerequisite_blocked"

(* Why the loop goes on, or has stopped.                                   *)
LoopInv ==
  /\ expired => clock >= RunDeadline
  /\ pc \in {"resources", "preflight"} => accepted = << >> /\ continueChain
  /\ pc = "loop" /\ continueChain => ~ Blocked(accepted)
  /\ pc = "loop" /\ ~ continueChain => Blocked(accepted) \/ expired
  /\ pc \in {"checkout", "execute", "stash"} =>
       continueChain /\ ~ Blocked(accepted) /\ Len(accepted) < StageCount
  /\ pc = "continue" => Len(accepted) > 0
  /\ pc \in Finalizing => Len(accepted) = StageCount \/ Blocked(accepted) \/ expired
  /\ pc # "done" <=> verdict = "none"

(* The attempt of the current Stage, until it is accepted.                 *)
AgentInv ==
  /\ agent # "idle" => pc \in {"execute", "stash", "done"}
  /\ pc = "stash" => agent = "published"
  /\ agent = "expired" => clock >= RunDeadline
  /\ agent = "running" => PreSpawnSkip(modes[Current], accepted) = "none"
  /\ agent = "published" /\ pc # "done" =>
       attempt \in Executions(modes[Current], accepted)

(* Which adapters have run: those of accepted attempts, and perhaps that   *)
(* of the Stage that is due.                                               *)
LaunchInv ==
  /\ \A i \in 1 .. Len(launched) : launched[i] <= Current
  /\ \A i \in 2 .. Len(launched) : launched[i - 1] < launched[i]
  /\ \A k \in 1 .. Len(accepted) : Launched(k) => accepted[k].ended # "skipped"
  /\ Launched(Current) => /\ ~ Blocked(accepted)
                          /\ \/ pc \in Finalizing \cup {"done"}
                             \/ pc = "execute" /\ agent \in {"running", "published"}
                             \/ pc = "stash"
  /\ pc \in {"execute", "stash"} /\ agent = "published" /\ Launched(Current) =>
       attempt.ended # "skipped"

(* The result is the accepted attempts and the skips of what is missing.   *)
BundleInv ==
  /\ bundle # << >> => /\ bundle = Completed
                       /\ pc \in Finalizing \cup {"done"}
                       /\ Missing => expired
  /\ pc \in {"conclude", "archive", "archiving", "manifest", "colour"} => bundle # << >>
  /\ archived # "none" => bundle # << >>
  /\ pc \in Finalizing /\ archived = "whole" <=> pc \in {"manifest", "colour"}
  /\ verdict = "SUCCESS" =>
       archived = "whole" /\ (Red(bundle) => conclusion = "lost")
  /\ pc \in {"archive", "archiving", "manifest", "colour"} => conclusion # "none"

IInv == TypeOK /\ AcceptedInv /\ LoopInv /\ AgentInv /\ LaunchInv /\ BundleInv
=============================================================================
