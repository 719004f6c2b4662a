------------------------------ MODULE Handoff -------------------------------
(***************************************************************************)
(* The handoff of one run from the GitHub job to Jenkins: handoff_jenkins  *)
(* in _jenkins_handoff.py with its receipt writer, the network between     *)
(* the two sides, the Jenkins queue item and build of this run, and the    *)
(* signals with which GitHub cancels the job.                              *)
(*                                                                         *)
(* The client is one thread.  A signal handler raises ExternalCancellation *)
(* between any two of its bytecodes, so a method of the receipt writer is  *)
(* four steps here: it marks the phase, appends the transition, adds the   *)
(* facts, and only then validates and replaces the file.  An HTTP request  *)
(* runs on a worker thread: it stays deliverable after the client has      *)
(* given up on it, and its answer may come too late.                       *)
(***************************************************************************)
EXTENDS HandoffReceipt

CONSTANT MaxSignals     \* GitHub sends SIGINT, then SIGTERM, then kills

ASSUME MaxSignalsIsNat == MaxSignals \in Nat

VARIABLES
  pc,        \* where handoff_jenkins is
  op,        \* the writer method under way
  doc,       \* _ReceiptWriter._document, in memory
  disk,      \* the receipt file
  known,     \* which of the locals queue_id and build_number are assigned
  outcome,   \* how the command will end once it leaves its finally block
  exit,      \* how the command ended
  signals,   \* signals delivered so far
  late,      \* the outer limit of the job has passed
  wire,      \* requests sent and not yet handled by Jenkins
  reply,     \* the answer the awaited request has produced
  asked,     \* the cancellation request that was sent
  item,      \* the queue item of this run
  build,     \* its build
  archive,   \* what the finished build archived
  bundle,    \* the bundle directory of the GitHub job
  manifest   \* deployment-manifest.yaml beside it

clientVars  == << pc, op, doc, disk, known, outcome, exit >>
netVars     == << wire, reply, asked >>
jenkinsVars == << item, build, archive >>
fileVars    == << bundle, manifest >>
outerVars   == << signals, late >>
vars == << clientVars, outerVars, netVars, jenkinsVars, fileVars >>

Results == {"SUCCESS", "FAILURE", "ABORTED", "UNSTABLE", "NOT_BUILT"}

(* What a finished build left in its archive.  "complete" is a valid       *)
(* bundle of this execution, "deployed" one with a deployment manifest     *)
(* beside it; "foreign" names another execution, "broken" fails the        *)
(* validation, "none" has no pipeline result.                              *)
Archives == {"none", "broken", "foreign", "complete", "deployed"}
GoodArchives == {"complete", "deployed"}

InTry == {"identify", "reject_input", "settings", "preflight", "submit", "submitting",
          "queue", "queue_seen", "build", "build_seen", "retrieve",
          "download", "publish", "manifest", "manifest_write", "conclude",
          "returning"}
Handlers == {"cancel", "cancel_wait", "cancelled", "failing"}
Places == InTry \cup Handlers \cup {"start", "closing", "done"}

(* "invalid" and "unwritten" are exit status 2: an InputError, OSError or   *)
(* ValidationError of the client, and an OSError of the receipt writer.    *)
Outcomes == {"none", "ok", "failed", "invalid", "unwritten", "cancelled"}
Requests == {"submit", "stop", "cancelItem"}

Idle == [at |-> "idle", phase |-> "none", queue |-> FALSE, build |-> FALSE,
         terminal |-> NoTerminal]
Method(phase, queue, build_, terminal) ==
  [at |-> "phase", phase |-> phase, queue |-> queue, build |-> build_,
   terminal |-> terminal]
Operations == {Idle} \cup
              [at : {"phase", "append", "facts", "write"}, phase : Phases,
               queue : BOOLEAN, build : BOOLEAN, terminal : Terminals]

TypeOK ==
  /\ pc \in Places
  /\ op \in Operations
  /\ doc \in Receipts
  /\ disk \in Receipts
  /\ known \in [queue : BOOLEAN, build : BOOLEAN]
  /\ outcome \in Outcomes
  /\ exit \in Outcomes \cup {"killed"}
  /\ signals \in 0 .. MaxSignals
  /\ late \in BOOLEAN
  /\ wire \in SUBSET Requests
  /\ reply \in {"none", "accepted", "unauthorized", "forbidden", "unclear",
                "error", "mismatch", "gone", "waiting", "left", "cancelled",
                "building", "stale", "unlisted"} \cup Results
  /\ asked \in {"none", "stop", "cancelItem"}
  /\ item \in {"none", "waiting", "left", "cancelled"}
  /\ build \in {"none", "building", "stopping"} \cup Results
  /\ archive \in Archives
  /\ bundle \in {"absent", "staging", "published"}
  /\ manifest \in {"absent", "partial", "whole"}

(* The writer is constructed with the first document and writes it before  *)
(* the try block is entered.                                               *)
Init ==
  /\ pc = "start"
  /\ op = [Method("validating", FALSE, FALSE, NoTerminal) EXCEPT !.at = "write"]
  /\ doc = FirstReceipt
  /\ disk = NoReceipt
  /\ known = [queue |-> FALSE, build |-> FALSE]
  /\ outcome = "none" /\ exit = "none" /\ signals = 0 /\ late = FALSE
  /\ wire = {} /\ reply = "none" /\ asked = "none"
  /\ item = "none" /\ build = "none" /\ archive = "none"
  /\ bundle = "absent" /\ manifest = "absent"

-----------------------------------------------------------------------------
(* The receipt writer.                                                     *)

Writing(at) == exit = "none" /\ op.at = at

MarkPhase ==
  /\ Writing("phase")
  /\ doc' = [doc EXCEPT !.phase = op.phase]
  /\ op' = [op EXCEPT !.at = "append"]
  /\ UNCHANGED << pc, disk, known, outcome, exit, outerVars, netVars,
                  jenkinsVars, fileVars >>

AppendTransition ==
  /\ Writing("append")
  /\ doc' = [doc EXCEPT !.phases = Append(@, op.phase)]
  /\ op' = [op EXCEPT !.at = "facts"]
  /\ UNCHANGED << pc, disk, known, outcome, exit, outerVars, netVars,
                  jenkinsVars, fileVars >>

AddFacts ==
  /\ Writing("facts")
  /\ doc' = [doc EXCEPT
               !.queue = @ \/ op.queue,
               !.build = @ \/ op.build,
               !.terminal = IF op.terminal = NoTerminal THEN @ ELSE op.terminal]
  /\ op' = [op EXCEPT !.at = "write"]
  /\ UNCHANGED << pc, disk, known, outcome, exit, outerVars, netVars,
                  jenkinsVars, fileVars >>

(* Faulty variant: the file is replaced without validating the document.   *)
PersistUnchecked ==
  /\ Writing("write")
  /\ op' = Idle /\ disk' = doc
  /\ pc' = IF pc = "start" THEN "identify" ELSE pc
  /\ UNCHANGED << doc, known, outcome, exit, outerVars, netVars, jenkinsVars,
                  fileVars >>

(* Faulty variant: a file that cannot be written goes unnoticed.           *)
PersistSwallowing ==
  /\ Writing("write")
  /\ op' = Idle
  /\ disk' \in {disk, doc}
  /\ pc' = IF pc = "start" THEN "identify" ELSE pc
  /\ UNCHANGED << doc, known, outcome, exit, outerVars, netVars, jenkinsVars,
                  fileVars >>

(* The document is validated, then replaces the file.  A document that is  *)
(* not a receipt raises ValidationError; the directory, the temporary      *)
(* file, its fsync and the replacement may raise OSError, and so may the   *)
(* progress line after them.  No handler catches either.                   *)
Persist ==
  /\ Writing("write")
  /\ op' = Idle
  /\ \/ /\ ValidReceipt(doc)
        /\ disk' = doc
        /\ pc' = IF pc = "start" THEN "identify" ELSE pc
        /\ UNCHANGED outcome
     \/ /\ ~ValidReceipt(doc)
        /\ pc' = "closing" /\ outcome' = "invalid"
        /\ UNCHANGED disk
     \/ /\ ValidReceipt(doc)
        /\ pc' = "closing" /\ outcome' = "unwritten"
        /\ disk' \in {disk, doc}
  /\ UNCHANGED << doc, known, exit, outerVars, netVars, jenkinsVars, fileVars >>

Writer == MarkPhase \/ AppendTransition \/ AddFacts \/ Persist

-----------------------------------------------------------------------------
(* Control of the client.  Between writer methods it is At one place.      *)

At(place) == exit = "none" /\ op = Idle /\ pc = place

Transition(phase, queue, build_, place) ==
  /\ op' = Method(phase, queue, build_, NoTerminal)
  /\ pc' = place

(* raise HandoffError(code, phase), caught by the outer handler.           *)
Raise(code, phase) ==
  /\ op' = Method("failed", FALSE, FALSE, Failed(code, phase))
  /\ pc' = "failing"

(* InputError and OSError leave the try block without a handler.           *)
Escape == pc' = "closing" /\ outcome' = "invalid" /\ op' = op

(* _JenkinsClient.remaining: the outer deadline, then the phase's own,     *)
(* then that of the single HTTP operation.                                 *)
Deadlines(own) ==
  IF late THEN {"outer_deadline"} ELSE {"http_operation"} \cup own

(* Statuses that are not 200.                                              *)
StatusFailures == {"authentication", "authorization", "http_operation"}

IdentifyRun ==
  /\ At("identify")
  /\ \/ pc' = "settings" /\ op' = op
     \/ /\ pc' = "reject_input"
        /\ op' = Method("failed", FALSE, FALSE,
                        Failed("input_validation", "validating"))
  /\ UNCHANGED << doc, disk, known, outcome, exit, outerVars, netVars,
                  jenkinsVars, fileVars >>

LoadSettings ==
  /\ At("settings")
  /\ \/ Transition("preflighting", FALSE, FALSE, "preflight")
     \/ /\ pc' = "reject_input"
        /\ op' = Method("failed", FALSE, FALSE,
                        Failed("configuration", "validating"))
  /\ UNCHANGED << doc, disk, known, outcome, exit, outerVars, netVars,
                  jenkinsVars, fileVars >>

(* writer.fail(...) has returned: the input error is raised on.            *)
RejectInput ==
  /\ At("reject_input")
  /\ Escape
  /\ UNCHANGED << doc, disk, known, exit, outerVars, netVars, jenkinsVars,
                  fileVars >>

(* Faulty variant: "submitting" is recorded after the POST is answered.    *)
PreflightUnrecorded ==
  /\ At("preflight")
  /\ pc' = "submit" /\ op' = op
  /\ UNCHANGED << doc, disk, known, outcome, exit, outerVars, netVars,
                  jenkinsVars, fileVars >>

Preflight ==
  /\ At("preflight")
  /\ \/ ~late /\ Transition("submitting", FALSE, FALSE, "submit")
     \/ \E code \in {"reachability", "identity_mismatch"} \cup StatusFailures
                    \cup Deadlines({}) : Raise(code, "preflighting")
  /\ UNCHANGED << doc, disk, known, outcome, exit, outerVars, netVars,
                  jenkinsVars, fileVars >>

(* request() looks at its limits before it sends anything.                 *)
SendSubmission ==
  /\ At("submit")
  /\ \/ /\ ~late
        /\ pc' = "submitting"
        /\ wire' = wire \cup {"submit"}
        /\ UNCHANGED op
     \/ /\ late
        /\ Raise("outer_deadline", "submitting")
        /\ UNCHANGED wire
  /\ UNCHANGED << doc, disk, known, outcome, exit, outerVars, reply, asked,
                  jenkinsVars, fileVars >>

(* _submit returns or raises.  A deadline can pass with the POST still in  *)
(* flight, or between its answer and the check that follows it.            *)
Submitted ==
  /\ At("submitting")
  /\ reply' = "none"
  /\ \/ /\ reply = "accepted"
        /\ known' = [known EXCEPT !.queue = TRUE]
        /\ Transition("queued", TRUE, FALSE, "queue")
     \/ /\ \/ reply = "unauthorized" /\ Raise("authentication", "submitting")
           \/ reply = "forbidden" /\ Raise("authorization", "submitting")
           \/ /\ reply \in {"unclear", "error"}
              /\ Raise("indeterminate_submission", "submitting")
           \/ reply = "error" /\ Raise("submission_deadline", "submitting")
           \/ \E code \in Deadlines({"submission_deadline"}) :
                Raise(code, "submitting")
        /\ UNCHANGED known
  /\ UNCHANGED << doc, disk, outcome, exit, outerVars, wire, asked,
                  jenkinsVars, fileVars >>

(* One GET of the queue item: what Jenkins knows when it answers.          *)
PollQueue ==
  /\ At("queue") /\ ~late
  /\ pc' = "queue_seen"
  /\ \/ reply' \in {"error", "mismatch"}
     \/ reply' = item
     \/ item # "waiting" /\ reply' = "gone"    \* Jenkins forgets old items
  /\ UNCHANGED << op, doc, disk, known, outcome, exit, outerVars, wire, asked,
                  jenkinsVars, fileVars >>

(* Faulty variant: any answer is taken for an assigned executable.         *)
ReadQueueEager ==
  /\ At("queue_seen")
  /\ reply' = "none"
  /\ known' = [known EXCEPT !.build = TRUE]
  /\ Transition("running", FALSE, TRUE, "build")
  /\ UNCHANGED << doc, disk, outcome, exit, outerVars, wire, asked,
                  jenkinsVars, fileVars >>

ReadQueue ==
  /\ At("queue_seen")
  /\ reply' = "none"
  /\ \/ /\ reply = "left"
        /\ known' = [known EXCEPT !.build = TRUE]
        /\ Transition("running", FALSE, TRUE, "build")
     \/ /\ \/ reply = "waiting" /\ pc' = "queue" /\ op' = op
           \/ reply = "cancelled" /\ Raise("queue_cancelled", "queued")
           \/ reply = "gone" /\ Raise("queue_unavailable", "queued")
           \/ reply = "mismatch" /\ Raise("identity_mismatch", "queued")
           \/ /\ reply = "error"
              /\ \E code \in StatusFailures : Raise(code, "queued")
        /\ UNCHANGED known
  /\ UNCHANGED << doc, disk, outcome, exit, outerVars, wire, asked,
                  jenkinsVars, fileVars >>

(* Faulty variant: the polling loop never consults its limits.             *)
QueueUnbounded == FALSE

QueueDeadline ==
  /\ At("queue") \/ At("queue_seen")
  /\ \E code \in Deadlines({"queue_deadline"}) : Raise(code, "queued")
  /\ reply' = "none"
  /\ UNCHANGED << doc, disk, known, outcome, exit, outerVars, wire, asked,
                  jenkinsVars, fileVars >>

(* A finished build answers with its result; the answer of a FAILURE may   *)
(* carry the stale-image description, any may lack the artifact list.      *)
PollBuild ==
  /\ At("build") /\ ~late
  /\ pc' = "build_seen"
  /\ \/ reply' \in {"error", "mismatch"}
     \/ build \in {"building", "stopping"} /\ reply' = "building"
     \/ build \in Results /\ reply' \in {build, "unlisted"}
     \/ build = "FAILURE" /\ archive = "none" /\ reply' = "stale"
  /\ UNCHANGED << op, doc, disk, known, outcome, exit, outerVars, wire, asked,
                  jenkinsVars, fileVars >>

(* Faulty variant: an UNSTABLE build is retrieved like a SUCCESS.          *)
ReadBuildLenient ==
  /\ At("build_seen")
  /\ \/ reply = "building" /\ pc' = "build" /\ op' = op
     \/ /\ reply \in {"SUCCESS", "FAILURE", "UNSTABLE"}
        /\ Transition("retrieving", FALSE, FALSE, "retrieve")
  /\ reply' = IF reply = "building" THEN "none" ELSE reply
  /\ UNCHANGED << doc, disk, known, outcome, exit, outerVars, wire, asked,
                  jenkinsVars, fileVars >>

ReadBuild ==
  /\ At("build_seen")
  /\ \/ reply = "building" /\ pc' = "build" /\ op' = op
     \/ reply = "mismatch" /\ Raise("identity_mismatch", "running")
     \/ reply = "stale" /\ Raise("stale_agent_image", "running")
     \/ reply = "unlisted" /\ Raise("missing_artifact", "running")
     \/ /\ reply = "error"
        /\ \E code \in StatusFailures : Raise(code, "running")
     \/ /\ reply \in {"ABORTED", "NOT_BUILT"}
        /\ Raise("jenkins_aborted", "running")
     \/ reply = "UNSTABLE" /\ Raise("jenkins_unstable", "running")
     \/ /\ reply \in {"SUCCESS", "FAILURE"}
        /\ Transition("retrieving", FALSE, FALSE, "retrieve")
  /\ reply' = IF reply \in {"SUCCESS", "FAILURE"} THEN reply ELSE "none"
  /\ UNCHANGED << doc, disk, known, outcome, exit, outerVars, wire, asked,
                  jenkinsVars, fileVars >>

BuildDeadline ==
  /\ At("build") \/ At("build_seen")
  /\ \E code \in Deadlines({"build_deadline"}) : Raise(code, "running")
  /\ reply' = "none"
  /\ UNCHANGED << doc, disk, known, outcome, exit, outerVars, wire, asked,
                  jenkinsVars, fileVars >>

-----------------------------------------------------------------------------
(* Retrieval.  reply still holds the local jenkins_result.                 *)

RetrievalFailures ==
  StatusFailures \cup Deadlines({"retrieval_deadline"})
    \cup {"missing_artifact", "invalid_artifact"}

(* The artifact inventory, the pipeline result and its identity.           *)
RetrieveResult ==
  /\ At("retrieve")
  /\ \/ /\ ~late /\ archive \notin {"none", "foreign"}
        /\ pc' = "download" /\ op' = op
        /\ bundle' = "staging"
        /\ UNCHANGED outcome
     \/ /\ \/ archive = "foreign" /\ Raise("identity_mismatch", "retrieving")
           \/ /\ archive = "none"
              /\ \E code \in {"missing_artifact", "invalid_artifact"} :
                   Raise(code, "retrieving")
           \/ /\ archive # "none"
              /\ \E code \in RetrievalFailures : Raise(code, "retrieving")
        /\ UNCHANGED << outcome, bundle >>
     \/ Escape /\ UNCHANGED bundle        \* the bundle root exists by now
  /\ UNCHANGED << doc, disk, known, exit, outerVars, netVars, jenkinsVars,
                  manifest >>

(* Faulty variant: the staged bundle is not validated.                     *)
DownloadUnvalidated ==
  /\ At("download")
  /\ pc' = "publish"
  /\ UNCHANGED << op, doc, disk, known, outcome, exit, outerVars, netVars,
                  jenkinsVars, fileVars >>

(* Every artifact into the staging directory, which is validated as a      *)
(* whole, and the content of the manifest.  A failure removes the staging  *)
(* directory.                                                              *)
Download ==
  /\ At("download")
  /\ \/ archive \in GoodArchives /\ pc' = "publish" /\ op' = op
        /\ UNCHANGED << outcome, bundle >>
     \/ /\ \E code \in RetrievalFailures : Raise(code, "retrieving")
        /\ bundle' = "absent"
        /\ UNCHANGED outcome
     \/ Escape /\ bundle' = "absent"      \* OSError
  /\ UNCHANGED << doc, disk, known, exit, outerVars, netVars, jenkinsVars,
                  manifest >>

PublishBundle ==
  /\ At("publish")
  /\ \/ /\ bundle' = "published"
        /\ pc' = IF archive = "deployed" THEN "manifest" ELSE "conclude"
        /\ UNCHANGED << op, outcome >>
     \/ Escape /\ bundle' = "absent"      \* OSError of the rename
  /\ UNCHANGED << doc, disk, known, exit, outerVars, netVars, jenkinsVars,
                  manifest >>

(* The manifest is written in place, after the bundle is visible.          *)
WriteManifest ==
  /\ \/ /\ At("manifest") /\ pc' = "manifest_write"
        /\ manifest' = "partial" /\ UNCHANGED << op, outcome >>
     \/ /\ At("manifest_write") /\ pc' = "conclude"
        /\ manifest' = "whole" /\ UNCHANGED << op, outcome >>
     \/ /\ At("manifest") \/ At("manifest_write")
        /\ Escape /\ UNCHANGED manifest   \* OSError
  /\ UNCHANGED << doc, disk, known, exit, outerVars, netVars, jenkinsVars,
                  bundle >>

(* A bundle of a red build is a diagnostic one.                             *)
Conclude ==
  /\ At("conclude")
  /\ \/ reply = "FAILURE" /\ Raise("jenkins_failure", "retrieving")
     \/ /\ reply # "FAILURE"
        /\ op' = Method("completed", FALSE, FALSE, Succeeded)
        /\ pc' = "returning"
  /\ UNCHANGED << doc, disk, known, outcome, exit, outerVars, netVars,
                  jenkinsVars, fileVars >>

-----------------------------------------------------------------------------
(* The handlers and the end of the command.                                *)

(* The writer method called last has returned: leave through finally.      *)
Leave ==
  /\ \/ At("returning") /\ outcome' = "ok"
     \/ At("failing") /\ outcome' = "failed"
     \/ At("cancelled") /\ outcome' = "cancelled"
  /\ pc' = "closing"
  /\ UNCHANGED << op, doc, disk, known, exit, outerVars, netVars, jenkinsVars,
                  fileVars >>

End ==
  /\ At("closing")
  /\ exit' = outcome
  /\ pc' = "done"
  /\ UNCHANGED << op, doc, disk, known, outcome, outerVars, netVars,
                  jenkinsVars, fileVars >>

(* POST the cancellation and wait for what comes of it.                    *)
Ask(request) ==
  /\ asked' = request
  /\ wire' = wire \cup {request}
  /\ pc' = "cancel_wait"
  /\ UNCHANGED op

(* writer.cancel without a request.                                        *)
CancelUnasked ==
  /\ op' = Method("cancelled", FALSE, FALSE, Cancelled)
  /\ pc' = "cancelled"
  /\ UNCHANGED << wire, asked >>

(* Faulty variant: only a numbered build is cancelled, not a queue item.   *)
CancelBuildOnly ==
  /\ At("cancel")
  /\ IF known.build /\ ~late THEN Ask("stop") ELSE CancelUnasked
  /\ UNCHANGED << doc, disk, known, outcome, exit, outerVars, reply,
                  jenkinsVars, fileVars >>

(* _cancel_correlated: one POST to the build if its number is assigned, to *)
(* the queue item otherwise, none before either is known.  Once the outer  *)
(* limit has passed, request() raises before it sends, _cancel_correlated  *)
(* swallows that, and the receipt is cancelled all the same.  Its own five *)
(* seconds begin with the call and are not over before the request.        *)
CancelCorrelated ==
  /\ At("cancel")
  /\ IF (known.build \/ known.queue) /\ ~late
       THEN Ask(IF known.build THEN "stop" ELSE "cancelItem")
       ELSE CancelUnasked
  /\ UNCHANGED << doc, disk, known, outcome, exit, outerVars, reply,
                  jenkinsVars, fileVars >>

(* It never raises: an answer, an error and the five seconds it allows     *)
(* itself all lead to writer.cancel.                                       *)
CancelSettled ==
  /\ At("cancel_wait")
  /\ op' = Method("cancelled", FALSE, FALSE, Cancelled)
  /\ pc' = "cancelled"
  /\ UNCHANGED << doc, disk, known, outcome, exit, outerVars, netVars,
                  jenkinsVars, fileVars >>

(* A signal abandons whatever the thread was doing.  Inside the try block  *)
(* the ExternalCancellation handler runs; inside a handler, before the try *)
(* block or in the finally block it ends the command.                      *)
Signal ==
  /\ signals < MaxSignals
  /\ exit = "none" /\ pc # "done"
  /\ signals' = signals + 1
  /\ op' = Idle
  /\ IF pc \in InTry
       THEN pc' = "cancel" /\ UNCHANGED outcome
       ELSE pc' = "closing" /\ outcome' = "cancelled"
  /\ reply' = "none"
  /\ bundle' = IF bundle = "staging" THEN "absent" ELSE bundle
  /\ UNCHANGED << doc, disk, known, exit, late, wire, asked, jenkinsVars,
                  manifest >>

(* GitHub kills the process when the grace period or the job ends.         *)
Kill ==
  /\ signals = MaxSignals
  /\ exit = "none" /\ pc # "done"
  /\ exit' = "killed"
  /\ pc' = "done"
  /\ UNCHANGED << op, doc, disk, known, outcome, outerVars, netVars,
                  jenkinsVars, fileVars >>

(* runner_outer_limit_seconds, counted from the first receipt on.          *)
OuterLimit ==
  /\ exit = "none" /\ ~late
  /\ late' = TRUE
  /\ UNCHANGED << clientVars, signals, netVars, jenkinsVars, fileVars >>

-----------------------------------------------------------------------------
(* Jenkins and the network.                                                *)

(* The POST arrives.  The build is enqueued even when its answer is lost   *)
(* or cannot be read; it is refused with 401 or 403.                       *)
ServeSubmission ==
  /\ "submit" \in wire
  /\ wire' = wire \ {"submit"}
  /\ \/ /\ item' = "waiting"
        /\ \/ pc = "submitting" /\ reply' \in {"accepted", "unclear", "error"}
           \/ pc # "submitting" /\ UNCHANGED reply
     \/ /\ \/ /\ pc = "submitting"
              /\ reply' \in {"unauthorized", "forbidden", "unclear"}
           \/ pc # "submitting" /\ UNCHANGED reply
        /\ UNCHANGED item
  /\ UNCHANGED << clientVars, outerVars, asked, build, archive, fileVars >>

ServeCancel ==
  /\ \/ /\ "cancelItem" \in wire
        /\ wire' = wire \ {"cancelItem"}
        /\ item' = IF item = "waiting" THEN "cancelled" ELSE item
        /\ UNCHANGED build
     \/ /\ "stop" \in wire
        /\ wire' = wire \ {"stop"}
        /\ build' = IF build = "building" THEN "stopping" ELSE build
        /\ UNCHANGED item
  /\ UNCHANGED << clientVars, outerVars, reply, asked, archive, fileVars >>

LoseRequest ==
  /\ \E r \in wire : wire' = wire \ {r}
  /\ IF "submit" \in wire \ wire' /\ pc = "submitting"
       THEN reply' = "error"
       ELSE UNCHANGED reply
  /\ UNCHANGED << clientVars, outerVars, asked, jenkinsVars, fileVars >>

StartBuild ==
  /\ item = "waiting"
  /\ item' = "left"
  /\ build' = "building"
  /\ UNCHANGED << clientVars, outerVars, netVars, archive, fileVars >>

CancelledByOperator ==
  /\ item = "waiting"
  /\ item' = "cancelled"
  /\ UNCHANGED << clientVars, outerVars, netVars, build, archive, fileVars >>

(* Whatever the result, the client takes nothing of the archive on trust.  *)
FinishBuild ==
  /\ build \in {"building", "stopping"}
  /\ build' \in Results
  /\ archive' \in Archives
  /\ UNCHANGED << clientVars, outerVars, netVars, item, fileVars >>

Jenkins == ServeSubmission \/ ServeCancel \/ LoseRequest \/ StartBuild
             \/ CancelledByOperator \/ FinishBuild

-----------------------------------------------------------------------------
ClientStep ==
  \/ Writer
  \/ IdentifyRun \/ LoadSettings \/ RejectInput \/ Preflight
  \/ SendSubmission \/ Submitted
  \/ PollQueue \/ ReadQueue \/ QueueDeadline
  \/ PollBuild \/ ReadBuild \/ BuildDeadline
  \/ RetrieveResult \/ Download \/ PublishBundle \/ WriteManifest \/ Conclude
  \/ Leave \/ End \/ CancelCorrelated \/ CancelSettled

Ended == exit # "none" /\ UNCHANGED vars

Next == ClientStep \/ Signal \/ Kill \/ OuterLimit \/ Jenkins \/ Ended

(* The thread keeps running, and the limits of the two polling loops are   *)
(* measured on a clock that advances whatever Jenkins answers.             *)
Fairness == WF_vars(ClientStep) /\ WF_vars(QueueDeadline)
              /\ WF_vars(BuildDeadline)

Spec == Init /\ [][Next]_vars /\ Fairness

-----------------------------------------------------------------------------
(* Properties.                                                             *)

(* Submission is written ahead: a POST in flight, or anything Jenkins      *)
(* holds of this run, finds "submitting" in the receipt on disk, so that a *)
(* handoff that dies at any point never hides a build it may have started  *)
(* (handoff_jenkins writes the transition before _submit).                 *)
SubmissionIsWrittenAhead ==
  "submit" \in wire \/ item # "none" => Reached(disk, "submitting")

(* The receipt never claims what Jenkins has not done: a recorded queue    *)
(* item was enqueued, a recorded build was started, and the causes named   *)
(* by a failure are states that Jenkins is in.                             *)
ReceiptTellsTruth ==
  /\ disk.queue => item # "none"
  /\ disk.build => item = "left" /\ build # "none"
  /\ disk.terminal.code = "queue_cancelled" => item = "cancelled"
  /\ disk.terminal.code = "jenkins_failure" => build = "FAILURE"
  /\ disk.terminal.code = "jenkins_unstable" => build = "UNSTABLE"
  /\ disk.terminal.code = "jenkins_aborted" => build \in {"ABORTED", "NOT_BUILT"}

(* A bundle is visible only after it was validated against this execution  *)
(* and before any failure but Jenkins's own: the upload step of the        *)
(* workflow publishes whatever it finds, so a receipt that reports another *)
(* failure must not stand beside a bundle; a completed handoff has the     *)
(* bundle of a SUCCESS build and, if Jenkins archived one, the whole       *)
(* manifest (_retrieve_bundle, then the verdict).                          *)
PublishedBundleIsExplained ==
  /\ bundle = "published" => archive \in GoodArchives
  /\ bundle = "published" /\ disk.phase = "failed"
       => disk.terminal.code = "jenkins_failure"
  /\ disk.terminal.code = "jenkins_failure" \/ disk.phase = "completed"
       => /\ bundle = "published"
          /\ archive = "deployed" => manifest = "whole"
  /\ disk.phase = "completed" => build = "SUCCESS"

(* The exit status, from which the workflow takes the handoff's outcome,   *)
(* and the receipt agree: 0 only with a completed receipt, 1 only with a   *)
(* failed one, and a cancelled receipt never with either.                  *)
ExitAgreesWithReceipt ==
  /\ exit = "ok" => disk.phase = "completed"
  /\ exit = "failed" => disk.phase = "failed"
  /\ disk.phase = "cancelled" => exit \notin {"ok", "failed"}

(* A cancelled receipt is backed by the right request: the build it names  *)
(* was asked to stop, the queue item it names was asked to leave the queue *)
(* or its build to stop, unless the outer limit of the job has passed,     *)
(* after which the client sends nothing (_cancel_correlated before         *)
(* writer.cancel).                                                         *)
CancellationWasAsked ==
  disk.phase = "cancelled" /\ ~late =>
    /\ disk.build => asked = "stop"
    /\ disk.queue => asked # "none"

(* The receipt on disk only grows: what one reader saw, a later reader     *)
(* sees too, and nothing follows a terminal phase, though a signal can     *)
(* leave the document in memory half changed (_ReceiptWriter._write).      *)
ReceiptOnlyGrows ==
  [][/\ Len(disk.phases) < Len(disk'.phases)
     /\ \A i \in 1 .. Len(disk.phases) : disk'.phases[i] = disk.phases[i]
     /\ disk.queue => disk'.queue
     /\ disk.build => disk'.build
     /\ disk.terminal = NoTerminal]_disk

(* One run is enqueued once: an ambiguous submission is never repeated     *)
(* (_submit has no retry, its HTTP adapter max_retries=0).                 *)
EnqueuedOnce == [][item = "none" \/ item' # "waiting"]_item

(* Every handoff ends, whatever Jenkins does or fails to do.               *)
HandoffEnds == <>(exit # "none")

(* The receipt's verdict, the run at Jenkins and the returned bundle are   *)
(* all HandoffPromise speaks of.                                           *)
Verdict == IF disk.terminal = NoTerminal THEN "open" ELSE disk.terminal.outcome
Remote ==
  CASE item = "none" -> "none"
    [] item = "cancelled" \/ build \in {"ABORTED", "UNSTABLE", "NOT_BUILT"} -> "dropped"
    [] build = "SUCCESS" -> "succeeded"
    [] build = "FAILURE" -> "failed"
    [] OTHER -> "pending"

Promise == INSTANCE HandoffPromise
             WITH verdict <- Verdict, remote <- Remote,
                  returned <- (bundle = "published")

(* The handoff implements the promise its receipt makes.                   *)
KeepsPromise == Promise!Spec

(* The operations guide: a cancelled handoff "asks Jenkins to cancel only  *)
(* its correlated queue item or exact build and writes a cancelled receipt *)
(* when the bounded shutdown window permits".  With a single signal        *)
(* nothing cuts the window short: once Jenkins was asked, the receipt      *)
(* should be settled when the command has ended, unless the disk refuses   *)
(* it.                                                                     *)
CancellationSettlesReceipt ==
  exit \in Outcomes \ {"none", "unwritten"} /\ signals = 1 /\ asked # "none"
    => disk.terminal # NoTerminal
=============================================================================
