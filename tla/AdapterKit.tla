----------------------------- MODULE AdapterKit -----------------------------
(***************************************************************************)
(* The process shell of a Domain adapter (_adapter_kit.py): it reads its   *)
(* request, runs the body of its Stage, which ends in a verdict or in an   *)
(* exception, and publishes the verdict with response.json last.  The      *)
(* runtime may kill the process group at any point; no finally clause of   *)
(* the adapter runs then.                                                  *)
(*                                                                         *)
(* The modules of the four adapters extend this one and add the body, at   *)
(* values of pc of their own.  Time is counted by the body, in units each  *)
(* of them names, from the start of the process.                           *)
(***************************************************************************)
EXTENDS Candidate, Integers

VARIABLES
  stage,    \* the Stage this adapter serves
  mode,     \* implementation_mode of its descriptor
  inputs,   \* the content of the inputs it was given
  now,      \* the time since it started
  pc,       \* where it is; "done" once the process has ended
  verdict,  \* the verdict of the body
  files,    \* what stands in its output root
  flaw,     \* the file there whose content the runtime refuses, or "none"
  exit      \* its exit code, or "killed"

output == << files, flaw >>
kit == << stage, mode, inputs, now, pc, verdict, output, exit >>

NoDocuments == [slot \in {} |-> "none"]
Outcome(conclusion, outcome, category) ==
  [conclusion |-> conclusion, outcome |-> outcome, category |-> category]

(* Verdict(outcome) with documents and attachments; SUCCEEDED has no       *)
(* category.                                                               *)
Verdict(outcome, documents, attachments) ==
  [outcome |-> outcome, documents |-> documents, attachments |-> attachments]
Undecided == Verdict(Outcome("none", "none", "none"), NoDocuments, {})
Exception == Verdict(Outcome("raised", "none", "none"), NoDocuments, {})
Succeeded == Outcome("succeeded", "succeeded", "none")

KitInit(name, how) ==
  /\ stage = name
  /\ mode = how
  /\ now = 0
  /\ pc = "start"
  /\ verdict = Undecided
  /\ files = {}
  /\ flaw = "none"
  /\ exit = "none"

(* load_request and _read_inputs: anything amiss raises InputError or      *)
(* OSError, and the process exits 2.                                       *)
Begin ==
  /\ pc = "start"
  /\ pc' = "body"
  /\ UNCHANGED << stage, mode, inputs, now, verdict, output, exit >>

Exits(code) == exit' = code /\ pc' = "done"

Refuse ==
  /\ pc = "start"
  /\ Exits("2")
  /\ UNCHANGED << stage, mode, inputs, now, verdict, output >>

(* What the body does in its last step.                                    *)
Concludes(v) ==
  /\ verdict' = v
  /\ pc' = "publish"
  /\ UNCHANGED << stage, mode, inputs, output, exit >>

(* An exception of the body: exit code 2 for InputError and OSError, and   *)
(* another one but 0 for the rest, which nobody tells apart.               *)
Raises ==
  /\ Exits("2")
  /\ UNCHANGED << stage, mode, inputs, verdict, output >>

Continues(label) ==
  /\ pc' = label
  /\ UNCHANGED << stage, mode, inputs, verdict, output, exit >>

(* _publish: documents, attachments, the diagnostic, then the response.    *)
(* Nobody reads the output root before the process has exited, so they are *)
(* one step.  A slot the request does not declare, or a response that      *)
(* breaks its contract, raises before the response is written.  What stands*)
(* in a file, the runtime may refuse all the same.                         *)
Declared(v) ==
  /\ DOMAIN v.documents \subseteq DomainOutputs(stage) \cup Evidence(stage)
  /\ v.attachments \subseteq Attachments(stage)

Response(v) ==
  [conclusion |-> v.outcome.conclusion, outcome |-> v.outcome.outcome,
   category |-> v.outcome.category, consumed |-> "all",
   produced |-> DOMAIN v.documents \cup v.attachments]

Publish ==
  /\ pc = "publish"
  /\ Declared(verdict)
  /\ ResponseIsValid(Response(verdict))
  /\ files' = Response(verdict).produced \cup {"diagnostic", "response"}
  /\ flaw' \in files' \cup {"none"}
  /\ Exits("0")
  /\ UNCHANGED << stage, mode, inputs, now, verdict >>

PublishRaises ==
  /\ pc = "publish"
  /\ \E written \in SUBSET (DOMAIN verdict.documents \cup verdict.attachments
                              \cup {"diagnostic"}) :
       files' = IF Declared(verdict) THEN written ELSE {}
  /\ Exits("2")
  /\ UNCHANGED << stage, mode, inputs, now, verdict, flaw >>

(* The runtime ends the process group: SIGTERM, which no adapter handles,  *)
(* or SIGKILL.                                                             *)
Kill ==
  /\ pc # "done"
  /\ Exits("killed")
  /\ UNCHANGED << stage, mode, inputs, now, verdict, output >>

KitNext == Begin \/ Refuse \/ Publish \/ PublishRaises \/ Kill

(* What the runtime captures of an adapter that exited 0.                  *)
IsCaptured ==
  Captured(stage, mode, Response(verdict), files, flaw, verdict.documents, inputs)

(* The record of its attempt: a candidate that is refused is a failure of  *)
(* the adapter.                                                            *)
Envelope ==
  IF IsCaptured THEN AcceptedEnvelope(mode, Response(verdict))
  ELSE FailureEnvelope(mode, "failed", "exited", 0)
=============================================================================
