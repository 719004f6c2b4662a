------------------------------ MODULE Candidate ------------------------------
(***************************************************************************)
(* What the runtime accepts of an adapter that exited 0, and what a later  *)
(* process accepts of the attempt it published: the contracts of           *)
(* AdapterResponse and AcceptedAttemptEnvelope (_stage_contracts.py),      *)
(* _capture_candidate, _accepted_envelope, _runtime_failure_execution and  *)
(* load_stage_execution (_stage_runtime.py).  No state.                    *)
(*                                                                         *)
(* A response is [conclusion, outcome, category, produced, consumed], with *)
(* category "none" when it carries no reason.  A file is known by its slot,*)
(* and "diagnostic" and "response" are files too.                          *)
(***************************************************************************)
EXTENDS StageDocuments

(* AdapterResponse.validate_slots.                                         *)
ResponseIsValid(r) ==
  /\ r.conclusion \in {"succeeded", "failed"}
  /\ r.conclusion = "failed" => /\ r.outcome = "not_evaluated"
                                /\ r.produced = {}
                                /\ r.category # "none"
  /\ r.outcome = "failed" => r.conclusion = "succeeded" /\ r.category = "domain"

(* A Fixture claims no positive outcome and says that it is one.           *)
KeepsFixtureLimits(mode, r) ==
  mode = "fixture" => /\ r.outcome # "succeeded"
                      /\ r.category # "none"
                      /\ r.outcome = "not_evaluated" => r.category = "fixture"

(* The slots of the response against the request.                          *)
SlotsAreGranted(stage, r) ==
  /\ r.produced \subseteq GrantedSlots(stage)
  /\ r.conclusion = "succeeded" =>
       /\ r.consumed = "all"
       /\ IF r.outcome = "failed"
            THEN DomainOutputs(stage) \cap r.produced = {}
            ELSE DomainOutputs(stage) \subseteq r.produced

(* The tree holds what the response names, and nothing else.               *)
InventoryMatches(r, files) == files = r.produced \cup {"diagnostic", "response"}

(* flaw is a file whose content is refused whatever its contract says: it  *)
(* has more bytes than its grant, a forwarded secret, a private endpoint in*)
(* a Domain output or the diagnostic, a control character in the latter, or*)
(* it cannot be read or changes while it is.                               *)
Captured(stage, mode, r, files, flaw, documents, inputs) ==
  /\ flaw \notin files
  /\ "response" \in files
  /\ ResponseIsValid(r)
  /\ KeepsFixtureLimits(mode, r)
  /\ SlotsAreGranted(stage, r)
  /\ InventoryMatches(r, files)
  /\ \A slot \in DOMAIN documents : DocumentIsValid(slot, documents[slot])
  /\ r.conclusion = "succeeded" /\ mode = "implemented"
       => DocumentsFit(stage, r.outcome, documents, inputs)

(* _accepted_envelope and _runtime_failure_execution: the record of the    *)
(* attempt.  The exit code is 0 only for an adapter that ended by itself.  *)
AcceptedEnvelope(mode, r) ==
  [conclusion |-> r.conclusion, outcome |-> r.outcome, category |-> r.category,
   mode |-> mode, accepted |-> TRUE, ended |-> "exited", code |-> 0,
   files |-> r.produced \cup {"diagnostic"}]

FailureEnvelope(mode, conclusion, ended, code) ==
  [conclusion |-> conclusion, outcome |-> "not_evaluated", category |-> "adapter",
   mode |-> mode, accepted |-> FALSE, ended |-> ended, code |-> code, files |-> {}]

(* AcceptedAttemptEnvelope.preserve_settled_semantics of a completed       *)
(* attempt.                                                                *)
EnvelopeIsValid(e) ==
  LET exitedWell == e.ended = "exited" /\ e.code = 0
  IN  /\ e.conclusion \in {"failed", "timed_out"}
           => e.outcome = "not_evaluated" /\ e.category # "none"
      /\ e.conclusion = "timed_out" => e.ended = "timed_out"
      /\ ~ e.accepted => e.files = {}
      /\ e.conclusion = "succeeded" => e.accepted /\ exitedWell
      /\ e.accepted => exitedWell /\ e.conclusion # "timed_out"
      /\ e.outcome = "failed" => e.conclusion = "succeeded" /\ e.category = "domain"
      /\ e.mode = "fixture" => e.outcome # "succeeded"
      /\ e.mode = "fixture" /\ e.conclusion = "succeeded" /\ e.outcome = "not_evaluated"
           => e.category = "fixture"
      /\ e.mode # "not_implemented"

(* load_stage_execution: a transferred attempt keeps evidence and          *)
(* attachments only of a successful execution, and exactly the Domain      *)
(* outputs of its Stage unless its outcome is negative.                    *)
Loadable(stage, e) ==
  LET domain == e.files \cap DomainOutputs(stage)
  IN  /\ EnvelopeIsValid(e)
      /\ e.files \subseteq GrantedSlots(stage) \cup {"diagnostic"}
      /\ e.files \cap (Evidence(stage) \cup Attachments(stage)) # {} => e.conclusion = "succeeded"
      /\ IF e.conclusion = "succeeded" /\ e.outcome # "failed"
           THEN domain = DomainOutputs(stage)
           ELSE domain = {}
=============================================================================
