---------------------------- MODULE StageAttempts ----------------------------
(***************************************************************************)
(* The terminal attempts of the four Stages of one run and the contract of *)
(* pipeline-integration-result.json (_stage_runtime.py,                    *)
(* _result_contracts.py).  The module has no state: it says which attempts *)
(* a Stage can end with, which of them block the Stages after it, which    *)
(* sequences the result contract accepts and which of those are red.       *)
(*                                                                         *)
(* An attempt is reduced to the mode of its adapter, the way it ended and  *)
(* the code of a skip.  "passed" is an accepted execution whose Domain     *)
(* outcome is not failed, "negative" one whose Domain outcome is failed,   *)
(* "failed" stands for failed and timed_out, which no rule here separates. *)
(* A fixture that passes is unevaluated: _capture_candidate rejects a      *)
(* fixture that claims a positive Domain outcome.                          *)
(***************************************************************************)
EXTENDS Sequences, Naturals

(* STAGE_ORDER: composition, image build, CV, CD.                          *)
StageCount == 4
Stages == 1 .. StageCount

(* The Stages with Domain outputs, which every later Stage is offered, and *)
(* those whose negative outcome makes the run red.                         *)
Producers == {1, 2}
Judges == {3, 4}

Modes == {"implemented", "fixture", "not_implemented"}

InitialSkipCodes == {"not_implemented", "fixture_evidence",
                     "implemented_evidence", "deadline_exceeded"}
SkipCodes == InitialSkipCodes \cup {"prerequisite_blocked"}
RedCodes == {"not_implemented", "fixture_evidence", "deadline_exceeded"}

Ran(mode, how) == [mode |-> mode, ended |-> how, code |-> "none"]
Skip(mode, code) == [mode |-> mode, ended |-> "skipped", code |-> code]

Attempts == [mode : Modes, ended : {"passed", "negative", "failed"}, code : {"none"}]
              \cup [mode : Modes, ended : {"skipped"}, code : SkipCodes]

(* StageExecution.blocks_downstream.                                       *)
Blocks(a) == a.ended # "passed" \/ a.mode = "not_implemented"

Blocked(chain) == \E i \in 1 .. Len(chain) : Blocks(chain[i])

(* Some accepted Domain output was produced under the mode.                *)
Offers(chain, mode) ==
  \E i \in 1 .. Len(chain) :
    i \in Producers /\ ~ Blocks(chain[i]) /\ chain[i].mode = mode

(* _pre_spawn_skip: the code of the skip that replaces the adapter.        *)
PreSpawnSkip(mode, chain) ==
  CASE mode = "not_implemented" -> "not_implemented"
    [] mode = "implemented" /\ Offers(chain, "fixture") -> "fixture_evidence"
    [] mode = "fixture" /\ Offers(chain, "implemented") -> "implemented_evidence"
    [] OTHER -> "none"

(* execute_identified_stage: the attempts the next Stage can end with.     *)
Executions(mode, chain) ==
  IF PreSpawnSkip(mode, chain) # "none"
    THEN {Skip(mode, PreSpawnSkip(mode, chain))}
    ELSE {Ran(mode, how) : how \in {"passed", "negative", "failed"}}

(* AcceptedAttemptEnvelope: an adapter without implementation never ran.   *)
ValidAttempt(a) == a.mode = "not_implemented" => a.ended = "skipped"

(* PipelineIntegrationResult.validate_complete_result: one attempt for     *)
(* each Stage; the first attempt that does not pass blocks, and is a typed *)
(* initial skip if it is a skip; everything after it is skipped; what ran  *)
(* under an implemented adapter consumed no unevaluated fixture output.    *)
Open(chain, i) == \A j \in 1 .. i - 1 : chain[j].ended = "passed"

ValidAt(chain, i) ==
  /\ ValidAttempt(chain[i])
  /\ ~ Open(chain, i) => chain[i].ended = "skipped"
  /\ Open(chain, i) /\ chain[i].ended = "skipped" => chain[i].code \in InitialSkipCodes
  /\ Open(chain, i) /\ chain[i].ended # "skipped" /\ chain[i].mode = "implemented"
       => \A j \in Producers : j < i => chain[j].mode # "fixture"

ValidResult(chain) ==
  Len(chain) = StageCount /\ \A i \in Stages : ValidAt(chain, i)

(* run_is_red.                                                             *)
Red(chain) ==
  \E i \in 1 .. Len(chain) :
    \/ chain[i].ended = "failed"
    \/ chain[i].code \in RedCodes
    \/ i \in Judges /\ chain[i].ended = "negative"
=============================================================================
