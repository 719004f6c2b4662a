--------------------------- MODULE HandoffReceipt ---------------------------
(***************************************************************************)
(* The contract of handoff-receipt.json, the file in which the GitHub job  *)
(* keeps what it knows of its Jenkins build (_handoff_contracts.py).  The  *)
(* module has no state: it says which documents the writer may persist.    *)
(*                                                                         *)
(* A receipt is reduced to its phase, the phases of its transitions, the   *)
(* presence of the queue and build references, and its terminal facts.     *)
(* Timestamps, URLs and the GitHub reference are left out.                 *)
(***************************************************************************)
EXTENDS Sequences, Naturals

TerminalPhases == {"completed", "failed", "cancelled"}

LivePhases == {"validating", "preflighting", "submitting", "queued",
               "running", "retrieving"}

Phases == LivePhases \cup TerminalPhases

(* The phase each live phase hands over to when nothing goes wrong.        *)
Successor ==
  [p \in LivePhases |->
     CASE p = "validating"   -> "preflighting"
       [] p = "preflighting" -> "submitting"
       [] p = "submitting"   -> "queued"
       [] p = "queued"       -> "running"
       [] p = "running"      -> "retrieving"
       [] p = "retrieving"   -> "completed"]

AllowedNext(p) ==
  IF p \in LivePhases THEN {Successor[p], "failed", "cancelled"} ELSE {}

Codes == {"input_validation", "configuration", "reachability",
          "authentication", "authorization", "http_operation",
          "submission_deadline", "indeterminate_submission",
          "queue_deadline", "queue_cancelled", "queue_unavailable",
          "build_deadline", "retrieval_deadline", "outer_deadline",
          "jenkins_failure", "jenkins_aborted", "jenkins_unstable",
          "stale_agent_image", "missing_artifact", "invalid_artifact",
          "identity_mismatch"}

NoTerminal == [outcome |-> "none", phase |-> "none", code |-> "none"]
Succeeded  == [outcome |-> "succeeded", phase |-> "none", code |-> "none"]
Cancelled  == [outcome |-> "cancelled", phase |-> "none", code |-> "none"]
Failed(c, p) == [outcome |-> "failed", phase |-> p, code |-> c]

Terminals == {NoTerminal, Succeeded, Cancelled} \cup
             {Failed(c, p) : c \in Codes, p \in LivePhases}

Receipts == [phase    : Phases \cup {"none"},
             phases   : Seq(Phases),
             queue    : BOOLEAN,
             build    : BOOLEAN,
             terminal : Terminals]

NoReceipt == [phase |-> "none", phases |-> << >>, queue |-> FALSE,
              build |-> FALSE, terminal |-> NoTerminal]

FirstReceipt == [NoReceipt EXCEPT !.phase = "validating",
                                  !.phases = << "validating" >>]

Reached(r, p) == \E i \in 1 .. Len(r.phases) : r.phases[i] = p

(* HandoffReceipt.validate_progress, rule by rule.                         *)
ValidReceipt(r) ==
  LET n == Len(r.phases) IN
  /\ n > 0
  /\ r.phases[1] = "validating"
  /\ r.phases[n] = r.phase
  /\ \A i, j \in 1 .. n : i # j => r.phases[i] # r.phases[j]
  /\ \A i \in 1 .. n - 1 : r.phases[i + 1] \in AllowedNext(r.phases[i])
  /\ r.terminal # NoTerminal <=> r.phase \in TerminalPhases
  /\ r.build => r.queue
  /\ r.queue <=> Reached(r, "queued")
  /\ r.build <=> Reached(r, "running")
  /\ r.terminal.outcome = "succeeded" => r.phase = "completed" /\ r.build
  /\ r.terminal.outcome = "failed" =>
       /\ r.phase = "failed"
       /\ n > 1
       /\ r.terminal.phase = r.phases[n - 1]
  /\ r.terminal.outcome = "cancelled" => r.phase = "cancelled"
=============================================================================
