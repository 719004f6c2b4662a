-------------------------- MODULE HandoffInvariant --------------------------
(***************************************************************************)
(* The inductive invariant behind the theorems about Handoff.              *)
(***************************************************************************)
EXTENDS Handoff

Prefix(r, s) ==
  /\ Len(r.phases) <= Len(s.phases)
  /\ \A i \in 1 .. Len(r.phases) : s.phases[i] = r.phases[i]

(* The document in memory extends the file, whatever a signal interrupted, *)
(* and the file holds nothing that was not validated.                      *)
FileInv ==
  /\ Prefix(disk, doc)
  /\ op.at \in {"facts", "write"} => Len(disk.phases) < Len(doc.phases)
  /\ disk = NoReceipt \/ ValidReceipt(disk)

(* When the client comes to the submission, the receipt already says so.   *)
AheadInv ==
  /\ SubmissionIsWrittenAhead
  /\ pc = "submit" =>
       /\ op = Idle => Reached(disk, "submitting")
       /\ op.at \in {"phase", "append"} => op.phase = "submitting"
       /\ op.at \in {"facts", "write"} => Reached(doc, "submitting")

BeforeSubmission == {"start", "identify", "reject_input", "settings",
                     "preflight", "submit"}

(* There is one submission, and a build only for an item that has left.    *)
QueueInv ==
  /\ "submit" \in wire => item = "none"
  /\ pc \in BeforeSubmission => "submit" \notin wire /\ item = "none"
  /\ item = "left" <=> build # "none"

(* A cause named by terminal facts is a state Jenkins is in.               *)
Backed(t) ==
  /\ t.code = "queue_cancelled" => item = "cancelled"
  /\ t.code = "jenkins_failure" => build = "FAILURE"
  /\ t.code = "jenkins_unstable" => build = "UNSTABLE"
  /\ t.code = "jenkins_aborted" => build \in {"ABORTED", "NOT_BUILT"}

(* Whatever the client has learnt, in an answer, a local variable, the     *)
(* pending method, the document or the file, is still so at Jenkins.       *)
TruthInv ==
  /\ reply = "accepted" => item # "none"
  /\ reply = "left" => item = "left"
  /\ reply = "cancelled" => item = "cancelled"
  /\ reply \in Results => build = reply
  /\ known.queue \/ op.queue \/ doc.queue \/ disk.queue => item # "none"
  /\ known.build \/ op.build \/ doc.build \/ disk.build => item = "left"
  /\ Backed(op.terminal) /\ Backed(doc.terminal) /\ Backed(disk.terminal)

(* Where no verdict is recorded yet, where the build's result is known,    *)
(* and where its bundle is visible.                                        *)
Open == (InTry \cup {"start"}) \ {"reject_input", "returning"}
Visible == {"manifest", "manifest_write", "conclude"}
Retrieved == {"retrieve", "download", "publish"} \cup Visible

(* Success is recorded only for a SUCCESS build whose bundle is visible,   *)
(* and the bundle becomes visible while no verdict is recorded.            *)
VerdictInv ==
  /\ pc \in Open => /\ op.terminal = NoTerminal
                    /\ doc.terminal = NoTerminal
                    /\ disk.terminal = NoTerminal
  /\ pc \in Retrieved => reply \in {"SUCCESS", "FAILURE"}
  /\ pc \in Open => (bundle = "published" <=> pc \in Visible)
  /\ Succeeded \in {op.terminal, doc.terminal, disk.terminal}
       => build = "SUCCESS" /\ bundle = "published"

(* A bundle becomes visible only from a good archive of a finished build,  *)
(* and each failure recorded beside it is Jenkins's own.                   *)
Whole == bundle = "published" /\ (archive = "deployed" => manifest = "whole")

Explained(t) ==
  /\ t.outcome = "failed" => (bundle = "published" <=> t.code = "jenkins_failure")
  /\ t.outcome = "succeeded" \/ t.code = "jenkins_failure" => Whole

BundleInv ==
  /\ pc = "publish" \/ bundle = "published" => archive \in GoodArchives
  /\ bundle = "published" => build \in {"SUCCESS", "FAILURE"}
  /\ pc = "conclude" => Whole
  /\ Explained(op.terminal) /\ Explained(doc.terminal) /\ Explained(disk.terminal)

(* The receipt a place leaves behind: the method under way will write it,  *)
(* or has written it.                                                      *)
Leaves(phase) == IF op = Idle THEN disk.phase = phase ELSE op.phase = phase

ExitInv ==
  /\ op.at \in {"append", "facts", "write"} => doc.phase = op.phase
  /\ pc = "closing" => op = Idle /\ outcome # "none"
  /\ pc = "returning" => Leaves("completed")
  /\ pc = "failing" => Leaves("failed")
  /\ outcome # "none" => pc \in {"closing", "done"}
  /\ exit # "none" <=> pc = "done"
  /\ "ok" \in {outcome, exit} => disk.phase = "completed"
  /\ "failed" \in {outcome, exit} => disk.phase = "failed"

(* Unless the outer limit has passed, Jenkins has been asked for whatever  *)
(* the client knows of, from the end of _cancel_correlated on, and the     *)
(* client learns nothing more then.                                        *)
AskedInv ==
  /\ op.queue \/ doc.queue \/ disk.queue => known.queue
  /\ op.build \/ doc.build \/ disk.build => known.build
  /\ "cancelled" \in {op.phase, doc.phase, disk.phase}
       => pc \in {"cancelled", "closing", "done"}
  /\ ~late /\ (pc \in {"cancel_wait", "cancelled"}
                \/ "cancelled" \in {op.phase, doc.phase, disk.phase}) =>
         /\ known.build => asked = "stop"
         /\ known.queue => asked # "none"

IInv == /\ TypeOK /\ FileInv /\ AheadInv /\ QueueInv /\ TruthInv /\ VerdictInv
        /\ BundleInv /\ ExitInv /\ AskedInv
=============================================================================
