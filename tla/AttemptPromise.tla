---------------------------- MODULE AttemptPromise ----------------------------
(***************************************************************************)
(* What one attempt at a Stage promises to whoever reads its attempt root: *)
(* an attempt appears there whole, once no process of its adapter is left, *)
(* it says truly how the adapter came to its end, and what stood there     *)
(* before is never touched.                                                *)
(***************************************************************************)

VARIABLES
  adapter,  \* "idle", "running", or the way its first process ended
  attempt   \* what stands at the attempt root

vars == << adapter, attempt >>

Ends == {"zero", "nonzero", "signal"}

(* What may be said of an adapter that came to its end as told.            *)
Stopped == {"work-limit-reached", "run-deadline-reached", "descendants"}
TrueOf(end) ==
  CASE end = "idle" -> {"skipped", "lost"}
    [] end = "zero" -> {"accepted", "rejected"} \cup Stopped
    [] end \in {"nonzero", "signal"} -> {end} \cup Stopped
    [] OTHER -> {}
Verdicts == {"skipped", "lost", "accepted", "rejected", "nonzero", "signal"}
              \cup Stopped

Init == adapter = "idle" /\ attempt \in {"none", "earlier"}

Launch == /\ adapter = "idle" /\ attempt = "none"
          /\ adapter' = "running" /\ UNCHANGED attempt

Stop == adapter = "running" /\ adapter' \in Ends /\ UNCHANGED attempt

Publish == /\ attempt = "none" /\ attempt' \in TrueOf(adapter)
           /\ UNCHANGED adapter

(* A cancelled command takes its own attempt away, file by file.           *)
Withdraw == /\ \/ attempt \in Verdicts /\ attempt' = "partial"
               \/ attempt = "partial" /\ attempt' = "none"
            /\ UNCHANGED adapter

Next == Launch \/ Stop \/ Publish \/ Withdraw

Spec == Init /\ [][Next]_vars
=============================================================================
