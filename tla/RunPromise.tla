----------------------------- MODULE RunPromise -----------------------------
(***************************************************************************)
(* What one run of the four Stages promises, wherever it is scheduled:     *)
(* each Stage gets one terminal attempt, in Stage order, and nothing runs  *)
(* after an attempt that blocks; a result appears at most once, complete   *)
(* and accepted by the result contract, and its colour is that of its      *)
(* attempts.                                                               *)
(***************************************************************************)
EXTENDS StageAttempts

VARIABLES
  attempts,  \* the terminal attempts so far
  result     \* "none", or the colour of the published result

vars == << attempts, result >>

Init == attempts = << >> /\ result = "none"

Attempt ==
  /\ result = "none"
  /\ Len(attempts) < StageCount
  /\ \E a \in Attempts :
       /\ ValidAttempt(a)
       /\ Blocked(attempts) <=> a.code = "prerequisite_blocked"
       /\ attempts' = Append(attempts, a)
  /\ UNCHANGED result

(* The attempts that are missing at the end are added with the result.     *)
Publish ==
  /\ result = "none"
  /\ Len(attempts') = StageCount
  /\ \A i \in 1 .. Len(attempts) : attempts'[i] = attempts[i]
  /\ \A i \in Stages : attempts'[i] \in Attempts
  /\ \A i \in Stages : i > Len(attempts) => attempts'[i].ended = "skipped"
  /\ ValidResult(attempts')
  /\ result' = IF Red(attempts') THEN "red" ELSE "green"

Next == Attempt \/ Publish

Spec == Init /\ [][Next]_vars
=============================================================================
