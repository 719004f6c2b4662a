-------------------------- MODULE BuildConsoleProofs --------------------------
(***************************************************************************)
(* Theorems about BuildConsole for every set of descriptors: printing does *)
(* not change what a build does, its final line can be trusted, and what   *)
(* it has printed conforms, wherever it was stopped.                       *)
(***************************************************************************)
EXTENDS BuildConsole, PipelineRunProofs

-----------------------------------------------------------------------------
(* Rows.                                                                   *)

(* The Reason of a row is that of a Stage that no other precedes.          *)
LEMMA FailureReasonPicks ==
  ASSUME NEW states
  PROVE  \/ FailureReason(states) = "none" /\ \A i \in Stages : Tier(states[i]) = 4
         \/ \E i \in Stages : /\ FailureReason(states) = states[i].reason
                              /\ Tier(states[i]) # 4
                              /\ \A j \in Stages : Precedes(states, i, j)
<1> DEFINE t(i) == Tier(states[i])
<1>1. \A i : t(i) \in 1 .. 4
  BY DEF Tier
<1>2. \E i \in Stages : \A j \in Stages : Precedes(states, i, j)
  <2>1. Stages = {1, 2, 3, 4}
    BY DEF Stages, StageCount
  <2>2. PICK i \in {1, 2, 3, 4} : \A j \in {1, 2, 3, 4} :
               t(i) < t(j) \/ (t(i) = t(j) /\ i <= j)
    <3>1. t(1) \in 1 .. 4 /\ t(2) \in 1 .. 4 /\ t(3) \in 1 .. 4 /\ t(4) \in 1 .. 4
      BY <1>1
    <3> HIDE DEF t
    <3> QED
      BY <3>1
  <2> QED
    BY <2>1, <2>2 DEF Precedes
<1>3. CASE \A i \in Stages : t(i) = 4
  BY <1>3 DEF FailureReason
<1>4. CASE ~ \A i \in Stages : t(i) = 4
  <2> DEFINE i == CHOOSE i \in Stages : \A j \in Stages : Precedes(states, i, j)
  <2>1. i \in Stages /\ \A j \in Stages : Precedes(states, i, j)
    BY <1>2
  <2>2. FailureReason(states) = states[i].reason
    BY <1>4 DEF FailureReason
  <2>3. t(i) # 4
    <3>1. PICK j \in Stages : t(j) # 4
      BY <1>4
    <3>2. t(i) <= t(j) /\ t(i) \in 1 .. 4 /\ t(j) \in 1 .. 4
      BY <1>1, <2>1 DEF Precedes
    <3> QED
      BY <3>1, <3>2
  <2> QED
    BY <2>1, <2>2, <2>3
<1> QED
  BY <1>3, <1>4

(* The worst of the halves is one of them.                                 *)
LEMMA CiStatusType ==
  ASSUME NEW c \in Statuses, NEW b \in Statuses
  PROVE  CiStatus(c, b, "run") \in Statuses
<1> DEFINE ended == {c, b} \ {"PENDING"}
           worse(o, w) == Severity[o] <= Severity[w]
<1>1. CASE "RUNNING" \in {c, b} \/ ended = {} \/ ended # {c, b}
  BY <1>1 DEF CiStatus, Statuses
<1>2. CASE "RUNNING" \notin {c, b} /\ ended # {} /\ ended = {c, b}
  <2>1. c \in TerminalStatuses /\ b \in TerminalStatuses
    BY <1>2 DEF Statuses
  <2>2. \A s \in TerminalStatuses : Severity[s] \in 0 .. 3
    BY DEF Severity, TerminalStatuses
  <2>3. \E w \in ended : \A o \in ended : worse(o, w)
    BY <1>2, <2>1, <2>2
  <2>4. CiStatus(c, b, "run") = CHOOSE w \in ended : \A o \in ended : worse(o, w)
    BY <1>2 DEF CiStatus
  <2>5. CiStatus(c, b, "run") \in ended
    <3> HIDE DEF worse, ended
    <3> QED
      BY <2>3, <2>4
  <2> QED
    BY <2>5
<1> QED
  BY <1>1, <1>2

(* What a row says of the Stages is typed.                                 *)
Holding(done) ==
  /\ DOMAIN done \subseteq Stages
  /\ \A i \in DOMAIN done : done[i].reason \in RanReasons \cup SkipCodes

LEMMA RowType ==
  ASSUME NEW at \in Stages \cup {RunLevel}, NEW step \in StageSteps \cup RunSteps,
         NEW done, Holding(done)
  PROVE  Row("run", at, step, done) \in Events
<1> DEFINE running == IF step = "stage-finished" THEN RunLevel ELSE at
           states == StageStates(done, running)
           statuses == [i \in Stages |-> states[i].status]
<1>1. \A i \in Stages : states[i].status \in Statuses
                          /\ states[i].reason \in RanReasons \cup SkipCodes
  BY DEF StageStates, AttemptStatus, Statuses, TerminalStatuses, Holding, RanReasons
<1>2. statuses \in [Stages -> Statuses]
  BY <1>1
<1>3. FailureReason(states) \in RanReasons \cup SkipCodes
  BY <1>1, FailureReasonPicks DEF RanReasons
<1>4. CiStatus(statuses[1], statuses[2], "run") \in Statuses
  <2>1. statuses[1] \in Statuses /\ statuses[2] \in Statuses
    BY <1>2 DEF Stages, StageCount
  <2> HIDE DEF statuses
  <2> QED
    BY <2>1, CiStatusType
<1>5. ASSUME NEW s \in [Stages -> Statuses], NEW c \in Statuses,
             NEW r \in RanReasons \cup SkipCodes, NEW b \in BOOLEAN
      PROVE  [stage |-> at, step |-> step, final |-> b, statuses |-> s, ci |-> c,
              reason |-> r] \in Events
  BY DEF Events
<1>6. Row("run", at, step, done) =
        [stage |-> at, step |-> step, final |-> step = "run-finished",
         statuses |-> statuses, ci |-> CiStatus(statuses[1], statuses[2], "run"),
         reason |-> FailureReason(states)]
  BY Zenon DEF Row
<1>7. (step = "run-finished") \in BOOLEAN
  OBVIOUS
<1> HIDE DEF statuses, states, running
<1> QED
  <2>1. [stage |-> at, step |-> step, final |-> step = "run-finished",
         statuses |-> statuses, ci |-> CiStatus(statuses[1], statuses[2], "run"),
         reason |-> FailureReason(states)] \in Events
    BY <1>2, <1>3, <1>4, <1>5, <1>7, ZenonT(30)
  <2> QED
    BY <1>6, <2>1, ZenonT(30)

-----------------------------------------------------------------------------
(* The final line.                                                         *)

(* The attempts of a result with their Reasons.                            *)
Explained(result, done) ==
  /\ DOMAIN done = Stages
  /\ \A i \in Stages :
       /\ done[i].attempt = result[i]
       /\ IF result[i].ended = "skipped" THEN done[i].reason = result[i].code
                                        ELSE done[i].reason \in Reasons(result[i])

(* The Stages before and after the first one that did not pass.            *)
Broken(result, k) ==
  /\ \A i \in Stages : i < k => result[i].ended = "passed"
  /\ result[k].ended # "passed" /\ result[k].code # "prerequisite_blocked"
  /\ \A i \in Stages : i > k => /\ result[i].ended = "skipped"
                                /\ result[i].code = "prerequisite_blocked"

(* A Stage that passed, or stands behind another, gives no Reason for red. *)
LEMMA QuietStages ==
  ASSUME NEW result, NEW done, Explained(result, done), NEW i \in Stages,
         \/ result[i].ended = "passed"
         \/ result[i].ended = "skipped" /\ result[i].code = "prerequisite_blocked"
  PROVE  LET s == StageStates(done, RunLevel)[i] IN
         /\ s.status # "FAILED"
         /\ s.reason \in {"none", "unevaluated", "prerequisite_blocked"}
         /\ Tier(s) \in {3, 4}
<1> DEFINE s == StageStates(done, RunLevel)[i]
<1>1. i # RunLevel /\ i \in DOMAIN done
  BY DEF Stages, StageCount, RunLevel, Explained
<1>2. s = [status |-> AttemptStatus(done[i].attempt, done[i].reason),
           reason |-> done[i].reason]
  BY <1>1 DEF StageStates
<1>3. done[i].attempt = result[i]
  BY DEF Explained
<1>4. CASE result[i].ended = "passed"
  <2>1. done[i].reason \in {"none", "unevaluated"}
    BY <1>4 DEF Explained, Reasons
  <2>2. s.status = IF done[i].reason = "none" THEN "SUCCEEDED" ELSE "NOT_EVALUATED"
    BY <1>2, <1>3, <1>4 DEF AttemptStatus
  <2> QED
    BY <1>2, <2>1, <2>2 DEF Tier
<1>5. CASE result[i].ended = "skipped" /\ result[i].code = "prerequisite_blocked"
  <2>1. done[i].reason = "prerequisite_blocked"
    BY <1>5 DEF Explained
  <2>2. s.status = "SKIPPED"
    BY <1>2, <1>3, <1>5, <2>1 DEF AttemptStatus
  <2> QED
    BY <1>2, <2>1, <2>2 DEF Tier
<1> QED
  BY <1>4, <1>5

(* The final row of a result without a broken Stage is green.              *)
LEMMA GreenRow ==
  ASSUME NEW result, NEW done, Explained(result, done), Len(result) = StageCount,
         \A i \in Stages : result[i].ended = "passed" /\ result[i].code = "none"
  PROVE  ~ RowIsRed(Row("run", RunLevel, "run-finished", done)) /\ ~ Red(result)
<1> DEFINE states == StageStates(done, RunLevel)
           row == Row("run", RunLevel, "run-finished", done)
<1>1. \A i \in Stages : /\ states[i].status # "FAILED"
                        /\ states[i].reason \in {"none", "unevaluated", "prerequisite_blocked"}
  BY QuietStages
<1>2. /\ row.statuses = [i \in Stages |-> states[i].status]
      /\ row.reason = FailureReason(states)
  BY DEF Row
<1>3. FailureReason(states) \in {"none", "unevaluated", "prerequisite_blocked"}
  BY <1>1, FailureReasonPicks
<1>4. \A i \in Judges : row.statuses[i] # "FAILED"
  BY <1>1, <1>2 DEF Judges, Stages, StageCount
<1>5. ~ RowIsRed(row)
  BY <1>2, <1>3, <1>4 DEF RowIsRed, RedCodes
<1>6. ~ Red(result)
  BY DEF Red, RedCodes, Stages, StageCount
<1> QED
  BY <1>5, <1>6

(* The final row of a broken result tells its colour.                      *)
LEMMA BrokenRow ==
  ASSUME NEW result, NEW done, Explained(result, done), Len(result) = StageCount,
         \A i \in Stages : result[i] \in Attempts,
         NEW k \in Stages, Broken(result, k)
  PROVE  RowIsRed(Row("run", RunLevel, "run-finished", done)) <=> Red(result)
<1> DEFINE states == StageStates(done, RunLevel)
           row == Row("run", RunLevel, "run-finished", done)
           reason == FailureReason(states)
           told == RowIsRed(row)
<1>1. /\ row.statuses = [i \in Stages |-> states[i].status]
      /\ row.reason = FailureReason(states)
  BY DEF Row
<1>2. \A i \in Stages : i # k =>
        /\ \/ result[i].ended = "passed"
           \/ result[i].ended = "skipped" /\ result[i].code = "prerequisite_blocked"
  BY DEF Broken, Stages, StageCount
<1>3. \A i \in Stages : i # k =>
        /\ states[i].status # "FAILED"
        /\ states[i].reason \in {"none", "unevaluated", "prerequisite_blocked"}
        /\ Tier(states[i]) \in {3, 4}
  BY <1>2, QuietStages
<1>4. states[k] = [status |-> AttemptStatus(result[k], done[k].reason),
                   reason |-> done[k].reason]
  <2>1. k # RunLevel /\ k \in DOMAIN done /\ done[k].attempt = result[k]
    BY DEF Stages, StageCount, RunLevel, Explained
  <2> QED
    BY <2>1 DEF StageStates
<1>5. result[k] \in Attempts
  OBVIOUS
<1>6. Red(result) <=> \/ result[k].ended = "failed"
                      \/ result[k].code \in RedCodes
                      \/ k \in Judges /\ result[k].ended = "negative"
  <2>1. \A i \in Stages : i # k => result[i].ended \in {"passed", "skipped"}
                                   /\ result[i].code \notin RedCodes
    <3>1. \A i \in Stages : result[i].ended = "passed" => result[i].code = "none"
      BY DEF Attempts
    <3> QED
      BY <1>2, <3>1 DEF RedCodes
  <2>2. 1 .. Len(result) = Stages
    BY DEF Stages
  <2> QED
    BY <2>1, <2>2 DEF Red
<1>7. told <=> \/ k \in Judges /\ states[k].status = "FAILED"
               \/ reason \in {"adapter"} \cup RedCodes
  <2>1. Judges \subseteq Stages
    BY DEF Judges, Stages, StageCount
  <2> QED
    BY <1>1, <1>3, <2>1 DEF RowIsRed
<1>8. ASSUME Tier(states[k]) \in {1, 2}
      PROVE  reason = states[k].reason
  <2>1. \A i \in Stages : i # k => ~ Precedes(states, i, k)
    BY <1>3, <1>8 DEF Precedes
  <2> QED
    BY <1>8, <2>1, FailureReasonPicks
<1> HIDE DEF states, row, reason, told
<1>9. ASSUME result[k].ended = "failed" PROVE told <=> Red(result)
  <2>1. done[k].reason \in {"adapter", "deadline_exceeded"}
    <3>1. done[k].reason \in Reasons(result[k])
      BY <1>9 DEF Explained
    <3> QED
      BY <1>9, <3>1 DEF Reasons
  <2>2. states[k].status = "FAILED"
    BY <1>4, <1>9 DEF AttemptStatus
  <2>3. Tier(states[k]) = 1 /\ states[k].reason = done[k].reason
    BY <1>4, <2>1, <2>2 DEF Tier
  <2>4. reason \in {"adapter", "deadline_exceeded"}
    BY <1>8, <2>1, <2>3
  <2> QED
    BY <1>6, <1>7, <1>9, <2>2, <2>4 DEF RedCodes
<1>10. ASSUME result[k].ended = "negative" PROVE told <=> Red(result)
  <2>1. done[k].reason = "domain" /\ result[k].code = "none"
    <3>1. done[k].reason \in Reasons(result[k])
      BY <1>10 DEF Explained
    <3>2. done[k].reason = "domain"
      BY <1>10, <3>1 DEF Reasons
    <3>3. result[k].code = "none"
      BY <1>5, <1>10 DEF Attempts
    <3> QED
      BY <3>2, <3>3
  <2>2. states[k].status = "FAILED"
    BY <1>4, <1>10 DEF AttemptStatus
  <2>3. Tier(states[k]) = 1 /\ states[k].reason = "domain"
    BY <1>4, <2>1, <2>2 DEF Tier
  <2>4. reason \notin {"adapter"} \cup RedCodes
    BY <1>8, <2>3 DEF RedCodes
  <2> QED
    BY <1>6, <1>7, <1>10, <2>1, <2>2, <2>4 DEF RedCodes
<1>11. ASSUME result[k].ended = "skipped" PROVE told <=> Red(result)
  <2>1. done[k].reason = result[k].code /\ result[k].code \in InitialSkipCodes
    BY <1>5, <1>11 DEF Explained, Attempts, SkipCodes, Broken
  <2>2. states[k].status = IF result[k].code = "deadline_exceeded" THEN "FAILED" ELSE "SKIPPED"
    BY <1>4, <1>11, <2>1 DEF AttemptStatus
  <2>3. CASE result[k].code \in RedCodes
    <3>1. Tier(states[k]) \in {1, 2}
      <4>1. states[k].reason = result[k].code
        BY <1>4, <2>1
      <4>2. states[k].status \in {"FAILED", "SKIPPED"}
        BY <1>4, <2>2
      <4>3. states[k].reason \notin {"none", "prerequisite_blocked"}
        BY <4>1, <2>3 DEF RedCodes
      <4> HIDE DEF states
      <4> QED
        BY <4>1, <4>2, <4>3, <2>3 DEF Tier
    <3> QED
      BY <1>4, <1>6, <1>7, <1>8, <2>1, <2>3, <3>1
  <2>4. CASE result[k].code = "implemented_evidence"
    <3>1. \A i \in Stages : states[i].status # "FAILED"
                              /\ states[i].reason \notin {"adapter"} \cup RedCodes
      BY <1>3, <1>4, <2>1, <2>2, <2>4 DEF RedCodes
    <3>2. reason \notin {"adapter"} \cup RedCodes
      BY <3>1, FailureReasonPicks DEF RedCodes, reason
    <3> QED
      BY <1>6, <1>7, <1>11, <2>4, <3>1, <3>2 DEF RedCodes
  <2> QED
    BY <2>1, <2>3, <2>4 DEF InitialSkipCodes, RedCodes
<1>12. result[k].ended \in {"failed", "negative", "skipped"}
  BY <1>5 DEF Broken, Attempts
<1> QED
  BY <1>9, <1>10, <1>11, <1>12 DEF told, row

(* A result of a build has a first Stage that did not pass, or passed.     *)
LEMMA ResultShape ==
  ASSUME IInv, bundle # << >>
  PROVE  \/ \A i \in Stages : bundle[i].ended = "passed" /\ bundle[i].code = "none"
         \/ \E k \in Stages : Broken(bundle, k)
<1> DEFINE n == Len(accepted)
<1>1. /\ bundle = Completed /\ TypeOK /\ n \in Nat /\ n <= 4
      /\ accepted \in Seq(Attempts)
  BY DEF IInv, BundleInv, TypeOK, StageCount
<1>2. \A i \in Stages : i \in 1 .. 4
  BY DEF Stages, StageCount
<1>3. ASSUME NEW i \in 1 .. n
      PROVE  /\ i \in Stages /\ bundle[i] = accepted[i] /\ bundle[i] \in Attempts
             /\ Blocks(accepted[i]) <=> bundle[i].ended # "passed"
             /\ bundle[i].code # "prerequisite_blocked"
  <2>1. i \in Stages /\ i <= n
    BY <1>1 DEF Stages, StageCount
  <2>2. bundle[i] = accepted[i]
    BY <1>1, <2>1, CompletedEntries
  <2>3. ValidAttempt(accepted[i]) /\ accepted[i].code # "prerequisite_blocked"
    BY DEF IInv, AcceptedInv, ValidAt
  <2>4. accepted[i] \in Attempts
    BY <1>1
  <2> QED
    BY <2>1, <2>2, <2>3, <2>4 DEF Blocks, ValidAttempt
<1>4. ASSUME NEW i \in Stages, i > n, i # n + 1 \/ Blocked(accepted)
      PROVE  bundle[i].ended = "skipped" /\ bundle[i].code = "prerequisite_blocked"
  <2>1. bundle[i] = Skip(modes[i], "prerequisite_blocked")
    BY <1>1, <1>4, CompletedEntries
  <2> QED
    BY <2>1 DEF Skip
<1>5. CASE Blocked(accepted)
  <2>1. PICK k \in 1 .. n : Blocks(accepted[k])
    BY <1>5 DEF Blocked
  <2>2. k = n
    BY <1>1, <2>1 DEF IInv, AcceptedInv, WorkAfterBlocker
  <2>3. \A i \in 1 .. n - 1 : ~ Blocks(accepted[i])
    BY DEF IInv, AcceptedInv, WorkAfterBlocker
  <2>4. \A i \in Stages : i < k => bundle[i].ended = "passed"
    BY <1>1, <1>2, <1>3, <2>2, <2>3
  <2>5. \A i \in Stages : i > k => /\ bundle[i].ended = "skipped"
                                   /\ bundle[i].code = "prerequisite_blocked"
    BY <1>1, <1>2, <1>4, <1>5, <2>2
  <2>6. k \in Stages /\ bundle[k].ended # "passed" /\ bundle[k].code # "prerequisite_blocked"
    BY <1>3, <2>1
  <2> QED
    BY <2>4, <2>5, <2>6 DEF Broken
<1>6. CASE ~ Blocked(accepted) /\ n < 4
  <2>1. n + 1 \in Stages
    BY <1>1, <1>6 DEF Stages, StageCount
  <2>2. bundle[n + 1] = Skip(modes[n + 1], "deadline_exceeded")
    BY <1>1, <1>6, <2>1, CompletedEntries
  <2>3. \A i \in Stages : i < n + 1 => bundle[i].ended = "passed"
    BY <1>1, <1>2, <1>3, <1>6 DEF Blocked
  <2>4. \A i \in Stages : i > n + 1 => /\ bundle[i].ended = "skipped"
                                       /\ bundle[i].code = "prerequisite_blocked"
    BY <1>1, <1>2, <1>4
  <2> QED
    BY <2>1, <2>2, <2>3, <2>4 DEF Broken, Skip
<1>7. CASE ~ Blocked(accepted) /\ n = 4
  <2>1. \A i \in Stages : bundle[i].ended = "passed" /\ bundle[i] \in Attempts
    BY <1>2, <1>3, <1>7 DEF Blocked
  <2> QED
    BY <2>1 DEF Attempts
<1>8. n < 4 \/ n = 4
  <2>1. \A k \in Nat : k <= 4 => k < 4 \/ k = 4
    OBVIOUS
  <2> QED
    BY <1>1, <2>1, Zenon
<1> QED
  BY <1>5, <1>6, <1>7, <1>8

(* What the finalization holds are the attempts with their Reasons.        *)
LEMMA HeldExplains ==
  ASSUME IInv, WhysInv, bundle # << >>
  PROVE  Explained(bundle, Held(bundle))
<1> DEFINE n == Len(accepted)
<1>1. /\ bundle = Completed /\ TypeOK /\ n \in Nat
      /\ bundle \in Seq(Attempts) /\ Len(bundle) = StageCount
  BY CompletedType DEF IInv, BundleInv, TypeOK
<1>2. DOMAIN Held(bundle) = Stages
  BY <1>1 DEF Held, Stages
<1>3. ASSUME NEW i \in Stages
      PROVE  /\ Held(bundle)[i].attempt = bundle[i]
             /\ Held(bundle)[i].reason = IF bundle[i].ended = "skipped" THEN bundle[i].code
                                                                        ELSE whys[i]
  BY <1>1 DEF Held, Accepted, Stages
<1>4. ASSUME NEW i \in Stages, bundle[i].ended # "skipped"
      PROVE  whys[i] \in Reasons(bundle[i])
  <2>1. i \in 1 .. n /\ bundle[i] = accepted[i]
    <3>1. i \in Nat /\ i >= 1
      BY DEF Stages, StageCount
    <3>2. CASE i <= n
      BY <1>1, <3>1, <3>2, CompletedEntries
    <3>3. CASE i > n
      <4>1. \/ bundle[i] = Skip(modes[i], "deadline_exceeded")
            \/ bundle[i] = Skip(modes[i], "prerequisite_blocked")
        BY <1>1, <3>1, <3>3, CompletedEntries
      <4> QED
        BY <4>1, <1>4 DEF Skip
    <3> QED
      BY <1>1, <3>1, <3>2, <3>3
  <2> QED
    BY <2>1, <1>4 DEF WhysInv, Explains
<1> HIDE DEF n
<1> QED
  BY <1>2, <1>3, <1>4 DEF Explained

LEMMA FinalRowTold ==
  ASSUME IInv, WhysInv, bundle # << >>
  PROVE  RowIsRed(Row("run", RunLevel, "run-finished", Held(bundle))) <=> Red(bundle)
<1>1. bundle \in Seq(Attempts) /\ Len(bundle) = StageCount
  BY CompletedType DEF IInv, BundleInv
<1>2. \A i \in Stages : bundle[i] \in Attempts
  BY <1>1 DEF Stages
<1> QED
  BY <1>1, <1>2, ResultShape, HeldExplains, GreenRow, BrokenRow

-----------------------------------------------------------------------------
(* The invariant, step by step.                                            *)

(* Printing aside, every step is one of the build.                         *)
LEMMA ConsoleStepsBuild == [ConsoleNext]_consoleVars => [Next]_vars
  BY DEF ConsoleNext, consoleVars, AcceptRun, Prepare, StartStage, SayNext, PublishAnnounced,
         FinishStage, EndStage, FinishRun, Conclude, Silent, Next

LEMMA PrintTyped ==
  ASSUME ConsoleTypeOK, NEW attempts \in Seq(Attempts), Len(attempts) <= StageCount,
         NEW at \in Stages \cup {RunLevel}, NEW step \in StageSteps \cup RunSteps,
         Emit(at, step, attempts)
  PROVE  /\ console' \in Seq(Events)
         /\ console' # << >> /\ console'[Len(console')] = Row("run", at, step, Held(attempts))
         /\ LastStep' = step
<1> DEFINE row == Row("run", at, step, Held(attempts))
<1>1. Holding(Held(attempts))
  <2>1. DOMAIN Held(attempts) = 1 .. Len(attempts) /\ Len(attempts) \in Nat
    BY DEF Held
  <2>2. 1 .. Len(attempts) \subseteq Stages
    BY <2>1 DEF Stages, StageCount
  <2>3. ASSUME NEW i \in 1 .. Len(attempts)
        PROVE  Held(attempts)[i].reason \in RanReasons \cup SkipCodes
    <3>1. Held(attempts)[i].reason = IF attempts[i].ended = "skipped" THEN attempts[i].code
                                                                      ELSE whys[i]
      BY DEF Held, Accepted
    <3>2. attempts[i] \in Attempts /\ whys[i] \in RanReasons
      BY <2>2 DEF ConsoleTypeOK
    <3>3. attempts[i].ended = "skipped" => attempts[i].code \in SkipCodes
      BY <3>2 DEF Attempts
    <3> QED
      BY <3>1, <3>2, <3>3
  <2> QED
    BY <2>1, <2>2, <2>3 DEF Holding
<1>2. row \in Events
  BY <1>1, RowType
<1>3. console' = Append(console, row) /\ console \in Seq(Events)
  BY DEF Emit, ConsoleTypeOK
<1>4. row.step = step
  BY DEF Row
<1> HIDE DEF row
<1>5. console' \in Seq(Events) /\ console' # << >> /\ console'[Len(console')] = row
  BY <1>2, <1>3
<1> QED
  BY <1>4, <1>5 DEF LastStep, row

(* The Stage that prints, and the attempt it has published.                *)
LEMMA AtStage ==
  ASSUME IInv, pc \in {"execute", "stash"}
  PROVE  /\ Current \in Stages /\ modes[Current] \in Modes
         /\ accepted \in Seq(Attempts) /\ Len(accepted) < StageCount
         /\ agent = "published" =>
              /\ attempt \in Attempts
              /\ Append(accepted, attempt) \in Seq(Attempts)
              /\ Len(Append(accepted, attempt)) <= StageCount
<1>1. Len(accepted) < StageCount /\ accepted \in Seq(Attempts) /\ TypeOK
  BY DEF IInv, LoopInv, TypeOK
<1>2. Current \in Stages /\ modes[Current] \in Modes
  BY <1>1, CurrentStage
<1>3. ASSUME agent = "published" PROVE attempt \in Attempts
  <2>1. attempt \in Executions(modes[Current], accepted)
    BY <1>3 DEF IInv, AgentInv
  <2> QED
    BY <1>2, <2>1, ExecutionTypes
<1> QED
  BY <1>1, <1>2, <1>3 DEF StageCount

(* What an adapter that ran gives as its Reason.                           *)
LEMMA RanReason ==
  ASSUME NEW a \in Attempts, a.ended # "skipped"
  PROVE  Reasons(a) \subseteq RanReasons
<1>1. a.ended \in {"passed", "negative", "failed"}
  BY DEF Attempts
<1> QED
  BY <1>1 DEF Reasons, RanReasons
(* The steps of a build at which a line can be printed.                    *)
Printing == AcceptRun \/ StartStage \/ SayNext \/ FinishStage \/ FinishRun

LEMMA OthersAreSilent ==
  ASSUME [ConsoleNext]_consoleVars, ~ Printing
  PROVE  console' = console
  BY DEF ConsoleNext, consoleVars, telling, Printing, Prepare, PublishAnnounced, EndStage,
         Conclude, Silent

LEMMA OnlyPublishingExplains ==
  ASSUME [ConsoleNext]_consoleVars, ~ PublishAnnounced
  PROVE  whys' = whys
  BY DEF ConsoleNext, consoleVars, telling, AcceptRun, Prepare, StartStage, SayNext,
         FinishStage, EndStage, FinishRun, Conclude, Silent

LEMMA PublishExplains ==
  ASSUME IInv, ConsoleTypeOK, PublishAnnounced
  PROVE  /\ pc = "execute" /\ pc' = "execute" /\ accepted' = accepted
         /\ Current \in Stages /\ attempt' \in Attempts
         /\ \E why \in Reasons(attempt') \cap RanReasons :
              whys' = [whys EXCEPT ![Current] = why]
<1>1. /\ pc = "execute" /\ agent = "running" /\ pc' = pc /\ accepted' = accepted
      /\ attempt' \in Executions(modes[Current], accepted)
  BY DEF PublishAnnounced, PublishAttempt, chain
<1>2. Current \in Stages /\ modes[Current] \in Modes
  BY <1>1, AtStage
<1>3. PreSpawnSkip(modes[Current], accepted) = "none"
  BY <1>1 DEF IInv, AgentInv
<1>4. attempt' \in Attempts /\ attempt'.ended # "skipped"
  BY <1>1, <1>2, <1>3, ExecutionTypes, ExecutionShape
<1>5. PICK why \in Reasons(attempt') : whys' = [whys EXCEPT ![Current] = why]
  BY DEF PublishAnnounced
<1>6. why \in RanReasons
  BY <1>4, <1>5, RanReason
<1> QED
  BY <1>1, <1>2, <1>4, <1>5, <1>6

LEMMA BundleBound ==
  ASSUME IInv
  PROVE  bundle \in Seq(Attempts) /\ Len(bundle) <= StageCount
<1>1. bundle \in Seq(Attempts) /\ Len(bundle) \in {0, 4}
  BY DEF IInv, TypeOK, StageCount
<1>2. \A k \in {0, 4} : k <= 4
  OBVIOUS
<1> QED
  BY <1>1, <1>2, Zenon DEF StageCount

(* The lines before the final one.                                         *)
LEMMA EarlyLines ==
  ASSUME IInv, ConsoleTypeOK, AcceptRun \/ StartStage \/ SayNext \/ FinishStage
  PROVE  \/ console' = console
         \/ console' \in Seq(Events) /\ LastStep' # "run-finished"
<1>1. CASE AcceptRun
  <2>1. Emit(RunLevel, "run-accepted", << >>) /\ "run-accepted" \in StageSteps \cup RunSteps
    BY <1>1 DEF AcceptRun, RunSteps
  <2>2. << >> \in Seq(Attempts) /\ Len(<< >>) <= StageCount
    BY DEF StageCount
  <2> QED
    BY <2>1, <2>2, PrintTyped
<1>2. CASE StartStage
  <2>1. pc = "execute"
    BY <1>2 DEF StartStage, LaunchAdapter
  <2>2. Current \in Stages /\ accepted \in Seq(Attempts) /\ Len(accepted) <= StageCount
    BY <2>1, AtStage DEF IInv, TypeOK
  <2>3. console' = console \/ Emit(Current, "stage-started", accepted)
    BY <1>2 DEF StartStage
  <2> QED
    BY <2>2, <2>3, PrintTyped DEF StageSteps
<1>3. CASE SayNext
  <2>1. Current \in Stages /\ accepted \in Seq(Attempts) /\ Len(accepted) <= StageCount
    BY <1>3, AtStage DEF SayNext, IInv, TypeOK
  <2>2. PICK step \in NextSteps(LastStep, clock >= RunDeadline) : Emit(Current, step, accepted)
    BY <1>3 DEF SayNext
  <2>3. step \in StageSteps /\ step # "run-finished"
    BY <2>2 DEF NextSteps, StageSteps, LimitSteps
  <2> QED
    BY <2>1, <2>2, <2>3, PrintTyped
<1>4. CASE FinishStage
  <2>1. /\ Current \in Stages /\ Append(accepted, attempt) \in Seq(Attempts)
        /\ Len(Append(accepted, attempt)) <= StageCount
        /\ Emit(Current, "stage-finished", Append(accepted, attempt))
    BY <1>4, AtStage DEF FinishStage
  <2>2. "stage-finished" \in StageSteps \cup RunSteps
    BY DEF StageSteps
  <2>3. console' \in Seq(Events) /\ LastStep' = "stage-finished"
    BY <2>1, <2>2, PrintTyped
  <2> QED
    BY <2>3
<1> QED
  BY <1>1, <1>2, <1>3, <1>4

LEMMA FinalLine ==
  ASSUME IInv, ConsoleTypeOK, FinishRun
  PROVE  /\ console' \in Seq(Events) /\ LastStep' = "run-finished"
         /\ console'[Len(console')] = Row("run", RunLevel, "run-finished", Held(bundle))
<1>1. Emit(RunLevel, "run-finished", bundle) /\ "run-finished" \in StageSteps \cup RunSteps
  BY DEF FinishRun, RunSteps
<1> QED
  BY <1>1, BundleBound, PrintTyped

LEMMA ConsoleTypeStep ==
  ASSUME IInv, ConsoleTypeOK, [ConsoleNext]_consoleVars
  PROVE  ConsoleTypeOK'
<1>1. whys' \in [Stages -> RanReasons]
  <2>1. CASE PublishAnnounced
    BY <2>1, PublishExplains DEF ConsoleTypeOK
  <2>2. CASE ~ PublishAnnounced
    BY <2>2, OnlyPublishingExplains DEF ConsoleTypeOK
  <2> QED
    BY <2>1, <2>2
<1>2. console' \in Seq(Events)
  BY EarlyLines, FinalLine, OthersAreSilent DEF Printing, ConsoleTypeOK
<1> QED
  BY <1>1, <1>2 DEF ConsoleTypeOK

LEMMA WhysStep ==
  ASSUME IInv, ConsoleTypeOK, WhysInv, [ConsoleNext]_consoleVars
  PROVE  WhysInv'
<1> DEFINE n == Len(accepted)
<1>0. n \in Nat /\ accepted \in Seq(Attempts)
  BY DEF IInv, TypeOK
<1>1. CASE PublishAnnounced
  <2>1. /\ pc' = "execute" /\ accepted' = accepted /\ Current \in Stages
        /\ \E why \in Reasons(attempt') : whys' = [whys EXCEPT ![Current] = why]
    BY <1>1, PublishExplains
  <2>2. whys' [Current] \in Reasons(attempt') /\ \A i \in 1 .. n : whys'[i] = whys[i]
    BY <1>0, <2>1 DEF ConsoleTypeOK, Current, Stages, StageCount
  <2> QED
    BY <2>1, <2>2 DEF WhysInv, Explains, Current
<1>2. CASE Stash /\ whys' = whys
  <2>1. /\ pc = "stash" /\ agent = "published" /\ agent' = "idle"
        /\ accepted' = Append(accepted, attempt)
    BY <1>2 DEF Stash, IInv, AgentInv
  <2>2. Explains(attempt, whys[n + 1])
    BY <2>1 DEF WhysInv, Current
  <2>3. attempt \in Attempts
    BY <1>2, StashAppends
  <2>4. /\ Len(accepted') = n + 1 /\ accepted'[n + 1] = attempt
        /\ \A i \in 1 .. n : accepted'[i] = accepted[i]
    BY <1>0, <2>1, <2>3
  <2>5. \A i \in 1 .. n + 1 : Explains(accepted'[i], whys[i])
    BY <1>0, <2>2, <2>4 DEF WhysInv
  <2> QED
    BY <1>2, <2>1, <2>4, <2>5 DEF WhysInv
<1>3. CASE StartStage
  <2>1. accepted' = accepted /\ whys' = whys /\ pc = "execute"
    BY <1>3 DEF StartStage, LaunchAdapter, chain
  <2>2. agent' = "published" => attempt'.ended = "skipped"
    BY <1>3 DEF StartStage, LaunchAdapter, Executions, Skip
  <2> QED
    BY <2>1, <2>2 DEF WhysInv, Explains
<1>4. CASE ~ Stash /\ ~ PublishAnnounced /\ ~ StartStage
  <2> DEFINE kept == attempt' = attempt /\ pc \in {"execute", "stash"} /\ agent = "published"
  <2>1. whys' = whys
    BY <1>4, OnlyPublishingExplains
  <2>2. \/ UNCHANGED vars \/ Preflight \/ Tick \/ NextStage \/ Checkout \/ CheckDeadline
        \/ Executed \/ AllowContinuation \/ SafetyTimeout \/ SchedulingTimeout \/ Finalize
        \/ Assemble \/ Archive \/ Colour \/ RunTimeout \/ Break \/ Abort
    BY <1>4 DEF ConsoleNext, consoleVars, AcceptRun, Prepare, SayNext, FinishStage, EndStage,
       FinishRun, Conclude, Silent
  <2>3. accepted' = accepted
    BY <2>2 DEF vars, chain, End, Preflight, Tick, NextStage, Checkout, CheckDeadline,
       Executed, AllowContinuation, SafetyTimeout, SchedulingTimeout, Finalize, Assemble,
       Archive, Colour, RunTimeout, Break, Abort
  <2>4. pc' \in {"execute", "stash"} /\ agent' = "published" => kept
    BY <2>2 DEF vars, stage, End, Preflight, Tick, NextStage, Checkout, CheckDeadline,
       Executed, AllowContinuation, SafetyTimeout, SchedulingTimeout, Finalize, Assemble,
       Archive, Colour, RunTimeout, Break, Abort
  <2> QED
    BY <2>1, <2>3, <2>4 DEF WhysInv, Current
<1>5. Stash => whys' = whys
  <2>1. Stash => ~ PublishAnnounced
    BY DEF Stash, PublishAnnounced, PublishAttempt
  <2> QED
    BY <2>1, OnlyPublishingExplains
<1> QED
  BY <1>1, <1>2, <1>3, <1>4, <1>5
LEMMA FinalLineStep ==
  ASSUME IInv, ConsoleTypeOK, FinalLineInv, [ConsoleNext]_consoleVars
  PROVE  FinalLineInv'
<1>0. LoopInv /\ BundleInv
  BY DEF IInv
<1>1. CASE (AcceptRun \/ StartStage \/ SayNext \/ FinishStage) /\ console' # console
  <2>1. pc' = pc /\ pc \in {"preflight", "execute"} /\ verdict' = verdict
    BY <1>1 DEF AcceptRun, StartStage, LaunchAdapter, SayNext, FinishStage, vars
  <2>2. LastStep' # "run-finished"
    BY <1>1, EarlyLines
  <2> QED
    BY <1>0, <2>1, <2>2 DEF FinalLineInv, Concluded, LoopInv
<1>2. CASE FinishRun
  <2>1. /\ pc = "conclude" /\ bundle # << >> /\ verdict = "none"
        /\ UNCHANGED << pc, bundle, verdict, whys >>
    BY <1>0, <1>2 DEF FinishRun, vars, ending, LoopInv, BundleInv
  <2>2. /\ LastStep' = "run-finished"
        /\ console'[Len(console')] = Row("run", RunLevel, "run-finished", Held(bundle))
    BY <1>2, FinalLine
  <2>3. Held(bundle)' = Held(bundle)
    BY <2>1 DEF Held
  <2> QED
    BY <2>1, <2>2, <2>3 DEF FinalLineInv, Concluded
<1>3. CASE console' = console /\ LastStep = "run-finished"
  <2>1. pc \in {"conclude", "done"} \cup Concluded /\ bundle # << >>
    BY <1>3 DEF FinalLineInv
  <2>2. pc' \in {"conclude", "done"} \cup Concluded /\ bundle' = bundle
    BY <2>1, ConsoleStepsBuild DEF Next, vars, ending, End, Concluded, Tick, Preflight,
       NextStage, Checkout, CheckDeadline, LaunchAdapter, PublishAttempt, Executed, Stash,
       AllowContinuation, SafetyTimeout, SchedulingTimeout, Scheduling, StageWork, Finalize,
       Assemble, Archive, Colour, RunTimeout, Break, Abort
  <2>3. whys' = whys
    <3>1. ~ PublishAnnounced
      BY <2>1 DEF PublishAnnounced, PublishAttempt, Concluded
    <3> QED
      BY <3>1, OnlyPublishingExplains
  <2>4. Held(bundle)' = Held(bundle)
    BY <2>2, <2>3 DEF Held
  <2>5. LastStep' = LastStep
    BY <1>3 DEF LastStep
  <2> QED
    BY <1>3, <2>1, <2>2, <2>4, <2>5 DEF FinalLineInv
<1>4. CASE console' = console /\ LastStep # "run-finished"
  <2>1. LastStep' = LastStep
    BY <1>4 DEF LastStep
  <2>2. pc \notin Concluded /\ verdict # "SUCCESS"
    BY <1>4 DEF FinalLineInv
  <2>3. pc = "conclude" => ~ Archive
    BY <1>4 DEF ConsoleNext, consoleVars, vars, AcceptRun, Prepare, Preflight, StartStage,
       LaunchAdapter, SayNext, PublishAnnounced, PublishAttempt, FinishStage, EndStage,
       Executed, FinishRun, Conclude, Silent, Archive, Tick, NextStage, Checkout,
       CheckDeadline, Stash, AllowContinuation, SafetyTimeout, SchedulingTimeout, Finalize,
       Assemble, Colour, RunTimeout, Break, Abort, End
  <2>4. pc' \notin Concluded /\ verdict' # "SUCCESS"
    BY <2>2, <2>3, ConsoleStepsBuild DEF Next, vars, End, Concluded, Tick, Preflight,
       NextStage, Checkout, CheckDeadline, LaunchAdapter, PublishAttempt, Executed, Stash,
       AllowContinuation, SafetyTimeout, SchedulingTimeout, Finalize,
       Assemble, Archive, Colour, RunTimeout, Break, Abort
  <2> QED
    BY <1>4, <2>1, <2>4 DEF FinalLineInv
<1> QED
  BY <1>1, <1>2, <1>3, <1>4, OthersAreSilent DEF Printing

-----------------------------------------------------------------------------
(* The paths of a Stage and the groups of a console.                       *)

(* A line that a Stage may print next stands on a path with all the lines  *)
(* before it.                                                              *)
LEMMA PathGrows ==
  ASSUME NEW path \in StagePaths, NEW n \in 1 .. Len(path), NEW late \in BOOLEAN,
         NEW step \in NextSteps(path[n], late)
  PROVE  \E longer \in StagePaths :
           /\ n + 1 <= Len(longer) /\ longer[n + 1] = step
           /\ \A k \in 1 .. n : longer[k] = path[k]
<1> DEFINE p1 == << "stage-started", "adapter-running", "checking-output", "publishing",
                    "stage-finished" >>
           p2 == << "stage-started", "publishing", "stage-finished" >>
           p3 == << "stage-started", "adapter-running", "publishing", "stage-finished" >>
           p4 == << "stage-started", "adapter-running", "work-limit-reached", "publishing",
                    "stage-finished" >>
           p5 == << "stage-started", "adapter-running", "run-deadline-reached", "publishing",
                    "stage-finished" >>
           p6 == << "stage-finished" >>
<1>1. StagePaths = {p1, p2, p3, p4, p5, p6}
  BY DEF StagePaths
<1>2. CASE n = 1
  <2>1. path[1] = "stage-started" /\ step \in {"adapter-running", "publishing"}
    BY <1>1, <1>2 DEF NextSteps, LimitSteps
  <2>2. \A k \in 1 .. n : k = 1
    BY <1>2
  <2>3. 2 <= Len(p1) /\ p1[2] = "adapter-running" /\ p1[1] = "stage-started"
    OBVIOUS
  <2>4. 2 <= Len(p2) /\ p2[2] = "publishing" /\ p2[1] = "stage-started"
    OBVIOUS
  <2> HIDE DEF p1, p2, p3, p4, p5, p6
  <2> QED
    BY <1>1, <1>2, <2>1, <2>2, <2>3, <2>4
<1>3. CASE n = 2
  <2>1. \A k \in 1 .. n : k = 1 \/ k = 2
    BY <1>3
  <2>2. /\ path[1] = "stage-started" /\ path[2] = "adapter-running"
        /\ step \in {"checking-output", "work-limit-reached", "publishing",
                     "run-deadline-reached"}
    BY <1>1, <1>3 DEF NextSteps, LimitSteps
  <2>3. \A p \in {p1, p3, p4, p5} : /\ 3 <= Len(p)
                                    /\ p[1] = "stage-started" /\ p[2] = "adapter-running"
    <3>1. 3 <= Len(p1) /\ p1[1] = "stage-started" /\ p1[2] = "adapter-running"
      OBVIOUS
    <3>2. 3 <= Len(p3) /\ p3[1] = "stage-started" /\ p3[2] = "adapter-running"
      OBVIOUS
    <3>3. 3 <= Len(p4) /\ p4[1] = "stage-started" /\ p4[2] = "adapter-running"
      OBVIOUS
    <3>4. 3 <= Len(p5) /\ p5[1] = "stage-started" /\ p5[2] = "adapter-running"
      OBVIOUS
    <3> HIDE DEF p1, p2, p3, p4, p5, p6
    <3> QED
      BY <3>1, <3>2, <3>3, <3>4
  <2>4. /\ p1[3] = "checking-output" /\ p3[3] = "publishing" /\ p4[3] = "work-limit-reached"
        /\ p5[3] = "run-deadline-reached"
    OBVIOUS
  <2> HIDE DEF p1, p2, p3, p4, p5, p6
  <2> QED
    BY <1>1, <1>3, <2>1, <2>2, <2>3, <2>4
<1>4. CASE n >= 3
  <2>1. n + 1 <= Len(path) /\ path[n + 1] = step
    BY <1>1, <1>4 DEF NextSteps, LimitSteps
  <2> QED
    BY <2>1
<1> QED
  BY <1>1, <1>2, <1>3, <1>4

LEMMA PathEnds ==
  ASSUME NEW path \in StagePaths, NEW n \in 1 .. Len(path)
  PROVE  /\ Len(path) \in Nat /\ Len(path) > 0 /\ path[Len(path)] = "stage-finished"
         /\ path[n] = "publishing" => n + 1 = Len(path)
         /\ path[n] = "stage-finished" => n = Len(path)
<1> DEFINE goal(p) == /\ Len(p) \in Nat /\ Len(p) > 0 /\ p[Len(p)] = "stage-finished"
                      /\ \A k \in 1 .. Len(p) :
                           /\ p[k] = "publishing" => k + 1 = Len(p)
                           /\ p[k] = "stage-finished" => k = Len(p)
           five(m) == << "stage-started", "adapter-running", m, "publishing", "stage-finished" >>
<1>1. \A m \in {"checking-output"} \cup LimitSteps : goal(five(m))
  <2> SUFFICES ASSUME NEW m, m # "publishing", m # "stage-finished" PROVE goal(five(m))
    BY DEF LimitSteps
  <2>1. Len(five(m)) = 5 /\ five(m)[5] = "stage-finished"
    OBVIOUS
  <2>2. ASSUME NEW k \in 1 .. 5
        PROVE  /\ five(m)[k] = "publishing" => k = 4
               /\ five(m)[k] = "stage-finished" => k = 5
    <3>1. k = 1 \/ k = 2 \/ k = 3 \/ k = 4 \/ k = 5
      OBVIOUS
    <3> QED
      BY <3>1
  <2> QED
    BY <2>1, <2>2
<1>2. goal(<< "stage-started", "publishing", "stage-finished" >>)
  <2> DEFINE p == << "stage-started", "publishing", "stage-finished" >>
  <2>1. \A k \in 1 .. 3 : k = 1 \/ k = 2 \/ k = 3
    OBVIOUS
  <2>2. Len(p) = 3 /\ p[1] = "stage-started" /\ p[2] = "publishing" /\ p[3] = "stage-finished"
    OBVIOUS
  <2> HIDE DEF p
  <2>3. goal(p)
    BY <2>1, <2>2
  <2> QED
    BY <2>3 DEF p
<1>3. goal(<< "stage-started", "adapter-running", "publishing", "stage-finished" >>)
  <2> DEFINE p == << "stage-started", "adapter-running", "publishing", "stage-finished" >>
  <2>1. \A k \in 1 .. 4 : k = 1 \/ k = 2 \/ k = 3 \/ k = 4
    OBVIOUS
  <2>2. /\ Len(p) = 4 /\ p[1] = "stage-started" /\ p[2] = "adapter-running"
        /\ p[3] = "publishing" /\ p[4] = "stage-finished"
    OBVIOUS
  <2> HIDE DEF p
  <2>3. goal(p)
    BY <2>1, <2>2
  <2> QED
    BY <2>3 DEF p
<1>4. goal(<< "stage-finished" >>)
  OBVIOUS
<1>5. goal(path)
  <2>1. \/ \E m \in {"checking-output"} \cup LimitSteps : path = five(m)
        \/ path = << "stage-started", "publishing", "stage-finished" >>
        \/ path = << "stage-started", "adapter-running", "publishing", "stage-finished" >>
        \/ path = << "stage-finished" >>
    BY DEF StagePaths, LimitSteps
  <2> HIDE DEF goal, five
  <2> QED
    BY <1>1, <1>2, <1>3, <1>4, <2>1
<1> QED
  BY <1>5

(* The console after one more line.                                        *)
Grown(events, later, line) ==
  /\ Len(events) \in Nat /\ Len(later) = Len(events) + 1
  /\ \A k \in 1 .. Len(events) : later[k] = events[k]
  /\ later[Len(events) + 1] = line

LEMMA GroupStays ==
  ASSUME NEW events, NEW later, NEW line, Grown(events, later, line),
         NEW i, line.stage # i, NEW first \in Nat, NEW n \in Nat, NEW path,
         IsGroup(events, i, first, n, path), first >= 1
  PROVE  IsGroup(later, i, first, n, path)
<1> DEFINE N == Len(events)
<1>1. N \in Nat /\ Len(later) = N + 1 /\ first + n <= N + 1
  BY DEF Grown, IsGroup
<1>2. ASSUME NEW k \in 1 .. n PROVE later[first + k - 1].step = path[k]
  <2>1. first + k - 1 \in 1 .. N
    BY <1>1
  <2> QED
    BY <2>1 DEF Grown, IsGroup
<1>3. ASSUME NEW k \in 1 .. Len(later)
      PROVE  later[k].stage = i <=> first <= k /\ k < first + n
  <2>1. CASE k = N + 1
    BY <1>1, <2>1 DEF Grown
  <2>2. CASE k # N + 1
    <3>1. k \in 1 .. N
      BY <1>1, <2>2
    <3> QED
      BY <3>1 DEF Grown, IsGroup
  <2> QED
    BY <2>1, <2>2
<1> HIDE DEF N
<1> QED
  BY <1>1, <1>2, <1>3 DEF IsGroup

LEMMA GroupBegins ==
  ASSUME NEW events, NEW later, NEW line, Grown(events, later, line),
         \A k \in 1 .. Len(events) : events[k].stage # line.stage,
         NEW path, line.step = path[1]
  PROVE  IsGroup(later, line.stage, Len(events) + 1, 1, path)
  BY DEF Grown, IsGroup

LEMMA GroupGrows ==
  ASSUME NEW events, NEW later, NEW line, Grown(events, later, line),
         NEW first \in Nat, NEW n \in Nat, NEW path, NEW longer,
         IsGroup(events, line.stage, first, n, path), first >= 1,
         Len(events) > 0, events[Len(events)].stage = line.stage,
         \A k \in 1 .. n : longer[k] = path[k], longer[n + 1] = line.step
  PROVE  IsGroup(later, line.stage, first, n + 1, longer)
<1> DEFINE N == Len(events)
<1>1. N \in Nat /\ Len(later) = N + 1 /\ first + n <= N + 1
  BY DEF Grown, IsGroup
<1>2. first + n = N + 1
  <2>1. N \in 1 .. Len(events)
    BY <1>1
  <2>2. N < first + n
    BY <2>1 DEF IsGroup
  <2> QED
    BY <1>1, <2>2
<1>3. ASSUME NEW k \in 1 .. n + 1 PROVE later[first + k - 1].step = longer[k]
  <2>1. CASE k = n + 1
    <3>1. first + k - 1 = N + 1
      BY <1>2, <2>1
    <3> QED
      BY <2>1, <3>1 DEF Grown
  <2>2. CASE k # n + 1
    <3>1. k \in 1 .. n /\ first + k - 1 \in 1 .. N
      BY <1>1, <2>2
    <3> QED
      BY <3>1 DEF Grown, IsGroup
  <2> QED
    BY <2>1, <2>2
<1>4. ASSUME NEW k \in 1 .. Len(later)
      PROVE  later[k].stage = line.stage <=> first <= k /\ k < first + (n + 1)
  <2>1. CASE k = N + 1
    BY <1>1, <1>2, <2>1 DEF Grown
  <2>2. CASE k # N + 1
    <3>1. k \in 1 .. N
      BY <1>1, <2>2
    <3>2. events[k].stage = line.stage <=> first <= k /\ k < first + n
      BY <3>1 DEF IsGroup
    <3>3. k < first + n /\ k < first + (n + 1)
      BY <1>2, <3>1
    <3> QED
      BY <3>1, <3>2, <3>3 DEF Grown
  <2> QED
    BY <2>1, <2>2
<1>5. first + (n + 1) <= Len(later) + 1
  BY <1>1, <1>2
<1> HIDE DEF N
<1> QED
  BY <1>3, <1>4, <1>5 DEF IsGroup

-----------------------------------------------------------------------------
(* What the lines say.                                                     *)

(* An attempt blocks exactly if its status is not one of those that pass.  *)
LEMMA ToldEnds ==
  ASSUME NEW a \in Attempts, ValidAttempt(a), NEW i
  PROVE  /\ Told(a, i) \in TerminalStatuses
         /\ Told(a, i) \in Passing <=> ~ Blocks(a)
<1>1. a.ended \in {"passed", "negative", "failed", "skipped"}
  BY DEF Attempts
<1> QED
  BY <1>1 DEF Told, Passing, AttemptStatus, TerminalStatuses, Blocks, ValidAttempt

(* The row of the attempts a printer holds.                                *)
LEMMA RowTells ==
  ASSUME NEW attempts \in Seq(Attempts), Len(attempts) <= StageCount,
         NEW at \in Stages \cup {RunLevel}, NEW step \in StageSteps \cup RunSteps,
         NEW row, row = Row("run", at, step, Held(attempts))
  PROVE  /\ row.stage = at /\ row.step = step
         /\ row.final <=> row.step = "run-finished"
         /\ row.ci = CiStatus(row.statuses[1], row.statuses[2], "run")
         /\ \A i \in Stages :
              row.statuses[i] =
                IF i = at /\ step # "stage-finished" THEN "RUNNING"
                ELSE IF i <= Len(attempts) THEN Told(attempts[i], i)
                ELSE IF Blocked(attempts) THEN "SKIPPED" ELSE "PENDING"
<1> DEFINE done == Held(attempts)
           running == IF step = "stage-finished" THEN RunLevel ELSE at
           states == StageStates(done, running)
           n == Len(attempts)
<1>1. /\ row.stage = at /\ row.step = step
      /\ row.final = (step = "run-finished")
      /\ row.statuses = [i \in Stages |-> states[i].status]
      /\ row.ci = CiStatus(row.statuses[1], row.statuses[2], "run")
  BY DEF Row
<1>2. DOMAIN done = 1 .. n /\ n \in Nat
  BY DEF Held
<1>3. ASSUME NEW i \in 1 .. n
      PROVE  /\ done[i].attempt = attempts[i]
             /\ AttemptStatus(done[i].attempt, done[i].reason) = Told(attempts[i], i)
  BY DEF Held, Accepted, Told
<1>4. ASSUME NEW i \in Stages
      PROVE  row.statuses[i] =
                IF i = at /\ step # "stage-finished" THEN "RUNNING"
                ELSE IF i <= n THEN Told(attempts[i], i)
                ELSE IF Blocked(attempts) THEN "SKIPPED" ELSE "PENDING"
  <2>1. i \in 1 .. 4 /\ i # RunLevel
    BY DEF Stages, StageCount, RunLevel
  <2>2. i = running <=> i = at /\ step # "stage-finished"
    BY <2>1
  <2>3. row.statuses[i] = states[i].status
    BY <1>1
  <2> HIDE DEF states
  <2>4. CASE i = running
    BY <2>2, <2>3, <2>4 DEF states, StageStates
  <2>5. CASE i # running /\ i <= n
    <3>1. i \in DOMAIN done /\ i \in 1 .. n
      BY <1>2, <2>1, <2>5
    <3>2. states[i].status = AttemptStatus(done[i].attempt, done[i].reason)
      BY <2>5, <3>1 DEF states, StageStates
    <3> QED
      BY <1>3, <2>2, <2>3, <2>5, <3>1, <3>2
  <2>6. CASE i # running /\ ~ i <= n
    <3>1. i \notin DOMAIN done
      BY <1>2, <2>1, <2>6
    <3>2. (\E j \in DOMAIN done : j < i /\ Blocks(done[j].attempt)) <=> Blocked(attempts)
      <4>1. \A j \in 1 .. n : j < i
        BY <1>2, <2>1, <2>6
      <4> HIDE DEF done
      <4> QED
        BY <1>2, <1>3, <4>1 DEF Blocked
    <3>3. states[i].status = IF Blocked(attempts) THEN "SKIPPED" ELSE "PENDING"
      BY <2>6, <3>1, <3>2 DEF states, StageStates
    <3> QED
      BY <2>2, <2>3, <2>6, <3>3
  <2> QED
    BY <2>4, <2>5, <2>6
<1> HIDE DEF states
<1> QED
  BY <1>1, <1>4

LEMMA EmitGrows ==
  ASSUME ConsoleTypeOK, NEW attempts, NEW at, NEW step, Emit(at, step, attempts)
  PROVE  Grown(console, console', Row("run", at, step, Held(attempts)))
<1> DEFINE row == Row("run", at, step, Held(attempts))
<1>1. console' = Append(console, row) /\ console \in Seq(Events)
  BY DEF Emit, ConsoleTypeOK
<1> HIDE DEF row
<1>2. Len(console) \in Nat /\ Len(console') = Len(console) + 1
  BY <1>1
<1>3. \A k \in 1 .. Len(console) : console'[k] = console[k]
  BY <1>1
<1>4. console'[Len(console) + 1] = row
  BY <1>1
<1> QED
  BY <1>2, <1>3, <1>4 DEF Grown, row

-----------------------------------------------------------------------------
(* A line of the Stage that is due.                                        *)

NewLine(row) ==
  /\ Grown(console, console', row)
  /\ row.stage = Current /\ LineTells(row)
  /\ row.final <=> row.step = "run-finished"
  /\ row.ci = CiStatus(row.statuses[1], row.statuses[2], "run")
  /\ row.step = "stage-finished" => row.statuses[Current] = Told(attempt, Current)
  /\ \/ Mute(Current) /\ row.step \in {"stage-started", "stage-finished"}
     \/ /\ LastStage = Current
        /\ \/ \E late \in BOOLEAN : row.step \in NextSteps(LastStep, late)
           \/ LastStep = "publishing" /\ row.step = "stage-finished"

Working == pc = "execute" /\ Current \in Stages /\ ~ Blocked(accepted)
             /\ console # << >> /\ LastStep # "run-finished" /\ ~ Finished

LEMMA AtWork ==
  ASSUME IInv, ConsoleTypeOK, FinalLineInv, ShapeInv, pc = "execute"
  PROVE  /\ Current \in Stages /\ ~ Blocked(accepted) /\ Current = Len(accepted) + 1
         /\ Len(accepted) \in Nat /\ accepted \in Seq(Attempts) /\ Len(accepted) < StageCount
         /\ console # << >> /\ LastStep # "run-finished"
<1>1. Current \in Stages /\ accepted \in Seq(Attempts) /\ Len(accepted) < StageCount
  BY AtStage
<1>2. ~ Blocked(accepted)
  BY DEF IInv, LoopInv
<1>3. console # << >>
  BY DEF ShapeInv, ProcessInv, StageWork
<1>4. LastStep # "run-finished"
  BY DEF FinalLineInv, Concluded
<1> QED
  BY <1>1, <1>2, <1>3, <1>4 DEF Current

(* Before its end the line of a Stage tells the accepted attempts.         *)
LEMMA AcceptedTold ==
  ASSUME IInv, ConsoleTypeOK, FinalLineInv, ShapeInv, pc = "execute",
         NEW step \in StageSteps, step # "stage-finished",
         NEW row, row = Row("run", Current, step, Held(accepted))
  PROVE  /\ row.stage = Current /\ row.step = step /\ LineTells(row)
         /\ row.final <=> row.step = "run-finished"
         /\ row.ci = CiStatus(row.statuses[1], row.statuses[2], "run")
<1>1. /\ Current \in Stages /\ ~ Blocked(accepted) /\ Current = Len(accepted) + 1
      /\ Len(accepted) \in Nat /\ accepted \in Seq(Attempts) /\ Len(accepted) <= StageCount
  BY AtWork DEF StageCount
<1>2. /\ row.stage = Current /\ row.step = step
      /\ row.final <=> row.step = "run-finished"
      /\ row.ci = CiStatus(row.statuses[1], row.statuses[2], "run")
      /\ \A i \in Stages :
           row.statuses[i] =
             IF i = Current /\ step # "stage-finished" THEN "RUNNING"
             ELSE IF i <= Len(accepted) THEN Told(accepted[i], i)
             ELSE IF Blocked(accepted) THEN "SKIPPED" ELSE "PENDING"
  BY <1>1, RowTells
<1>3. row.statuses[Current] = "RUNNING"
  BY <1>1, <1>2
<1>4. ASSUME NEW i \in Stages
      PROVE  /\ i <= Len(accepted) => row.statuses[i] = Told(accepted[i], i)
             /\ i > Current => row.statuses[i] = "PENDING"
  <2>1. i \in Nat
    BY DEF Stages, StageCount
  <2> QED
    BY <1>1, <1>2, <2>1
<1>5. Current <= Current
  BY <1>1
<1> QED
  BY <1>1, <1>2, <1>3, <1>4, <1>5 DEF LineTells

(* At its end the line tells the published attempt as well.                *)
LEMMA AttemptTold ==
  ASSUME IInv, ConsoleTypeOK, FinalLineInv, ShapeInv, pc = "execute", agent = "published",
         NEW row, row = Row("run", Current, "stage-finished", Held(Append(accepted, attempt)))
  PROVE  /\ row.stage = Current /\ row.step = "stage-finished" /\ LineTells(row)
         /\ row.final <=> row.step = "run-finished"
         /\ row.ci = CiStatus(row.statuses[1], row.statuses[2], "run")
         /\ row.statuses[Current] = Told(attempt, Current)
<1> DEFINE all == Append(accepted, attempt)
           n == Len(accepted)
<1>1. /\ Current \in Stages /\ ~ Blocked(accepted) /\ Current = n + 1
      /\ n \in Nat /\ accepted \in Seq(Attempts) /\ n < StageCount
  BY AtWork
<1>2. attempt \in Attempts /\ all \in Seq(Attempts) /\ Len(all) <= StageCount
  BY AtStage
<1>3. ValidAttempt(attempt)
  <2>1. attempt \in Executions(modes[Current], accepted)
    BY DEF IInv, AgentInv
  <2>2. modes[Current] \in Modes
    BY AtStage
  <2>3. \A i \in 1 .. n : ValidAt(accepted, i)
    BY DEF IInv, AcceptedInv
  <2> QED
    BY <1>1, <1>2, <2>1, <2>2, <2>3, AppendValid
<1>4. /\ Len(all) = n + 1 /\ all[n + 1] = attempt
      /\ \A i \in 1 .. n : all[i] = accepted[i]
  BY <1>1, <1>2
<1>5. Blocked(all) <=> Blocks(attempt)
  <2>1. n + 1 \in 1 .. Len(all) /\ \A i \in 1 .. Len(all) : i = n + 1 \/ i \in 1 .. n
    BY <1>1, <1>4
  <2> HIDE DEF all
  <2> QED
    BY <1>1, <1>4, <2>1 DEF Blocked
<1>6. "stage-finished" \in StageSteps
  BY DEF StageSteps
<1> HIDE DEF all
<1>7. /\ row.stage = Current /\ row.step = "stage-finished"
      /\ row.final <=> row.step = "run-finished"
      /\ row.ci = CiStatus(row.statuses[1], row.statuses[2], "run")
      /\ \A i \in Stages :
           row.statuses[i] = IF i <= Len(all) THEN Told(all[i], i)
                             ELSE IF Blocked(all) THEN "SKIPPED" ELSE "PENDING"
  <2>1. row = Row("run", Current, "stage-finished", Held(all))
    BY DEF all
  <2>2. /\ row.stage = Current /\ row.step = "stage-finished"
        /\ row.final <=> row.step = "run-finished"
        /\ row.ci = CiStatus(row.statuses[1], row.statuses[2], "run")
        /\ \A i \in Stages :
             row.statuses[i] =
               IF i = Current /\ "stage-finished" # "stage-finished" THEN "RUNNING"
               ELSE IF i <= Len(all) THEN Told(all[i], i)
               ELSE IF Blocked(all) THEN "SKIPPED" ELSE "PENDING"
    BY <1>1, <1>2, <1>6, <2>1, RowTells
  <2> QED
    BY <2>2
<1>8. /\ row.statuses[Current] = Told(attempt, Current)
      /\ row.statuses[Current] \in TerminalStatuses
      /\ row.statuses[Current] \in Passing <=> ~ Blocks(attempt)
  <2>1. row.statuses[Current] = Told(attempt, Current)
    BY <1>1, <1>4, <1>7
  <2> QED
    BY <1>2, <1>3, <2>1, ToldEnds
<1>9. ASSUME NEW i \in Stages
      PROVE  /\ i <= n => row.statuses[i] = Told(accepted[i], i)
             /\ i > Current => row.statuses[i] =
                  IF row.statuses[Current] \in Passing THEN "PENDING" ELSE "SKIPPED"
  <2>1. i \in Nat /\ i >= 1
    BY DEF Stages, StageCount
  <2>2. CASE i <= n
    <3>1. i \in 1 .. n /\ i <= Len(all) /\ ~ i > Current
      BY <1>1, <1>4, <2>1, <2>2
    <3> QED
      BY <1>4, <1>7, <3>1
  <2>3. CASE i > Current
    <3>1. ~ i <= Len(all) /\ ~ i <= n
      BY <1>1, <1>4, <2>1, <2>3
    <3> QED
      BY <1>5, <1>7, <1>8, <3>1
  <2> QED
    BY <2>2, <2>3
<1>10. Current <= Current /\ ~ Current <= n
  BY <1>1
<1> QED
  BY <1>1, <1>6, <1>7, <1>8, <1>9, <1>10 DEF LineTells

LEMMA StagePrints ==
  ASSUME IInv, ConsoleTypeOK, FinalLineInv, ShapeInv,
         SayNext \/ FinishStage \/ (StartStage /\ console' # console)
  PROVE  Working /\ UNCHANGED << accepted, whys, pc >> /\ \E row : NewLine(row)
<1>0. pc = "execute" /\ UNCHANGED << accepted, whys, pc >>
  BY DEF SayNext, FinishStage, StartStage, LaunchAdapter, vars, chain
<1>a. /\ Current \in Stages /\ ~ Blocked(accepted)
      /\ console # << >> /\ LastStep # "run-finished"
  BY <1>0, AtWork
<1>1. CASE SayNext
  <2>1. LastStage = Current /\ LastStep # "stage-finished"
    BY <1>1 DEF SayNext, ShapeInv, ProcessInv
  <2>2. PICK step \in NextSteps(LastStep, clock >= RunDeadline) : Emit(Current, step, accepted)
    BY <1>1 DEF SayNext
  <2>3. step \in StageSteps /\ step # "stage-finished"
    BY <2>2 DEF NextSteps, StageSteps, LimitSteps
  <2>4. PICK row : row = Row("run", Current, step, Held(accepted))
    OBVIOUS
  <2>5. Grown(console, console', row)
    BY <2>2, <2>4, EmitGrows
  <2>6. /\ row.stage = Current /\ row.step = step /\ LineTells(row)
        /\ row.final <=> row.step = "run-finished"
        /\ row.ci = CiStatus(row.statuses[1], row.statuses[2], "run")
    BY <1>0, <2>3, <2>4, AcceptedTold
  <2>7. \E late \in BOOLEAN : row.step \in NextSteps(LastStep, late)
    <3>1. step \in NextSteps(LastStep, TRUE)
      BY <2>2 DEF NextSteps
    <3> QED
      BY <2>6, <3>1
  <2>8. NewLine(row) /\ Working
    BY <1>0, <1>a, <2>1, <2>3, <2>5, <2>6, <2>7 DEF NewLine, Working, Finished
  <2> QED
    BY <1>0, <2>8
<1>2. CASE FinishStage
  <2>1. agent = "published" /\ ~ Finished
        /\ Emit(Current, "stage-finished", Append(accepted, attempt))
    BY <1>2 DEF FinishStage, Finished
  <2>2. Mute(Current) \/ (LastStage = Current /\ LastStep = "publishing")
    BY <1>0, <2>1 DEF ShapeInv, ProcessInv, Scheduling, StageWork
  <2>3. PICK row : row = Row("run", Current, "stage-finished", Held(Append(accepted, attempt)))
    OBVIOUS
  <2>4. Grown(console, console', row)
    BY <2>1, <2>3, EmitGrows
  <2>5. /\ row.stage = Current /\ row.step = "stage-finished" /\ LineTells(row)
        /\ row.final <=> row.step = "run-finished"
        /\ row.ci = CiStatus(row.statuses[1], row.statuses[2], "run")
        /\ row.statuses[Current] = Told(attempt, Current)
    BY <1>0, <2>1, <2>3, AttemptTold
  <2>6. NewLine(row) /\ Working
    BY <1>0, <1>a, <2>1, <2>2, <2>4, <2>5 DEF NewLine, Working
  <2> QED
    BY <1>0, <2>6
<1>3. CASE StartStage /\ console' # console
  <2>1. agent = "checked" /\ Emit(Current, "stage-started", accepted)
    BY <1>3 DEF StartStage, LaunchAdapter
  <2>2. Mute(Current)
    BY <1>0, <2>1 DEF ShapeInv, ProcessInv, Scheduling, StageWork
  <2>3. ~ Finished
    <3>1. LastStage # Current
      <4>1. Len(console) \in 1 .. Len(console)
        BY <1>a DEF ConsoleTypeOK
      <4> QED
        BY <1>a, <2>2, <4>1 DEF LastStage, Mute
    <3> QED
      BY <3>1 DEF Finished
  <2>4. PICK row : row = Row("run", Current, "stage-started", Held(accepted))
    OBVIOUS
  <2>5. Grown(console, console', row)
    BY <2>1, <2>4, EmitGrows
  <2>6. /\ row.stage = Current /\ row.step = "stage-started" /\ LineTells(row)
        /\ row.final <=> row.step = "run-finished"
        /\ row.ci = CiStatus(row.statuses[1], row.statuses[2], "run")
    BY <1>0, <2>4, AcceptedTold DEF StageSteps
  <2>7. NewLine(row) /\ Working
    BY <1>0, <1>a, <2>2, <2>3, <2>5, <2>6 DEF NewLine, Working
  <2> QED
    BY <1>0, <2>7
<1> QED
  BY <1>1, <1>2, <1>3

(* The last line of a group.                                               *)
LEMMA GroupLast ==
  ASSUME NEW events, Len(events) \in Nat, NEW i, NEW first \in Nat, NEW n \in Nat, NEW path,
         IsGroup(events, i, first, n, path), n >= 1,
         Len(events) > 0, events[Len(events)].stage = i
  PROVE  first + n = Len(events) + 1 /\ events[Len(events)].step = path[n]
<1>1. first + n <= Len(events) + 1 /\ Len(events) \in 1 .. Len(events)
  BY DEF IsGroup
<1>2. Len(events) < first + n
  BY <1>1 DEF IsGroup
<1>3. first + n = Len(events) + 1
  BY <1>1, <1>2
<1>4. n \in 1 .. n /\ first + n - 1 = Len(events)
  BY <1>3
<1> QED
  BY <1>3, <1>4 DEF IsGroup

LEMMA LineInRows ==
  ASSUME ConsoleTypeOK, RowsInv, Working, UNCHANGED << accepted, whys >>,
         NEW row, NewLine(row)
  PROVE  RowsInv'
<1> DEFINE N == Len(console)
<1>1. /\ N \in Nat /\ N >= 1 /\ Len(console') = N + 1 /\ console'[N + 1] = row
      /\ \A k \in 1 .. N : console'[k] = console[k]
  BY DEF NewLine, Grown, Working, ConsoleTypeOK
<1>2. \A line : LineTells(line) => LineTells(line)'
  BY DEF LineTells, Told, Current
<1>3. ASSUME NEW k \in 1 .. N
      PROVE  ~ (k = Len(console) /\ console[k].step = "run-finished")
  BY DEF Working, LastStep
<1>4. ASSUME NEW k \in 1 .. N + 1
      PROVE  /\ console'[k].final <=> console'[k].step = "run-finished"
             /\ console'[k].ci = CiStatus(console'[k].statuses[1], console'[k].statuses[2], "run")
             /\ IF IsStageLine(console'[k]) THEN LineTells(console[k])' /\ k > 1
                ELSE \/ /\ k = 1 /\ console'[k].step = "run-accepted"
                        /\ \A i \in Stages : console'[k].statuses[i] = "PENDING"
                     \/ k = Len(console') /\ console'[k].step = "run-finished"
  <2>1. CASE k = N + 1
    <3>1. /\ row.final <=> row.step = "run-finished"
          /\ row.ci = CiStatus(row.statuses[1], row.statuses[2], "run")
          /\ LineTells(row) /\ row.stage = Current /\ Current \in Stages
      BY DEF NewLine, Working
    <3>2. IsStageLine(row) /\ k > 1
      BY <1>1, <2>1, <3>1 DEF IsStageLine, Stages, StageCount, RunLevel
    <3> QED
      BY <1>1, <1>2, <2>1, <3>1, <3>2
  <2>2. CASE k # N + 1
    <3>1. k \in 1 .. N /\ console'[k] = console[k]
      BY <1>1, <2>2
    <3>2. /\ console[k].final <=> console[k].step = "run-finished"
          /\ console[k].ci = CiStatus(console[k].statuses[1], console[k].statuses[2], "run")
          /\ IF IsStageLine(console[k]) THEN LineTells(console[k]) /\ k > 1
             ELSE /\ k = 1 /\ console[k].step = "run-accepted"
                  /\ \A i \in Stages : console[k].statuses[i] = "PENDING"
      BY <1>3, <3>1 DEF RowsInv
    <3>3. LineTells(console[k]) => LineTells(console[k])'
      <4>1. PICK line : line = console[k] /\ line = console'[k]
        BY <3>1
      <4>2. LineTells(line) => LineTells(line)'
        BY <1>2
      <4> QED
        BY <4>1, <4>2 DEF LineTells
    <3> QED
      BY <3>1, <3>2, <3>3
  <2> QED
    BY <2>1, <2>2
<1> HIDE DEF N
<1> QED
  BY <1>1, <1>4 DEF RowsInv

LEMMA LineInOrder ==
  ASSUME ConsoleTypeOK, RowsInv, OrderInv, Working, NEW row, NewLine(row)
  PROVE  OrderInv'
<1> DEFINE N == Len(console)
<1>1. /\ N \in Nat /\ N >= 1 /\ Len(console') = N + 1 /\ console'[N + 1] = row
      /\ \A k \in 1 .. N : console'[k] = console[k]
  BY DEF NewLine, Grown, Working, ConsoleTypeOK
<1>2. row.stage = Current /\ Current \in Stages /\ IsStageLine(row)
  BY DEF NewLine, Working, IsStageLine, Stages, StageCount, RunLevel
<1>3. ASSUME NEW j \in 1 .. N, IsStageLine(console[j])
      PROVE  console[j].stage <= Current
  BY <1>3 DEF RowsInv, LineTells
<1>4. ASSUME NEW j \in 1 .. N, IsStageLine(console[j]), Finishes(console[j]),
             console[j].stage = Current
      PROVE  FALSE
  <2>1. LastStage = Current
    BY <1>4 DEF NewLine, Mute
  <2>2. console[N].stage = Current /\ IsStageLine(console[N]) /\ N \in 1 .. N
    BY <1>1, <1>2, <2>1 DEF LastStage, Working, NewLine, IsStageLine
  <2>3. CASE j = N
    BY <1>1, <1>4, <2>1, <2>3 DEF Finishes, Working, Finished, LastStep
  <2>4. CASE j # N
    <3>1. j < N /\ j \in StageLines(console) /\ N \in StageLines(console)
      BY <1>1, <1>4, <2>2, <2>4 DEF StageLines
    <3> QED
      BY <1>4, <2>2, <3>1 DEF OrderInv
  <2> QED
    BY <2>3, <2>4
<1>5. ASSUME NEW k \in StageLines(console'), NEW j \in StageLines(console'), j < k
      PROVE  /\ console'[j].stage <= console'[k].stage
             /\ Finishes(console'[j]) => console'[j].stage # console'[k].stage
  <2>1. j \in 1 .. N /\ k \in 1 .. N + 1
    BY <1>1, <1>5 DEF StageLines
  <2>2. console'[j] = console[j] /\ IsStageLine(console[j])
    BY <1>1, <1>5, <2>1 DEF StageLines
  <2>3. CASE k = N + 1
    BY <1>1, <1>2, <1>3, <1>4, <2>1, <2>2, <2>3
  <2>4. CASE k # N + 1
    <3>1. k \in 1 .. N /\ console'[k] = console[k]
      BY <1>1, <2>1, <2>4
    <3>2. k \in StageLines(console) /\ j \in StageLines(console)
      BY <1>5, <2>1, <2>2, <3>1 DEF StageLines
    <3> QED
      BY <1>5, <2>2, <3>1, <3>2 DEF OrderInv
  <2> QED
    BY <2>1, <2>3, <2>4
<1> QED
  BY <1>5 DEF OrderInv

LEMMA LineInGroups ==
  ASSUME ConsoleTypeOK, GroupsInv, Working, UNCHANGED accepted, Len(accepted) \in Nat,
         NEW row, NewLine(row)
  PROVE  GroupsInv'
<1> DEFINE N == Len(console)
<1>1. /\ N \in Nat /\ N >= 1 /\ Len(console') = N + 1 /\ console'[N + 1] = row
      /\ \A k \in 1 .. N : console'[k] = console[k]
      /\ Grown(console, console', row)
  BY DEF NewLine, Grown, Working, ConsoleTypeOK
<1>2. row.stage = Current /\ Current = Len(accepted) + 1 /\ Current' = Current
  BY DEF NewLine, Current
<1>3. ASSUME NEW i \in 1 .. Len(accepted)
      PROVE  \E path \in StagePaths : \E first \in 1 .. Len(console') :
               IsGroup(console', i, first, Len(path), path)
  <2>1. PICK path \in StagePaths, first \in 1 .. N : IsGroup(console, i, first, Len(path), path)
    BY DEF GroupsInv
  <2>2. PICK n \in Nat : n = Len(path)
    <3>1. Len(path) \in Nat
      BY DEF StagePaths
    <3> QED
      BY <3>1
  <2>3. row.stage # i /\ first \in Nat /\ first >= 1 /\ first \in 1 .. Len(console')
    BY <1>1, <1>2
  <2>4. IsGroup(console', i, first, n, path)
    BY <1>1, <2>1, <2>2, <2>3, GroupStays
  <2> QED
    BY <2>2, <2>3, <2>4
<1>4. \E path \in StagePaths : \E n \in 1 .. Len(path), first \in 1 .. Len(console') :
        IsGroup(console', Current, first, n, path)
  <2>1. CASE Mute(Current) /\ row.step \in {"stage-started", "stage-finished"}
    <3>1. PICK path \in StagePaths : path[1] = row.step /\ 1 \in 1 .. Len(path)
      <4>1. CASE row.step = "stage-finished"
        <5>1. << "stage-finished" >> \in StagePaths
          BY DEF StagePaths
        <5> QED
          BY <4>1, <5>1
      <4>2. CASE row.step = "stage-started"
        <5>1. << "stage-started", "publishing", "stage-finished" >> \in StagePaths
          BY DEF StagePaths
        <5> QED
          BY <4>2, <5>1
      <4> QED
        BY <2>1, <4>1, <4>2
    <3>2. \A k \in 1 .. Len(console) : console[k].stage # row.stage
      BY <1>2, <2>1 DEF Mute
    <3>3. IsGroup(console', row.stage, Len(console) + 1, 1, path)
      BY <1>1, <3>1, <3>2, GroupBegins
    <3>4. N + 1 \in 1 .. Len(console')
      BY <1>1
    <3> QED
      BY <1>2, <3>1, <3>3, <3>4
  <2>2. CASE LastStage = Current
    <3>1. N \in 1 .. N /\ console[N].stage = Current /\ console[N].step = LastStep
      BY <1>1, <2>2 DEF LastStage, LastStep, Working
    <3>2. ~ Mute(Current)
      BY <3>1 DEF Mute
    <3>a. PICK path \in StagePaths : \E n \in 1 .. Len(path), first \in 1 .. N :
                 IsGroup(console, Current, first, n, path)
      BY <3>2 DEF GroupsInv
    <3>3. PICK n \in 1 .. Len(path), first \in 1 .. N : IsGroup(console, Current, first, n, path)
      BY <3>a
    <3>4. Len(path) \in Nat /\ n \in Nat /\ n >= 1 /\ first \in Nat /\ first >= 1
      <4>1. Len(path) \in Nat
        BY DEF StagePaths
      <4> QED
        BY <1>1, <3>3, <4>1
    <3>5. path[n] = LastStep
      BY <1>1, <3>1, <3>3, <3>4, GroupLast
    <3>6. PICK longer \in StagePaths : /\ n + 1 <= Len(longer) /\ longer[n + 1] = row.step
                                       /\ \A k \in 1 .. n : longer[k] = path[k]
      <4>1. CASE \E late \in BOOLEAN : row.step \in NextSteps(LastStep, late)
        BY <3>3, <3>5, <4>1, PathGrows
      <4>2. CASE LastStep = "publishing" /\ row.step = "stage-finished"
        <5>1. n + 1 = Len(path) /\ path[n + 1] = "stage-finished"
          BY <3>3, <3>5, <4>2, PathEnds
        <5> QED
          BY <3>4, <4>2, <5>1
      <4>3. CASE Mute(Current)
        BY <3>2, <4>3
      <4> QED
        BY <4>1, <4>2, <4>3 DEF NewLine
    <3>7. IsGroup(console, row.stage, first, n, path) /\ console[Len(console)].stage = row.stage
      BY <1>2, <3>1, <3>3
    <3>8. IsGroup(console', row.stage, first, n + 1, longer)
      <4>1. PICK later : later = console'
        OBVIOUS
      <4>2. Grown(console, later, row) /\ Len(console) > 0
        BY <1>1, <4>1
      <4>3. (\A k \in 1 .. n : longer[k] = path[k]) /\ longer[n + 1] = row.step
        BY <3>6
      <4>4. IsGroup(later, row.stage, first, n + 1, longer)
        <5> HIDE DEF N
        <5> QED
          BY <3>4, <3>7, <4>2, <4>3, GroupGrows
      <4> QED
        BY <4>1, <4>4
    <3>9. n + 1 \in 1 .. Len(longer) /\ first \in 1 .. Len(console')
      <4>1. Len(longer) \in Nat
        BY DEF StagePaths
      <4> QED
        BY <1>1, <3>4, <3>6, <4>1
    <3> QED
      BY <1>2, <3>8, <3>9
  <2> QED
    BY <2>1, <2>2 DEF NewLine
<1>5. ~ Blocked(accepted)'
  BY DEF Working, Blocked
<1> QED
  BY <1>2, <1>3, <1>4, <1>5 DEF GroupsInv

-----------------------------------------------------------------------------
(* The other steps: the shape of the console.                              *)

ConsoleShape == RowsInv /\ OrderInv /\ GroupsInv

LEMMA FirstLine ==
  ASSUME IInv, ConsoleTypeOK, AcceptRun
  PROVE  ConsoleShape' /\ Len(console') = 1 /\ console'[1].stage = RunLevel
<1>1. pc = "preflight" /\ accepted = << >> /\ accepted' = << >> /\ console = << >>
  BY DEF AcceptRun, IInv, LoopInv, vars, chain
<1>2. PICK row : row = Row("run", RunLevel, "run-accepted", Held(<< >>))
  OBVIOUS
<1>3. Grown(console, console', row)
  BY <1>2, EmitGrows DEF AcceptRun
<1>4. Len(console') = 1 /\ console'[1] = row
  BY <1>1, <1>3 DEF Grown
<1>5. /\ row.stage = RunLevel /\ row.step = "run-accepted"
      /\ row.final <=> row.step = "run-finished"
      /\ row.ci = CiStatus(row.statuses[1], row.statuses[2], "run")
      /\ \A i \in Stages : row.statuses[i] = "PENDING"
  <2> DEFINE done == Held(<< >>)
  <2>1. row.statuses = [i \in Stages |-> StageStates(done, RunLevel)[i].status]
    BY <1>2 DEF Row
  <2>2. DOMAIN done = {}
    BY DEF Held
  <2> HIDE DEF done
  <2>3. ASSUME NEW i \in Stages PROVE StageStates(done, RunLevel)[i].status = "PENDING"
    <3>1. i # RunLevel /\ i \notin DOMAIN done
      BY <2>2 DEF Stages, StageCount, RunLevel
    <3> QED
      BY <2>2, <3>1 DEF StageStates
  <2>4. /\ row.stage = RunLevel /\ row.step = "run-accepted"
        /\ row.final <=> row.step = "run-finished"
        /\ row.ci = CiStatus(row.statuses[1], row.statuses[2], "run")
    BY <1>2 DEF Row
  <2> QED
    BY <2>1, <2>3, <2>4
<1>6. ~ IsStageLine(row)
  BY <1>5 DEF IsStageLine
<1>7. \A k \in 1 .. Len(console') : k = 1
  BY <1>4
<1>8. RowsInv'
  BY <1>4, <1>5, <1>6, <1>7 DEF RowsInv
<1>9. OrderInv'
  BY <1>4, <1>6, <1>7 DEF OrderInv, StageLines
<1>10. GroupsInv'
  <2>1. Len(accepted') = 0 /\ Current' = 1
    BY <1>1 DEF Current
  <2>2. Mute(Current)'
    BY <1>4, <1>5, <1>7, <2>1 DEF Mute, RunLevel
  <2> QED
    BY <2>1, <2>2 DEF GroupsInv
<1> QED
  BY <1>4, <1>5, <1>8, <1>9, <1>10 DEF ConsoleShape

LEMMA LastLine ==
  ASSUME IInv, ConsoleTypeOK, ConsoleShape, FinishRun
  PROVE  ConsoleShape'
<1> DEFINE N == Len(console)
<1>1. /\ pc = "conclude" /\ LastStep # "run-finished" /\ accepted' = accepted /\ whys' = whys
      /\ Len(accepted) \in Nat
  BY DEF FinishRun, vars, chain, IInv, TypeOK
<1>2. PICK row : row = Row("run", RunLevel, "run-finished", Held(bundle))
  OBVIOUS
<1>3. Grown(console, console', row)
  BY <1>2, EmitGrows DEF FinishRun
<1>4. /\ N \in Nat /\ Len(console') = N + 1 /\ console'[N + 1] = row
      /\ \A k \in 1 .. N : console'[k] = console[k]
  BY <1>3 DEF Grown
<1>5. /\ row.stage = RunLevel /\ row.step = "run-finished"
      /\ row.final <=> row.step = "run-finished"
      /\ row.ci = CiStatus(row.statuses[1], row.statuses[2], "run")
  BY <1>2, BundleBound, RowTells DEF RunSteps
<1>6. ~ IsStageLine(row)
  BY <1>5 DEF IsStageLine
<1>7. \A line : LineTells(line) => LineTells(line)'
  BY <1>1 DEF LineTells, Told, Current
<1>8. ASSUME NEW k \in 1 .. N
      PROVE  /\ console[k].final <=> console[k].step = "run-finished"
             /\ console[k].ci = CiStatus(console[k].statuses[1], console[k].statuses[2], "run")
             /\ IF IsStageLine(console[k]) THEN LineTells(console[k]) /\ k > 1
                ELSE /\ k = 1 /\ console[k].step = "run-accepted"
                     /\ \A i \in Stages : console[k].statuses[i] = "PENDING"
  <2>1. ~ (k = Len(console) /\ console[k].step = "run-finished")
    <3>1. k = Len(console) => console # << >>
      BY <1>4
    <3> QED
      BY <1>1, <3>1 DEF LastStep
  <2> QED
    BY <2>1 DEF ConsoleShape, RowsInv
<1>9. RowsInv'
  <2>1. ASSUME NEW k \in 1 .. Len(console')
        PROVE  /\ console'[k].final <=> console'[k].step = "run-finished"
               /\ console'[k].ci
                    = CiStatus(console'[k].statuses[1], console'[k].statuses[2], "run")
               /\ IF IsStageLine(console'[k]) THEN LineTells(console[k])' /\ k > 1
                  ELSE \/ /\ k = 1 /\ console'[k].step = "run-accepted"
                          /\ \A i \in Stages : console'[k].statuses[i] = "PENDING"
                       \/ k = Len(console') /\ console'[k].step = "run-finished"
    <3>1. CASE k = N + 1
      BY <1>4, <1>5, <1>6, <3>1
    <3>2. CASE k # N + 1
      <4>1. k \in 1 .. N
        BY <1>4, <3>2
      <4>2. PICK line : line = console[k] /\ line = console'[k]
        BY <1>4, <4>1
      <4>3. LineTells(line) => LineTells(line)'
        BY <1>7
      <4>4. LineTells(console[k]) => LineTells(console[k])'
        BY <4>2, <4>3 DEF LineTells
      <4>5. /\ line.final <=> line.step = "run-finished"
            /\ line.ci = CiStatus(line.statuses[1], line.statuses[2], "run")
            /\ IF IsStageLine(line) THEN LineTells(console[k]) /\ k > 1
               ELSE /\ k = 1 /\ line.step = "run-accepted"
                    /\ \A i \in Stages : line.statuses[i] = "PENDING"
        <5>1. /\ console[k].final <=> console[k].step = "run-finished"
              /\ console[k].ci
                   = CiStatus(console[k].statuses[1], console[k].statuses[2], "run")
              /\ IF IsStageLine(console[k]) THEN LineTells(console[k]) /\ k > 1
                 ELSE /\ k = 1 /\ console[k].step = "run-accepted"
                      /\ \A i \in Stages : console[k].statuses[i] = "PENDING"
          BY <1>8, <4>1
        <5> QED
          BY <4>2, <5>1
      <4> QED
        BY <4>2, <4>4, <4>5
    <3> QED
      BY <3>1, <3>2
  <2> QED
    BY <2>1 DEF RowsInv
<1>10. OrderInv'
  <2>1. ASSUME NEW k \in StageLines(console') PROVE k \in StageLines(console) /\ console'[k] = console[k]
    <3>1. k \in 1 .. N + 1 /\ IsStageLine(console'[k])
      BY <1>4, <2>1 DEF StageLines
    <3>2. k \in 1 .. N
      BY <1>4, <1>6, <3>1
    <3> QED
      BY <1>4, <3>1, <3>2 DEF StageLines
  <2> QED
    BY <2>1 DEF ConsoleShape, OrderInv
<1>11. GroupsInv'
  <2>1. ASSUME NEW i \in Nat, i > 0, NEW path \in StagePaths, NEW n \in Nat,
               NEW first \in 1 .. N, IsGroup(console, i, first, n, path)
        PROVE  IsGroup(console', i, first, n, path) /\ first \in 1 .. Len(console')
    <3>1. row.stage # i /\ first \in Nat /\ first >= 1
      BY <1>4, <1>5, <2>1 DEF RunLevel
    <3>2. first \in 1 .. Len(console')
      BY <1>4
    <3> QED
      BY <1>3, <2>1, <3>1, <3>2, GroupStays
  <2>2. \A path \in StagePaths : Len(path) \in Nat
    BY DEF StagePaths
  <2>3. ASSUME NEW i \in 1 .. Len(accepted)
        PROVE  \E path \in StagePaths : \E first \in 1 .. Len(console') :
                 IsGroup(console', i, first, Len(path), path)
    <3>1. PICK path \in StagePaths, first \in 1 .. N : IsGroup(console, i, first, Len(path), path)
      BY DEF ConsoleShape, GroupsInv
    <3>2. i \in Nat /\ i > 0
      BY <1>1
    <3>3. PICK n \in Nat : n = Len(path)
      BY <2>2
    <3> QED
      BY <2>1, <3>1, <3>2, <3>3
  <2>4. Current' = Current /\ Current \in Nat /\ Current > 0 /\ Current # RunLevel
    BY <1>1 DEF Current, RunLevel
  <2>5. CASE Mute(Current)
    <3>1. \A k \in 1 .. Len(console') : console'[k].stage # Current
      <4>1. \A k \in 1 .. N + 1 : k = N + 1 \/ k \in 1 .. N
        BY <1>4
      <4> QED
        BY <1>4, <1>5, <2>4, <2>5, <4>1 DEF Mute
    <3> QED
      BY <1>1, <2>3, <2>4, <3>1 DEF GroupsInv, Mute
  <2>6. CASE ~ Mute(Current)
    <3>1. ~ Blocked(accepted)
      BY <2>6 DEF ConsoleShape, GroupsInv
    <3>2. PICK path \in StagePaths : \E n \in 1 .. Len(path), first \in 1 .. N :
                                       IsGroup(console, Current, first, n, path)
      BY <2>6 DEF ConsoleShape, GroupsInv
    <3>3. PICK n \in 1 .. Len(path), first \in 1 .. N : IsGroup(console, Current, first, n, path)
      BY <3>2
    <3>4. n \in Nat
      BY <2>2
    <3>5. IsGroup(console', Current, first, n, path) /\ first \in 1 .. Len(console')
      BY <2>1, <2>4, <3>3, <3>4
    <3>6. ~ Blocked(accepted)'
      BY <1>1, <3>1 DEF Blocked
    <3> QED
      BY <1>1, <2>3, <2>4, <3>3, <3>5, <3>6 DEF GroupsInv
  <2> QED
    BY <2>5, <2>6
<1> QED
  BY <1>9, <1>10, <1>11 DEF ConsoleShape

(* What is said stays true when nothing is accepted or printed.            *)
LEMMA QuietShape ==
  ASSUME ConsoleShape, UNCHANGED << console, accepted >>, Len(accepted) \in Nat,
         \A i \in 1 .. Len(accepted) : whys'[i] = whys[i]
  PROVE  ConsoleShape'
<1>1. ASSUME NEW line, LineTells(line) PROVE LineTells(line)'
  <2>1. \A i \in Stages : i <= Len(accepted) => Told(accepted[i], i)' = Told(accepted[i], i)
    BY DEF Told, Stages, StageCount
  <2> QED
    BY <1>1, <2>1 DEF LineTells, Current
<1>2. RowsInv'
  <2>1. ASSUME NEW k \in 1 .. Len(console) PROVE LineTells(console[k]) => LineTells(console[k])'
    <3>1. PICK line : line = console[k] /\ line = console'[k]
      OBVIOUS
    <3>2. LineTells(line) => LineTells(line)'
      BY <1>1
    <3> QED
      BY <3>1, <3>2 DEF LineTells
  <2> QED
    BY <2>1 DEF ConsoleShape, RowsInv
<1>3. OrderInv' /\ GroupsInv'
  BY DEF ConsoleShape, OrderInv, GroupsInv, Mute, Current, Blocked
<1> QED
  BY <1>2, <1>3 DEF ConsoleShape

(* The Stage that has told its end is accepted as it told it.              *)
LEMMA StashShape ==
  ASSUME IInv, ConsoleTypeOK, ConsoleShape, ProcessInv, Stash, UNCHANGED << console, whys >>
  PROVE  ConsoleShape' /\ Mute(Current)'
<1> DEFINE n == Len(accepted)
           N == Len(console)
<1>1. /\ pc = "stash" /\ agent = "published" /\ Finished
      /\ accepted' = Append(accepted, attempt) /\ attempt \in Attempts
      /\ n \in Nat /\ accepted \in Seq(Attempts) /\ n < StageCount
  BY StashAppends DEF Stash, IInv, AgentInv, ProcessInv, TypeOK
<1>2. /\ Len(accepted') = n + 1 /\ accepted'[n + 1] = attempt
      /\ \A i \in 1 .. n : accepted'[i] = accepted[i]
  BY <1>1
<1>3. Current = n + 1 /\ Current \in Stages /\ Current' = n + 2
  BY <1>1, <1>2, AtStage DEF Current
<1>4. /\ N \in Nat /\ N >= 1 /\ console[N].stage = Current /\ console[N].step = "stage-finished"
      /\ console[N].statuses[Current] = Told(attempt, Current)
      /\ N \in StageLines(console) /\ Finishes(console[N])
  <2>1. console # << >> /\ LastStage = Current /\ LastStep = "stage-finished"
    BY <1>1 DEF Finished, LastStep
  <2>2. N \in Nat /\ N >= 1
    BY <2>1 DEF ConsoleTypeOK
  <2>3. console[N].stage = Current /\ console[N].step = "stage-finished"
    BY <2>1 DEF LastStage, LastStep
  <2>4. IsStageLine(console[N])
    BY <1>3, <2>3 DEF IsStageLine, Stages, StageCount, RunLevel
  <2>5. console[N].statuses[Current] = Told(attempt, Current)
    BY <1>1 DEF ProcessInv
  <2> QED
    BY <2>2, <2>3, <2>4, <2>5 DEF StageLines, Finishes
<1>5. ASSUME NEW k \in StageLines(console)
      PROVE  /\ k \in 1 .. N /\ LineTells(console[k])
             /\ Finishes(console[k]) /\ console[k].stage = Current =>
                  console[k].statuses[Current] = Told(attempt, Current)
  <2>1. k \in 1 .. N /\ LineTells(console[k])
    BY <1>5 DEF StageLines, ConsoleShape, RowsInv
  <2>2. Finishes(console[k]) /\ console[k].stage = Current => k = N
    <3>1. k < N => ~ (Finishes(console[k]) /\ console[k].stage = console[N].stage)
      BY <1>4 DEF ConsoleShape, OrderInv
    <3> QED
      BY <1>4, <2>1, <3>1
  <2> QED
    BY <1>4, <2>1, <2>2
<1>6. ASSUME NEW k \in StageLines(console) PROVE LineTells(console[k])'
  <2> DEFINE line == console[k]
             at == line.stage
             ended == line.step = "stage-finished"
  <2>1. LineTells(line)
    BY <1>5
  <2>2. at \in Stages /\ at \in Nat /\ at <= n + 1
    BY <1>3, <2>1 DEF LineTells, Stages, StageCount
  <2>3. ASSUME NEW i \in Stages, i <= n + 1, i < at \/ (i = at /\ ended)
        PROVE  line.statuses[i] = Told(accepted[i], i)'
    <3>1. i \in Nat /\ i >= 1
      BY DEF Stages, StageCount
    <3>2. CASE i <= n
      <4>1. i \in 1 .. n
        BY <3>1, <3>2
      <4>2. line.statuses[i] = Told(accepted[i], i)
        BY <2>1, <2>3, <3>2 DEF LineTells
      <4> QED
        BY <1>2, <4>1, <4>2 DEF Told
    <3>3. CASE ~ i <= n
      <4>1. i = n + 1
        BY <1>1, <2>3, <3>1, <3>3
      <4>2. at = Current /\ i = Current /\ ended
        BY <1>3, <2>2, <2>3, <4>1
      <4>3. line.statuses[Current] = Told(attempt, Current)
        BY <1>5, <4>2 DEF Finishes, StageLines
      <4> HIDE DEF line
      <4> QED
        BY <1>2, <1>3, <4>1, <4>2, <4>3 DEF Told
    <3> QED
      BY <3>2, <3>3
  <2>4. console'[k] = line /\ at <= Current'
    BY <1>1, <1>3, <2>2
  <2> QED
    BY <1>2, <2>1, <2>3, <2>4 DEF LineTells
<1>7. RowsInv'
  BY <1>6 DEF ConsoleShape, RowsInv, StageLines
<1>8. OrderInv'
  BY DEF ConsoleShape, OrderInv
<1>9. Mute(Current)'
  <2>1. ASSUME NEW k \in 1 .. N PROVE console[k].stage # n + 2
    <3>1. CASE IsStageLine(console[k])
      <4>1. console[k].stage \in Stages /\ console[k].stage <= n + 1
        BY <1>3, <1>5, <3>1 DEF StageLines, LineTells
      <4>2. \A i \in Stages : i <= n + 1 => i # n + 2
        BY <1>1 DEF Stages, StageCount
      <4> QED
        BY <4>1, <4>2
    <3>2. CASE ~ IsStageLine(console[k])
      BY <1>1, <3>2 DEF IsStageLine, RunLevel
    <3> QED
      BY <3>1, <3>2
  <2> QED
    BY <1>3, <2>1 DEF Mute
<1>10. GroupsInv'
  <2>1. ASSUME NEW i \in 1 .. n + 1
        PROVE  \E path \in StagePaths : \E first \in 1 .. N :
                 IsGroup(console, i, first, Len(path), path)
    <3>1. CASE i \in 1 .. n
      BY <3>1 DEF ConsoleShape, GroupsInv
    <3>2. CASE i = n + 1
      <4>1. ~ Mute(Current)
        BY <1>4 DEF Mute
      <4>2. PICK path \in StagePaths : \E m \in 1 .. Len(path), first \in 1 .. N :
                                         IsGroup(console, Current, first, m, path)
        BY <4>1 DEF ConsoleShape, GroupsInv
      <4>3. PICK m \in 1 .. Len(path), first \in 1 .. N : IsGroup(console, Current, first, m, path)
        BY <4>2
      <4>4. Len(path) \in Nat /\ m \in Nat /\ m >= 1 /\ first \in Nat
        <5>1. Len(path) \in Nat
          BY DEF StagePaths
        <5> QED
          BY <1>4, <4>3, <5>1
      <4>5. path[m] = "stage-finished"
        BY <1>4, <4>3, <4>4, GroupLast
      <4>6. m = Len(path)
        BY <4>3, <4>5, PathEnds
      <4> QED
        BY <1>3, <3>2, <4>3, <4>6
    <3> QED
      BY <1>1, <3>1, <3>2
  <2> QED
    BY <1>2, <1>9, <2>1 DEF GroupsInv
<1> QED
  BY <1>7, <1>8, <1>9, <1>10 DEF ConsoleShape

LEMMA ShapeStep ==
  ASSUME IInv, ConsoleTypeOK, FinalLineInv, ShapeInv, [ConsoleNext]_consoleVars
  PROVE  ConsoleShape'
<1>1. ConsoleShape /\ ProcessInv /\ Len(accepted) \in Nat
  BY DEF ShapeInv, ConsoleShape, IInv, TypeOK
<1>2. CASE SayNext \/ FinishStage \/ (StartStage /\ console' # console)
  <2>1. Working /\ UNCHANGED << accepted, whys, pc >>
    BY <1>2, StagePrints
  <2>2. PICK row : NewLine(row)
    BY <1>2, StagePrints
  <2>3. RowsInv'
    BY <1>1, <2>1, <2>2, LineInRows DEF ConsoleShape
  <2>4. OrderInv'
    BY <1>1, <2>1, <2>2, LineInOrder DEF ConsoleShape
  <2>5. GroupsInv'
    BY <1>1, <2>1, <2>2, LineInGroups DEF ConsoleShape
  <2> QED
    BY <2>3, <2>4, <2>5 DEF ConsoleShape
<1>3. CASE AcceptRun
  BY <1>3, FirstLine
<1>4. CASE FinishRun
  BY <1>1, <1>4, LastLine
<1>5. CASE Stash /\ console' = console
  <2>1. ~ PublishAnnounced
    BY <1>5 DEF Stash, PublishAnnounced, PublishAttempt
  <2>2. whys' = whys
    BY <2>1, OnlyPublishingExplains
  <2> QED
    BY <1>1, <1>5, <2>2, StashShape
<1>6. CASE ~ Stash /\ console' = console
  <2>1. accepted' = accepted
    BY <1>6, ConsoleStepsBuild, OnlyStashAccepts
  <2>2. \A i \in 1 .. Len(accepted) : whys'[i] = whys[i]
    <3>1. CASE PublishAnnounced
      BY <1>1, <3>1, PublishExplains DEF ConsoleTypeOK, Current, Stages, StageCount
    <3>2. CASE ~ PublishAnnounced
      BY <3>2, OnlyPublishingExplains
    <3> QED
      BY <3>1, <3>2
  <2> QED
    BY <1>1, <1>6, <2>1, <2>2, QuietShape
<1> QED
  BY <1>2, <1>3, <1>4, <1>5, <1>6, OthersAreSilent DEF Printing

-----------------------------------------------------------------------------
(* The other steps: where the process of the Stage is.                     *)

(* The parts of ProcessInv.                                                *)
HasBegun == pc \in {"loop"} \cup StageWork => console # << >>
Behind ==
  pc \in Scheduling =>
    \/ Mute(Current)
    \/ pc \in {"execute", "stash"} /\ agent \in {"running", "published"} /\ LastStage = Current
AtRun ==
  /\ pc = "execute" /\ agent = "running" => LastStage = Current /\ LastStep # "stage-finished"
  /\ pc = "execute" /\ agent = "published" =>
       Finished \/ Mute(Current) \/ LastStep = "publishing"
  /\ pc = "stash" => Finished
ToldAttempt ==
  pc \in {"execute", "stash"} /\ agent = "published" /\ Finished =>
    console[Len(console)].statuses[Current] = Told(attempt, Current)

LEMMA ProcessParts == ProcessInv <=> HasBegun /\ Behind /\ AtRun /\ ToldAttempt
  BY DEF ProcessInv, HasBegun, Behind, AtRun, ToldAttempt

(* The line that has just been printed.                                    *)
LEMMA LastPrinted ==
  ASSUME ConsoleTypeOK, NEW attempts, NEW at, NEW step, Emit(at, step, attempts)
  PROVE  /\ console' # << >> /\ console' # console
         /\ LastStage' = at /\ LastStep' = step
         /\ console'[Len(console')] = Row("run", at, step, Held(attempts))
<1> DEFINE row == Row("run", at, step, Held(attempts))
<1>1. row.stage = at /\ row.step = step
  BY DEF Row
<1> HIDE DEF row
<1>2. /\ Len(console) \in Nat /\ Len(console') = Len(console) + 1
      /\ console'[Len(console')] = row
  BY EmitGrows DEF Grown, row
<1>3. console' # << >> /\ console' # console
  BY <1>2
<1>4. LastStage' = at /\ LastStep' = step
  BY <1>1, <1>2, <1>3 DEF LastStage, LastStep
<1> QED
  BY <1>2, <1>3, <1>4 DEF row

(* A Stage of which nothing is told is not the last one that is told.      *)
LEMMA MuteIsNotLast ==
  ASSUME ConsoleTypeOK, NEW i, Mute(i), i # RunLevel
  PROVE  LastStage # i
<1>1. CASE console = << >>
  BY <1>1 DEF LastStage
<1>2. CASE console # << >>
  <2>1. Len(console) \in 1 .. Len(console)
    BY <1>2 DEF ConsoleTypeOK
  <2> QED
    BY <1>2, <2>1 DEF LastStage, Mute
<1> QED
  BY <1>1, <1>2

(* The steps of a build after which no Stage is due, or whose Stage has    *)
(* not said anything.                                                      *)
LEMMA QuietProcess ==
  ASSUME ConsoleTypeOK, ConsoleTypeOK', NEW n \in Nat, n = Len(accepted'),
         pc' \in {"loop"} \cup StageWork => console' # << >>,
         pc' \in Scheduling => Mute(Current)' /\ pc' # "stash" /\ agent' # "running"
  PROVE  ProcessInv'
<1>1. Current' = n + 1 /\ Current' # RunLevel
  BY DEF Current, RunLevel
<1>2. ASSUME Mute(Current)' PROVE LastStage' # Current'
  <2>1. CASE console' = << >>
    BY <1>1, <2>1 DEF LastStage
  <2>2. CASE console' # << >>
    <3>1. Len(console') \in 1 .. Len(console')
      BY <2>2 DEF ConsoleTypeOK
    <3> QED
      BY <1>1, <1>2, <2>2, <3>1 DEF LastStage, Mute
  <2> QED
    BY <2>1, <2>2
<1>3. HasBegun' /\ Behind'
  BY DEF HasBegun, Behind
<1>4. pc' \in {"execute", "stash"} => pc' \in Scheduling
  BY DEF Scheduling, StageWork
<1>5. AtRun'
  BY <1>4 DEF AtRun
<1>6. ToldAttempt'
  BY <1>2, <1>4 DEF ToldAttempt, Finished
<1> QED
  BY <1>3, <1>5, <1>6 DEF ProcessInv, HasBegun, Behind, AtRun, ToldAttempt

LEMMA ProcessStep ==
  ASSUME IInv, ConsoleTypeOK, FinalLineInv, ShapeInv, [ConsoleNext]_consoleVars
  PROVE  ProcessInv'
<1>1. /\ HasBegun /\ Behind /\ AtRun /\ ToldAttempt /\ ConsoleShape
      /\ Len(accepted) \in Nat /\ Current \in Nat /\ Current # RunLevel
  BY ProcessParts DEF ShapeInv, ConsoleShape, IInv, TypeOK, Current, RunLevel
<1>2. ConsoleTypeOK' /\ IInv'
  BY ConsoleTypeStep, ConsoleStepsBuild, StepInv
<1>3. PICK n \in Nat : n = Len(accepted')
  BY <1>2 DEF IInv, TypeOK
<1>4. CASE AcceptRun
  <2>1. Len(console') = 1 /\ console'[1].stage = RunLevel /\ pc' = "preflight"
    BY <1>4, FirstLine DEF AcceptRun, vars
  <2>2. Mute(Current)'
    <3>1. Current' = n + 1
      BY <1>3 DEF Current
    <3> QED
      BY <2>1, <3>1 DEF Mute, RunLevel
  <2> QED
    BY <1>2, <1>3, <1>4, <2>1, <2>2, QuietProcess DEF StageWork, AcceptRun, vars, stage, IInv, AgentInv
<1>5. CASE SayNext
  <2>1. pc = "execute" /\ agent = "running" /\ UNCHANGED vars
    BY <1>5 DEF SayNext
  <2>2. PICK step \in NextSteps(LastStep, clock >= RunDeadline) : Emit(Current, step, accepted)
    BY <1>5 DEF SayNext
  <2>3. step # "stage-finished"
    BY <2>2 DEF NextSteps, LimitSteps
  <2>4. console' # << >> /\ LastStage' = Current /\ LastStep' = step
    BY <2>2, LastPrinted
  <2>5. Current' = Current
    BY <2>1 DEF vars, chain, Current
  <2> QED
    BY <2>1, <2>3, <2>4, <2>5, ProcessParts DEF ProcessInv, vars, stage
<1>6. CASE FinishStage
  <2>1. pc = "execute" /\ agent = "published" /\ UNCHANGED << vars, whys >>
    BY <1>6 DEF FinishStage
  <2>2. console' # << >> /\ LastStage' = Current /\ LastStep' = "stage-finished"
        /\ console'[Len(console')]
             = Row("run", Current, "stage-finished", Held(Append(accepted, attempt)))
    BY <1>6, LastPrinted DEF FinishStage
  <2>3. PICK row : row = Row("run", Current, "stage-finished", Held(Append(accepted, attempt)))
    OBVIOUS
  <2>4. row.statuses[Current] = Told(attempt, Current)
    BY <2>1, <2>3, AttemptTold
  <2>5. Current' = Current
    BY <2>1 DEF vars, chain, Current
  <2>6. console'[Len(console')].statuses[Current'] = Told(attempt, Current)'
    <3>1. Told(attempt, Current)' = Told(attempt, Current)
      BY <2>1, <2>5 DEF Told, vars, stage
    <3> QED
      BY <2>2, <2>3, <2>4, <2>5, <3>1
  <2>7. Finished'
    BY <2>2, <2>5 DEF Finished
  <2> QED
    BY <2>1, <2>2, <2>5, <2>6, <2>7 DEF ProcessInv, vars, stage
<1>7. CASE StartStage
  <2>1. /\ pc = "execute" /\ agent = "checked" /\ pc' = "execute"
        /\ accepted' = accepted /\ Current' = Current
    BY <1>7 DEF StartStage, LaunchAdapter, chain, Current
  <2>2. CASE PreSpawnSkip(modes[Current], accepted) = "none"
    <3>1. agent' = "running" /\ Emit(Current, "stage-started", accepted)
      BY <1>7, <2>2 DEF StartStage, LaunchAdapter
    <3>2. console' # << >> /\ LastStage' = Current /\ LastStep' = "stage-started"
      BY <3>1, LastPrinted
    <3> QED
      BY <2>1, <3>1, <3>2 DEF ProcessInv
  <2>3. CASE PreSpawnSkip(modes[Current], accepted) # "none"
    <3>1. agent' = "published" /\ console' = console
      BY <1>7, <2>3 DEF StartStage, LaunchAdapter
    <3>2. Mute(Current) /\ console # << >>
      BY <1>1, <2>1 DEF Behind, HasBegun, Scheduling, StageWork
    <3>3. Mute(Current)'
      BY <2>1, <3>1, <3>2 DEF Mute
    <3> QED
      BY <1>2, <1>3, <2>1, <3>1, <3>2, <3>3, QuietProcess
  <2> QED
    BY <2>2, <2>3
<1>8. CASE PublishAnnounced
  <2>1. /\ pc = "execute" /\ agent = "running" /\ LastStep = "publishing"
        /\ console' = console /\ accepted' = accepted /\ pc' = "execute" /\ agent' = "published"
    BY <1>8 DEF PublishAnnounced, PublishAttempt, chain
  <2>2. /\ Current' = Current /\ LastStep' = "publishing" /\ LastStage' = LastStage
        /\ LastStage = Current /\ console # << >>
    BY <1>1, <2>1 DEF Current, LastStep, LastStage, AtRun, HasBegun, StageWork
  <2>3. ~ Finished'
    BY <2>2 DEF Finished
  <2> QED
    BY <2>1, <2>2, <2>3 DEF ProcessInv
<1>9. CASE Stash /\ console' = console
  <2>1. whys' = whys
    <3>1. ~ PublishAnnounced
      BY <1>9 DEF Stash, PublishAnnounced, PublishAttempt
    <3> QED
      BY <3>1, OnlyPublishingExplains
  <2>2. Mute(Current)'
    BY <1>1, <1>9, <2>1, StashShape, ProcessParts
  <2>3. pc = "stash" /\ pc' = "continue" /\ agent' = "idle" /\ console # << >>
    BY <1>1, <1>9 DEF Stash, HasBegun, StageWork
  <2> QED
    BY <1>2, <1>3, <1>9, <2>2, <2>3, QuietProcess
<1>10. ASSUME console' = console, ~ Stash, ~ AcceptRun, ~ SayNext, ~ FinishStage, ~ StartStage,
              ~ PublishAnnounced
       PROVE  ProcessInv'
  <2>1. /\ accepted' = accepted /\ Current' = Current /\ whys' = whys
        /\ LastStep' = LastStep /\ LastStage' = LastStage
    <3>1. accepted' = accepted
      BY <1>10, ConsoleStepsBuild, OnlyStashAccepts
    <3>2. whys' = whys
      BY <1>10, OnlyPublishingExplains
    <3> QED
      BY <1>10, <3>1, <3>2 DEF Current, LastStep, LastStage
  <2>2. Mute(Current) => Mute(Current)'
    BY <1>10, <2>1 DEF Mute
  <2>3. CASE UNCHANGED << pc, agent, attempt >>
    <3>1. Finished' <=> Finished
      BY <2>1 DEF Finished
    <3>2. Told(attempt, Current)' = Told(attempt, Current)
      BY <2>1, <2>3 DEF Told
    <3>3. HasBegun' /\ Behind' /\ AtRun'
      BY <1>1, <1>10, <2>1, <2>2, <2>3, <3>1 DEF HasBegun, Behind, AtRun
    <3>4. ToldAttempt'
      BY <1>1, <1>10, <2>1, <2>3, <3>1, <3>2 DEF ToldAttempt
    <3> QED
      BY <3>3, <3>4 DEF ProcessInv, HasBegun, Behind, AtRun, ToldAttempt
  <2>4. CASE EndStage /\ agent = "published"
    <3>1. /\ pc = "execute" /\ pc' = "stash" /\ agent' = agent /\ attempt' = attempt /\ Finished
          /\ console # << >>
      BY <1>1, <2>4 DEF EndStage, Executed, Finished, HasBegun, StageWork
    <3>2. Finished' /\ LastStage = Current
      BY <2>1, <3>1 DEF Finished
    <3>3. console'[Len(console')].statuses[Current'] = Told(attempt, Current)'
      <4>1. Told(attempt, Current)' = Told(attempt, Current)
        BY <2>1, <3>1 DEF Told
      <4>2. console[Len(console)].statuses[Current] = Told(attempt, Current)
        BY <1>1, <2>4, <3>1 DEF ToldAttempt
      <4> QED
        BY <1>10, <2>1, <4>1, <4>2
    <3> QED
      BY <1>10, <2>1, <2>4, <3>1, <3>2, <3>3 DEF ProcessInv
  <2>5. \/ UNCHANGED << pc, agent, attempt >>
        \/ EndStage /\ agent = "published"
        \/ pc' \notin Scheduling
        \/ /\ pc' \in Scheduling \ {"stash"} /\ agent' # "running"
           /\ pc \in Scheduling
           /\ pc \in {"execute", "stash"} => agent \notin {"running", "published"}
           /\ pc' = "loop" => console # << >> \/ pc \in {"loop"} \cup StageWork
           /\ pc' \in StageWork => pc \in {"loop"} \cup StageWork
    <3>1. \/ UNCHANGED vars \/ Prepare \/ EndStage \/ FinishRun \/ Conclude \/ Silent
      BY <1>10 DEF ConsoleNext, consoleVars
    <3>2. CASE UNCHANGED vars \/ Tick \/ FinishRun
      BY <3>2 DEF vars, stage, Tick, FinishRun
    <3>3. CASE Prepare
      BY <3>3 DEF Prepare, Preflight, stage, Scheduling, StageWork, IInv, AgentInv
    <3>4. CASE EndStage
      BY <3>4 DEF EndStage, Executed, Scheduling, StageWork
    <3>5. CASE Conclude \/ Finalize \/ Assemble \/ Colour \/ RunTimeout \/ Break \/ Abort
               \/ SafetyTimeout \/ SchedulingTimeout
      BY <3>5 DEF Conclude, Archive, Finalize, Assemble, Colour, RunTimeout, Break, Abort,
         SafetyTimeout, SchedulingTimeout, End, Scheduling, StageWork, Finalizing
    <3>6. CASE NextStage \/ Checkout \/ CheckDeadline \/ AllowContinuation
      BY <3>6 DEF NextStage, Checkout, CheckDeadline, AllowContinuation, stage, Scheduling,
         StageWork, IInv, AgentInv
    <3> QED
      BY <1>10, <3>1, <3>2, <3>3, <3>4, <3>5, <3>6 DEF Silent
  <2>6. CASE pc' \notin Scheduling
    <3>1. pc' \notin {"loop"} \cup StageWork
      BY <2>6 DEF Scheduling
    <3> QED
      BY <1>2, <1>3, <2>6, <3>1, QuietProcess
  <2>7. CASE /\ pc' \in Scheduling \ {"stash"} /\ agent' # "running"
             /\ pc \in Scheduling
             /\ pc \in {"execute", "stash"} => agent \notin {"running", "published"}
             /\ pc' = "loop" => console # << >> \/ pc \in {"loop"} \cup StageWork
             /\ pc' \in StageWork => pc \in {"loop"} \cup StageWork
    <3>1. Mute(Current)'
      BY <1>1, <2>2, <2>7 DEF Behind
    <3>2. pc' \in {"loop"} \cup StageWork => console' # << >>
      BY <1>1, <1>10, <2>7 DEF HasBegun
    <3> QED
      BY <1>2, <1>3, <2>7, <3>1, <3>2, QuietProcess
  <2> QED
    BY <2>3, <2>4, <2>5, <2>6, <2>7
<1>11. CASE FinishRun /\ console' # console
  <2>1. pc' = "conclude"
    BY <1>11 DEF FinishRun, vars
  <2>2. pc' \notin Scheduling /\ pc' \notin {"loop"} \cup StageWork
    BY <2>1 DEF Scheduling, StageWork
  <2> QED
    BY <1>2, <1>3, <2>2, QuietProcess
<1> QED
  BY <1>4, <1>5, <1>6, <1>7, <1>8, <1>9, <1>10, <1>11, OthersAreSilent DEF Printing

-----------------------------------------------------------------------------
(* A console of this shape.                                                *)

LEMMA StageLineFacts ==
  ASSUME ConsoleTypeOK, RowsInv, OrderInv, Len(accepted) \in Nat, NEW k \in StageLines(console)
  PROVE  /\ k \in 1 .. Len(console) /\ LineTells(console[k]) /\ k > 1
         /\ console[k].stage \in Stages /\ console[k].stage \in Nat
         /\ console[k].stage <= Len(accepted) + 1
         /\ \A j \in StageLines(console) :
              j < k => /\ console[j].stage <= console[k].stage
                       /\ Finishes(console[j]) => console[j].stage # console[k].stage
<1>1. k \in 1 .. Len(console) /\ LineTells(console[k]) /\ k > 1
  BY DEF StageLines, RowsInv
<1>2. console[k].stage \in Stages /\ console[k].stage <= Len(accepted) + 1
  BY <1>1 DEF LineTells, Current
<1>3. console[k].stage \in Nat
  BY <1>2 DEF Stages, StageCount
<1>4. \A j \in StageLines(console) :
        j < k => /\ console[j].stage <= console[k].stage
                 /\ Finishes(console[j]) => console[j].stage # console[k].stage
  BY DEF OrderInv
<1> QED
  BY <1>1, <1>2, <1>3, <1>4

LEMMA AcceptedTells ==
  ASSUME IInv, NEW i \in 1 .. Len(accepted)
  PROVE  /\ i \in Stages /\ accepted[i] \in Attempts
         /\ Told(accepted[i], i) \in TerminalStatuses
         /\ Told(accepted[i], i) \in Passing <=> ~ Blocks(accepted[i])
<1>1. accepted \in Seq(Attempts) /\ Len(accepted) \in Nat /\ Len(accepted) <= 4
  BY DEF IInv, TypeOK, StageCount
<1>2. i \in Stages
  BY <1>1 DEF Stages, StageCount
<1>3. accepted[i] \in Attempts /\ ValidAttempt(accepted[i])
  BY <1>1 DEF IInv, AcceptedInv, ValidAt
<1> QED
  BY <1>2, <1>3, ToldEnds

(* Every accepted Stage has told its end.                                  *)
LEMMA AcceptedFinishes ==
  ASSUME IInv, ConsoleTypeOK, GroupsInv, NEW i \in 1 .. Len(accepted)
  PROVE  \E j \in StageLines(console) : Finishes(console[j]) /\ console[j].stage = i
<1>1. PICK path \in StagePaths, first \in 1 .. Len(console) :
             IsGroup(console, i, first, Len(path), path)
  BY DEF GroupsInv
<1>2. PICK n \in Nat : n = Len(path) /\ n >= 1 /\ path[n] = "stage-finished"
  <2>1. Len(path) \in Nat
    BY DEF StagePaths
  <2>2. 1 \in 1 .. Len(path)
    BY DEF StagePaths
  <2> QED
    BY <2>1, <2>2, PathEnds
<1>3. PICK j \in Nat : j = first + n - 1
  BY <1>2
<1>4. j \in 1 .. Len(console)
  <2>1. first + n <= Len(console) + 1 /\ Len(console) \in Nat
    BY <1>1, <1>2 DEF IsGroup, ConsoleTypeOK
  <2> QED
    BY <1>2, <1>3, <2>1
<1>5. console[j].step = "stage-finished"
  <2>1. n \in 1 .. n
    BY <1>2
  <2> QED
    BY <1>1, <1>2, <1>3, <2>1 DEF IsGroup
<1>6. console[j].stage = i
  BY <1>1, <1>2, <1>3, <1>4 DEF IsGroup
<1>7. i # RunLevel
  BY AcceptedTells DEF Stages, StageCount, RunLevel
<1> QED
  BY <1>4, <1>5, <1>6, <1>7 DEF StageLines, Finishes, IsStageLine

(* Nothing is printed by the Stages behind one that did not pass.          *)
LEMMA SilentBehind ==
  ASSUME IInv, ConsoleTypeOK, RowsInv, OrderInv, GroupsInv,
         NEW j \in StageLines(console), NEW k \in StageLines(console), j < k,
         Finishes(console[j])
  PROVE  console[j].statuses[console[j].stage] \in Passing
<1> DEFINE n == Len(accepted)
<1>1. n \in Nat
  BY DEF IInv, TypeOK
<1>2. PICK a \in Nat : a = console[j].stage /\ a \in Stages /\ a >= 1
  BY <1>1, StageLineFacts DEF Stages, StageCount
<1>3. PICK b \in Nat : b = console[k].stage /\ b <= n + 1
  BY <1>1, StageLineFacts
<1>4. a < b
  <2>1. a <= b /\ a # b
    BY <1>1, <1>2, <1>3, StageLineFacts
  <2> QED
    BY <2>1
<1>5. a \in 1 .. n
  BY <1>1, <1>2, <1>3, <1>4
<1>6. console[j].statuses[a] = Told(accepted[a], a)
  <2>1. a <= n
    BY <1>1, <1>5
  <2> QED
    BY <1>1, <1>2, <2>1, StageLineFacts DEF LineTells, Finishes
<1>7. ~ Blocks(accepted[a])
  <2>1. CASE b <= n
    <3>1. a \in 1 .. n - 1
      BY <1>1, <1>2, <1>4, <2>1
    <3> QED
      BY <3>1 DEF IInv, AcceptedInv, WorkAfterBlocker
  <2>2. CASE ~ b <= n
    <3>1. b = Current
      BY <1>1, <1>3, <2>2 DEF Current
    <3>2. ~ Mute(Current)
      BY <1>3, <3>1 DEF Mute, StageLines
    <3>3. ~ Blocked(accepted)
      BY <3>2 DEF GroupsInv
    <3> QED
      BY <1>5, <3>3 DEF Blocked
  <2> QED
    BY <2>1, <2>2
<1> QED
  BY <1>2, <1>5, <1>6, <1>7, AcceptedTells

(* A Stage whose line stands behind the accepted ones is due.              *)
LEMMA DueSpeaks ==
  ASSUME IInv, GroupsInv, NEW k \in StageLines(console),
         console[k].stage = Len(accepted) + 1
  PROVE  ~ Blocked(accepted)
<1>1. ~ Mute(Current)
  BY DEF Mute, StageLines, Current
<1> QED
  BY <1>1 DEF GroupsInv

(* What the final line says of a result.                                   *)
LEMMA FinalRow ==
  ASSUME NEW all \in Seq(Attempts), Len(all) = StageCount,
         NEW row, row = Row("run", RunLevel, "run-finished", Held(all))
  PROVE  row.stage = RunLevel /\ \A i \in Stages : row.statuses[i] = Told(all[i], i)
<1>1. row.stage = RunLevel
  BY DEF Row
<1>2. row.statuses = [i \in Stages |-> StageStates(Held(all), RunLevel)[i].status]
  BY DEF Row
<1>3. DOMAIN Held(all) = Stages
  BY DEF Held, Stages
<1>4. ASSUME NEW i \in Stages PROVE row.statuses[i] = Told(all[i], i)
  <2>1. i # RunLevel /\ i \in 1 .. Len(all) /\ i \in DOMAIN Held(all)
    BY <1>3 DEF Stages, StageCount, RunLevel
  <2>2. Held(all)[i] = Accepted(all[i], IF all[i].ended = "skipped" THEN all[i].code ELSE whys[i])
    BY <2>1 DEF Held
  <2>3. AttemptStatus(Held(all)[i].attempt, Held(all)[i].reason) = Told(all[i], i)
    BY <2>2 DEF Accepted, Told
  <2> HIDE DEF Held
  <2>4. StageStates(Held(all), RunLevel)[i].status
          = AttemptStatus(Held(all)[i].attempt, Held(all)[i].reason)
    BY <2>1 DEF StageStates
  <2> QED
    BY <1>2, <2>3, <2>4
<1> QED
  BY <1>1, <1>4

(* What the final line says of the build.                                 *)
LEMMA FinalStatuses ==
  ASSUME IInv, WhysInv, bundle # << >>,
         NEW row, row = Row("run", RunLevel, "run-finished", Held(bundle))
  PROVE  /\ row.stage = RunLevel
         /\ \A i \in Stages : i <= Len(accepted) => row.statuses[i] = Told(accepted[i], i)
         /\ \A i \in Stages :
              i > Len(accepted) /\ (i # Len(accepted) + 1 \/ Blocked(accepted)) =>
                row.statuses[i] = "SKIPPED"
         /\ \A i \in Stages :
              i = Len(accepted) + 1 /\ ~ Blocked(accepted) =>
                row.statuses[i] = "FAILED" /\ row.reason = "deadline_exceeded"
<1> DEFINE n == Len(accepted)
           states == StageStates(Held(bundle), RunLevel)
<1>1. /\ bundle = Completed /\ TypeOK /\ n \in Nat
      /\ bundle \in Seq(Attempts) /\ Len(bundle) = 4
  BY CompletedType DEF IInv, BundleInv, TypeOK, StageCount
<1>2. row.stage = RunLevel /\ \A i \in Stages : row.statuses[i] = Told(bundle[i], i)
  <2>1. bundle \in Seq(Attempts) /\ Len(bundle) = StageCount
    BY <1>1 DEF StageCount
  <2> QED
    BY <2>1, FinalRow
<1>3. ASSUME NEW i \in Stages, i <= n PROVE row.statuses[i] = Told(accepted[i], i)
  <2>1. bundle[i] = accepted[i]
    BY <1>1, <1>3, CompletedEntries
  <2> QED
    BY <1>2, <2>1 DEF Told
<1>4. ASSUME NEW i \in Stages, i > n, i # n + 1 \/ Blocked(accepted)
      PROVE  /\ row.statuses[i] = "SKIPPED"
             /\ bundle[i].ended = "skipped" /\ bundle[i].code = "prerequisite_blocked"
  <2>1. bundle[i] = Skip(modes[i], "prerequisite_blocked")
    BY <1>1, <1>4, CompletedEntries
  <2>2. bundle[i].ended = "skipped" /\ bundle[i].code = "prerequisite_blocked"
    BY <2>1 DEF Skip
  <2> QED
    BY <1>2, <2>2 DEF Told, AttemptStatus
<1>5. ASSUME NEW k \in Stages, k = n + 1, ~ Blocked(accepted)
      PROVE  row.statuses[k] = "FAILED" /\ row.reason = "deadline_exceeded"
  <2>1. bundle[k] = Skip(modes[k], "deadline_exceeded")
    BY <1>1, <1>5, CompletedEntries
  <2>2. bundle[k].ended = "skipped" /\ bundle[k].code = "deadline_exceeded"
    BY <2>1 DEF Skip
  <2>3. row.statuses[k] = "FAILED"
    BY <1>2, <2>2 DEF Told, AttemptStatus
  <2>4. PICK done : done = Held(bundle) /\ Explained(bundle, done)
    BY <1>1, HeldExplains
  <2>5. states[k].status = "FAILED" /\ states[k].reason = "deadline_exceeded"
    <3>1. done[k].reason = "deadline_exceeded" /\ done[k].attempt = bundle[k]
      BY <2>2, <2>4 DEF Explained
    <3>2. k # RunLevel /\ k \in DOMAIN done
      BY <2>4 DEF Explained, Stages, StageCount, RunLevel
    <3>3. states[k] = [status |-> AttemptStatus(bundle[k], "deadline_exceeded"),
                       reason |-> "deadline_exceeded"]
      BY <2>4, <3>1, <3>2 DEF StageStates
    <3> QED
      BY <2>2, <3>3 DEF AttemptStatus
  <2>6. Tier(states[k]) = 1
    BY <2>5 DEF Tier
  <2>7. ASSUME NEW i \in Stages, i # k PROVE Tier(states[i]) \in {3, 4}
    <3>1. \/ bundle[i].ended = "passed"
          \/ bundle[i].ended = "skipped" /\ bundle[i].code = "prerequisite_blocked"
      <4>1. CASE i > n
        BY <1>4, <1>5, <2>7, <4>1
      <4>2. CASE ~ i > n
        <5>1. i \in 1 .. n /\ i <= n
          BY <1>1, <4>2 DEF Stages, StageCount
        <5>2. bundle[i] = accepted[i] /\ ~ Blocks(accepted[i])
          BY <1>1, <1>5, <5>1, CompletedEntries DEF Blocked
        <5>3. accepted[i].code # "prerequisite_blocked" /\ ValidAttempt(accepted[i])
              /\ accepted[i] \in Attempts
          BY <5>1, AcceptedTells DEF IInv, AcceptedInv, ValidAt
        <5> QED
          BY <5>2, <5>3 DEF Blocks, Attempts
      <4> QED
        BY <4>1, <4>2
    <3> QED
      BY <2>4, <3>1, QuietStages
  <2>8. FailureReason(states) = "deadline_exceeded"
    <3>1. \A i \in Stages : i # k => ~ Precedes(states, i, k)
      BY <2>6, <2>7 DEF Precedes
    <3> HIDE DEF states
    <3> QED
      BY <2>5, <2>6, <3>1, FailureReasonPicks
  <2>9. row.reason = FailureReason(states)
    BY DEF Row
  <2> QED
    BY <2>3, <2>8, <2>9
<1> QED
  BY <1>2, <1>3, <1>4, <1>5

(* A line is of a Stage, the first or the last one.                        *)
LEMMA LineKinds ==
  ASSUME ConsoleInv, NEW k \in 1 .. Len(console)
  PROVE  \/ /\ k \in StageLines(console) /\ ~ console[k].final
            /\ console[k].step \in StageSteps /\ console[k].stage # RunLevel
         \/ /\ k = 1 /\ console[k].stage = RunLevel /\ ~ console[k].final
            /\ console[k].step = "run-accepted"
            /\ \A i \in Stages : console[k].statuses[i] = "PENDING"
         \/ /\ k = Len(console) /\ console[k].stage = RunLevel /\ console[k].final
            /\ console[k].step = "run-finished" /\ bundle # << >>
            /\ console[k] = Row("run", RunLevel, "run-finished", Held(bundle))
<1>1. /\ console[k].final <=> console[k].step = "run-finished"
      /\ IF IsStageLine(console[k]) THEN LineTells(console[k])
         ELSE \/ /\ k = 1 /\ console[k].step = "run-accepted"
                 /\ \A i \in Stages : console[k].statuses[i] = "PENDING"
              \/ k = Len(console) /\ console[k].step = "run-finished"
  BY DEF ConsoleInv, ShapeInv, RowsInv
<1>2. CASE IsStageLine(console[k])
  <2>1. console[k].step \in StageSteps
    BY <1>1, <1>2 DEF LineTells
  <2>2. console[k].step # "run-finished"
    BY <2>1 DEF StageSteps, LimitSteps
  <2>3. k \in StageLines(console) /\ console[k].stage # RunLevel
    BY <1>2 DEF StageLines, IsStageLine
  <2> QED
    BY <1>1, <2>1, <2>2, <2>3
<1>3. CASE ~ IsStageLine(console[k])
  <2>1. console[k].stage = RunLevel
    BY <1>3 DEF IsStageLine
  <2>2. CASE k = Len(console) /\ console[k].step = "run-finished"
    <3>1. LastStep = "run-finished"
      BY <2>2 DEF LastStep
    <3>2. bundle # << >> /\ console[k] = Row("run", RunLevel, "run-finished", Held(bundle))
      BY <2>2, <3>1 DEF ConsoleInv, FinalLineInv
    <3> QED
      BY <1>1, <2>1, <2>2, <3>2
  <2>3. CASE k = 1 /\ console[k].step = "run-accepted"
    BY <1>1, <1>3, <2>1, <2>3
  <2> QED
    BY <1>1, <1>3, <2>2, <2>3
<1> QED
  BY <1>2, <1>3

LEMMA RunLines ==
  ASSUME ConsoleInv
  PROVE  /\ Len(console) \in Nat /\ Len(accepted) \in Nat /\ Len(accepted) <= 4
         /\ console # << >> <=> HasRunLevel(console)
<1>1. Len(console) \in Nat /\ Len(accepted) \in Nat /\ Len(accepted) <= 4
  BY DEF ConsoleInv, ConsoleTypeOK, IInv, TypeOK, StageCount
<1>2. ASSUME console # << >> PROVE HasRunLevel(console)
  <2>1. 1 \in 1 .. Len(console)
    BY <1>2 DEF ConsoleInv, ConsoleTypeOK
  <2>2. ~ IsStageLine(console[1])
    BY <2>1 DEF ConsoleInv, ShapeInv, RowsInv
  <2> QED
    BY <2>1, <2>2 DEF HasRunLevel
<1>3. ASSUME HasRunLevel(console) PROVE console # << >>
  BY <1>3 DEF HasRunLevel
<1> QED
  BY <1>1, <1>2, <1>3

LEMMA LinesConform ==
  ASSUME ConsoleInv, NEW k \in 1 .. Len(console)
  PROVE  LineConforms(console[k], "run")
<1>1. /\ console[k].final <=> console[k].step = "run-finished"
      /\ console[k].ci = CiStatus(console[k].statuses[1], console[k].statuses[2], "run")
      /\ IF IsStageLine(console[k]) THEN LineTells(console[k])
         ELSE console[k].step \in RunSteps
  BY DEF ConsoleInv, ShapeInv, RowsInv, RunSteps
<1> QED
  BY <1>1 DEF LineConforms, LineTells

LEMMA GroupsConform == ConsoleInv => PathsConform(console)
<1> SUFFICES ASSUME ConsoleInv PROVE PathsConform(console)
  OBVIOUS
<1> DEFINE lines == StageLines(console)
           isLast(i) == \A k \in lines : console[k].stage <= i
           n == Len(accepted)
<1>0. /\ IInv /\ ConsoleTypeOK /\ RowsInv /\ OrderInv /\ GroupsInv /\ n \in Nat
      /\ Len(console) \in Nat
  BY RunLines DEF ConsoleInv, ShapeInv
<1>1. \A j, k \in lines : j <= k => console[j].stage <= console[k].stage
  <2>1. TAKE j, k \in lines
  <2>2. HAVE j <= k
  <2>3. j \in Nat /\ k \in Nat /\ console[k].stage \in Nat
    BY <1>0, StageLineFacts
  <2>4. CASE j = k
    BY <2>3, <2>4
  <2>5. CASE j # k
    <3>1. j < k
      BY <2>2, <2>3, <2>5
    <3> QED
      BY <1>0, <3>1, StageLineFacts
  <2> QED
    BY <2>4, <2>5
<1>2. ASSUME NEW k \in lines, NEW i, i = console[k].stage
      PROVE  \E path \in StagePaths : \E m \in 1 .. Len(path) :
               /\ m = Len(path) \/ isLast(i)
               /\ \E first \in 1 .. Len(console) : IsGroup(console, i, first, m, path)
  <2>1. i \in Nat /\ i >= 1 /\ i <= n + 1
    <3>1. i \in Stages /\ i \in Nat /\ i <= n + 1
      BY <1>0, <1>2, StageLineFacts
    <3> QED
      BY <3>1 DEF Stages, StageCount
  <2>2. CASE i <= n
    <3>1. i \in 1 .. Len(accepted)
      BY <1>0, <2>1, <2>2
    <3>2. PICK path \in StagePaths, first \in 1 .. Len(console) :
                 IsGroup(console, i, first, Len(path), path)
      BY <1>0, <3>1 DEF GroupsInv
    <3>3. Len(path) \in 1 .. Len(path)
      BY DEF StagePaths
    <3> QED
      BY <3>2, <3>3
  <2>3. CASE i = n + 1
    <3>1. ~ Mute(Current) /\ i = Current
      BY <1>2, <2>3 DEF Mute, Current, StageLines
    <3>2. \E path \in StagePaths : \E m \in 1 .. Len(path), first \in 1 .. Len(console) :
            IsGroup(console, i, first, m, path)
      BY <1>0, <3>1 DEF GroupsInv
    <3>3. isLast(i)
      BY <1>0, <2>3, StageLineFacts
    <3> HIDE DEF isLast
    <3> QED
      BY <3>2, <3>3
  <2>4. i <= n \/ i = n + 1
    BY <1>0, <2>1
  <2> QED
    BY <2>2, <2>3, <2>4
<1>3. ASSUME NEW k \in 1 .. Len(console), console[k].step = "run-accepted",
             NEW j \in 1 .. k - 1
      PROVE  FALSE
  <2>1. k = 1
    BY <1>3, LineKinds DEF StageSteps, LimitSteps
  <2> QED
    BY <2>1
<1>4. ASSUME ~ HasRunLevel(console) PROVE lines = {}
  BY <1>4, RunLines DEF StageLines
<1> QED
  BY <1>1, <1>2, <1>3, <1>4 DEF PathsConform

LEMMA SequencesConform == ConsoleInv => SequenceConforms(console)
<1> SUFFICES ASSUME ConsoleInv PROVE SequenceConforms(console)
  OBVIOUS
<1> DEFINE n == Len(accepted)
<1>0. /\ IInv /\ ConsoleTypeOK /\ RowsInv /\ OrderInv /\ GroupsInv /\ n \in Nat
      /\ Len(console) \in Nat
  BY RunLines DEF ConsoleInv, ShapeInv
<1>1. ASSUME NEW k \in 1 .. Len(console), console[k].final PROVE k = Len(console)
  BY <1>1, LineKinds
<1>2. ASSUME NEW k \in 1 .. Len(console), NEW j \in 1 .. k - 1, Finishes(console[j])
      PROVE  console[k].stage # console[j].stage
  <2>1. j \in StageLines(console) /\ console[j].stage # RunLevel /\ j < k
    BY <1>0, <1>2 DEF StageLines, Finishes, IsStageLine
  <2>2. CASE k \in StageLines(console)
    BY <1>0, <1>2, <2>1, <2>2, StageLineFacts
  <2>3. CASE k \notin StageLines(console)
    BY <2>1, <2>3 DEF StageLines, IsStageLine
  <2> QED
    BY <2>2, <2>3
<1>3. ASSUME NEW k \in 1 .. Len(console), NEW i \in Stages, ~ console[k].final
      PROVE  console[k].statuses[i] = "SUCCEEDED" <=> SucceededBy(console, k, i)
  <2>0. i \in Nat /\ i >= 1 /\ i # RunLevel
    BY DEF Stages, StageCount, RunLevel
  <2>1. CASE k \notin StageLines(console)
    <3>1. k = 1 /\ console[k].stage = RunLevel /\ console[k].statuses[i] = "PENDING"
      BY <1>3, <2>1, LineKinds
    <3>2. \A j \in 1 .. k : j = k
      BY <3>1
    <3> QED
      BY <2>0, <3>1, <3>2 DEF SucceededBy
  <2>2. CASE k \in StageLines(console)
    <3> DEFINE at == console[k].stage
    <3>1. /\ at \in Nat /\ at \in Stages /\ at <= n + 1 /\ LineTells(console[k])
          /\ k \in 1 .. Len(console)
      BY <1>0, <2>2, StageLineFacts
    <3>2. ASSUME NEW j \in 1 .. k, Finishes(console[j]), console[j].stage = i
          PROVE  /\ j \in StageLines(console) /\ LineTells(console[j])
                 /\ j # k => i < at
                 /\ j = k => i = at
      <4>1. j \in 1 .. Len(console) /\ j \in StageLines(console)
        BY <3>1, <3>2 DEF StageLines, Finishes
      <4>2. LineTells(console[j])
        BY <1>0, <4>1, StageLineFacts
      <4>3. ASSUME j # k PROVE i < at
        <5>1. j < k
          BY <3>2, <4>3
        <5>2. i <= at /\ i # at
          BY <1>0, <2>2, <3>2, <4>1, <5>1, StageLineFacts
        <5> QED
          BY <2>0, <3>1, <5>2
      <4> QED
        BY <3>2, <4>1, <4>2, <4>3
    <3>3. CASE i > at
      <4>1. console[k].statuses[i] # "SUCCEEDED"
        BY <3>1, <3>3 DEF LineTells
      <4>2. ~ SucceededBy(console, k, i)
        BY <2>0, <3>1, <3>2, <3>3 DEF SucceededBy
      <4> QED
        BY <4>1, <4>2
    <3>4. CASE i = at
      <4>1. ASSUME console[k].statuses[i] = "SUCCEEDED" PROVE SucceededBy(console, k, i)
        <5>1. console[k].step = "stage-finished"
          BY <3>1, <3>4, <4>1 DEF LineTells
        <5>2. Finishes(console[k]) /\ k \in 1 .. k
          BY <2>2, <5>1 DEF Finishes, StageLines
        <5> QED
          BY <3>4, <4>1, <5>2 DEF SucceededBy
      <4>2. ASSUME SucceededBy(console, k, i) PROVE console[k].statuses[i] = "SUCCEEDED"
        <5>1. PICK j \in 1 .. k : /\ Finishes(console[j]) /\ console[j].stage = i
                                  /\ console[j].statuses[i] = "SUCCEEDED"
          BY <4>2 DEF SucceededBy
        <5>2. j = k
          BY <2>0, <3>2, <3>4, <5>1
        <5> QED
          BY <5>1, <5>2
      <4> QED
        BY <4>1, <4>2
    <3>5. CASE i < at
      <4>1. i \in 1 .. n /\ i <= n
        BY <1>0, <2>0, <3>1, <3>5
      <4>2. console[k].statuses[i] = Told(accepted[i], i)
        BY <3>1, <3>5, <4>1 DEF LineTells
      <4>3. ASSUME NEW j \in StageLines(console), Finishes(console[j]), console[j].stage = i
            PROVE  console[j].statuses[i] = Told(accepted[i], i)
        <5>1. LineTells(console[j])
          BY <1>0, StageLineFacts
        <5> QED
          BY <4>1, <4>3, <5>1 DEF LineTells, Finishes
      <4>4. PICK j \in StageLines(console) : Finishes(console[j]) /\ console[j].stage = i
        BY <1>0, <4>1, AcceptedFinishes
      <4>5. j \in 1 .. k
        <5>1. j \in Nat /\ k \in Nat /\ j >= 1
          BY <1>0, <4>4, StageLineFacts
        <5>2. j # k
          BY <2>0, <3>1, <3>5, <4>4
        <5>3. ~ k < j
          <6>1. k < j => at <= i
            BY <1>0, <2>2, <4>4, StageLineFacts
          <6> QED
            BY <2>0, <3>1, <3>5, <6>1
        <5> QED
          BY <5>1, <5>2, <5>3
      <4>6. ASSUME SucceededBy(console, k, i) PROVE Told(accepted[i], i) = "SUCCEEDED"
        <5>1. PICK h \in 1 .. k : /\ Finishes(console[h]) /\ console[h].stage = i
                                  /\ console[h].statuses[i] = "SUCCEEDED"
          BY <4>6 DEF SucceededBy
        <5>2. h \in StageLines(console)
          BY <3>2, <5>1
        <5> QED
          BY <4>3, <5>1, <5>2
      <4> QED
        BY <4>2, <4>3, <4>4, <4>5, <4>6 DEF SucceededBy
    <3>6. i > at \/ i = at \/ i < at
      BY <2>0, <3>1
    <3> QED
      BY <3>3, <3>4, <3>5, <3>6
  <2> QED
    BY <2>1, <2>2
<1> QED
  BY <1>1, <1>2, <1>3 DEF SequenceConforms

(* The last Stage that has told its end before the final line.             *)
LEMMA LastEnd ==
  ASSUME ConsoleInv, NEW k \in 1 .. Len(console), console[k].final,
         NEW F, F = {j \in 1 .. k - 1 : Finishes(console[j])}
  PROVE  /\ F = {} => Len(accepted) = 0
         /\ F # {} =>
              \E m \in F :
                /\ \A h \in F : h <= m
                /\ m = CHOOSE j \in F : \A h \in F : h <= j
                /\ m \in StageLines(console) /\ Finishes(console[m])
                /\ console[m].stage \in {Len(accepted), Len(accepted) + 1}
<1> DEFINE n == Len(accepted)
<1>0. /\ IInv /\ ConsoleTypeOK /\ RowsInv /\ OrderInv /\ GroupsInv /\ n \in Nat
      /\ Len(console) \in Nat
  BY RunLines DEF ConsoleInv, ShapeInv
<1>1. k = Len(console) /\ console[k].stage = RunLevel
  BY LineKinds
<1>2. ASSUME NEW j \in StageLines(console), Finishes(console[j]) PROVE j \in F
  <2>1. j \in 1 .. Len(console) /\ j # k
    BY <1>1 DEF StageLines, IsStageLine
  <2>2. j \in 1 .. k - 1
    BY <1>0, <1>1, <2>1
  <2> QED
    BY <1>2, <2>2
<1>3. ASSUME NEW j \in F
      PROVE  /\ j \in StageLines(console) /\ Finishes(console[j]) /\ j \in Nat
             /\ console[j].stage \in Nat /\ console[j].stage >= 1
             /\ console[j].stage <= n + 1
  <2>1. j \in 1 .. Len(console) /\ Finishes(console[j]) /\ j \in Nat
    BY <1>0, <1>1
  <2>2. j \in StageLines(console)
    BY <2>1 DEF StageLines, Finishes
  <2>3. console[j].stage \in Stages /\ console[j].stage \in Nat /\ console[j].stage <= n + 1
    BY <1>0, <2>2, StageLineFacts
  <2> QED
    BY <2>1, <2>2, <2>3 DEF Stages, StageCount
<1>4. ASSUME NEW i \in 1 .. n PROVE \E j \in F : console[j].stage = i
  BY <1>0, <1>2, AcceptedFinishes
<1>5. ASSUME F = {} PROVE n = 0
  <2>1. ~ 1 \in 1 .. n
    BY <1>4, <1>5
  <2> QED
    BY <1>0, <2>1
<1>6. ASSUME F # {}
      PROVE  \E m \in F : /\ console[m].stage \in {n, n + 1}
                          /\ \A h \in F : console[h].stage <= console[m].stage
  <2>1. CASE \E m \in F : console[m].stage = n + 1
    BY <1>3, <2>1
  <2>2. CASE ~ \E m \in F : console[m].stage = n + 1
    <3>1. \A h \in F : console[h].stage <= n /\ console[h].stage >= 1
      <4>1. TAKE h \in F
      <4>2. PICK s \in Nat : s = console[h].stage /\ s >= 1 /\ s <= n + 1 /\ s # n + 1
        BY <1>3, <2>2
      <4> QED
        BY <1>0, <4>2
    <3>2. n \in 1 .. n
      <4>1. PICK h \in F : TRUE
        BY <1>6
      <4>2. console[h].stage <= n /\ console[h].stage >= 1 /\ console[h].stage \in Nat
        BY <1>3, <3>1
      <4> QED
        BY <1>0, <4>2
    <3> QED
      BY <1>4, <3>1, <3>2
  <2> QED
    BY <2>1, <2>2
<1>7. ASSUME NEW m \in F, \A h \in F : console[h].stage <= console[m].stage, NEW h \in F
      PROVE  h <= m
  <2>1. ASSUME m < h PROVE FALSE
    <3>1. console[m].stage <= console[h].stage /\ console[m].stage # console[h].stage
      BY <1>0, <1>3, <2>1, StageLineFacts
    <3> QED
      BY <1>3, <1>7, <3>1
  <2> QED
    BY <1>3, <2>1
<1>8. ASSUME NEW m \in F, \A h \in F : h <= m
      PROVE  m = CHOOSE j \in F : \A h \in F : h <= j
  <2> DEFINE last == CHOOSE j \in F : \A h \in F : h <= j
  <2>1. last \in F /\ \A h \in F : h <= last
    BY <1>8
  <2> HIDE DEF last
  <2>2. m <= last /\ last <= m /\ m \in Nat /\ last \in Nat
    BY <1>3, <1>8, <2>1
  <2>3. m = last
    BY <2>2
  <2> QED
    BY <2>3 DEF last
<1>9. ASSUME F # {}
      PROVE  \E m \in F : /\ \A h \in F : h <= m
                          /\ m = CHOOSE j \in F : \A h \in F : h <= j
                          /\ m \in StageLines(console) /\ Finishes(console[m])
                          /\ console[m].stage \in {n, n + 1}
  <2>1. PICK m \in F : /\ console[m].stage \in {n, n + 1}
                       /\ \A h \in F : console[h].stage <= console[m].stage
    BY <1>6, <1>9
  <2>2. \A h \in F : h <= m
    BY <1>7, <2>1
  <2> QED
    BY <1>3, <1>8, <2>1, <2>2
<1> QED
  BY <1>5, <1>9

LEMMA LineTyped ==
  ASSUME ConsoleTypeOK, NEW k \in 1 .. Len(console)
  PROVE  console[k].statuses \in [Stages -> Statuses]
<1>1. console \in Seq(Events)
  BY DEF ConsoleTypeOK
<1>2. console[k] \in Events
  BY <1>1
<1>3. ASSUME NEW e \in Events PROVE e.statuses \in [Stages -> Statuses]
  BY DEF Events
<1> QED
  BY <1>2, <1>3

LEMMA FinalsConform == ConsoleInv => FinalConforms(console)
<1> SUFFICES ASSUME ConsoleInv, NEW k \in 1 .. Len(console), console[k].final
             PROVE  LET finishing == {j \in 1 .. k - 1 : Finishes(console[j])}
                        last == CHOOSE j \in finishing : \A h \in finishing : h <= j
                    IN  console[k].statuses \in
                          IF finishing = {}
                            THEN AllowedFinals([i \in Stages |-> "PENDING"],
                                               console[k].reason, {})
                            ELSE AllowedFinals(console[last].statuses, console[k].reason,
                                               {console[last].stage})
  BY DEF FinalConforms
<1> DEFINE n == Len(accepted)
           row == console[k]
<1>0. /\ IInv /\ ConsoleTypeOK /\ RowsInv /\ OrderInv /\ GroupsInv /\ WhysInv
      /\ n \in Nat /\ n <= 4 /\ Len(console) \in Nat
  BY RunLines DEF ConsoleInv, ShapeInv
<1>1. row.statuses \in [Stages -> Statuses]
  BY <1>0, LineTyped
<1>2. bundle # << >> /\ row = Row("run", RunLevel, "run-finished", Held(bundle))
  BY LineKinds
<1>3. /\ \A i \in Stages : i <= n => row.statuses[i] = Told(accepted[i], i)
      /\ \A i \in Stages : i > n /\ (i # n + 1 \/ Blocked(accepted)) =>
                             row.statuses[i] = "SKIPPED"
      /\ \A i \in Stages : i = n + 1 /\ ~ Blocked(accepted) =>
                             row.statuses[i] = "FAILED" /\ row.reason = "deadline_exceeded"
  BY <1>0, <1>2, FinalStatuses
<1>4. PICK F : F = {j \in 1 .. k - 1 : Finishes(console[j])}
  OBVIOUS
<1> HIDE DEF row
<1>5. CASE F = {}
  <2>1. n = 0
    BY <1>4, <1>5, LastEnd
  <2>2. ~ Blocked(accepted)
    BY <2>1 DEF Blocked
  <2>3. 1 \in Stages /\ \A i \in Stages : i \in Nat /\ i >= 1
    BY DEF Stages, StageCount
  <2> DEFINE pending == [i \in Stages |-> "PENDING"]
  <2>4. 1 \in FirstPending(pending)
    BY <2>3 DEF FirstPending
  <2>5. row.statuses = CutAt(pending, 1) /\ row.reason = "deadline_exceeded"
    <3>1. row.statuses[1] = "FAILED" /\ row.reason = "deadline_exceeded"
      BY <1>3, <2>1, <2>2, <2>3
    <3>2. \A i \in Stages : i # 1 => row.statuses[i] = "SKIPPED" /\ ~ i < 1
      BY <1>3, <2>1, <2>3
    <3>3. CutAt(pending, 1) = [i \in Stages |-> IF i = 1 THEN "FAILED" ELSE "SKIPPED"]
      BY <2>3 DEF CutAt
    <3> QED
      BY <1>1, <3>1, <3>2, <3>3
  <2>6. row.statuses \in AllowedFinals(pending, row.reason, {})
    <3> HIDE DEF pending
    <3> QED
      BY <2>4, <2>5 DEF AllowedFinals
  <2> QED
    BY <1>4, <1>5, <2>6 DEF row
<1>6. CASE F # {}
  <2>1. PICK m \in F : /\ m = CHOOSE j \in F : \A h \in F : h <= j
                       /\ m \in StageLines(console) /\ Finishes(console[m])
                       /\ console[m].stage \in {n, n + 1}
    BY <1>4, <1>6, LastEnd
  <2>2. PICK s : s = console[m].stage
    OBVIOUS
  <2>3. PICK told : told = console[m].statuses
    OBVIOUS
  <2>4. LineTells(console[m]) /\ s \in Stages /\ s \in Nat /\ s \in {n, n + 1}
        /\ m \in 1 .. Len(console)
    BY <1>0, <2>1, <2>2, StageLineFacts
  <2>5. /\ told \in [Stages -> Statuses] /\ told[s] \in TerminalStatuses
        /\ \A i \in Stages : i <= n /\ i <= s => told[i] = Told(accepted[i], i)
        /\ \A i \in Stages : i > s => told[i] = IF told[s] \in Passing THEN "PENDING"
                                                                       ELSE "SKIPPED"
    <3>1. told \in [Stages -> Statuses]
      BY <1>0, <2>3, <2>4, LineTyped
    <3>2. ASSUME NEW i \in Stages, i <= n, i <= s PROVE told[i] = Told(accepted[i], i)
      <4>1. i \in Nat
        BY DEF Stages, StageCount
      <4>2. i < s \/ i = s
        BY <2>4, <3>2, <4>1
      <4> QED
        BY <2>1, <2>2, <2>3, <2>4, <3>2, <4>2 DEF LineTells, Finishes
    <3> QED
      BY <2>1, <2>2, <2>3, <2>4, <3>1, <3>2 DEF LineTells, Finishes
  <2>6. \A i \in Stages : i \in Nat /\ i >= 1 /\ i <= 4
    BY DEF Stages, StageCount
  <2>7. CASE s = n + 1
    <3>1. ~ Blocked(accepted)
      BY <1>0, <2>1, <2>2, <2>7, DueSpeaks
    <3>2. row.reason = "deadline_exceeded"
      BY <1>3, <2>4, <2>7, <3>1
    <3>3. ASSUME NEW i \in Stages
          PROVE  row.statuses[i] = IF i < s THEN told[i] ELSE IF i = s THEN "FAILED"
                                                                       ELSE "SKIPPED"
      <4>1. i \in Nat /\ (i < s => i <= n /\ i <= s) /\ (i > s => i > n /\ i # n + 1)
        BY <1>0, <2>6, <2>7
      <4>2. CASE i < s
        BY <1>3, <2>5, <4>1, <4>2
      <4>3. CASE i = s
        BY <1>3, <2>7, <3>1, <4>3, <2>4
      <4>4. CASE i > s
        BY <1>3, <4>1, <4>4, <2>4
      <4> QED
        BY <2>4, <4>1, <4>2, <4>3, <4>4
    <3>4. row.statuses = CutAt(told, s)
      BY <1>1, <3>3 DEF CutAt
    <3> QED
      BY <3>2, <3>4, <1>4, <1>6, <2>1, <2>2, <2>3 DEF AllowedFinals, row
  <2>8. CASE s = n
    <3>1. s \in 1 .. n /\ s <= n /\ s <= s
      BY <1>0, <2>4, <2>6, <2>8
    <3>2. told[s] = Told(accepted[s], s) /\ (told[s] \in Passing <=> ~ Blocks(accepted[s]))
      BY <1>0, <2>4, <2>5, <3>1, AcceptedTells
    <3>3. Blocked(accepted) <=> Blocks(accepted[s])
      <4>1. ASSUME NEW b \in 1 .. n, Blocks(accepted[b]) PROVE b = s
        <5>1. ~ b \in 1 .. n - 1
          BY <1>0, <4>1 DEF IInv, AcceptedInv, WorkAfterBlocker
        <5> QED
          BY <1>0, <2>8, <5>1
      <4> QED
        BY <3>1, <4>1 DEF Blocked
    <3>4. ASSUME NEW i \in Stages, i <= n PROVE row.statuses[i] = told[i]
      BY <1>3, <2>5, <2>8, <3>4
    <3>5. CASE Blocked(accepted) \/ n = 4
      <4>1. ASSUME NEW i \in Stages PROVE row.statuses[i] = told[i]
        <5>1. CASE i <= n
          BY <3>4, <5>1
        <5>2. CASE ~ i <= n
          <6>1. i > n /\ i > s /\ Blocked(accepted)
            BY <1>0, <2>6, <2>8, <3>5, <5>2
          <6> QED
            BY <1>3, <2>5, <3>2, <3>3, <6>1
        <5> QED
          BY <5>1, <5>2
      <4>2. row.statuses = told
        BY <1>1, <2>5, <4>1
      <4> QED
        BY <4>2, <1>4, <1>6, <2>1, <2>2, <2>3 DEF AllowedFinals, row
    <3>6. CASE ~ Blocked(accepted) /\ n # 4
      <4>1. PICK c \in Stages : c = n + 1 /\ c \in Nat
        <5>1. \A x \in Nat : x <= 4 /\ x # 4 => x + 1 \in Stages /\ x + 1 \in Nat
          BY DEF Stages, StageCount
        <5> QED
          BY <1>0, <3>6, <5>1
      <4>2. row.statuses[c] = "FAILED" /\ row.reason = "deadline_exceeded"
        BY <1>3, <3>6, <4>1
      <4>3. \A i \in Stages : i > n => told[i] = "PENDING"
        BY <2>5, <2>8, <3>2, <3>3, <3>6
      <4>4. \A i \in Stages : i <= n => told[i] # "PENDING"
        <5>1. TAKE i \in Stages
        <5>2. HAVE i <= n
        <5>3. i \in 1 .. n
          BY <1>0, <2>6, <5>2
        <5>4. told[i] = Told(accepted[i], i)
          BY <2>5, <2>8, <5>2
        <5>5. told[i] \in TerminalStatuses
          BY <1>0, <5>3, <5>4, AcceptedTells
        <5> QED
          BY <5>5 DEF TerminalStatuses
      <4>5. c \in FirstPending(told)
        <5>1. told[c] = "PENDING"
          BY <1>0, <4>1, <4>3
        <5>2. \A j \in 1 .. c - 1 : j \in Stages /\ j <= n
          BY <1>0, <4>1 DEF Stages, StageCount
        <5> QED
          BY <4>4, <5>1, <5>2 DEF FirstPending
      <4>6. ASSUME NEW i \in Stages
            PROVE  row.statuses[i] = IF i < c THEN told[i] ELSE IF i = c THEN "FAILED"
                                                                         ELSE "SKIPPED"
        <5>1. i \in Nat /\ (i < c => i <= n) /\ (i > c => i > n /\ i # n + 1)
          BY <1>0, <2>6, <4>1
        <5>2. CASE i < c
          BY <3>4, <5>1, <5>2
        <5>3. CASE i = c
          BY <4>1, <4>2, <5>3
        <5>4. CASE i > c
          BY <1>3, <4>1, <5>1, <5>4
        <5> QED
          BY <4>1, <5>1, <5>2, <5>3, <5>4
      <4>7. row.statuses = CutAt(told, c)
        BY <1>1, <4>6 DEF CutAt
      <4> QED
        BY <4>2, <4>5, <4>7, <1>4, <1>6, <2>1, <2>2, <2>3 DEF AllowedFinals, row
    <3> QED
      BY <3>5, <3>6
  <2> QED
    BY <2>4, <2>7, <2>8
<1> QED
  BY <1>5, <1>6

LEMMA InvConforms == ConsoleInv => ConsoleConforms
<1> SUFFICES ASSUME ConsoleInv PROVE Conforms(console)
  BY DEF ConsoleConforms
<1>1. ASSUME NEW k \in 1 .. Len(console)
      PROVE  LineConforms(console[k], IF HasRunLevel(console) THEN "run" ELSE "single_stage")
  <2>1. console # << >>
    BY <1>1
  <2>2. HasRunLevel(console)
    BY <2>1, RunLines
  <2> QED
    BY <2>2, LinesConform
<1> QED
  BY <1>1, GroupsConform, SequencesConform, FinalsConform DEF Conforms

(* From a line to the next one, one Stage at a time.                       *)
Corrected(before, after, line, i) ==
  \/ after = before
  \/ before = "PENDING"
  \/ before = "RUNNING" /\ after \in TerminalStatuses
  \/ /\ line.final /\ line.reason = "deadline_exceeded"
     /\ i = Len(accepted) + 1 /\ after = "FAILED"

LEMMA InvCorrects == ConsoleInv => OnlyTheFinalLineCorrects
<1> SUFFICES ASSUME ConsoleInv, NEW k \in 2 .. Len(console), NEW i \in Stages
             PROVE  Corrected(console[k - 1].statuses[i], console[k].statuses[i], console[k], i)
  BY DEF OnlyTheFinalLineCorrects, Corrected
<1> DEFINE n == Len(accepted)
<1>0. /\ IInv /\ ConsoleTypeOK /\ RowsInv /\ OrderInv /\ GroupsInv /\ WhysInv
      /\ n \in Nat /\ n <= 4 /\ Len(console) \in Nat
      /\ i \in Nat /\ i >= 1 /\ i <= 4
  BY RunLines DEF ConsoleInv, ShapeInv, Stages, StageCount
<1>1. PICK j \in 1 .. Len(console) : j = k - 1 /\ j < k /\ j # Len(console)
  BY <1>0
<1>2. k \in 1 .. Len(console) /\ k # 1
  BY <1>0
<1>3. PICK before : before = console[j].statuses[i]
  OBVIOUS
<1>4. PICK after : after = console[k].statuses[i]
  OBVIOUS
<1>5. CASE j \notin StageLines(console)
  <2>1. before = "PENDING"
    BY <1>1, <1>3, <1>5, LineKinds
  <2> QED
    BY <1>1, <1>3, <2>1 DEF Corrected
<1>6. CASE j \in StageLines(console)
  <2>1. PICK a \in Nat : a = console[j].stage /\ a \in Stages /\ a <= n + 1
    BY <1>0, <1>6, StageLineFacts
  <2>2. PICK ended \in BOOLEAN : ended <=> console[j].step = "stage-finished"
    OBVIOUS
  <2>3. ended <=> Finishes(console[j])
    BY <1>6, <2>2 DEF Finishes, StageLines
  <2>4. PICK passed \in BOOLEAN : passed <=> console[j].statuses[a] \in Passing
    OBVIOUS
  <2>5. /\ i = a /\ ~ ended => before = "RUNNING"
        /\ i <= n /\ (i < a \/ (i = a /\ ended)) => before = Told(accepted[i], i)
        /\ i > a => before = IF ~ ended \/ passed THEN "PENDING" ELSE "SKIPPED"
    <3>1. LineTells(console[j])
      BY <1>0, <1>6, StageLineFacts
    <3> QED
      BY <1>3, <2>1, <2>2, <2>4, <3>1 DEF LineTells
  <2>6. \/ i < a \/ i = a \/ i > a
    BY <1>0, <2>1
  <2>7. i <= n => Told(accepted[i], i) \in TerminalStatuses
    <3>1. i <= n => i \in 1 .. n
      BY <1>0
    <3> QED
      BY <1>0, <3>1, AcceptedTells
  <2>8. ASSUME i <= n, after = Told(accepted[i], i), ~ ended \/ passed \/ a >= i
        PROVE  Corrected(before, after, console[k], i)
    <3>1. CASE i < a \/ (i = a /\ ended)
      <4>1. after = before
        BY <2>5, <2>8, <3>1
      <4> QED
        BY <4>1 DEF Corrected
    <3>2. CASE i = a /\ ~ ended
      <4>1. before = "RUNNING" /\ after \in TerminalStatuses
        BY <2>5, <2>7, <2>8, <3>2
      <4> QED
        BY <4>1 DEF Corrected
    <3>3. CASE i > a
      <4>1. ~ a >= i
        BY <1>0, <2>1, <3>3
      <4>2. before = "PENDING"
        BY <2>5, <2>8, <3>3, <4>1
      <4> QED
        BY <4>2 DEF Corrected
    <3> QED
      BY <2>6, <3>1, <3>2, <3>3
  <2>9. CASE k \in StageLines(console)
    <3>1. PICK b \in Nat : b = console[k].stage /\ b \in Stages /\ b <= n + 1
      BY <1>0, <2>9, StageLineFacts
    <3>2. LineTells(console[k]) /\ a <= b /\ (ended => a # b)
      BY <1>0, <1>1, <1>6, <2>1, <2>3, <2>9, <3>1, StageLineFacts
    <3>3. ended => passed
      BY <1>0, <1>1, <1>6, <2>1, <2>3, <2>4, <2>9, SilentBehind
    <3>4. CASE i < b
      <4>1. i <= n
        BY <1>0, <3>1, <3>4
      <4>2. after = Told(accepted[i], i)
        BY <1>4, <3>1, <3>2, <3>4, <4>1 DEF LineTells
      <4> QED
        BY <1>1, <1>3, <1>4, <2>8, <3>3, <4>1, <4>2
    <3>5. CASE i = b
      <4>1. CASE a = b
        <5>1. before = "RUNNING"
          BY <2>5, <3>2, <3>5, <4>1
        <5>2. after \in TerminalStatuses \cup {"RUNNING"}
          BY <1>4, <3>1, <3>2, <3>5 DEF LineTells
        <5> QED
          BY <1>1, <1>3, <1>4, <5>1, <5>2 DEF Corrected
      <4>2. CASE a # b
        <5>1. i > a
          BY <2>1, <3>1, <3>2, <3>5, <4>2
        <5>2. before = "PENDING"
          BY <2>5, <3>3, <5>1
        <5> QED
          BY <1>1, <1>3, <5>2 DEF Corrected
      <4> QED
        BY <4>1, <4>2
    <3>6. CASE i > b
      <4>1. i > a
        BY <1>0, <2>1, <3>1, <3>2, <3>6
      <4>2. before = "PENDING"
        BY <2>5, <3>3, <4>1
      <4> QED
        BY <1>1, <1>3, <4>2 DEF Corrected
    <3>7. i < b \/ i = b \/ i > b
      BY <1>0, <3>1
    <3> QED
      BY <3>4, <3>5, <3>6, <3>7
  <2>10. CASE k \notin StageLines(console)
    <3>1. /\ console[k].final /\ bundle # << >>
          /\ console[k] = Row("run", RunLevel, "run-finished", Held(bundle))
      BY <1>2, <2>10, LineKinds
    <3>2. /\ i <= n => after = Told(accepted[i], i)
          /\ i > n /\ (i # n + 1 \/ Blocked(accepted)) => after = "SKIPPED"
          /\ i = n + 1 /\ ~ Blocked(accepted) =>
               after = "FAILED" /\ console[k].reason = "deadline_exceeded"
      <4>1. PICK row : row = Row("run", RunLevel, "run-finished", Held(bundle))
        OBVIOUS
      <4>2. after = row.statuses[i] /\ row = console[k]
        BY <1>4, <3>1, <4>1
      <4>3. /\ \A h \in Stages : h <= n => row.statuses[h] = Told(accepted[h], h)
            /\ \A h \in Stages : h > n /\ (h # n + 1 \/ Blocked(accepted)) =>
                                   row.statuses[h] = "SKIPPED"
            /\ \A h \in Stages : h = n + 1 /\ ~ Blocked(accepted) =>
                                   row.statuses[h] = "FAILED" /\ row.reason = "deadline_exceeded"
        BY <1>0, <3>1, <4>1, FinalStatuses
      <4> QED
        BY <4>2, <4>3
    <3>3. CASE i <= n
      <4>1. ASSUME ended, a < i PROVE passed
        <5>1. a \in 1 .. n /\ a <= n /\ a \in 1 .. n - 1
          BY <1>0, <2>1, <3>3, <4>1 DEF Stages, StageCount
        <5>2. console[j].statuses[a] = Told(accepted[a], a)
          <6>1. LineTells(console[j])
            BY <1>0, <1>6, StageLineFacts
          <6> QED
            BY <2>1, <2>2, <4>1, <5>1, <6>1 DEF LineTells
        <5>3. ~ Blocks(accepted[a])
          BY <1>0, <5>1 DEF IInv, AcceptedInv, WorkAfterBlocker
        <5> QED
          BY <1>0, <2>4, <5>1, <5>2, <5>3, AcceptedTells
      <4>2. a < i \/ a >= i
        BY <1>0, <2>1
      <4> QED
        BY <1>1, <1>3, <1>4, <2>8, <3>2, <3>3, <4>1, <4>2
    <3>4. CASE i > n /\ ~ Blocked(accepted) /\ i = n + 1
      BY <1>1, <1>3, <1>4, <3>1, <3>2, <3>4 DEF Corrected
    <3>5. CASE i > n /\ (i # n + 1 \/ Blocked(accepted))
      <4>1. i > a
        <5>1. CASE Blocked(accepted)
          <6>1. a # n + 1
            BY <1>0, <1>6, <2>1, <5>1, DueSpeaks
          <6> QED
            BY <1>0, <2>1, <3>5, <6>1
        <5>2. CASE i # n + 1
          BY <1>0, <2>1, <3>5, <5>2
        <5> QED
          BY <3>5, <5>1, <5>2
      <4>2. before \in {"PENDING", "SKIPPED"} /\ after = "SKIPPED"
        BY <2>5, <3>2, <3>5, <4>1
      <4> QED
        BY <1>1, <1>3, <1>4, <4>2 DEF Corrected
    <3>6. i <= n \/ i > n
      BY <1>0
    <3> QED
      BY <3>3, <3>4, <3>5, <3>6
  <2> QED
    BY <2>9, <2>10
<1> QED
  BY <1>5, <1>6
LEMMA ConsoleInitInv == ConsoleInit => ConsoleInv
<1> SUFFICES ASSUME ConsoleInit PROVE ConsoleInv
  OBVIOUS
<1>1. IInv
  BY InitInv DEF ConsoleInit
<1>2. ConsoleTypeOK
  BY DEF ConsoleInit, ConsoleTypeOK, RanReasons
<1>3. WhysInv
  BY DEF ConsoleInit, Init, WhysInv
<1>4. FinalLineInv
  BY DEF ConsoleInit, Init, FinalLineInv, LastStep, Concluded
<1>5. ShapeInv
  <2>1. /\ console = << >> /\ accepted = << >> /\ Len(console) = 0 /\ Len(accepted) = 0
        /\ pc = "resources" /\ agent = "idle"
    BY DEF ConsoleInit, Init
  <2>2. RowsInv /\ OrderInv /\ Mute(Current)
    BY <2>1 DEF RowsInv, OrderInv, StageLines, Mute
  <2>3. GroupsInv
    BY <2>1, <2>2 DEF GroupsInv
  <2>4. ProcessInv
    BY <2>1, <2>2 DEF ProcessInv, StageWork
  <2> QED
    BY <2>2, <2>3, <2>4 DEF ShapeInv
<1> QED
  BY <1>1, <1>2, <1>3, <1>4, <1>5 DEF ConsoleInv

LEMMA ConsoleStepInv == ConsoleInv /\ [ConsoleNext]_consoleVars => ConsoleInv'
<1> SUFFICES ASSUME ConsoleInv, [ConsoleNext]_consoleVars PROVE ConsoleInv'
  OBVIOUS
<1>1. IInv /\ ConsoleTypeOK /\ WhysInv /\ FinalLineInv /\ ShapeInv
  BY DEF ConsoleInv
<1>2. IInv' /\ ConsoleTypeOK' /\ WhysInv' /\ FinalLineInv'
  BY <1>1, ConsoleStepsBuild, StepInv, ConsoleTypeStep, WhysStep, FinalLineStep
<1>3. ShapeInv'
  BY <1>1, ShapeStep, ProcessStep DEF ShapeInv, ConsoleShape
<1> QED
  BY <1>2, <1>3 DEF ConsoleInv

-----------------------------------------------------------------------------
(* The theorems.                                                           *)

(* A build that prints is a build: what is true of PipelineRun is true of  *)
(* it, whenever its processes print.                                       *)
THEOREM PrintingChangesNothing == ConsoleSpec => Spec
<1>1. ConsoleInit => Init
  BY DEF ConsoleInit
<1> QED
  BY <1>1, ConsoleStepsBuild, PTL DEF ConsoleSpec, Spec

(* Every line of a console is a row of the contract's values.              *)
THEOREM ConsoleTypeCorrect == ConsoleSpec => []ConsoleTypeOK
<1>1. ConsoleInv => ConsoleTypeOK
  BY DEF ConsoleInv
<1> QED
  BY <1>1, ConsoleInitInv, ConsoleStepInv, PTL DEF ConsoleSpec

(* Wherever the processes of a build are stopped, check-events finds       *)
(* nothing wrong with what they have printed: the lines of each Stage are  *)
(* a path or the beginning of one, and the final line agrees with the last *)
(* Stage that told its end, up to the one that was not accepted in time.   *)
THEOREM ConsolesConform == ConsoleSpec => []ConsoleConforms
  BY InvConforms, ConsoleInitInv, ConsoleStepInv, PTL DEF ConsoleSpec

(* What was told of a Stage that ended is taken back only by the final     *)
(* line, only by the run deadline and only of the Stage after the accepted *)
(* ones.                                                                   *)
THEOREM OnlyTheEndCorrects == ConsoleSpec => []OnlyTheFinalLineCorrects
  BY InvCorrects, ConsoleInitInv, ConsoleStepInv, PTL DEF ConsoleSpec

(* The final line of a build tells the colour of its result, whatever the  *)
(* descriptors and wherever the build was stopped, and a green build has   *)
(* printed it.                                                             *)
THEOREM FinalLineTrue == ConsoleSpec => []FinalLineTellsTheColour
<1>1. ConsoleInv => FinalLineTellsTheColour
  <2> SUFFICES ASSUME ConsoleInv PROVE FinalLineTellsTheColour
    OBVIOUS
  <2>1. IInv /\ WhysInv /\ FinalLineInv
    BY DEF ConsoleInv
  <2>2. ASSUME LastStep = "run-finished"
        PROVE  bundle # << >> /\ (RowIsRed(console[Len(console)]) <=> Red(bundle))
    BY <2>1, <2>2, FinalRowTold DEF FinalLineInv
  <2>3. ASSUME verdict = "SUCCESS"
        PROVE  /\ LastStep = "run-finished"
               /\ RowIsRed(console[Len(console)]) => conclusion = "lost"
    BY <2>1, <2>2, <2>3 DEF FinalLineInv, IInv, BundleInv
  <2> QED
    BY <2>2, <2>3 DEF FinalLineTellsTheColour
<1> QED
  BY <1>1, ConsoleInitInv, ConsoleStepInv, PTL DEF ConsoleSpec
=============================================================================
