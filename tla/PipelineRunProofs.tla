-------------------------- MODULE PipelineRunProofs --------------------------
(***************************************************************************)
(* Theorems about PipelineRun for every set of descriptors.                *)
(***************************************************************************)
EXTENDS PipelineRun, StageAttemptsProofs, SequenceTheorems, TLAPS

-----------------------------------------------------------------------------
(* The result that the finalization would assemble.                        *)

(* While a Stage is worked on there is one, with a mode of its own.        *)
LEMMA CurrentStage ==
  ASSUME TypeOK, Len(accepted) < StageCount
  PROVE  /\ Current \in Stages
         /\ modes[Current] \in Modes
<1>1. Len(accepted) \in Nat
  BY DEF TypeOK
<1>2. Current \in Stages
  BY <1>1 DEF Current, Stages, StageCount
<1> QED
  BY <1>2, DescriptorsAreModes DEF TypeOK

(* The accepted attempts, completed with skips, are one attempt a Stage.   *)
LEMMA CompletedType ==
  ASSUME TypeOK
  PROVE  /\ Completed \in Seq(Attempts)
         /\ Len(Completed) = StageCount
         /\ Completed # << >>
<1>1. Len(accepted) \in Nat
  BY DEF TypeOK
<1>2. ASSUME NEW i \in Stages PROVE Completed[i] \in Attempts
  <2>1. modes[i] \in Modes
    BY <1>2, DescriptorsAreModes DEF TypeOK
  <2>2. /\ Skip(modes[i], "deadline_exceeded") \in Attempts
        /\ Skip(modes[i], "prerequisite_blocked") \in Attempts
    BY <2>1, SkipType DEF SkipCodes, InitialSkipCodes
  <2>3. i <= Len(accepted) => accepted[i] \in Attempts
    BY <1>1, <1>2 DEF TypeOK, Stages, StageCount
  <2> QED
    BY <1>2, <2>2, <2>3 DEF Completed
<1>3. DOMAIN Completed = 1 .. 4
  BY DEF Completed, Stages, StageCount
<1>4. Completed \in [1 .. 4 -> Attempts]
  BY <1>2, <1>3 DEF Completed, Stages, StageCount
<1>5. Completed \in Seq(Attempts)
  <2>1. 4 \in Nat
    OBVIOUS
  <2> QED
    BY <1>4, <2>1, SeqDef, Zenon
<1>6. Len(Completed) = 4
  BY <1>3, <1>5, LenProperties
<1> QED
  BY <1>5, <1>6 DEF StageCount

(* What each entry of it is.                                               *)
LEMMA CompletedEntries ==
  ASSUME TypeOK, NEW i \in Stages
  PROVE  /\ i <= Len(accepted) => Completed[i] = accepted[i]
         /\ i = Len(accepted) + 1 /\ ~ Blocked(accepted) =>
              Completed[i] = Skip(modes[i], "deadline_exceeded")
         /\ i > Len(accepted) /\ (i # Len(accepted) + 1 \/ Blocked(accepted)) =>
              Completed[i] = Skip(modes[i], "prerequisite_blocked")
<1>1. Len(accepted) \in Nat /\ i \in Nat
  BY DEF TypeOK, Stages, StageCount
<1> QED
  BY <1>1 DEF Completed

(* The contract accepts it, wherever the scheduling stopped.               *)
LEMMA CompletedValid ==
  ASSUME TypeOK, AcceptedInv
  PROVE  ValidResult(Completed)
<1> DEFINE n == Len(accepted)
<1>1. n \in Nat /\ accepted \in Seq(Attempts) /\ n <= StageCount
  BY DEF TypeOK
<1>2. ASSUME NEW i \in Stages PROVE ValidAt(Completed, i)
  <2>1. i \in 1 .. 4
    BY <1>2 DEF Stages, StageCount
  <2>2. CASE i <= n
    <3>1. i \in 1 .. n
      BY <1>1, <2>1, <2>2
    <3>2. \A j \in 1 .. i : Completed[j] = accepted[j]
      BY <1>1, <2>1, <2>2, CompletedEntries DEF Stages, StageCount
    <3>3. ValidAt(accepted, i) /\ Completed[i] = accepted[i]
      BY <3>1, <3>2 DEF AcceptedInv
    <3>4. Open(Completed, i) <=> Open(accepted, i)
      BY <2>1, <3>2 DEF Open
    <3>5. \A j \in Producers : j < i => Completed[j] = accepted[j]
      BY <2>1, <3>2 DEF Producers
    <3> QED
      BY <3>3, <3>4, <3>5 DEF ValidAt
  <2>3. CASE i = n + 1 /\ ~ Blocked(accepted)
    <3>1. Completed[i] = Skip(modes[i], "deadline_exceeded")
      BY <1>2, <2>3, CompletedEntries
    <3> QED
      BY <3>1 DEF ValidAt, ValidAttempt, Skip, InitialSkipCodes
  <2>4. CASE i > n /\ (i # n + 1 \/ Blocked(accepted))
    <3>1. Completed[i] = Skip(modes[i], "prerequisite_blocked")
      BY <1>2, <2>4, CompletedEntries
    <3>2. ~ Open(Completed, i)
      <4>1. CASE Blocked(accepted)
        <5>1. PICK k \in 1 .. n : Blocks(accepted[k])
          BY <4>1 DEF Blocked
        <5>2. ValidAttempt(accepted[k]) /\ accepted[k].ended # "passed"
          BY <5>1 DEF AcceptedInv, ValidAt, ValidAttempt, Blocks
        <5>3. k \in Stages /\ k <= n
          BY <1>1, <5>1 DEF Stages, StageCount
        <5>4. Completed[k] = accepted[k] /\ k \in 1 .. i - 1
          BY <5>3, <2>4, <2>1, <1>1, CompletedEntries DEF Stages, StageCount
        <5> QED
          BY <5>2, <5>4 DEF Open
      <4>2. CASE ~ Blocked(accepted)
        <5>1. n + 1 \in Stages /\ n + 1 \in 1 .. i - 1
          BY <4>2, <2>4, <2>1, <1>1 DEF Stages, StageCount
        <5>2. Completed[n + 1] = Skip(modes[n + 1], "deadline_exceeded")
          BY <4>2, <5>1, CompletedEntries
        <5> QED
          BY <5>1, <5>2 DEF Open, Skip
      <4> QED
        BY <4>1, <4>2
    <3> QED
      BY <3>1, <3>2 DEF ValidAt, ValidAttempt, Skip
  <2> QED
    BY <1>1, <2>1, <2>2, <2>3, <2>4
<1> QED
  BY <1>2, CompletedType DEF ValidResult

-----------------------------------------------------------------------------
(* The invariant, step by step.                                            *)

LEMMA InitInv == Init => IInv
<1> SUFFICES ASSUME Init PROVE IInv
  OBVIOUS
<1>1. << >> \in Seq(Attempts) /\ << >> \in Seq(Stages) /\ Len(<< >>) = 0
  OBVIOUS
<1>2. TypeOK
  <2>1. accepted \in Seq(Attempts) /\ Len(accepted) <= StageCount
    BY <1>1 DEF Init, StageCount
  <2>2. launched \in Seq(Stages) /\ bundle \in Seq(Attempts) /\ Len(bundle) \in {0, StageCount}
    BY <1>1 DEF Init
  <2>3. clock \in 0 .. RunLimit
    BY DEF Init, RunLimit
  <2> QED
    BY <2>1, <2>2, <2>3 DEF Init, TypeOK, Scheduling
<1>3. AcceptedInv
  BY <1>1 DEF Init, AcceptedInv, WorkAfterBlocker
<1>4. LoopInv
  BY <1>1 DEF Init, LoopInv, Finalizing
<1>5. AgentInv
  BY DEF Init, AgentInv
<1>6. LaunchInv
  BY <1>1 DEF Init, LaunchInv, Launched
<1>7. BundleInv
  BY DEF Init, BundleInv, Finalizing
<1> QED
  BY <1>2, <1>3, <1>4, <1>5, <1>6, <1>7 DEF IInv

LEMMA TypeStep ==
  ASSUME IInv, [Next]_vars
  PROVE  TypeOK'
<1> USE DEF chain, stage, ending, End, RunDeadline, SchedulingLimit, RunLimit, StageWork,
            Scheduling, Finalizing
<1>0. TypeOK /\ LoopInv /\ AgentInv
  BY DEF IInv
<1>1. CASE Tick
  BY <1>0, <1>1 DEF Tick, TypeOK
<1>2. CASE Preflight
  BY <1>0, <1>2 DEF Preflight, TypeOK
<1>3. CASE NextStage
  <2>1. /\ pc' \in {"finalize", "checkout"} /\ expired' \in BOOLEAN
        /\ UNCHANGED << modes, clock, accepted, continueChain, agent, attempt, launched,
                        bundle, conclusion, archived, verdict >>
    BY <1>0, <1>3 DEF NextStage, TypeOK
  <2> QED
    BY <1>0, <2>1 DEF TypeOK
<1>4. CASE Checkout
  BY <1>0, <1>4 DEF Checkout, TypeOK
<1>5. CASE CheckDeadline
  BY <1>0, <1>5 DEF CheckDeadline, TypeOK
<1>6. CASE LaunchAdapter
  <2>1. Current \in Stages /\ modes[Current] \in Modes
    BY <1>0, <1>6, CurrentStage DEF LaunchAdapter, LoopInv
  <2>2. \A a \in Executions(modes[Current], accepted) : a \in Attempts
    BY <2>1, ExecutionTypes
  <2>3. Append(launched, Current) \in Seq(Stages)
    BY <2>1, <1>0 DEF TypeOK
  <2> QED
    BY <1>0, <1>6, <2>2, <2>3 DEF LaunchAdapter, TypeOK
<1>7. CASE PublishAttempt
  <2>1. modes[Current] \in Modes
    BY <1>0, <1>7, CurrentStage DEF PublishAttempt, LoopInv
  <2>2. \A a \in Executions(modes[Current], accepted) : a \in Attempts
    BY <2>1, ExecutionTypes
  <2> QED
    BY <1>0, <1>7, <2>2 DEF PublishAttempt, TypeOK
<1>8. CASE Executed
  <2>1. /\ pc' \in {"stash", "loop"} /\ agent' \in {"idle", "published"}
        /\ continueChain' \in BOOLEAN /\ expired' \in BOOLEAN
        /\ UNCHANGED << modes, clock, accepted, attempt, launched, bundle, conclusion,
                        archived, verdict >>
    BY <1>0, <1>8 DEF Executed, TypeOK
  <2> QED
    BY <1>0, <2>1 DEF TypeOK
<1>9. CASE Stash
  <2>1. modes[Current] \in Modes /\ attempt \in Executions(modes[Current], accepted)
    BY <1>0, <1>9, CurrentStage DEF Stash, LoopInv, AgentInv
  <2>2. attempt \in Attempts
    BY <2>1, ExecutionTypes
  <2>3. Append(accepted, attempt) \in Seq(Attempts)
        /\ Len(Append(accepted, attempt)) = Len(accepted) + 1
    BY <2>2, <1>0 DEF TypeOK
  <2>4. Len(accepted) < StageCount /\ Len(accepted) \in Nat
    BY <1>0, <1>9 DEF Stash, LoopInv, TypeOK
  <2> QED
    BY <1>0, <1>9, <2>3, <2>4 DEF Stash, TypeOK, StageCount
<1>10. CASE AllowContinuation
  BY <1>0, <1>10 DEF AllowContinuation, TypeOK
<1>11. CASE SafetyTimeout \/ SchedulingTimeout \/ Finalize
  <2>1. CASE SafetyTimeout
    BY <1>0, <2>1 DEF SafetyTimeout, TypeOK
  <2>2. CASE SchedulingTimeout
    BY <1>0, <2>2 DEF SchedulingTimeout, TypeOK
  <2>3. CASE Finalize
    BY <1>0, <2>3 DEF Finalize, TypeOK
  <2> QED
    BY <1>11, <2>1, <2>2, <2>3
<1>12. CASE Assemble
  <2>1. Completed \in Seq(Attempts) /\ Len(Completed) = StageCount
    BY <1>0, CompletedType
  <2> QED
    BY <1>0, <1>12, <2>1 DEF Assemble, TypeOK
<1>13. CASE Archive
  BY <1>0, <1>13 DEF Archive, TypeOK
<1>14. CASE Colour
  BY <1>0, <1>14 DEF Colour, TypeOK
<1>15. CASE RunTimeout \/ Break \/ Abort
  BY <1>0, <1>15 DEF RunTimeout, Break, Abort, TypeOK
<1>16. CASE UNCHANGED vars
  BY <1>0, <1>16 DEF vars, TypeOK
<1> QED
  BY <1>1, <1>2, <1>3, <1>4, <1>5, <1>6, <1>7, <1>8, <1>9, <1>10, <1>11, <1>12, <1>13,
     <1>14, <1>15, <1>16 DEF Next

(* Only a stash adds to what is accepted, an attempt of the Stage that was *)
(* due, behind nothing that blocks.                                        *)
LEMMA StashAppends ==
  ASSUME IInv, Stash
  PROVE  /\ accepted' = Append(accepted, attempt) /\ modes' = modes
         /\ attempt \in Executions(modes[Current], accepted)
         /\ attempt \in Attempts /\ modes[Current] \in Modes
         /\ Len(accepted) < StageCount /\ ~ Blocked(accepted)
         /\ attempt.mode = modes[Current]
         /\ attempt.code # "deadline_exceeded" /\ attempt.code # "prerequisite_blocked"
<1>1. pc = "stash" /\ agent = "published"
  BY DEF Stash, IInv, AgentInv
<1>2. Len(accepted) < StageCount /\ ~ Blocked(accepted)
  BY <1>1 DEF IInv, LoopInv
<1>3. modes[Current] \in Modes
  BY <1>2, CurrentStage DEF IInv
<1>4. attempt \in Executions(modes[Current], accepted)
  BY <1>1 DEF IInv, AgentInv
<1>5. attempt \in Attempts /\ attempt.code # "prerequisite_blocked"
  BY <1>3, <1>4, ExecutionTypes
<1>6. attempt.mode = modes[Current] /\ attempt.code # "deadline_exceeded"
  BY <1>3, <1>4, ExecutionShape
<1> QED
  BY <1>2, <1>3, <1>4, <1>5, <1>6 DEF Stash

LEMMA OnlyStashAccepts ==
  ASSUME [Next]_vars
  PROVE  modes' = modes /\ (accepted' = accepted \/ Stash)
<1> QED
  BY DEF Next, vars, chain, stage, ending, End, Tick, Preflight, NextStage, Checkout,
     CheckDeadline, LaunchAdapter, PublishAttempt, Executed, AllowContinuation, SafetyTimeout,
     SchedulingTimeout, Finalize, Assemble, Archive, Colour, RunTimeout, Break, Abort, Stash

LEMMA AcceptedStep ==
  ASSUME IInv, [Next]_vars
  PROVE  AcceptedInv'
<1>1. CASE accepted' = accepted
  BY <1>1, OnlyStashAccepts DEF IInv, AcceptedInv, WorkAfterBlocker, ValidAt, Open
<1>2. CASE Stash
  <2> DEFINE n == Len(accepted)
  <2>1. /\ accepted' = Append(accepted, attempt) /\ modes' = modes
        /\ attempt \in Attempts /\ accepted \in Seq(Attempts) /\ n \in Nat
    BY <1>2, StashAppends DEF IInv, TypeOK
  <2>2. Len(accepted') = n + 1 /\ accepted'[n + 1] = attempt
        /\ \A i \in 1 .. n : accepted'[i] = accepted[i]
    BY <2>1
  <2>3. \A i \in 1 .. Len(accepted') : ValidAt(accepted', i)
    BY <1>2, <2>1, StashAppends, AppendValid DEF IInv, AcceptedInv
  <2>4. ~ WorkAfterBlocker'
    BY <1>2, <2>1, <2>2, StashAppends DEF WorkAfterBlocker, Blocked
  <2>5. ASSUME NEW i \in 1 .. Len(accepted')
        PROVE  accepted'[i].mode = modes'[i] /\ accepted'[i].code # "deadline_exceeded"
                                             /\ accepted'[i].code # "prerequisite_blocked"
    <3>1. CASE i \in 1 .. n
      BY <3>1, <2>1, <2>2 DEF IInv, AcceptedInv
    <3>2. CASE i = n + 1
      BY <3>2, <1>2, <2>1, <2>2, StashAppends DEF Current
    <3> QED
      BY <3>1, <3>2, <2>1, <2>2
  <2> QED
    BY <2>3, <2>4, <2>5 DEF AcceptedInv
<1> QED
  BY <1>1, <1>2, OnlyStashAccepts

(* The steps outside the Stages leave what the loop depends on alone.      *)
LEMMA LoopStep ==
  ASSUME IInv, [Next]_vars
  PROVE  LoopInv'
<1> USE DEF chain, stage, ending, End, RunDeadline, SchedulingLimit, StageWork,
            Scheduling, Finalizing
<1>0. TypeOK /\ AcceptedInv /\ LoopInv /\ AgentInv
  BY DEF IInv
<1>1. CASE Tick
  BY <1>0, <1>1 DEF Tick, TypeOK, LoopInv, RunLimit, Blocked
<1>2. CASE Preflight
  BY <1>0, <1>2 DEF Preflight, LoopInv, Blocked
<1>3. CASE NextStage
  <2>1. /\ accepted' = accepted /\ continueChain' = continueChain /\ clock' = clock
        /\ verdict' = verdict /\ pc = "loop" /\ verdict = "none"
    BY <1>0, <1>3 DEF NextStage, LoopInv
  <2>2. CASE pc' = "checkout"
    <3>1. continueChain /\ Len(accepted) # StageCount /\ expired' = expired
      BY <1>3, <2>2 DEF NextStage
    <3>2. Len(accepted) < StageCount
      <4>1. Len(accepted) \in Nat /\ Len(accepted) <= 4
        BY <1>0 DEF TypeOK, StageCount
      <4>2. Len(accepted) # 4
        BY <3>1 DEF StageCount
      <4>3. \A k \in Nat : k <= 4 /\ k # 4 => k < 4
        OBVIOUS
      <4> QED
        BY <4>1, <4>2, <4>3, Zenon DEF StageCount
    <3> QED
      BY <1>0, <2>1, <2>2, <3>1, <3>2 DEF LoopInv
  <2>3. CASE pc' = "finalize"
    <3>1. \/ expired' = expired /\ (~ continueChain \/ Len(accepted) = StageCount)
          \/ expired' = TRUE /\ clock >= RunDeadline
      BY <1>3, <2>3 DEF NextStage
    <3> QED
      BY <1>0, <2>1, <2>3, <3>1 DEF LoopInv
  <2> QED
    BY <1>3, <2>2, <2>3 DEF NextStage
<1>4. CASE Checkout \/ CheckDeadline \/ LaunchAdapter \/ PublishAttempt
  BY <1>0, <1>4 DEF Checkout, CheckDeadline, LaunchAdapter, PublishAttempt, LoopInv
<1>5. CASE Executed
  <2>1. /\ accepted' = accepted /\ clock' = clock /\ verdict' = verdict
        /\ pc = "execute" /\ verdict = "none"
    BY <1>0, <1>5 DEF Executed, LoopInv
  <2>2. CASE pc' = "stash" /\ UNCHANGED << continueChain, expired >>
    BY <1>0, <2>1, <2>2 DEF LoopInv
  <2>3. CASE pc' = "loop" /\ continueChain' = FALSE /\ expired' = TRUE /\ agent = "expired"
    BY <1>0, <2>1, <2>3 DEF LoopInv, AgentInv
  <2> QED
    BY <1>5, <2>2, <2>3 DEF Executed
<1>6. CASE Stash
  <2>1. Len(accepted') > 0
    BY <1>6, StashAppends DEF IInv, TypeOK
  <2> QED
    BY <1>0, <1>6, <2>1 DEF Stash, LoopInv
<1>7. CASE AllowContinuation
  <2> DEFINE n == Len(accepted)
  <2>1. n \in Nat /\ n > 0 /\ pc = "continue"
    BY <1>0, <1>7 DEF AllowContinuation, LoopInv, TypeOK
  <2>2. Blocked(accepted) <=> Blocks(accepted[n])
    BY <1>0, <2>1 DEF AcceptedInv, WorkAfterBlocker, Blocked
  <2> QED
    BY <1>0, <1>7, <2>2 DEF AllowContinuation, LoopInv
<1>8. CASE SchedulingTimeout
  BY <1>0, <1>8 DEF SchedulingTimeout, TypeOK, LoopInv, RunLimit
<1>9. CASE SafetyTimeout \/ Finalize \/ Archive \/ Colour
  BY <1>0, <1>9 DEF SafetyTimeout, Finalize, Archive, Colour, LoopInv
<1>10. CASE Assemble
  BY <1>0, <1>10 DEF Assemble, LoopInv
<1>11. CASE RunTimeout \/ Break \/ Abort
  BY <1>0, <1>11 DEF RunTimeout, Break, Abort, LoopInv
<1>12. CASE UNCHANGED vars
  BY <1>0, <1>12 DEF vars, LoopInv, Blocked
<1> QED
  BY <1>1, <1>2, <1>3, <1>4, <1>5, <1>6, <1>7, <1>8, <1>9, <1>10, <1>11, <1>12 DEF Next

LEMMA AgentStep ==
  ASSUME IInv, [Next]_vars
  PROVE  AgentInv'
<1> USE DEF chain, stage, ending, End, RunDeadline, Current
<1>0. TypeOK /\ LoopInv /\ AgentInv
  BY DEF IInv
<1>1. CASE Tick
  BY <1>0, <1>1 DEF Tick, TypeOK, AgentInv, RunLimit
<1>2. CASE Preflight \/ NextStage \/ Checkout \/ AllowContinuation \/ Finalize \/ Archive
  BY <1>0, <1>2 DEF Preflight, NextStage, Checkout, AllowContinuation, Finalize, Archive, AgentInv
<1>3. CASE CheckDeadline
  BY <1>0, <1>3 DEF CheckDeadline, AgentInv
<1>4. CASE LaunchAdapter
  BY <1>0, <1>4 DEF LaunchAdapter, AgentInv
<1>5. CASE PublishAttempt
  BY <1>0, <1>5 DEF PublishAttempt, AgentInv
<1>6. CASE Executed
  BY <1>0, <1>6 DEF Executed, AgentInv
<1>7. CASE Stash \/ SchedulingTimeout
  BY <1>0, <1>7 DEF Stash, SchedulingTimeout, AgentInv
<1>8. CASE Assemble
  BY <1>0, <1>8 DEF Assemble, AgentInv
<1>9. CASE SafetyTimeout \/ Colour \/ RunTimeout \/ Break \/ Abort
  BY <1>0, <1>9 DEF SafetyTimeout, Colour, RunTimeout, Break, Abort, AgentInv
<1>10. CASE UNCHANGED vars
  BY <1>0, <1>10 DEF vars, AgentInv
<1> QED
  BY <1>1, <1>2, <1>3, <1>4, <1>5, <1>6, <1>7, <1>8, <1>9, <1>10 DEF Next

LEMMA LaunchStep ==
  ASSUME IInv, [Next]_vars
  PROVE  LaunchInv'
<1> USE DEF chain, stage, ending, End, Finalizing, StageWork, Scheduling
<1>0. TypeOK /\ LoopInv /\ AgentInv /\ LaunchInv
  BY DEF IInv
<1>1. CASE LaunchAdapter /\ launched' = launched
  <2>1. PreSpawnSkip(modes[Current], accepted) # "none"
    BY <1>1 DEF LaunchAdapter, TypeOK, IInv
  <2>2. ~ Launched(Current) /\ ~ Launched(Current)'
    BY <1>0, <1>1 DEF LaunchAdapter, LaunchInv, Launched, Current
  <2> QED
    BY <1>0, <1>1, <2>2 DEF LaunchAdapter, LaunchInv, Launched, Current
<1>2. CASE LaunchAdapter /\ launched' = Append(launched, Current)
  <2> DEFINE m == Len(launched)
  <2>1. launched \in Seq(Stages) /\ m \in Nat /\ Current \in Stages
    BY <1>0, <1>2, CurrentStage DEF LaunchAdapter, LoopInv, TypeOK
  <2>2. /\ Len(launched') = m + 1 /\ launched'[m + 1] = Current
        /\ \A i \in 1 .. m : launched'[i] = launched[i] /\ launched[i] \in Stages
    BY <2>1, <1>2
  <2>3. ~ Launched(Current) /\ pc = "execute" /\ pc' = pc /\ accepted' = accepted
        /\ agent = "checked"
    BY <1>0, <1>2 DEF LaunchAdapter, LaunchInv
  <2>4. \A i \in 1 .. m : launched[i] < Current
    BY <1>0, <2>1, <2>2, <2>3 DEF LaunchInv, Launched, Stages, StageCount
  <2>5. agent' = "running"
    BY <1>2, <2>1, <2>2 DEF LaunchAdapter
  <2>6. \A k \in 1 .. Len(accepted) : Launched(k)' => Launched(k)
    <3>1. Len(accepted) \in Nat
      BY <1>0 DEF TypeOK
    <3>2. \A k \in 1 .. Len(accepted) : k # launched'[m + 1]
      BY <2>2, <3>1 DEF Current
    <3> QED
      BY <2>1, <2>2, <3>2 DEF Launched
  <2>7. ~ Blocked(accepted)
    BY <1>0, <2>3 DEF LoopInv
  <2>8. \A i \in 1 .. Len(launched') : launched'[i] <= Current
    BY <2>1, <2>2, <2>4 DEF Stages, StageCount
  <2>9. \A i \in 2 .. Len(launched') : launched'[i - 1] < launched'[i]
    BY <1>0, <2>1, <2>2, <2>4 DEF LaunchInv
  <2> QED
    BY <1>0, <2>3, <2>5, <2>6, <2>7, <2>8, <2>9 DEF LaunchInv, Current
<1>3. CASE PublishAttempt
  <2>1. modes[Current] \in Modes /\ PreSpawnSkip(modes[Current], accepted) = "none"
    BY <1>0, <1>3, CurrentStage DEF PublishAttempt, LoopInv, AgentInv
  <2>2. attempt'.ended # "skipped"
    BY <1>3, <2>1, ExecutionShape DEF PublishAttempt
  <2> QED
    BY <1>0, <1>3, <2>2 DEF PublishAttempt, LaunchInv, Launched, Current
<1>4. CASE Executed
  BY <1>0, <1>4 DEF Executed, LaunchInv, Launched, Current
<1>5. CASE Stash
  <2> DEFINE n == Len(accepted)
  <2>1. /\ accepted' = Append(accepted, attempt) /\ launched' = launched
        /\ accepted \in Seq(Attempts) /\ attempt \in Attempts
        /\ n \in Nat /\ pc = "stash" /\ pc' = "continue" /\ agent = "published"
    BY <1>5, StashAppends DEF IInv, TypeOK, Stash, AgentInv
  <2>2. Len(accepted') = n + 1 /\ accepted'[n + 1] = attempt
        /\ \A i \in 1 .. n : accepted'[i] = accepted[i]
    BY <2>1
  <2>3. \A i \in 1 .. Len(launched) : launched[i] \in Nat /\ launched[i] <= n + 1
    BY <1>0 DEF LaunchInv, Current, TypeOK, Stages, StageCount
  <2>4. \A k \in 1 .. Len(accepted') : Launched(k)' => accepted'[k].ended # "skipped"
    BY <1>0, <2>1, <2>2 DEF LaunchInv, Launched, Current
  <2>5. ~ Launched(Current)'
    BY <2>1, <2>2, <2>3 DEF Launched, Current
  <2> QED
    BY <1>0, <2>1, <2>2, <2>3, <2>4, <2>5 DEF LaunchInv, Current
<1>6. CASE Tick \/ Preflight \/ NextStage \/ Checkout \/ CheckDeadline
  BY <1>0, <1>6 DEF Tick, Preflight, NextStage, Checkout, CheckDeadline, LaunchInv, Launched,
     Current, AgentInv
<1>7. CASE AllowContinuation \/ Finalize \/ Archive
  BY <1>0, <1>7 DEF AllowContinuation, Finalize, Archive, LaunchInv, Launched, Current
<1>8. CASE SchedulingTimeout
  BY <1>0, <1>8 DEF SchedulingTimeout, LaunchInv, Launched, Current
<1>9. CASE Assemble
  BY <1>0, <1>9 DEF Assemble, LaunchInv, Launched, Current
<1>10. CASE SafetyTimeout \/ Colour \/ RunTimeout \/ Break \/ Abort
  BY <1>0, <1>10 DEF SafetyTimeout, Colour, RunTimeout, Break, Abort, LaunchInv, Launched, Current
<1>11. CASE UNCHANGED vars
  BY <1>0, <1>11 DEF vars, LaunchInv, Launched, Current
<1>12. LaunchAdapter => launched' = launched \/ launched' = Append(launched, Current)
  BY DEF LaunchAdapter
<1> QED
  BY <1>1, <1>2, <1>3, <1>4, <1>5, <1>6, <1>7, <1>8, <1>9, <1>10, <1>11, <1>12 DEF Next

LEMMA BundleStep ==
  ASSUME IInv, [Next]_vars
  PROVE  BundleInv'
<1> USE DEF chain, stage, ending, End, Finalizing, StageWork, Scheduling
<1>0. TypeOK /\ LoopInv /\ BundleInv
  BY DEF IInv
<1>1. CASE Assemble
  <2>1. Completed' = Completed /\ (Missing' <=> Missing)
    BY <1>1 DEF Assemble, Completed, Missing
  <2>2. Completed # << >>
    BY <1>0, CompletedType
  <2> QED
    BY <1>0, <1>1, <2>1, <2>2 DEF Assemble, BundleInv, LoopInv
<1>2. CASE Archive
  BY <1>0, <1>2 DEF Archive, BundleInv, LoopInv, Completed, Missing
<1>3. CASE Colour
  <2>1. /\ pc = "colour" /\ pc' = "done"
        /\ UNCHANGED << bundle, conclusion, archived, accepted, expired, modes >>
    BY <1>3 DEF Colour
  <2>2. bundle # << >> /\ conclusion # "none" /\ archived = "whole"
    BY <1>0, <2>1 DEF BundleInv
  <2>3. conclusion = "told" \/ conclusion = "lost"
    BY <1>0, <2>2 DEF TypeOK
  <2>4. verdict' = "SUCCESS" => (Red(bundle) => conclusion = "lost")
    BY <1>3, <2>3 DEF Colour
  <2>5. Completed' = Completed /\ (Missing' <=> Missing)
    BY <2>1 DEF Completed, Missing
  <2> QED
    BY <1>0, <2>1, <2>2, <2>4, <2>5 DEF BundleInv
<1>4. CASE Stash
  BY <1>0, <1>4 DEF Stash, BundleInv, LoopInv
<1>5. CASE Tick \/ Preflight \/ NextStage \/ Checkout \/ CheckDeadline
  BY <1>0, <1>5 DEF Tick, Preflight, NextStage, Checkout, CheckDeadline, BundleInv,
     LoopInv, Completed, Missing
<1>6. CASE LaunchAdapter \/ PublishAttempt \/ Executed \/ AllowContinuation
  BY <1>0, <1>6 DEF LaunchAdapter, PublishAttempt, Executed, AllowContinuation, BundleInv,
     LoopInv, Completed, Missing
<1>7. CASE SchedulingTimeout \/ Finalize
  BY <1>0, <1>7 DEF SchedulingTimeout, Finalize, BundleInv, LoopInv, Completed, Missing
<1>8. CASE SafetyTimeout \/ RunTimeout \/ Break \/ Abort
  BY <1>0, <1>8 DEF SafetyTimeout, RunTimeout, Break, Abort, BundleInv, LoopInv, Completed, Missing
<1>9. CASE UNCHANGED vars
  BY <1>0, <1>9 DEF vars, BundleInv, Completed, Missing
<1> QED
  BY <1>1, <1>2, <1>3, <1>4, <1>5, <1>6, <1>7, <1>8, <1>9 DEF Next

LEMMA StepInv == IInv /\ [Next]_vars => IInv'
  BY TypeStep, AcceptedStep, LoopStep, AgentStep, LaunchStep, BundleStep DEF IInv

-----------------------------------------------------------------------------
(* The theorems.                                                           *)

(* Every reachable state is well typed: among others, the result that the  *)
(* finalization assembles has one typed attempt for each of the Stages.    *)
THEOREM TypeCorrect == Spec => []TypeOK
<1>1. IInv => TypeOK
  BY DEF IInv
<1> QED
  BY <1>1, InitInv, StepInv, PTL DEF Spec

LEMMA InvRunsOnce == IInv => StagesRunOnceInOrder
<1> SUFFICES ASSUME IInv, NEW i \in 2 .. Len(launched)
             PROVE  /\ launched[i - 1] < launched[i]
                    /\ launched[i - 1] <= Len(accepted)
                    /\ ~ Blocks(accepted[launched[i - 1]])
  BY DEF StagesRunOnceInOrder
<1> DEFINE n == Len(accepted)
           a == launched[i - 1]
           b == launched[i]
<1>1. n \in Nat /\ Len(launched) \in Nat
  BY DEF IInv, TypeOK
<1>2. i - 1 \in 1 .. Len(launched) /\ i \in 1 .. Len(launched)
  BY <1>1
<1>3. a \in Stages /\ b \in Stages
  BY <1>2 DEF IInv, TypeOK
<1>4. a < b /\ b <= n + 1
  BY <1>2 DEF IInv, LaunchInv, Current
<1>5. a \in 1 .. n
  BY <1>1, <1>3, <1>4 DEF Stages, StageCount
<1>6. CASE b = n + 1
  <2>1. Launched(Current)
    BY <1>2, <1>6 DEF Launched, Current
  <2>2. ~ Blocked(accepted)
    BY <2>1 DEF IInv, LaunchInv
  <2> QED
    BY <1>4, <1>5, <2>2 DEF Blocked
<1>7. CASE b # n + 1
  <2>1. a \in 1 .. n - 1
    BY <1>1, <1>3, <1>4, <1>7 DEF Stages, StageCount
  <2> QED
    BY <1>4, <1>5, <2>1 DEF IInv, AcceptedInv, WorkAfterBlocker
<1> QED
  BY <1>6, <1>7

(* No adapter of a build runs twice, out of order or behind a blocker.     *)
THEOREM StagesOnce == Spec => []StagesRunOnceInOrder
  BY InitInv, StepInv, InvRunsOnce, PTL DEF Spec

(* However the scheduling was left, the finalization accounts for every    *)
(* Stage with a valid result and is refused by none of its own checks.     *)
THEOREM FinalizationPossible == Spec => []FinalizationIsPossible
<1>1. IInv => FinalizationIsPossible
  <2> SUFFICES ASSUME IInv, pc \in {"finalize", "assemble"}
               PROVE  ~ WorkAfterBlocker /\ (Missing => expired) /\ ValidResult(Completed)
    BY DEF FinalizationIsPossible
  <2>1. ~ WorkAfterBlocker
    BY DEF IInv, AcceptedInv
  <2>2. Len(accepted) = StageCount \/ Blocked(accepted) \/ expired
    BY DEF IInv, LoopInv, Finalizing
  <2>3. Missing => expired
    <3>1. Len(accepted) = StageCount => ~ (Len(accepted) < StageCount)
      BY DEF StageCount
    <3> QED
      BY <2>2, <3>1 DEF Missing
  <2> QED
    BY <2>1, <2>3, CompletedValid DEF IInv
<1> QED
  BY <1>1, InitInv, StepInv, PTL DEF Spec

LEMMA InvSkips == IInv => SkipsSayWhy
<1> SUFFICES ASSUME IInv, NEW i \in 1 .. Len(bundle), bundle[i].ended = "skipped"
             PROVE  IF bundle[i].code = "deadline_exceeded"
                      THEN clock >= RunDeadline /\ \A j \in 1 .. i - 1 : ~ Blocks(bundle[j])
                      ELSE ~ Launched(i)
  BY DEF SkipsSayWhy
<1> DEFINE n == Len(accepted)
<1>1. n \in Nat /\ bundle \in Seq(Attempts) /\ Len(bundle) \in {0, 4}
  BY DEF IInv, TypeOK, StageCount
<1>2. i \in Stages /\ bundle # << >>
  BY <1>1 DEF Stages, StageCount
<1>3. bundle = Completed
  BY <1>2 DEF IInv, BundleInv
<1>4. CASE i <= n
  <2>1. i \in 1 .. n /\ bundle[i] = accepted[i]
    BY <1>1, <1>2, <1>3, <1>4, CompletedEntries DEF IInv, Stages, StageCount
  <2> QED
    BY <2>1 DEF IInv, AcceptedInv, LaunchInv
<1>5. CASE i = n + 1 /\ ~ Blocked(accepted)
  <2>1. bundle[i].code = "deadline_exceeded"
    <3>1. TypeOK
      BY DEF IInv
    <3>2. Completed[i] = Skip(modes[i], "deadline_exceeded")
      BY <1>2, <1>5, <3>1, CompletedEntries
    <3> QED
      BY <1>3, <3>2 DEF Skip
  <2>2. Missing
    BY <1>1, <1>2, <1>5 DEF Missing, Stages, StageCount
  <2>3. clock >= RunDeadline
    BY <1>2, <2>2 DEF IInv, BundleInv, LoopInv
  <2>4. ASSUME NEW j \in 1 .. i - 1 PROVE ~ Blocks(bundle[j])
    <3>1. j \in 1 .. n /\ j \in Stages
      BY <1>1, <1>2, <1>5 DEF Stages, StageCount
    <3>2. bundle[j] = accepted[j]
      BY <1>1, <1>3, <3>1, CompletedEntries DEF IInv
    <3> QED
      BY <1>5, <3>1, <3>2 DEF Blocked
  <2> QED
    BY <2>1, <2>3, <2>4
<1>6. CASE i > n /\ (i # n + 1 \/ Blocked(accepted))
  <2>1. bundle[i].code = "prerequisite_blocked"
    <3>1. TypeOK
      BY DEF IInv
    <3>2. Completed[i] = Skip(modes[i], "prerequisite_blocked")
      BY <1>2, <1>6, <3>1, CompletedEntries
    <3> QED
      BY <1>3, <3>2 DEF Skip
  <2>2. CASE i # n + 1
    <3>1. \A k \in 1 .. Len(launched) : launched[k] <= n + 1 /\ launched[k] \in Nat
      BY DEF IInv, TypeOK, LaunchInv, Current, Stages, StageCount
    <3>2. ~ Launched(i)
      BY <1>1, <1>2, <1>6, <2>2, <3>1 DEF Launched, Stages, StageCount
    <3> QED
      BY <2>1, <3>2
  <2>3. CASE i = n + 1
    <3>1. ~ Launched(i)
      BY <1>6, <2>3 DEF IInv, LaunchInv, Current
    <3> QED
      BY <2>1, <3>1
  <2> QED
    BY <2>2, <2>3
<1> QED
  BY <1>1, <1>2, <1>4, <1>5, <1>6 DEF Stages, StageCount

(* What a result says of the Stages it calls skipped is true.              *)
THEOREM SkipsTrue == Spec => []SkipsSayWhy
  BY InitInv, StepInv, InvSkips, PTL DEF Spec

(* A green build has archived its whole and valid result, and that result  *)
(* is green unless the build never learnt the conclusion.                  *)
THEOREM GreenIsProved == Spec => []GreenBuildIsProved
<1>1. IInv => GreenBuildIsProved
  <2> SUFFICES ASSUME IInv, verdict = "SUCCESS"
               PROVE  /\ archived = "whole" /\ ValidResult(bundle)
                      /\ Red(bundle) => conclusion = "lost"
    BY DEF GreenBuildIsProved
  <2>1. archived = "whole" /\ (Red(bundle) => conclusion = "lost") /\ bundle = Completed
    BY DEF IInv, BundleInv
  <2> QED
    BY <2>1, CompletedValid DEF IInv
<1> QED
  BY <1>1, InitInv, StepInv, PTL DEF Spec

-----------------------------------------------------------------------------
(* A build keeps the promise of a run.                                     *)

(* The contract that RunPromise speaks of is the one of this module.       *)
LEMMA SameContract ==
  /\ Promise!StageCount = StageCount /\ Promise!Stages = Stages
  /\ Promise!Attempts = Attempts
  /\ \A a : Promise!ValidAttempt(a) <=> ValidAttempt(a)
  /\ \A c : Promise!Blocked(c) <=> Blocked(c)
  /\ \A c : Promise!ValidResult(c) <=> ValidResult(c)
  /\ \A c : Promise!Red(c) <=> Red(c)
  BY DEF Promise!StageCount, StageCount, Promise!Stages, Stages, Promise!Attempts, Attempts,
         Promise!Modes, Modes, Promise!SkipCodes, SkipCodes, Promise!InitialSkipCodes,
         InitialSkipCodes, Promise!ValidAttempt, ValidAttempt, Promise!Blocked, Blocked,
         Promise!Blocks, Blocks, Promise!ValidResult, ValidResult, Promise!ValidAt, ValidAt,
         Promise!Open, Open, Promise!Producers, Producers, Promise!Red, Red, Promise!Judges,
         Judges, Promise!RedCodes, RedCodes

LEMMA PromiseStep ==
  ASSUME IInv, [Next]_vars
  PROVE  [Promise!Next]_(Promise!vars)
<1> USE DEF chain, stage, ending, End
<1>1. CASE Stash
  <2>1. archived # "whole" /\ archived' = archived
    BY <1>1 DEF Stash, IInv, BundleInv, Finalizing
  <2>2. accepted' = Append(accepted, attempt) /\ attempt \in Attempts
        /\ Len(accepted) < StageCount /\ ~ Blocked(accepted)
        /\ attempt.code # "prerequisite_blocked"
    BY <1>1, StashAppends
  <2>3. ValidAttempt(attempt)
    BY <1>1, StashAppends, AppendValid DEF IInv, TypeOK, AcceptedInv
  <2>4. Promise!Attempt
    BY <2>1, <2>2, <2>3, SameContract DEF Promise!Attempt
  <2> QED
    BY <2>4 DEF Promise!Next
<1>2. CASE Archive /\ archived # "whole" /\ archived' = "whole"
  <2>1. bundle' = bundle /\ accepted' = accepted /\ pc = "archiving"
    BY <1>2 DEF Archive
  <2>2. bundle = Completed
    BY <2>1 DEF IInv, BundleInv
  <2>3. /\ Len(bundle) = StageCount /\ bundle \in Seq(Attempts)
        /\ ValidResult(bundle)
    BY <2>2, CompletedType, CompletedValid DEF IInv
  <2>4. \A i \in Stages : bundle[i] \in Attempts
    <3>1. Len(bundle) = 4 /\ Stages = 1 .. 4
      BY <2>3 DEF Stages, StageCount
    <3> QED
      BY <2>3, <3>1, ElementOfSeq
  <2>5. ASSUME NEW i \in 1 .. Len(accepted) PROVE bundle[i] = accepted[i]
    <3>1. TypeOK /\ i \in Stages /\ i <= Len(accepted)
      BY DEF IInv, TypeOK, Stages, StageCount
    <3> QED
      BY <2>2, <3>1, CompletedEntries
  <2>6. ASSUME NEW i \in Stages, i > Len(accepted) PROVE bundle[i].ended = "skipped"
    <3>1. TypeOK
      BY DEF IInv
    <3>2. \/ Completed[i] = Skip(modes[i], "deadline_exceeded")
          \/ Completed[i] = Skip(modes[i], "prerequisite_blocked")
      BY <2>6, <3>1, CompletedEntries
    <3> QED
      BY <2>2, <3>2 DEF Skip
  <2>7. Promise!Publish
    BY <1>2, <2>1, <2>3, <2>4, <2>5, <2>6, SameContract DEF Promise!Publish
  <2> QED
    BY <2>7 DEF Promise!Next
<1>3. CASE accepted' = accepted /\ archived' = archived /\ (archived = "whole" => bundle' = bundle)
  BY <1>3 DEF Promise!vars
<1>4. CASE Archive /\ archived' # "whole"
  <2>1. bundle' = bundle /\ accepted' = accepted /\ archived # "whole"
    BY <1>4 DEF Archive, IInv, BundleInv, Finalizing
  <2> QED
    BY <1>4, <2>1 DEF Promise!vars
<1>5. CASE Archive /\ archived = "whole"
  <2>1. UNCHANGED << bundle, accepted, archived >>
    BY <1>5 DEF Archive, IInv, BundleInv, Finalizing
  <2> QED
    BY <2>1, <1>3
<1>6. CASE Assemble
  BY <1>6, <1>3 DEF Assemble, IInv, BundleInv, Finalizing
<1>7. CASE ~ Stash /\ ~ Archive /\ ~ Assemble
  <2>1. UNCHANGED << accepted, archived, bundle >>
    BY <1>7 DEF Next, vars, Tick, Preflight, NextStage, Checkout, CheckDeadline,
       LaunchAdapter, PublishAttempt, Executed, AllowContinuation, SafetyTimeout,
       SchedulingTimeout, Finalize, Colour, RunTimeout, Break, Abort
  <2> QED
    BY <2>1, <1>3
<1> QED
  BY <1>1, <1>2, <1>4, <1>5, <1>6, <1>7

(* A Jenkins build implements the same promise as a local dispatch.        *)
THEOREM PromiseKept == Spec => KeepsPromise
<1>1. Init => Promise!Init
  BY DEF Init, Promise!Init
<1>2. IInv /\ [Next]_vars => [Promise!Next]_(Promise!vars)
  BY PromiseStep
<1> QED
  BY <1>1, <1>2, InitInv, StepInv, PTL DEF Spec, KeepsPromise, Promise!Spec
=============================================================================
