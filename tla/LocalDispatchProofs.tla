------------------------- MODULE LocalDispatchProofs -------------------------
(***************************************************************************)
(* Theorems about LocalDispatch for every set of dispatches and every set  *)
(* of descriptors.                                                         *)
(***************************************************************************)
EXTENDS LocalDispatch, StageAttemptsProofs, TLAPS

-----------------------------------------------------------------------------
(* Types.                                                                  *)

(* One turn of the loop appends one attempt, or goes on to the assembly.   *)
LEMMA RunStageMoves ==
  ASSUME TypeOK, NEW p \in Dispatches, RunStage(p)
  PROVE  \/ /\ Len(chain[p]) = StageCount
            /\ chain' = chain
            /\ pc' = [pc EXCEPT ![p] = "assemble"]
         \/ /\ Len(chain[p]) < StageCount
            /\ pc' = pc
            /\ \E a \in Attempts :
                 /\ \/ a \in Executions(modes[Len(chain[p]) + 1], chain[p])
                       /\ ~ Blocked(chain[p])
                    \/ /\ Blocked(chain[p])
                       /\ a = Skip(modes[Len(chain[p]) + 1], "prerequisite_blocked")
                 /\ chain' = [chain EXCEPT ![p] = Append(@, a)]
<1> DEFINE mode == modes[Len(chain[p]) + 1]
<1>1. CASE Len(chain[p]) = StageCount
  BY <1>1 DEF RunStage, Goto
<1>2. CASE Len(chain[p]) # StageCount
  <2>1. Len(chain[p]) \in Nat /\ Len(chain[p]) + 1 \in Stages
    <3>1. Len(chain[p]) \in Nat /\ Len(chain[p]) <= 4
      BY DEF TypeOK, StageCount
    <3>2. \A n \in Nat : n <= 4 /\ n # 4 => n + 1 \in 1 .. 4
      OBVIOUS
    <3> QED
      BY <3>1, <3>2, <1>2, Zenon DEF Stages, StageCount
  <2>2. mode \in Modes
    BY <2>1, DescriptorsAreModes DEF TypeOK
  <2>3. PICK a \in IF Blocked(chain[p]) THEN {Skip(mode, "prerequisite_blocked")}
                    ELSE Executions(mode, chain[p]) :
             chain' = [chain EXCEPT ![p] = Append(@, a)]
    BY <1>2 DEF RunStage
  <2>4. a \in Attempts
    <3>1. CASE Blocked(chain[p])
      BY <3>1, <2>2, <2>3, SkipType DEF SkipCodes
    <3>2. CASE ~ Blocked(chain[p])
      BY <3>2, <2>2, <2>3, ExecutionTypes
    <3> QED
      BY <3>1, <3>2
  <2>5. Len(chain[p]) < StageCount
    BY <2>1 DEF Stages, StageCount
  <2> QED
    BY <1>2, <2>3, <2>4, <2>5 DEF RunStage
<1> QED
  BY <1>1, <1>2

LEMMA AppendType ==
  ASSUME NEW p \in Dispatches, NEW a \in Attempts,
         chain \in [Dispatches -> Seq(Attempts)],
         \A q \in Dispatches : Len(chain[q]) <= StageCount,
         Len(chain[p]) < StageCount,
         chain' = [chain EXCEPT ![p] = Append(@, a)]
  PROVE  /\ chain' \in [Dispatches -> Seq(Attempts)]
         /\ \A q \in Dispatches : Len(chain'[q]) <= StageCount
<1>1. Append(chain[p], a) \in Seq(Attempts) /\ Len(Append(chain[p], a)) = Len(chain[p]) + 1
  OBVIOUS
<1> QED
  BY <1>1 DEF StageCount

LEMMA TypeInit == Init => TypeOK
<1> SUFFICES ASSUME Init PROVE TypeOK
  OBVIOUS
<1>1. << >> \in Seq(Attempts) /\ Len(<< >>) <= StageCount
  BY DEF StageCount
<1> QED
  BY <1>1, NamesAreFresh, DescriptorsAreModes
     DEF Init, TypeOK, Bundles, Absent, Whole, Places, Outcomes, Exits, Nobody, Earlier

LEMMA EndTypes ==
  ASSUME TypeOK, NEW p \in Dispatches, NEW how \in Exits, End(p, how),
         UNCHANGED << modes, claim >>, bundle' \in Bundles
  PROVE  TypeOK'
<1>1. /\ exit' \in [Dispatches -> Exits]
      /\ pc' \in [Dispatches -> Places]
      /\ outcome' \in [Dispatches -> Outcomes]
  BY DEF TypeOK, End, Goto, Places, Outcomes
<1>2. /\ existed' \in [Dispatches -> BOOLEAN]
      /\ acquired' \in [Dispatches -> BOOLEAN]
      /\ opened' \in [Dispatches -> Dispatches \cup {Nobody, Earlier}]
  BY DEF TypeOK, End
<1>3. UNCHANGED << work, staging, chain >>
  BY DEF End
<1> QED
  BY <1>1, <1>2, <1>3 DEF TypeOK

(* What the clean-up has tried to remove is gone or resists, and what it   *)
(* has not made or does not know stays as it was.                          *)
LEMMA DropWorkMoves ==
  ASSUME TypeOK, NEW p \in Dispatches, DropWork(p)
  PROVE  \E left \in {"none", "made", "stuck"} :
           /\ exit[p] = "none" /\ pc[p] = "drop_work"
           /\ work' = [work EXCEPT ![p] = left]
           /\ left = "made" => work[p] = "made"
           /\ pc' = [pc EXCEPT ![p] = "drop_staging"]
           /\ UNCHANGED << modes, claim, bundle, staging, opened, existed, acquired,
                           chain, outcome, exit >>
  BY DEF TypeOK, DropWork, Removed, At, Goto, shared, local, ends

LEMMA DropStagingMoves ==
  ASSUME TypeOK, NEW p \in Dispatches, DropStaging(p)
  PROVE  \E left \in {"none", "made", "stuck", "moved"} :
           /\ exit[p] = "none" /\ pc[p] = "drop_staging"
           /\ staging' = [staging EXCEPT ![p] = left]
           /\ left = "made" => staging[p] = "made"
           /\ left = "moved" <=> staging[p] = "moved"
           /\ pc' = [pc EXCEPT ![p] = "drop_claim"]
           /\ UNCHANGED << modes, claim, bundle, work, opened, existed, acquired,
                           chain, outcome, exit >>
  BY DEF TypeOK, DropStaging, Removed, At, Goto, shared, local, ends

LEMMA TypeStep == TypeOK /\ [Next]_vars => TypeOK'
<1> SUFFICES ASSUME TypeOK, [Next]_vars PROVE TypeOK'
  OBVIOUS
<1> USE DEF At, Goto, Fail, Places, InTry, InFinally, Removing, shared, files, local, ends
<1>1. ASSUME NEW p \in Dispatches, Start(p) \/ Check(p) \/ Claim(p) \/ NoteClaim(p)
      PROVE  TypeOK'
  <2>1. CASE Start(p)
    BY <2>1 DEF TypeOK, Start
  <2>2. CASE Check(p)
    BY <2>2 DEF TypeOK, Outcomes, Check
  <2>3. CASE Claim(p)
    BY <2>3 DEF TypeOK, Outcomes, Claim
  <2>4. CASE NoteClaim(p)
    BY <2>4 DEF TypeOK, Outcomes, NoteClaim
  <2> QED
    BY <1>1, <2>1, <2>2, <2>3, <2>4
<1>2. ASSUME NEW p \in Dispatches, MakeWork(p) \/ MakeStaging(p) PROVE TypeOK'
  BY <1>2 DEF TypeOK, MakeWork, MakeStaging
<1>3. ASSUME NEW p \in Dispatches, RunStage(p) PROVE TypeOK'
  <2>1. CASE chain' = chain
    BY <2>1, <1>3, RunStageMoves DEF TypeOK, RunStage
  <2>2. ASSUME NEW a \in Attempts, Len(chain[p]) < StageCount, pc' = pc,
               chain' = [chain EXCEPT ![p] = Append(@, a)]
        PROVE  TypeOK'
    BY <2>2, <1>3, AppendType DEF TypeOK, RunStage
  <2> QED
    BY <2>1, <2>2, <1>3, RunStageMoves
<1>4. ASSUME NEW p \in Dispatches, Assemble(p) \/ Break(p) PROVE TypeOK'
  BY <1>4 DEF TypeOK, Outcomes, Assemble, Break
<1>5. ASSUME NEW p \in Dispatches, Publish(p) PROVE TypeOK'
  <2>1. Whole(p) \in Bundles
    BY DEF Bundles, Whole
  <2>2. UNCHANGED << modes, claim, work, opened, existed, acquired, chain, exit >>
    BY <1>5 DEF Publish
  <2>3. bundle' \in Bundles /\ staging' \in [Dispatches -> {"none", "made", "known", "stuck", "moved"}]
        /\ pc' \in [Dispatches -> Places]
    BY <1>5, <2>1 DEF Publish, TypeOK
  <2>4. outcome' \in [Dispatches -> Outcomes]
    <3>1. \E how \in Outcomes : outcome' = [outcome EXCEPT ![p] = how]
      BY <1>5 DEF Publish, Outcomes
    <3> QED
      BY <3>1 DEF TypeOK
  <2> QED
    BY <2>2, <2>3, <2>4 DEF TypeOK
<1>6. ASSUME NEW p \in Dispatches, DropWork(p) \/ DropStaging(p) \/ DropClaim(p)
      PROVE  TypeOK'
  <2>1. CASE DropWork(p)
    <3>1. PICK left \in {"none", "made", "stuck"} :
            /\ work' = [work EXCEPT ![p] = left]
            /\ pc' = [pc EXCEPT ![p] = "drop_staging"]
            /\ UNCHANGED << modes, claim, bundle, staging, opened, existed, acquired,
                            chain, outcome, exit >>
      BY <2>1, DropWorkMoves
    <3> QED
      BY <3>1 DEF TypeOK
  <2>2. CASE DropStaging(p)
    <3>1. PICK left \in {"none", "made", "stuck", "moved"} :
            /\ staging' = [staging EXCEPT ![p] = left]
            /\ pc' = [pc EXCEPT ![p] = "drop_claim"]
            /\ UNCHANGED << modes, claim, bundle, work, opened, existed, acquired,
                            chain, outcome, exit >>
      BY <2>2, DropStagingMoves
    <3> QED
      BY <3>1 DEF TypeOK
  <2>3. CASE DropClaim(p)
    BY <2>3 DEF TypeOK, DropClaim, Outcomes
  <2> QED
    BY <1>6, <2>1, <2>2, <2>3
<1>7. ASSUME NEW p \in Dispatches, Leave(p) PROVE TypeOK'
  <2>1. CASE pc' = [pc EXCEPT ![p] = "remove"] /\ UNCHANGED << files, local, ends >>
    BY <1>7, <2>1 DEF TypeOK, Leave
  <2>2. CASE ~ (outcome[p] = "cancelled" /\ ~ existed[p])
    <3> DEFINE how == IF outcome[p] # "returned" THEN outcome[p]
                      ELSE IF Red(chain[p]) THEN "red" ELSE "ok"
    <3>1. how \in Exits
      BY DEF TypeOK, Outcomes, Exits
    <3>2. End(p, how) /\ UNCHANGED shared
      BY <1>7, <2>2, Zenon DEF Leave
    <3> HIDE DEF how
    <3> QED
      BY <3>1, <3>2, EndTypes DEF TypeOK
  <2> QED
    BY <1>7, <2>1, <2>2 DEF Leave
<1>8. ASSUME NEW p \in Dispatches, Remove(p) PROVE TypeOK'
  <2>1. CASE End(p, "cancelled") /\ UNCHANGED bundle
    <3>1. UNCHANGED shared
      BY <1>8, <2>1 DEF Remove
    <3> QED
      BY <2>1, <3>1, EndTypes DEF Exits, Outcomes, TypeOK
  <2>2. CASE /\ opened' = [opened EXCEPT ![p] = bundle.of]
             /\ bundle' = [bundle EXCEPT !.state = IF @ = "whole" THEN "partial" ELSE @]
             /\ pc' = [pc EXCEPT ![p] = "remove_entries"]
             /\ UNCHANGED << work, staging, local, ends >>
    <3>1. bundle' \in Bundles /\ opened' \in [Dispatches -> Dispatches \cup {Nobody, Earlier}]
      BY <2>2 DEF TypeOK, Bundles
    <3> QED
      BY <1>8, <2>2, <3>1 DEF TypeOK, Remove
  <2> QED
    BY <1>8, <2>1, <2>2 DEF Remove
<1>9. ASSUME NEW p \in Dispatches, RemoveEntries(p) PROVE TypeOK'
  BY <1>9 DEF TypeOK, RemoveEntries, Bundles
<1>10. ASSUME NEW p \in Dispatches, RemoveRoot(p) PROVE TypeOK'
  <2>1. bundle' \in Bundles
    BY <1>10 DEF TypeOK, RemoveRoot, Bundles, Absent
  <2>2. End(p, "cancelled") /\ UNCHANGED << modes, claim >>
    BY <1>10 DEF RemoveRoot
  <2> QED
    BY <2>1, <2>2, EndTypes DEF Exits, Outcomes
<1>11. ASSUME NEW p \in Dispatches, Signal(p) PROVE TypeOK'
  BY <1>11 DEF TypeOK, Outcomes, Signal
<1>12. ASSUME NEW p \in Dispatches, Kill(p) PROVE TypeOK'
  BY <1>12, EndTypes DEF Kill, Exits, TypeOK
<1>13. CASE UNCHANGED vars
  BY <1>13 DEF vars, TypeOK
<1> QED
  BY <1>1, <1>2, <1>3, <1>4, <1>5, <1>6, <1>7, <1>8, <1>9, <1>10, <1>11, <1>12,
     <1>13 DEF Next, Run, Ended

(* Every reachable state is well typed, for any set of dispatches: the     *)
(* Stage loop never gets past the four Stages and a skip carries one of    *)
(* the typed codes.                                                        *)
THEOREM TypeCorrect == Spec => []TypeOK
  BY TypeInit, TypeStep, PTL DEF Spec

-----------------------------------------------------------------------------
(* One dispatcher at a time.                                               *)

LEMMA ClaimInit == Init => ClaimInv
  BY DEF Init, ClaimInv, Claiming, InFinally

LEMMA ClaimStep ==
  ASSUME TypeOK, ClaimInv, [Next]_vars
  PROVE  ClaimInv'
<1> USE NamesAreFresh DEF TypeOK, ClaimInv, At, Goto, End, Fail, Outcomes, Exits, Claiming, InTry, InFinally,
                          shared, files, local, ends, Nobody
<1>1. ASSUME NEW p \in Dispatches, Start(p) PROVE ClaimInv'
  BY <1>1 DEF Start
<1>2. ASSUME NEW p \in Dispatches, Check(p) PROVE ClaimInv'
  BY <1>2 DEF Check
<1>3. ASSUME NEW p \in Dispatches, Claim(p) PROVE ClaimInv'
  BY <1>3 DEF Claim
<1>4. ASSUME NEW p \in Dispatches, NoteClaim(p) PROVE ClaimInv'
  BY <1>4 DEF NoteClaim
<1>5. ASSUME NEW p \in Dispatches, MakeWork(p) \/ MakeStaging(p) PROVE ClaimInv'
  BY <1>5 DEF MakeWork, MakeStaging
<1>6. ASSUME NEW p \in Dispatches, RunStage(p) \/ Assemble(p) PROVE ClaimInv'
  BY <1>6 DEF RunStage, Assemble
<1>7. ASSUME NEW p \in Dispatches, Publish(p) \/ Break(p) PROVE ClaimInv'
  BY <1>7 DEF Publish, Break
<1>8. ASSUME NEW p \in Dispatches, DropWork(p) \/ DropStaging(p) PROVE ClaimInv'
  BY <1>8 DEF DropWork, DropStaging
<1>9. ASSUME NEW p \in Dispatches, DropClaim(p) PROVE ClaimInv'
  BY <1>9 DEF DropClaim
<1>10. ASSUME NEW p \in Dispatches, Leave(p) PROVE ClaimInv'
  BY <1>10 DEF Leave
<1>11. ASSUME NEW p \in Dispatches, Remove(p) \/ RemoveEntries(p) \/ RemoveRoot(p)
       PROVE  ClaimInv'
  BY <1>11 DEF Remove, RemoveEntries, RemoveRoot
<1>12. ASSUME NEW p \in Dispatches, Signal(p) PROVE ClaimInv'
  BY <1>12 DEF Signal
<1>13. ASSUME NEW p \in Dispatches, Kill(p) PROVE ClaimInv'
  BY <1>13 DEF Kill
<1>14. CASE UNCHANGED vars
  BY <1>14 DEF vars
<1> QED
  BY <1>1, <1>2, <1>3, <1>4, <1>5, <1>6, <1>7, <1>8, <1>9, <1>10, <1>11,
     <1>12, <1>13, <1>14 DEF Next, Run, Ended

(* One bundle root has one dispatcher: claim file and claim_acquired keep  *)
(* any number of processes apart, whichever of them fail, are cancelled or *)
(* die.                                                                    *)
THEOREM OneDispatcher == Spec => []OneDispatcherWorks
<1>1. Init => TypeOK /\ ClaimInv
  BY TypeInit, ClaimInit
<1>2. TypeOK /\ ClaimInv /\ [Next]_vars => (TypeOK /\ ClaimInv)'
  BY TypeStep, ClaimStep
<1>3. ClaimInv => OneDispatcherWorks
  BY DEF ClaimInv, OneDispatcherWorks
<1> QED
  BY <1>1, <1>2, <1>3, PTL DEF Spec

-----------------------------------------------------------------------------
(* The contract accepts every run.                                         *)

LEMMA ChainInit == Init => ChainInv
  BY DEF Init, ChainInv

LEMMA RunStageChain ==
  ASSUME TypeOK, ChainInv, NEW p \in Dispatches, RunStage(p)
  PROVE  ChainInv'
<1>1. /\ staging' = staging
      /\ pc[p] = "loop"
  BY DEF RunStage, At, files
<1>2. CASE Len(chain[p]) = StageCount /\ chain' = chain /\ pc' = [pc EXCEPT ![p] = "assemble"]
  BY <1>1, <1>2 DEF ChainInv, TypeOK, InTry
<1>3. ASSUME NEW a \in Attempts,
             Len(chain[p]) < StageCount, pc' = pc,
             \/ a \in Executions(modes[Len(chain[p]) + 1], chain[p]) /\ ~ Blocked(chain[p])
             \/ /\ Blocked(chain[p])
                /\ a = Skip(modes[Len(chain[p]) + 1], "prerequisite_blocked"),
             chain' = [chain EXCEPT ![p] = Append(@, a)]
      PROVE  ChainInv'
  <2>1. chain[p] \in Seq(Attempts) /\ Len(chain[p]) \in Nat
    BY DEF TypeOK
  <2>2. Len(chain[p]) + 1 \in Stages
    BY <1>3, <2>1 DEF Stages, StageCount
  <2>3. modes[Len(chain[p]) + 1] \in Modes
    BY <2>2, DescriptorsAreModes DEF TypeOK
  <2>4. \A i \in 1 .. Len(Append(chain[p], a)) : ValidAt(Append(chain[p], a), i)
    BY <1>3, <2>1, <2>3, AppendValid DEF ChainInv
  <2>5. chain'[p] = Append(chain[p], a) /\ \A q \in Dispatches : q # p => chain'[q] = chain[q]
    BY <1>3 DEF TypeOK
  <2> QED
    BY <1>1, <1>3, <2>4, <2>5 DEF ChainInv, InTry
<1> QED
  BY <1>2, <1>3, RunStageMoves

LEMMA ChainStep ==
  ASSUME TypeOK, ChainInv, [Next]_vars
  PROVE  ChainInv'
<1> USE DEF TypeOK, At, Goto, End, Fail, Outcomes, Exits, Places, InTry, InFinally, Removing, shared, files, local, ends
<1>1. ASSUME NEW p \in Dispatches, Start(p) \/ Check(p) \/ Claim(p) \/ NoteClaim(p)
      PROVE  ChainInv'
  BY <1>1 DEF ChainInv, Start, Check, Claim, NoteClaim
<1>2. ASSUME NEW p \in Dispatches, MakeWork(p) \/ MakeStaging(p) PROVE ChainInv'
  BY <1>2 DEF ChainInv, MakeWork, MakeStaging
<1>3. ASSUME NEW p \in Dispatches, RunStage(p) PROVE ChainInv'
  BY <1>3, RunStageChain
<1>4. ASSUME NEW p \in Dispatches, Assemble(p) \/ Break(p) PROVE ChainInv'
  BY <1>4 DEF ChainInv, Assemble, Break, Claiming
<1>5. ASSUME NEW p \in Dispatches, Publish(p) PROVE ChainInv'
  BY <1>5 DEF ChainInv, Publish
<1>6. ASSUME NEW p \in Dispatches, DropWork(p) \/ DropStaging(p) \/ DropClaim(p) \/ Leave(p)
      PROVE  ChainInv'
  <2>1. CASE DropStaging(p)
    BY <2>1, DropStagingMoves DEF ChainInv
  <2>2. CASE DropWork(p) \/ DropClaim(p)
    BY <2>2 DEF ChainInv, DropWork, DropClaim
  <2>3. CASE Leave(p)
    BY <2>3 DEF ChainInv, Leave
  <2> QED
    BY <1>6, <2>1, <2>2, <2>3
<1>7. ASSUME NEW p \in Dispatches, Remove(p) \/ RemoveEntries(p) \/ RemoveRoot(p)
      PROVE  ChainInv'
  BY <1>7 DEF ChainInv, Remove, RemoveEntries, RemoveRoot
<1>8. ASSUME NEW p \in Dispatches, Signal(p) \/ Kill(p) PROVE ChainInv'
  BY <1>8 DEF ChainInv, Signal, Kill
<1>9. CASE UNCHANGED vars
  BY <1>9 DEF vars, ChainInv
<1> QED
  BY <1>1, <1>2, <1>3, <1>4, <1>5, <1>6, <1>7, <1>8, <1>9 DEF Next, Run, Ended

(* Whatever adapters a commit selects and however they end, the result     *)
(* contract accepts the attempts that the Stage loop hands to the assembly.*)
THEOREM ContractAcceptsRuns == Spec => []AssemblyNeverRejects
<1>1. Init => TypeOK /\ ChainInv
  BY TypeInit, ChainInit
<1>2. TypeOK /\ ChainInv /\ [Next]_vars => (TypeOK /\ ChainInv)'
  BY TypeStep, ChainStep
<1>3. ChainInv => AssemblyNeverRejects
  BY DEF ChainInv, AssemblyNeverRejects, ValidResult, Stages
<1> QED
  BY <1>1, <1>2, <1>3, PTL DEF Spec

-----------------------------------------------------------------------------
(* Outcomes, what is left behind, and the bundle that was there before.    *)

LEMMA OtherInits == Init => OutcomeInv /\ TidyInv /\ SeenInv
  BY NamesAreFresh DEF Init, OutcomeInv, TidyInv, SeenInv, InTry, InFinally, Removing, Nobody

LEMMA OutcomeStep ==
  ASSUME TypeOK, ChainInv, OutcomeInv, [Next]_vars
  PROVE  OutcomeInv'
<1> USE DEF TypeOK, At, Goto, End, Fail, Outcomes, Exits, Claiming, InTry, InFinally, Removing, shared, files,
            local, ends, ChainInv
<1>1. ASSUME NEW p \in Dispatches, Start(p) PROVE OutcomeInv'
  BY <1>1 DEF OutcomeInv, Start
<1>2. ASSUME NEW p \in Dispatches, Check(p) PROVE OutcomeInv'
  BY <1>2 DEF OutcomeInv, Check
<1>3. ASSUME NEW p \in Dispatches, Claim(p) PROVE OutcomeInv'
  BY <1>3 DEF OutcomeInv, Claim
<1>4. ASSUME NEW p \in Dispatches, NoteClaim(p) PROVE OutcomeInv'
  BY <1>4 DEF OutcomeInv, NoteClaim
<1>5. ASSUME NEW p \in Dispatches, MakeWork(p) \/ MakeStaging(p) PROVE OutcomeInv'
  BY <1>5 DEF OutcomeInv, MakeWork, MakeStaging
<1>6. ASSUME NEW p \in Dispatches, RunStage(p) PROVE OutcomeInv'
  BY <1>6 DEF OutcomeInv, RunStage
<1>7. ASSUME NEW p \in Dispatches, Assemble(p) PROVE OutcomeInv'
  BY <1>7 DEF OutcomeInv, Assemble
<1>8. ASSUME NEW p \in Dispatches, Publish(p) PROVE OutcomeInv'
  <2>1. CASE bundle.state \in {"absent", "empty"}
    <3>1. /\ staging' = [staging EXCEPT ![p] = "moved"] /\ exit' = exit
          /\ \E how \in {"returned", "untold"} : outcome' = [outcome EXCEPT ![p] = how]
          /\ pc' = [pc EXCEPT ![p] = "drop_work"]
      BY <1>8, <2>1 DEF Publish
    <3> QED
      BY <3>1 DEF OutcomeInv
  <2>2. CASE bundle.state \notin {"absent", "empty"}
    <3>1. staging[p] # "moved" /\ staging' = staging /\ outcome'[p] = "invalid"
          /\ pc'[p] = "drop_work" /\ exit' = exit
      BY <1>8, <2>2 DEF Publish
    <3>2. \A q \in Dispatches : q # p => pc'[q] = pc[q] /\ outcome'[q] = outcome[q]
      BY <1>8, <2>2 DEF Publish
    <3> QED
      BY <3>1, <3>2 DEF OutcomeInv
  <2> QED
    BY <2>1, <2>2
<1>9. ASSUME NEW p \in Dispatches, Break(p) PROVE OutcomeInv'
  BY <1>9 DEF OutcomeInv, Break
<1>10. ASSUME NEW p \in Dispatches, DropWork(p) PROVE OutcomeInv'
  <2>1. PICK left \in {"none", "made", "stuck"} :
          /\ exit[p] = "none" /\ pc[p] = "drop_work"
          /\ pc' = [pc EXCEPT ![p] = "drop_staging"]
          /\ UNCHANGED << staging, outcome, exit >>
    BY <1>10, DropWorkMoves
  <2> QED
    BY <2>1 DEF OutcomeInv
<1>11. ASSUME NEW p \in Dispatches, DropStaging(p) PROVE OutcomeInv'
  BY <1>11, DropStagingMoves DEF OutcomeInv
<1>12. ASSUME NEW p \in Dispatches, DropClaim(p) PROVE OutcomeInv'
  BY <1>12 DEF OutcomeInv, DropClaim
<1>13. ASSUME NEW p \in Dispatches, Leave(p) PROVE OutcomeInv'
  BY <1>13 DEF OutcomeInv, Leave
<1>14. ASSUME NEW p \in Dispatches, Remove(p) \/ RemoveEntries(p) \/ RemoveRoot(p) PROVE OutcomeInv'
  BY <1>14 DEF OutcomeInv, Remove, RemoveEntries, RemoveRoot
<1>15. ASSUME NEW p \in Dispatches, Signal(p) PROVE OutcomeInv'
  BY <1>15 DEF OutcomeInv, Signal
<1>16. ASSUME NEW p \in Dispatches, Kill(p) PROVE OutcomeInv'
  BY <1>16 DEF OutcomeInv, Kill
<1>17. CASE UNCHANGED vars
  BY <1>17 DEF vars, OutcomeInv
<1> QED
  BY <1>1, <1>2, <1>3, <1>4, <1>5, <1>6, <1>7, <1>8,
     <1>9, <1>10, <1>11, <1>12, <1>13, <1>14, <1>15, <1>16, <1>17 DEF Next, Run, Ended

LEMMA TidyStep ==
  ASSUME TypeOK, ClaimInv, OutcomeInv, TidyInv, [Next]_vars
  PROVE  TidyInv'
<1> USE DEF TypeOK, At, Goto, End, Fail, Outcomes, Exits, Claiming, InTry, InFinally, Removing, shared, files,
            local, ends, ClaimInv, OutcomeInv, Nobody
<1>1. ASSUME NEW p \in Dispatches, Start(p) PROVE TidyInv'
  BY <1>1 DEF TidyInv, Start
<1>2. ASSUME NEW p \in Dispatches, Check(p) PROVE TidyInv'
  <2>1. claim # p /\ work[p] = "none" /\ staging[p] = "none" /\ pc[p] = "check"
    BY <1>2 DEF TidyInv, Check
  <2>2. UNCHANGED << claim, work, staging, acquired, exit >>
    BY <1>2 DEF Check
  <2> QED
    BY <1>2, <2>1, <2>2 DEF TidyInv, Check
<1>3. ASSUME NEW p \in Dispatches, Claim(p) PROVE TidyInv'
  BY <1>3 DEF TidyInv, Claim
<1>4. ASSUME NEW p \in Dispatches, NoteClaim(p) PROVE TidyInv'
  BY <1>4 DEF TidyInv, NoteClaim
<1>5. ASSUME NEW p \in Dispatches, MakeWork(p) \/ MakeStaging(p) PROVE TidyInv'
  BY <1>5 DEF TidyInv, MakeWork, MakeStaging
<1>6. ASSUME NEW p \in Dispatches, RunStage(p) PROVE TidyInv'
  BY <1>6 DEF TidyInv, RunStage
<1>7. ASSUME NEW p \in Dispatches, Assemble(p) PROVE TidyInv'
  BY <1>7 DEF TidyInv, Assemble
<1>8. ASSUME NEW p \in Dispatches, Publish(p) PROVE TidyInv'
  <2>1. acquired[p] /\ claim = p /\ work[p] # "made" /\ pc'[p] = "drop_work"
    BY <1>8 DEF TidyInv, Publish
  <2>2. staging[p] # "made" /\ staging'[p] \in {staging[p], "moved"}
    <3>1. staging' = staging \/ staging' = [staging EXCEPT ![p] = "moved"]
      BY <1>8 DEF Publish
    <3>2. outcome[p] = "none" /\ pc[p] = "publish" /\ exit[p] = "none"
      BY <1>8 DEF Publish
    <3> QED
      BY <3>1, <3>2 DEF TidyInv
  <2>3. \A q \in Dispatches : q # p =>
          /\ UNCHANGED << work[q], staging[q], acquired[q], exit[q] >>
          /\ pc'[q] = pc[q] /\ outcome'[q] = outcome[q]
    BY <1>8 DEF Publish
  <2>4. UNCHANGED << claim, work, acquired, exit >>
    BY <1>8 DEF Publish
  <2> QED
    BY <2>1, <2>2, <2>3, <2>4 DEF TidyInv
<1>9. ASSUME NEW p \in Dispatches, Break(p) PROVE TidyInv'
  BY <1>9 DEF TidyInv, Break
<1>10. ASSUME NEW p \in Dispatches, DropWork(p) PROVE TidyInv'
  <2>1. PICK left \in {"none", "made", "stuck"} :
          /\ exit[p] = "none" /\ pc[p] = "drop_work"
          /\ work' = [work EXCEPT ![p] = left]
          /\ left = "made" => work[p] = "made"
          /\ pc' = [pc EXCEPT ![p] = "drop_staging"]
          /\ UNCHANGED << claim, staging, acquired, outcome, exit >>
    BY <1>10, DropWorkMoves
  <2>2. work'[p] = left /\ pc'[p] = "drop_staging"
    BY <2>1
  <2>3. \A q \in Dispatches : q # p => work'[q] = work[q] /\ pc'[q] = pc[q]
    BY <2>1
  <2> QED
    BY <2>1, <2>2, <2>3 DEF TidyInv
<1>11. ASSUME NEW p \in Dispatches, DropStaging(p) PROVE TidyInv'
  <2>1. PICK left \in {"none", "made", "stuck", "moved"} :
          /\ exit[p] = "none" /\ pc[p] = "drop_staging"
          /\ staging' = [staging EXCEPT ![p] = left]
          /\ left = "made" => staging[p] = "made"
          /\ pc' = [pc EXCEPT ![p] = "drop_claim"]
          /\ UNCHANGED << claim, work, acquired, outcome, exit >>
    BY <1>11, DropStagingMoves
  <2>2. staging'[p] = left /\ pc'[p] = "drop_claim"
    BY <2>1
  <2>3. \A q \in Dispatches : q # p => staging'[q] = staging[q] /\ pc'[q] = pc[q]
    BY <2>1
  <2> QED
    BY <2>1, <2>2, <2>3 DEF TidyInv
<1>12. ASSUME NEW p \in Dispatches, DropClaim(p) PROVE TidyInv'
  <2>1. outcome'[p] \notin {"cancelled", "unreleased"} => claim' # p
    BY <1>12, NamesAreFresh DEF TidyInv, DropClaim
  <2> QED
    BY <1>12, <2>1, NamesAreFresh DEF TidyInv, DropClaim
<1>13. ASSUME NEW p \in Dispatches, Leave(p) PROVE TidyInv'
  BY <1>13 DEF TidyInv, Leave
<1>14. ASSUME NEW p \in Dispatches, Remove(p) \/ RemoveEntries(p) \/ RemoveRoot(p) PROVE TidyInv'
  BY <1>14 DEF TidyInv, Remove, RemoveEntries, RemoveRoot
<1>15. ASSUME NEW p \in Dispatches, Signal(p) PROVE TidyInv'
  BY <1>15 DEF TidyInv, Signal
<1>16. ASSUME NEW p \in Dispatches, Kill(p) PROVE TidyInv'
  BY <1>16 DEF TidyInv, Kill
<1>17. CASE UNCHANGED vars
  BY <1>17 DEF vars, TidyInv
<1> QED
  BY <1>1, <1>2, <1>3, <1>4, <1>5, <1>6, <1>7, <1>8,
     <1>9, <1>10, <1>11, <1>12, <1>13, <1>14, <1>15, <1>16, <1>17 DEF Next, Run, Ended

LEMMA SeenStep ==
  ASSUME TypeOK, OutcomeInv, SeenInv, [Next]_vars
  PROVE  SeenInv'
<1> USE DEF TypeOK, At, Goto, End, Fail, Outcomes, Exits, Claiming, InTry, InFinally, Removing, shared, files,
            local, ends, Whole, Absent, Earlier
<1>1. ASSUME NEW p \in Dispatches, Start(p) PROVE SeenInv'
  <2>1. bundle = Whole(Earlier) => existed'[p]
    <3>1. Whole(Earlier) # Absent
      BY DEF Whole, Absent
    <3>2. existed' = [existed EXCEPT ![p] = bundle # Absent]
      BY <1>1 DEF Start
    <3>3. bundle = Whole(Earlier) => existed'[p] = TRUE
      BY <3>1, <3>2, Zenon
    <3> QED
      BY <3>3
  <2>2. \A q \in Dispatches : q # p => existed'[q] = existed[q] /\ pc'[q] = pc[q]
    BY <1>1 DEF Start
  <2>3. UNCHANGED << bundle, exit >> /\ pc'[p] = "check"
    BY <1>1 DEF Start
  <2> QED
    BY <2>1, <2>2, <2>3 DEF SeenInv
<1>2. ASSUME NEW p \in Dispatches, Check(p) PROVE SeenInv'
  BY <1>2 DEF SeenInv, Check
<1>3. ASSUME NEW p \in Dispatches, Claim(p) PROVE SeenInv'
  BY <1>3 DEF SeenInv, Claim
<1>4. ASSUME NEW p \in Dispatches, NoteClaim(p) PROVE SeenInv'
  BY <1>4 DEF SeenInv, NoteClaim
<1>5. ASSUME NEW p \in Dispatches, MakeWork(p) \/ MakeStaging(p) PROVE SeenInv'
  BY <1>5 DEF SeenInv, MakeWork, MakeStaging
<1>6. ASSUME NEW p \in Dispatches, RunStage(p) PROVE SeenInv'
  BY <1>6 DEF SeenInv, RunStage
<1>7. ASSUME NEW p \in Dispatches, Assemble(p) PROVE SeenInv'
  BY <1>7 DEF SeenInv, Assemble
<1>8. ASSUME NEW p \in Dispatches, Publish(p) PROVE SeenInv'
  BY <1>8, NamesAreFresh DEF SeenInv, Publish
<1>9. ASSUME NEW p \in Dispatches, Break(p) PROVE SeenInv'
  BY <1>9 DEF SeenInv, Break
<1>10. ASSUME NEW p \in Dispatches, DropWork(p) PROVE SeenInv'
  BY <1>10, DropWorkMoves DEF SeenInv
<1>11. ASSUME NEW p \in Dispatches, DropStaging(p) PROVE SeenInv'
  BY <1>11, DropStagingMoves DEF SeenInv
<1>12. ASSUME NEW p \in Dispatches, DropClaim(p) PROVE SeenInv'
  <2>1. UNCHANGED << bundle, existed, exit >> /\ pc' = [pc EXCEPT ![p] = "leave"]
        /\ pc[p] = "drop_claim"
    BY <1>12 DEF DropClaim
  <2> QED
    BY <2>1 DEF SeenInv
<1>13. ASSUME NEW p \in Dispatches, Leave(p) PROVE SeenInv'
  <2>1. outcome[p] # "none"
    BY <1>13 DEF OutcomeInv, Leave
  <2>2. exit'[p] # "none" \/ existed'[p] = existed[p]
    BY <1>13, <2>1 DEF Leave
  <2> QED
    BY <1>13, <2>2 DEF SeenInv, Leave
<1>14. ASSUME NEW p \in Dispatches, Remove(p) \/ RemoveEntries(p) \/ RemoveRoot(p) PROVE SeenInv'
  <2>1. existed[p] = FALSE /\ exit[p] = "none" /\ pc[p] \in Removing
    BY <1>14 DEF SeenInv, Remove, RemoveEntries, RemoveRoot
  <2>2. bundle # Whole(Earlier)
    BY <2>1 DEF SeenInv
  <2>3. bundle' # Whole(Earlier)
    BY <1>14, <2>2 DEF Remove, RemoveEntries, RemoveRoot
  <2>4. \A q \in Dispatches : q # p =>
          existed'[q] = existed[q] /\ pc'[q] = pc[q] /\ exit'[q] = exit[q]
    BY <1>14 DEF Remove, RemoveEntries, RemoveRoot
  <2>5. exit'[p] = "cancelled" \/ existed'[p] = FALSE
    BY <1>14, <2>1 DEF Remove, RemoveEntries, RemoveRoot
  <2> QED
    BY <2>3, <2>4, <2>5 DEF SeenInv
<1>15. ASSUME NEW p \in Dispatches, Signal(p) PROVE SeenInv'
  BY <1>15 DEF SeenInv, Signal
<1>16. ASSUME NEW p \in Dispatches, Kill(p) PROVE SeenInv'
  BY <1>16 DEF SeenInv, Kill
<1>17. CASE UNCHANGED vars
  BY <1>17 DEF vars, SeenInv
<1> QED
  BY <1>1, <1>2, <1>3, <1>4, <1>5, <1>6, <1>7, <1>8,
     <1>9, <1>10, <1>11, <1>12, <1>13, <1>14, <1>15, <1>16, <1>17 DEF Next, Run, Ended

LEMMA ExitStep ==
  ASSUME TypeOK, OutcomeInv, ChainInv, ExitTellsTheResult, [Next]_vars
  PROVE  ExitTellsTheResult'
<1> USE DEF TypeOK, At, Goto, End, Fail, Outcomes, Exits, Claiming, InTry, InFinally, Removing, shared, files,
            local, ends, OutcomeInv, ChainInv
<1>1. ASSUME NEW p \in Dispatches, Start(p) PROVE ExitTellsTheResult'
  BY <1>1 DEF ExitTellsTheResult, Start
<1>2. ASSUME NEW p \in Dispatches, Check(p) PROVE ExitTellsTheResult'
  BY <1>2 DEF ExitTellsTheResult, Check
<1>3. ASSUME NEW p \in Dispatches, Claim(p) PROVE ExitTellsTheResult'
  BY <1>3 DEF ExitTellsTheResult, Claim
<1>4. ASSUME NEW p \in Dispatches, NoteClaim(p) PROVE ExitTellsTheResult'
  BY <1>4 DEF ExitTellsTheResult, NoteClaim
<1>5. ASSUME NEW p \in Dispatches, MakeWork(p) \/ MakeStaging(p) PROVE ExitTellsTheResult'
  BY <1>5 DEF ExitTellsTheResult, MakeWork, MakeStaging
<1>6. ASSUME NEW p \in Dispatches, RunStage(p) PROVE ExitTellsTheResult'
  BY <1>6 DEF ExitTellsTheResult, RunStage
<1>7. ASSUME NEW p \in Dispatches, Assemble(p) PROVE ExitTellsTheResult'
  BY <1>7 DEF ExitTellsTheResult, Assemble
<1>8. ASSUME NEW p \in Dispatches, Publish(p) PROVE ExitTellsTheResult'
  BY <1>8 DEF ExitTellsTheResult, Publish
<1>9. ASSUME NEW p \in Dispatches, Break(p) PROVE ExitTellsTheResult'
  BY <1>9 DEF ExitTellsTheResult, Break
<1>10. ASSUME NEW p \in Dispatches, DropWork(p) PROVE ExitTellsTheResult'
  BY <1>10, DropWorkMoves DEF ExitTellsTheResult
<1>11. ASSUME NEW p \in Dispatches, DropStaging(p) PROVE ExitTellsTheResult'
  BY <1>11, DropStagingMoves DEF ExitTellsTheResult
<1>12. ASSUME NEW p \in Dispatches, DropClaim(p) PROVE ExitTellsTheResult'
  BY <1>12 DEF ExitTellsTheResult, DropClaim
<1>13. ASSUME NEW p \in Dispatches, Leave(p) PROVE ExitTellsTheResult'
  BY <1>13 DEF ExitTellsTheResult, Leave
<1>14. ASSUME NEW p \in Dispatches, Remove(p) \/ RemoveEntries(p) \/ RemoveRoot(p) PROVE ExitTellsTheResult'
  BY <1>14 DEF ExitTellsTheResult, Remove, RemoveEntries, RemoveRoot
<1>15. ASSUME NEW p \in Dispatches, Signal(p) PROVE ExitTellsTheResult'
  BY <1>15 DEF ExitTellsTheResult, Signal
<1>16. ASSUME NEW p \in Dispatches, Kill(p) PROVE ExitTellsTheResult'
  BY <1>16 DEF ExitTellsTheResult, Kill
<1>17. CASE UNCHANGED vars
  BY <1>17 DEF vars, ExitTellsTheResult
<1> QED
  BY <1>1, <1>2, <1>3, <1>4, <1>5, <1>6, <1>7, <1>8,
     <1>9, <1>10, <1>11, <1>12, <1>13, <1>14, <1>15, <1>16, <1>17 DEF Next, Run, Ended

LEMMA LeavesStep ==
  ASSUME TypeOK, ClaimInv, OutcomeInv, TidyInv, UncancelledLeavesNothing, [Next]_vars
  PROVE  UncancelledLeavesNothing'
<1> USE DEF TypeOK, At, Goto, End, Fail, Outcomes, Exits, Claiming, InTry, InFinally, Removing, shared, files,
            local, ends, ClaimInv, OutcomeInv, TidyInv, Nobody
<1>1. ASSUME NEW p \in Dispatches, Start(p) PROVE UncancelledLeavesNothing'
  BY <1>1 DEF UncancelledLeavesNothing, Start
<1>2. ASSUME NEW p \in Dispatches, Check(p) PROVE UncancelledLeavesNothing'
  BY <1>2 DEF UncancelledLeavesNothing, Check
<1>3. ASSUME NEW p \in Dispatches, Claim(p) PROVE UncancelledLeavesNothing'
  BY <1>3 DEF UncancelledLeavesNothing, Claim
<1>4. ASSUME NEW p \in Dispatches, NoteClaim(p) PROVE UncancelledLeavesNothing'
  BY <1>4 DEF UncancelledLeavesNothing, NoteClaim
<1>5. ASSUME NEW p \in Dispatches, MakeWork(p) \/ MakeStaging(p) PROVE UncancelledLeavesNothing'
  BY <1>5 DEF UncancelledLeavesNothing, MakeWork, MakeStaging
<1>6. ASSUME NEW p \in Dispatches, RunStage(p) PROVE UncancelledLeavesNothing'
  BY <1>6 DEF UncancelledLeavesNothing, RunStage
<1>7. ASSUME NEW p \in Dispatches, Assemble(p) PROVE UncancelledLeavesNothing'
  BY <1>7 DEF UncancelledLeavesNothing, Assemble
<1>8. ASSUME NEW p \in Dispatches, Publish(p) PROVE UncancelledLeavesNothing'
  BY <1>8 DEF UncancelledLeavesNothing, Publish
<1>9. ASSUME NEW p \in Dispatches, Break(p) PROVE UncancelledLeavesNothing'
  BY <1>9 DEF UncancelledLeavesNothing, Break
<1>10. ASSUME NEW p \in Dispatches, DropWork(p) PROVE UncancelledLeavesNothing'
  BY <1>10, DropWorkMoves DEF UncancelledLeavesNothing
<1>11. ASSUME NEW p \in Dispatches, DropStaging(p) PROVE UncancelledLeavesNothing'
  BY <1>11, DropStagingMoves DEF UncancelledLeavesNothing
<1>12. ASSUME NEW p \in Dispatches, DropClaim(p) PROVE UncancelledLeavesNothing'
  BY <1>12, NamesAreFresh DEF UncancelledLeavesNothing, DropClaim
<1>13. ASSUME NEW p \in Dispatches, Leave(p) PROVE UncancelledLeavesNothing'
  BY <1>13 DEF UncancelledLeavesNothing, Leave
<1>14. ASSUME NEW p \in Dispatches, Remove(p) \/ RemoveEntries(p) \/ RemoveRoot(p) PROVE UncancelledLeavesNothing'
  BY <1>14 DEF UncancelledLeavesNothing, Remove, RemoveEntries, RemoveRoot
<1>15. ASSUME NEW p \in Dispatches, Signal(p) PROVE UncancelledLeavesNothing'
  BY <1>15 DEF UncancelledLeavesNothing, Signal
<1>16. ASSUME NEW p \in Dispatches, Kill(p) PROVE UncancelledLeavesNothing'
  BY <1>16 DEF UncancelledLeavesNothing, Kill
<1>17. CASE UNCHANGED vars
  BY <1>17 DEF vars, UncancelledLeavesNothing
<1> QED
  BY <1>1, <1>2, <1>3, <1>4, <1>5, <1>6, <1>7, <1>8,
     <1>9, <1>10, <1>11, <1>12, <1>13, <1>14, <1>15, <1>16, <1>17 DEF Next, Run, Ended

RunInv == IInv /\ ExitTellsTheResult /\ UncancelledLeavesNothing

LEMMA RunInit == Init => RunInv
  BY TypeInit, ClaimInit, ChainInit, OtherInits
     DEF RunInv, IInv, ExitTellsTheResult, UncancelledLeavesNothing, Init

LEMMA RunStep == RunInv /\ [Next]_vars => RunInv'
  BY TypeStep, ClaimStep, ChainStep, OutcomeStep, TidyStep, SeenStep, ExitStep,
     LeavesStep DEF RunInv, IInv

(* The exit status of a dispatch tells whether it published and in which   *)
(* colour, though a signal may still turn a published run into a           *)
(* cancelled one.                                                          *)
THEOREM ExitIsTrue == Spec => []ExitTellsTheResult
  BY RunInit, RunStep, PTL DEF Spec, RunInv

(* Without a signal nothing stays behind but what the file system would    *)
(* not let go: no directory of the dispatch whose removal was not tried,   *)
(* and no claim that would refuse the next one, whatever failed before.    *)
THEOREM NothingLeftBehind == Spec => []UncancelledLeavesNothing
  BY RunInit, RunStep, PTL DEF Spec, RunInv

(* Only a cancelled process removes a bundle, and only Publish creates     *)
(* one, where there is none.                                               *)
LEMMA BundleMoves ==
  ASSUME RunInv, [Next]_vars, bundle' # bundle
  PROVE  \E p \in Dispatches :
           \/ /\ Publish(p) /\ bundle.state \in {"absent", "empty"}
              /\ bundle' = Whole(p)
           \/ /\ exit[p] = "none" /\ pc[p] \in Removing /\ ~ existed[p]
              /\ Remove(p) \/ RemoveEntries(p) \/ RemoveRoot(p)
<1> USE DEF End, shared, files, local, ends
<1>1. ASSUME NEW p \in Dispatches, Run(p) PROVE Publish(p) \/ Remove(p) \/ RemoveEntries(p) \/ RemoveRoot(p)
  BY <1>1 DEF Run, Start, Check, Claim, NoteClaim, MakeWork, MakeStaging, RunStage, Assemble,
     Break, DropWork, DropStaging, DropClaim, Leave
<1>2. ASSUME NEW p \in Dispatches, Publish(p)
      PROVE  bundle.state \in {"absent", "empty"} /\ bundle' = Whole(p)
  BY <1>2 DEF Publish
<1>3. ASSUME NEW p \in Dispatches, Remove(p) \/ RemoveEntries(p) \/ RemoveRoot(p)
      PROVE  exit[p] = "none" /\ pc[p] \in Removing /\ ~ existed[p]
  <2>1. exit[p] = "none" /\ pc[p] \in Removing
    BY <1>3 DEF Remove, RemoveEntries, RemoveRoot, At, Removing
  <2> QED
    BY <2>1 DEF RunInv, IInv, SeenInv
<1>4. ~ UNCHANGED vars /\ \A p \in Dispatches : ~ Signal(p) /\ ~ Kill(p)
  BY DEF vars, Signal, Kill
<1> QED
  BY <1>1, <1>2, <1>3, <1>4 DEF Next, Ended

(* A bundle that stood before the dispatches is never touched.             *)
THEOREM EarlierBundleIsSafe == Spec => EarlierBundleStays
<1>1. ASSUME RunInv, [Next]_vars PROVE [bundle # Whole(Earlier)]_bundle
  <2> SUFFICES ASSUME bundle = Whole(Earlier), bundle' # bundle PROVE FALSE
    OBVIOUS
  <2>1. PICK p \in Dispatches : exit[p] = "none" /\ pc[p] \in Removing /\ ~ existed[p]
    BY <1>1, BundleMoves DEF Whole
  <2> QED
    BY <1>1, <2>1 DEF RunInv, IInv, SeenInv, Removing
<1> QED
  BY <1>1, RunInit, RunStep, PTL DEF Spec, EarlierBundleStays

(* A whole bundle, or one half removed, is never replaced by another.      *)
THEOREM NoReplacement == Spec => NothingIsReplaced
<1>1. ASSUME RunInv, [Next]_vars
      PROVE  [bundle.state \in {"whole", "partial"} => bundle'.of = bundle.of]_bundle
  <2> SUFFICES ASSUME bundle.state \in {"whole", "partial"}, bundle' # bundle
               PROVE  bundle'.of = bundle.of
    OBVIOUS
  <2>1. PICK p \in Dispatches : Remove(p) \/ RemoveEntries(p) \/ RemoveRoot(p)
    BY <1>1, BundleMoves
  <2> QED
    BY <1>1, <2>1 DEF RunInv, IInv, TypeOK, Bundles, Remove, RemoveEntries, RemoveRoot, Absent
<1> QED
  BY <1>1, RunInit, RunStep, PTL DEF Spec, NothingIsReplaced

-----------------------------------------------------------------------------
(* Each dispatch keeps the promise of a run.                               *)

(* The contract that RunPromise speaks of is the one of this module.       *)
LEMMA SameContract ==
  ASSUME NEW p \in Dispatches
  PROVE  /\ Promise(p)!StageCount = StageCount /\ Promise(p)!Stages = Stages
         /\ Promise(p)!Attempts = Attempts
         /\ \A a : Promise(p)!ValidAttempt(a) <=> ValidAttempt(a)
         /\ \A c : Promise(p)!Blocked(c) <=> Blocked(c)
         /\ \A c : Promise(p)!ValidResult(c) <=> ValidResult(c)
         /\ \A c : Promise(p)!Red(c) <=> Red(c)
  BY DEF Promise!StageCount, StageCount, Promise!Stages, Stages, Promise!Attempts, Attempts,
         Promise!Modes, Modes, Promise!SkipCodes, SkipCodes, Promise!InitialSkipCodes,
         InitialSkipCodes, Promise!ValidAttempt, ValidAttempt, Promise!Blocked, Blocked,
         Promise!Blocks, Blocks, Promise!ValidResult, ValidResult, Promise!ValidAt, ValidAt,
         Promise!Open, Open, Promise!Producers, Producers, Promise!Red, Red, Promise!Judges,
         Judges, Promise!RedCodes, RedCodes

LEMMA PromiseInit == Init => \A p \in Dispatches : Promise(p)!Init
  BY DEF Init, Promise!Init, Colour

LEMMA PromiseStep ==
  ASSUME RunInv, [Next]_vars, NEW p \in Dispatches
  PROVE  [Promise(p)!Next]_(Promise(p)!vars)
<1> USE DEF End, shared, files, local, ends
<1>1. ASSUME NEW q \in Dispatches, RunStage(q), chain' # chain
      PROVE  [Promise(p)!Next]_(Promise(p)!vars)
  <2>1. PICK a \in Attempts :
          /\ chain' = [chain EXCEPT ![q] = Append(@, a)]
          /\ Len(chain[q]) < StageCount
          /\ \/ a \in Executions(modes[Len(chain[q]) + 1], chain[q]) /\ ~ Blocked(chain[q])
             \/ /\ Blocked(chain[q])
                /\ a = Skip(modes[Len(chain[q]) + 1], "prerequisite_blocked")
    BY <1>1, RunStageMoves DEF RunInv, IInv
  <2>2. staging' = staging /\ pc[q] = "loop"
    BY <1>1 DEF RunStage, At
  <2>3. CASE q = p
    <3>1. staging[p] # "moved"
      BY <2>2, <2>3 DEF RunInv, IInv, ChainInv, InTry
    <3>2. Colour(p) = "none" /\ Colour(p)' = "none"
      BY <2>2, <3>1 DEF Colour
    <3>3. chain'[p] = Append(chain[p], a)
      BY <2>1, <2>3 DEF RunInv, IInv, TypeOK
    <3>4. chain[p] \in Seq(Attempts) /\ Len(chain[p]) + 1 \in Stages
      BY <2>1, <2>3 DEF RunInv, IInv, TypeOK, Stages, StageCount
    <3>5. modes[Len(chain[p]) + 1] \in Modes
      BY <3>4, DescriptorsAreModes DEF RunInv, IInv, TypeOK
    <3>6. ValidAttempt(a)
      BY <2>1, <2>3, <3>4, <3>5, AppendValid DEF RunInv, IInv, ChainInv
    <3>7. Blocked(chain[p]) <=> a.code = "prerequisite_blocked"
      BY <2>1, <2>3, <3>5, ExecutionTypes DEF Skip
    <3>8. Promise(p)!Attempt
      BY <2>1, <2>3, <3>2, <3>3, <3>6, <3>7, SameContract DEF Promise!Attempt
    <3> QED
      BY <3>8 DEF Promise!Next
  <2>4. CASE q # p
    BY <2>1, <2>2, <2>4 DEF Promise!vars, Colour, RunInv, IInv, TypeOK
  <2> QED
    BY <2>3, <2>4
<1>2. ASSUME NEW q \in Dispatches, Publish(q), staging' # staging
      PROVE  [Promise(p)!Next]_(Promise(p)!vars)
  <2>1. staging' = [staging EXCEPT ![q] = "moved"] /\ chain' = chain /\ pc[q] = "publish"
    BY <1>2 DEF Publish, At
  <2>2. CASE q = p
    <3>1. staging[p] # "moved" /\ ValidResult(chain[p])
      BY <2>1, <2>2 DEF RunInv, IInv, ChainInv, InTry, ValidResult, Stages
    <3>2. Colour(p) = "none" /\ Colour(p)' = IF Red(chain'[p]) THEN "red" ELSE "green"
      BY <2>1, <2>2, <3>1 DEF Colour, RunInv, IInv, TypeOK
    <3>3. \A i \in Stages : chain[p][i] \in Attempts /\ ~ (i > Len(chain[p]))
      <4>1. chain[p] \in Seq(Attempts) /\ Len(chain[p]) = 4
        BY <3>1 DEF RunInv, IInv, TypeOK, ValidResult, StageCount
      <4> QED
        BY <4>1 DEF Stages, StageCount
    <3>4. Promise(p)!Publish
      BY <2>1, <2>2, <3>1, <3>2, <3>3, SameContract DEF Promise!Publish, ValidResult
    <3> QED
      BY <3>4 DEF Promise!Next
  <2>3. CASE q # p
    BY <2>1, <2>3 DEF Promise!vars, Colour, RunInv, IInv, TypeOK
  <2> QED
    BY <2>2, <2>3
<1>3. CASE chain' = chain /\ Colour(p)' = Colour(p)
  BY <1>3 DEF Promise!vars
<1>4. ASSUME NEW q \in Dispatches, Run(q), ~ RunStage(q), ~ Publish(q)
      PROVE  chain' = chain
  BY <1>4 DEF Run, Start, Check, Claim, NoteClaim, MakeWork, MakeStaging, Assemble,
     Break, DropWork, DropStaging, DropClaim, Leave, Remove, RemoveEntries, RemoveRoot
<1>5. ASSUME NEW q \in Dispatches, Run(q), ~ RunStage(q), ~ Publish(q)
      PROVE  staging'[p] = staging[p] \/ (staging[p] # "moved" /\ staging'[p] # "moved")
  <2>1. CASE MakeStaging(q)
    <3>1. staging[q] # "moved"
      BY <2>1 DEF MakeStaging, At, RunInv, IInv, ChainInv, InTry
    <3>2. \E how \in {"made", "known"} : staging' = [staging EXCEPT ![q] = how]
      BY <2>1 DEF MakeStaging
    <3> QED
      BY <3>1, <3>2 DEF RunInv, IInv, TypeOK
  <2>2. CASE DropStaging(q)
    BY <2>2, DropStagingMoves DEF RunInv, IInv, TypeOK
  <2>3. CASE ~ MakeStaging(q) /\ ~ DropStaging(q)
    BY <2>3, <1>5 DEF Run, Start, Check, Claim, NoteClaim, MakeWork, Assemble,
       Break, DropWork, DropClaim, Leave, Remove, RemoveEntries, RemoveRoot
  <2> QED
    BY <2>1, <2>2, <2>3
<1>6. ASSUME chain' = chain, staging'[p] = staging[p] \/ (staging[p] # "moved" /\ staging'[p] # "moved")
      PROVE  Colour(p)' = Colour(p)
  BY <1>6 DEF Colour
<1>7. ASSUME NEW q \in Dispatches, Signal(q) \/ Kill(q)
      PROVE  chain' = chain /\ staging' = staging
  BY <1>7 DEF Signal, Kill
<1>8. ASSUME NEW q \in Dispatches, Publish(q), staging' = staging
      PROVE  chain' = chain
  BY <1>8 DEF Publish
<1>9. ASSUME NEW q \in Dispatches, RunStage(q), chain' = chain
      PROVE  staging' = staging
  BY <1>9 DEF RunStage
<1>10. CASE UNCHANGED vars
  BY <1>10, <1>3, <1>6 DEF vars
<1>11. ASSUME NEW q \in Dispatches, Run(q)
       PROVE  [Promise(p)!Next]_(Promise(p)!vars)
  <2>1. CASE RunStage(q)
    BY <2>1, <1>1, <1>3, <1>6, <1>9
  <2>2. CASE Publish(q)
    BY <2>2, <1>2, <1>3, <1>6, <1>8
  <2>3. CASE ~ RunStage(q) /\ ~ Publish(q)
    BY <2>3, <1>11, <1>3, <1>4, <1>5, <1>6
  <2> QED
    BY <2>1, <2>2, <2>3
<1> QED
  BY <1>3, <1>6, <1>7, <1>10, <1>11 DEF Next, Ended

(* The local dispatch implements the promise of a run, for each of its     *)
(* processes.                                                              *)
THEOREM PromiseKept == Spec => KeepsPromise
<1>1. Init => \A p \in Dispatches : Promise(p)!Init
  BY PromiseInit
<1>2. RunInv /\ [Next]_vars
        => [\A p \in Dispatches : [Promise(p)!Next]_(Promise(p)!vars)]_vars
  BY PromiseStep
<1> QED
  BY <1>1, <1>2, RunInit, RunStep, PTL DEF Spec, KeepsPromise
=============================================================================
