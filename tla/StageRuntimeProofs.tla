-------------------------- MODULE StageRuntimeProofs --------------------------
(***************************************************************************)
(* Proofs about StageRuntime, for any set of helpers and any limits.       *)
(***************************************************************************)
EXTENDS StageRuntime, SequenceTheorems, TLAPS

LEMMA TypeInit == Init => TypeOK
<1> SUFFICES ASSUME Init PROVE TypeOK
  OBVIOUS
<1>1. runLeft \in Int /\ printed \in Seq(Codes)
  BY LimitsAreTimes DEF Init
<1> QED
  BY <1>1 DEF Init, TypeOK, Places

LEMMA TypeStep ==
  ASSUME TypeOK, ClockInv, [Next]_vars
  PROVE  TypeOK'
<1> USE LimitsAreTimes
    DEF At, Goto, Emit, Limits, Codes, Verdicts, Places, Handled, Preparing, InTry,
        Publishing, fixed, request, ends, group, limits, times, files
<1>1. CASE Start \/ Check \/ MakeWork
  BY <1>1 DEF TypeOK, Start, Check, MakeWork
<1>2. CASE Setup \/ Spawn \/ NoteProcess
  <2>1. printed' \in Seq(Codes)
    BY <1>2 DEF TypeOK, Setup, Spawn, NoteProcess
  <2> QED
    BY <1>2, <2>1 DEF TypeOK, Setup, Spawn, NoteProcess
<1>3. CASE SetLimit
  <2>1. printed' \in Seq(Codes)
    BY <1>3 DEF TypeOK, SetLimit
  <2>2. due' \in Nat /\ reached' \in Limits
    BY <1>3 DEF TypeOK, ClockInv, SetLimit
  <2> QED
    BY <1>3, <2>1, <2>2 DEF TypeOK, SetLimit
<1>4. CASE Return \/ Expire
  <2>1. CASE Return
    BY <2>1 DEF TypeOK, Return
  <2>2. CASE Expire
    BY <2>2 DEF TypeOK, ClockInv, Expire
  <2> QED
    BY <1>4, <2>1, <2>2
<1>5. CASE Settle \/ Capture
  <2>1. CASE Settle
    BY <2>1 DEF TypeOK, Settle
  <2>2. CASE Capture
    BY <2>2 DEF TypeOK, Capture
  <2> QED
    BY <1>5, <2>1, <2>2
<1>6. CASE Term \/ Poll \/ EndGrace
  BY <1>6 DEF TypeOK, Term, Poll, EndGrace
<1>7. CASE KillGroup \/ Reap
  BY <1>7 DEF TypeOK, KillGroup, KillAll, Reap
<1>8. CASE Cancel
  BY <1>8 DEF TypeOK, Cancel, KillAll
<1>9. CASE DropWork \/ MakeStaging
  <2>1. CASE DropWork
    <3>1. work' \in {"none", "made", "known", "stuck"}
      BY <2>1 DEF TypeOK, DropWork, Removed
    <3>2. printed' \in Seq(Codes)
      BY <2>1 DEF TypeOK, DropWork
    <3> QED
      BY <2>1, <3>1, <3>2 DEF TypeOK, DropWork
  <2>2. CASE MakeStaging
    BY <2>2 DEF TypeOK, MakeStaging
  <2> QED
    BY <1>9, <2>1, <2>2
<1>10. CASE Publish \/ DropStaging
  BY <1>10 DEF TypeOK, Publish, DropStaging, Removed
<1>11. CASE Finish \/ Break
  BY <1>11 DEF TypeOK, Finish, Break
<1>12. CASE Leave \/ Remove
  BY <1>12 DEF TypeOK, Leave, Remove
<1>13. CASE Signal
  BY <1>13 DEF TypeOK, Signal
<1>14. CASE Kill
  BY <1>14 DEF TypeOK, Kill
<1>15. CASE Adapter
  BY <1>15 DEF TypeOK, Adapter, LeaderExits, Fork, HelperExits
<1>16. CASE Tick
  BY <1>16 DEF TypeOK, Tick
<1>17. CASE UNCHANGED vars
  BY <1>17 DEF TypeOK, vars
<1> QED
  BY <1>1, <1>2, <1>3, <1>4, <1>5, <1>6, <1>7, <1>8, <1>9, <1>10, <1>11, <1>12,
     <1>13, <1>14, <1>15, <1>16, <1>17 DEF Next, Run, Ended

-----------------------------------------------------------------------------
(* The leader and its group.                                               *)
LEMMA GroupStep ==
  ASSUME TypeOK, GroupInv, [Next]_vars
  PROVE  GroupInv'
<1> USE LimitsAreTimes DEF GroupInv, GroupExists, At, Goto, Preparing, InTry,
   Publishing, Handled,
       fixed, request, ends, group, limits, times, files
<1>1. CASE Start \/ Check \/ MakeWork \/ Setup
  BY <1>1 DEF Start, Check, MakeWork, Setup, TypeOK
<1>2. CASE Spawn \/ NoteProcess \/ SetLimit
  <2>1. CASE Spawn
    BY <2>1 DEF Spawn, TypeOK
  <2>2. CASE NoteProcess
    BY <2>2 DEF NoteProcess, TypeOK
  <2>3. CASE SetLimit
    BY <2>3 DEF SetLimit, TypeOK
  <2> QED
    BY <1>2, <2>1, <2>2, <2>3
<1>3. CASE Return \/ Expire
  BY <1>3 DEF Return, Expire, TypeOK
<1>4. CASE Settle \/ Capture
  BY <1>4 DEF Settle, Capture, TypeOK
<1>5. CASE Term \/ Poll \/ EndGrace
  BY <1>5 DEF Term, Poll, EndGrace, TypeOK
<1>6. CASE KillGroup \/ Reap
  BY <1>6 DEF KillGroup, Reap, KillAll, TypeOK
<1>7. CASE Cancel
  BY <1>7 DEF Cancel, KillAll, TypeOK
<1>8. CASE DropWork \/ MakeStaging
  BY <1>8 DEF DropWork, Removed, MakeStaging, TypeOK
<1>9. CASE Publish \/ DropStaging \/ Finish
  BY <1>9 DEF Publish, DropStaging, Removed, Finish, TypeOK
<1>10. CASE Break
  BY <1>10 DEF Break, TypeOK
<1>11. CASE Leave \/ Remove
  BY <1>11 DEF Leave, Remove, TypeOK
<1>12. CASE Signal
  BY <1>12 DEF Signal, TypeOK
<1>13. CASE Kill
  BY <1>13 DEF Kill, TypeOK
<1>14. CASE Adapter
  BY <1>14 DEF Adapter, LeaderExits, Fork, HelperExits, TypeOK
<1>15. CASE Tick
  BY <1>15 DEF Tick, TypeOK
<1>16. CASE UNCHANGED vars
  BY <1>16 DEF vars, TypeOK
<1> QED
  BY <1>1, <1>2, <1>3, <1>4, <1>5, <1>6, <1>7, <1>8, <1>9, <1>10, <1>11, <1>12,
     <1>13, <1>14, <1>15, <1>16 DEF Next, Run, Ended

(* The clock against the limits.                                           *)
LEMMA ClockStep ==
  ASSUME TypeOK, GroupInv, ClockInv, [Next]_vars
  PROVE  ClockInv'
<1> USE LimitsAreTimes DEF ClockInv, AdapterIsBounded, Limits, At, Goto,
   Preparing, InTry, Publishing, Handled,
       fixed, request, ends, group, limits, times, files
<1>1. CASE Start \/ Check \/ MakeWork \/ Setup
  BY <1>1 DEF Start, Check, MakeWork, Setup, TypeOK
<1>2. CASE Spawn \/ NoteProcess \/ SetLimit
  BY <1>2 DEF Spawn, NoteProcess, SetLimit, TypeOK
<1>3. CASE Return \/ Expire
  BY <1>3 DEF Return, Expire, TypeOK
<1>4. CASE Settle \/ Capture
  BY <1>4 DEF Settle, Capture, TypeOK
<1>5. CASE Term \/ Poll \/ EndGrace
  BY <1>5 DEF Term, Poll, EndGrace, TypeOK
<1>6. CASE KillGroup \/ Reap
  BY <1>6 DEF KillGroup, Reap, KillAll, TypeOK
<1>7. CASE Cancel
  BY <1>7 DEF Cancel, KillAll, TypeOK
<1>8. CASE DropWork \/ MakeStaging
  BY <1>8 DEF DropWork, Removed, MakeStaging, TypeOK
<1>9. CASE Publish \/ DropStaging \/ Finish
  BY <1>9 DEF Publish, DropStaging, Removed, Finish, TypeOK
<1>10. CASE Break
  BY <1>10 DEF Break, TypeOK
<1>11. CASE Leave \/ Remove
  BY <1>11 DEF Leave, Remove, TypeOK
<1>12. CASE Signal
  BY <1>12 DEF Signal, TypeOK
<1>13. CASE Kill
  BY <1>13 DEF Kill, TypeOK
<1>14. CASE Adapter
  BY <1>14 DEF Adapter, LeaderExits, Fork, HelperExits, TypeOK
<1>15. CASE Tick
  BY <1>15 DEF Tick, TypeOK
<1>16. CASE UNCHANGED vars
  BY <1>16 DEF vars, TypeOK
<1> QED
  BY <1>1, <1>2, <1>3, <1>4, <1>5, <1>6, <1>7, <1>8, <1>9, <1>10, <1>11, <1>12,
     <1>13, <1>14, <1>15, <1>16 DEF Next, Run, Ended

(* The verdict and what is published of it.                                *)
LEMMA VerdictStep ==
  ASSUME TypeOK, GroupInv, ClockInv, VerdictInv, AttemptInv, [Next]_vars
  PROVE  VerdictInv'
<1> USE LimitsAreTimes DEF VerdictInv, Settled, Truth, Late, GroupExists,
   Verdicts, Limits, At, Goto, Preparing, InTry, Publishing, Handled,
       fixed, request, ends, group, limits, times, files
<1>1. CASE Start \/ Check \/ MakeWork \/ Setup
  BY <1>1 DEF Start, Check, MakeWork, Setup, TypeOK, GroupInv, ClockInv,
     AttemptInv, AdapterIsBounded
<1>2. CASE Spawn \/ NoteProcess \/ SetLimit
  BY <1>2 DEF Spawn, NoteProcess, SetLimit, TypeOK, GroupInv, ClockInv,
     AttemptInv, AdapterIsBounded
<1>3. CASE Return \/ Expire
  BY <1>3 DEF Return, Expire, TypeOK, GroupInv, ClockInv, AttemptInv,
     AdapterIsBounded
<1>4. CASE Settle \/ Capture
  BY <1>4 DEF Settle, Capture, TypeOK, GroupInv, ClockInv, AttemptInv,
     AdapterIsBounded
<1>5. CASE Term \/ Poll \/ EndGrace
  BY <1>5 DEF Term, Poll, EndGrace, TypeOK, GroupInv, ClockInv, AttemptInv,
     AdapterIsBounded
<1>6. CASE KillGroup \/ Reap
  BY <1>6 DEF KillGroup, Reap, KillAll, TypeOK, GroupInv, ClockInv, AttemptInv,
     AdapterIsBounded
<1>7. CASE Cancel
  BY <1>7 DEF Cancel, KillAll, TypeOK, GroupInv, ClockInv, AttemptInv,
     AdapterIsBounded
<1>8. CASE DropWork \/ MakeStaging
  BY <1>8 DEF DropWork, Removed, MakeStaging, TypeOK, GroupInv, ClockInv, AttemptInv,
     AdapterIsBounded
<1>9. CASE Publish \/ DropStaging \/ Finish
  BY <1>9 DEF Publish, DropStaging, Removed, Finish, TypeOK, GroupInv, ClockInv,
     AttemptInv, AdapterIsBounded
<1>10. CASE Break
  BY <1>10 DEF Break, TypeOK, GroupInv, ClockInv, AttemptInv, AdapterIsBounded
<1>11. CASE Leave \/ Remove
  BY <1>11 DEF Leave, Remove, TypeOK, GroupInv, ClockInv, AttemptInv,
     AdapterIsBounded
<1>12. CASE Signal
  BY <1>12 DEF Signal, TypeOK, GroupInv, ClockInv, AttemptInv, AdapterIsBounded
<1>13. CASE Kill
  BY <1>13 DEF Kill, TypeOK, GroupInv, ClockInv, AttemptInv, AdapterIsBounded
<1>14. CASE Adapter
  BY <1>14 DEF Adapter, LeaderExits, Fork, HelperExits, TypeOK, GroupInv,
     ClockInv, AttemptInv, AdapterIsBounded
<1>15. CASE Tick
  BY <1>15 DEF Tick, TypeOK, GroupInv, ClockInv, AttemptInv, AdapterIsBounded
<1>16. CASE UNCHANGED vars
  BY <1>16 DEF vars, TypeOK, GroupInv, ClockInv, AttemptInv, AdapterIsBounded
<1> QED
  BY <1>1, <1>2, <1>3, <1>4, <1>5, <1>6, <1>7, <1>8, <1>9, <1>10, <1>11, <1>12,
     <1>13, <1>14, <1>15, <1>16 DEF Next, Run, Ended

(* The attempt root.                                                       *)
LEMMA AttemptStep ==
  ASSUME TypeOK, GroupInv, VerdictInv, AttemptInv, [Next]_vars
  PROVE  AttemptInv'
<1> USE LimitsAreTimes DEF AttemptInv, Settled, GroupExists, Verdicts, Limits,
   At, Goto, Preparing, InTry, Publishing, Handled,
       fixed, request, ends, group, limits, times, files
<1>1. CASE Start \/ Check \/ MakeWork \/ Setup
  BY <1>1 DEF Start, Check, MakeWork, Setup, TypeOK, GroupInv, VerdictInv
<1>2. CASE Spawn \/ NoteProcess \/ SetLimit
  BY <1>2 DEF Spawn, NoteProcess, SetLimit, TypeOK, GroupInv, VerdictInv
<1>3. CASE Return \/ Expire
  BY <1>3 DEF Return, Expire, TypeOK, GroupInv, VerdictInv
<1>4. CASE Settle \/ Capture
  BY <1>4 DEF Settle, Capture, TypeOK, GroupInv, VerdictInv
<1>5. CASE Term \/ Poll \/ EndGrace
  BY <1>5 DEF Term, Poll, EndGrace, TypeOK, GroupInv, VerdictInv
<1>6. CASE KillGroup \/ Reap
  BY <1>6 DEF KillGroup, Reap, KillAll, TypeOK, GroupInv, VerdictInv
<1>7. CASE Cancel
  BY <1>7 DEF Cancel, KillAll, TypeOK, GroupInv, VerdictInv
<1>8. CASE DropWork \/ MakeStaging
  BY <1>8 DEF DropWork, Removed, MakeStaging, TypeOK, GroupInv, VerdictInv
<1>9. CASE Publish \/ DropStaging \/ Finish
  BY <1>9 DEF Publish, DropStaging, Removed, Finish, TypeOK, GroupInv, VerdictInv
<1>10. CASE Break
  BY <1>10 DEF Break, TypeOK, GroupInv, VerdictInv
<1>11. CASE Leave \/ Remove
  BY <1>11 DEF Leave, Remove, TypeOK, GroupInv, VerdictInv
<1>12. CASE Signal
  BY <1>12 DEF Signal, TypeOK, GroupInv, VerdictInv
<1>13. CASE Kill
  BY <1>13 DEF Kill, TypeOK, GroupInv, VerdictInv
<1>14. CASE Adapter
  BY <1>14 DEF Adapter, LeaderExits, Fork, HelperExits, TypeOK, GroupInv,
     VerdictInv
<1>15. CASE Tick
  BY <1>15 DEF Tick, TypeOK, GroupInv, VerdictInv
<1>16. CASE UNCHANGED vars
  BY <1>16 DEF vars, TypeOK, GroupInv, VerdictInv
<1> QED
  BY <1>1, <1>2, <1>3, <1>4, <1>5, <1>6, <1>7, <1>8, <1>9, <1>10, <1>11, <1>12,
     <1>13, <1>14, <1>15, <1>16 DEF Next, Run, Ended

(* The directories.                                                        *)
LEMMA FilesStep ==
  ASSUME TypeOK, GroupInv, VerdictInv, AttemptInv, FilesInv, [Next]_vars
  PROVE  FilesInv'
<1> USE LimitsAreTimes DEF FilesInv, NothingIsLeft, ExitTellsTheAttempt,
   Settled, GroupExists, Verdicts, Limits, At, Goto, Preparing, InTry,
   Publishing, Handled,
       fixed, request, ends, group, limits, times, files
<1>1. CASE Start \/ Check \/ MakeWork \/ Setup
  BY <1>1 DEF Start, Check, MakeWork, Setup, TypeOK, VerdictInv, AttemptInv
<1>2. CASE Spawn \/ NoteProcess \/ SetLimit
  BY <1>2 DEF Spawn, NoteProcess, SetLimit, TypeOK, VerdictInv, AttemptInv
<1>3. CASE Return \/ Expire
  BY <1>3 DEF Return, Expire, TypeOK, VerdictInv, AttemptInv
<1>4. CASE Settle \/ Capture
  BY <1>4 DEF Settle, Capture, TypeOK, VerdictInv, AttemptInv
<1>5. CASE Term \/ Poll \/ EndGrace
  BY <1>5 DEF Term, Poll, EndGrace, TypeOK, VerdictInv, AttemptInv
<1>6. CASE KillGroup \/ Reap
  BY <1>6 DEF KillGroup, Reap, KillAll, TypeOK, VerdictInv, AttemptInv
<1>7. CASE Cancel
  BY <1>7 DEF Cancel, KillAll, TypeOK, VerdictInv, AttemptInv
<1>8. CASE DropWork \/ MakeStaging
  BY <1>8 DEF DropWork, Removed, MakeStaging, TypeOK, VerdictInv, AttemptInv
<1>9. CASE Publish \/ DropStaging \/ Finish
  BY <1>9 DEF Publish, DropStaging, Removed, Finish, TypeOK, VerdictInv, AttemptInv
<1>10. CASE Break
  BY <1>10 DEF Break, TypeOK, VerdictInv, AttemptInv
<1>11. CASE Leave \/ Remove
  BY <1>11 DEF Leave, Remove, TypeOK, VerdictInv, AttemptInv
<1>12. CASE Signal
  BY <1>12 DEF Signal, TypeOK, VerdictInv, AttemptInv
<1>13. CASE Kill
  BY <1>13 DEF Kill, TypeOK, VerdictInv, AttemptInv
<1>14. CASE Adapter
  BY <1>14 DEF Adapter, LeaderExits, Fork, HelperExits, TypeOK, VerdictInv,
     AttemptInv
<1>15. CASE Tick
  BY <1>15 DEF Tick, TypeOK, VerdictInv, AttemptInv
<1>16. CASE UNCHANGED vars
  BY <1>16 DEF vars, TypeOK, VerdictInv, AttemptInv
<1> QED
  BY <1>1, <1>2, <1>3, <1>4, <1>5, <1>6, <1>7, <1>8, <1>9, <1>10, <1>11, <1>12,
     <1>13, <1>14, <1>15, <1>16 DEF Next, Run, Ended

-----------------------------------------------------------------------------
(* The lines of a Stage.                                                   *)

(* A prefix of t, and one more line, is a prefix of s if the two agree.    *)
LEMMA Extend ==
  ASSUME NEW s \in Seq(Codes), NEW t \in Seq(Codes), NEW n \in Nat,
         n < Len(s), n <= Len(t), \A i \in 1 .. n : s[i] = t[i]
  PROVE  Append(SubSeq(t, 1, n), s[n + 1]) = SubSeq(s, 1, n + 1)
<1>1. (\A i \in 1 .. n + 1 : s[i] \in Codes) /\ \A i \in 1 .. n : t[i] \in Codes
  OBVIOUS
<1>2. /\ SubSeq(t, 1, n) \in Seq(Codes) /\ SubSeq(s, 1, n + 1) \in Seq(Codes)
      /\ Len(SubSeq(t, 1, n)) = n /\ Len(SubSeq(s, 1, n + 1)) = n + 1
      /\ \A i \in 1 .. n : SubSeq(t, 1, n)[i] = t[i]
      /\ \A i \in 1 .. n + 1 : SubSeq(s, 1, n + 1)[i] = s[i]
  BY <1>1, SubSeqProperties
<1> QED
  BY <1>2, SeqEqual

(* The path of each verdict, line by line.                                 *)
LEMMA PathLines ==
  /\ Len(StagePath("skipped")) = 1 /\ StagePath("skipped")[1] = "stage-finished"
  /\ /\ Len(StagePath("lost")) = 3
     /\ StagePath("lost")[1] = "stage-started" /\ StagePath("lost")[2] = "publishing"
     /\ StagePath("lost")[3] = "stage-finished"
  /\ \A v \in {"descendants", "nonzero", "signal"} :
       /\ Len(StagePath(v)) = 4
       /\ StagePath(v)[1] = "stage-started" /\ StagePath(v)[2] = "adapter-running"
       /\ StagePath(v)[3] = "publishing" /\ StagePath(v)[4] = "stage-finished"
  /\ \A v \in Limits \cup {"accepted", "rejected"} :
       /\ Len(StagePath(v)) = 5
       /\ StagePath(v)[1] = "stage-started" /\ StagePath(v)[2] = "adapter-running"
       /\ StagePath(v)[3] = IF v \in Limits THEN v ELSE "checking-output"
       /\ StagePath(v)[4] = "publishing" /\ StagePath(v)[5] = "stage-finished"
BY DEF StagePath, Limits

LEMMA LastLines ==
  \A v \in Verdicts :
    /\ StagePath(v)[Len(StagePath(v))] = "stage-finished"
    /\ v # "skipped" => StagePath(v)[Len(StagePath(v)) - 1] = "publishing"
<1>1. \A v \in {"skipped"} : StagePath(v)[Len(StagePath(v))] = "stage-finished"
  BY PathLines
<1>2. /\ StagePath("lost")[Len(StagePath("lost"))] = "stage-finished"
      /\ StagePath("lost")[Len(StagePath("lost")) - 1] = "publishing"
  <2>1. Len(StagePath("lost")) - 1 = 2
    BY PathLines
  <2> QED
    BY <2>1, PathLines, Zenon
<1>3. \A v \in {"descendants", "nonzero", "signal"} :
        /\ StagePath(v)[Len(StagePath(v))] = "stage-finished"
        /\ StagePath(v)[Len(StagePath(v)) - 1] = "publishing"
  <2> SUFFICES ASSUME NEW v \in {"descendants", "nonzero", "signal"}
               PROVE  /\ StagePath(v)[Len(StagePath(v))] = "stage-finished"
                      /\ StagePath(v)[Len(StagePath(v)) - 1] = "publishing"
    OBVIOUS
  <2>1. Len(StagePath(v)) - 1 = 3
    BY PathLines
  <2> QED
    BY <2>1, PathLines, Zenon
<1>4. \A v \in Limits \cup {"accepted", "rejected"} :
        /\ StagePath(v)[Len(StagePath(v))] = "stage-finished"
        /\ StagePath(v)[Len(StagePath(v)) - 1] = "publishing"
  BY PathLines
<1> QED
  BY <1>1, <1>2, <1>3, <1>4 DEF Verdicts

LEMMA PathType == \A v \in Verdicts : StagePath(v) \in Seq(Codes)
<1> SUFFICES ASSUME NEW v \in Verdicts PROVE StagePath(v) \in Seq(Codes)
  OBVIOUS
<1>1. CASE v = "skipped"
  BY <1>1 DEF StagePath, Limits, Codes
<1>2. CASE v = "lost"
  BY <1>2 DEF StagePath, Limits, Codes
<1>3. CASE v \in Limits
  <2>1. StagePath(v) = << "stage-started", "adapter-running", v, "publishing",
                          "stage-finished" >>
    BY <1>3 DEF StagePath, Limits
  <2> QED
    BY <1>3, <2>1 DEF Codes, Limits
<1>4. CASE v \in {"accepted", "rejected"}
  BY <1>4 DEF StagePath, Limits, Codes
<1>5. CASE v \in {"descendants", "nonzero", "signal"}
  <2>1. StagePath(v) = << "stage-started", "adapter-running", "publishing",
                          "stage-finished" >>
    BY <1>5 DEF StagePath, Limits
  <2> QED
    BY <2>1 DEF Codes
<1> QED
  BY <1>1, <1>2, <1>3, <1>4, <1>5 DEF Verdicts

LEMMA ToldLines ==
  /\ Told("skipped") = << >> /\ Announced("skipped") = << >>
  /\ Append(<< >>, "stage-started") = Told("lost")
  /\ Append(Told("lost"), "adapter-running") = Told("descendants")
  /\ Told("nonzero") = Told("descendants") /\ Told("signal") = Told("descendants")
  /\ \A v \in Limits : Append(Told("descendants"), v) = Told(v)
  /\ Append(Told("descendants"), "checking-output") = Told("accepted")
  /\ Told("rejected") = Told("accepted")
  /\ \A v \in Verdicts \ {"skipped"} : Append(Told(v), "publishing") = Announced(v)
  /\ \A v \in Verdicts : Append(Announced(v), "stage-finished") = StagePath(v)
<1> DEFINE P(v) == StagePath(v)
<1>1. /\ "skipped" \in Verdicts /\ "lost" \in Verdicts /\ "descendants" \in Verdicts
      /\ "accepted" \in Verdicts /\ Limits \subseteq Verdicts
  BY DEF Verdicts
<1>2. \A v \in Verdicts : Len(P(v)) \in {1, 3, 4, 5} /\ (Len(P(v)) = 1 <=> v = "skipped")
  BY PathLines DEF Verdicts, Limits
<1>3. Told("skipped") = << >> /\ Announced("skipped") = << >>
  <2>1. SubSeq(P("skipped"), 1, -1) = << >> /\ SubSeq(P("skipped"), 1, 0) = << >>
    BY SubSeqEmpty
  <2>2. Len(P("skipped")) - 2 = -1 /\ Len(P("skipped")) - 1 = 0
    BY PathLines
  <2> QED
    BY <2>1, <2>2, Zenon DEF Told, Announced
<1>4. Append(<< >>, "stage-started") = Told("lost")
  <2>1. SubSeq(P("lost"), 1, 0) = << >>
    BY SubSeqEmpty
  <2>2. Append(SubSeq(P("lost"), 1, 0), P("lost")[0 + 1]) = SubSeq(P("lost"), 1, 0 + 1)
    BY <1>1, PathLines, PathType, Extend
  <2>3. P("lost")[0 + 1] = "stage-started" /\ 0 + 1 = Len(P("lost")) - 2
    BY PathLines
  <2> QED
    BY <2>1, <2>2, <2>3, Zenon DEF Told
<1>5. Append(Told("lost"), "adapter-running") = Told("descendants")
  <2>1. Append(SubSeq(P("lost"), 1, 1), P("descendants")[1 + 1])
          = SubSeq(P("descendants"), 1, 1 + 1)
    BY <1>1, PathLines, PathType, Extend
  <2>2. /\ P("descendants")[1 + 1] = "adapter-running" /\ 1 = Len(P("lost")) - 2
        /\ 1 + 1 = Len(P("descendants")) - 2
    BY PathLines
  <2> QED
    BY <2>1, <2>2, Zenon DEF Told
<1>6. \A v \in Limits : Append(Told("descendants"), v) = Told(v)
  <2> SUFFICES ASSUME NEW v \in Limits PROVE Append(Told("descendants"), v) = Told(v)
    OBVIOUS
  <2>1. Append(SubSeq(P("descendants"), 1, 2), P(v)[2 + 1]) = SubSeq(P(v), 1, 2 + 1)
    BY <1>1, PathLines, PathType, Extend
  <2>2. P(v)[2 + 1] = v /\ 2 = Len(P("descendants")) - 2 /\ 2 + 1 = Len(P(v)) - 2
    BY PathLines
  <2> QED
    BY <2>1, <2>2, Zenon DEF Told
<1>7. Append(Told("descendants"), "checking-output") = Told("accepted")
  <2>1. Append(SubSeq(P("descendants"), 1, 2), P("accepted")[2 + 1])
          = SubSeq(P("accepted"), 1, 2 + 1)
    BY <1>1, PathLines, PathType, Extend
  <2>2. /\ P("accepted")[2 + 1] = "checking-output" /\ 2 = Len(P("descendants")) - 2
        /\ 2 + 1 = Len(P("accepted")) - 2
    BY PathLines DEF Limits
  <2> QED
    BY <2>1, <2>2, Zenon DEF Told
<1>8. /\ Told("nonzero") = Told("descendants") /\ Told("signal") = Told("descendants")
      /\ Told("rejected") = Told("accepted")
  BY DEF Told, StagePath, Limits
<1>9. \A v \in Verdicts \ {"skipped"} : Append(Told(v), "publishing") = Announced(v)
  <2> SUFFICES ASSUME NEW v \in Verdicts \ {"skipped"}
               PROVE  Append(Told(v), "publishing") = Announced(v)
    OBVIOUS
  <2> DEFINE n == Len(P(v)) - 2
  <2>1. n \in Nat /\ n < Len(P(v)) /\ n + 1 = Len(P(v)) - 1 /\ Len(P(v)) \in Nat
    BY <1>2
  <2>2. P(v)[n + 1] = "publishing"
    BY <2>1, LastLines
  <2>3. Append(SubSeq(P(v), 1, n), P(v)[n + 1]) = SubSeq(P(v), 1, n + 1)
    <3>1. P(v) \in Seq(Codes)
      BY PathType
    <3> HIDE DEF n, P
    <3> QED
      BY <2>1, <3>1, Extend
  <2> QED
    BY <2>1, <2>2, <2>3, Zenon DEF Told, Announced
<1>10. \A v \in Verdicts : Append(Announced(v), "stage-finished") = StagePath(v)
  <2> SUFFICES ASSUME NEW v \in Verdicts
               PROVE  Append(Announced(v), "stage-finished") = StagePath(v)
    OBVIOUS
  <2> DEFINE n == Len(P(v)) - 1
  <2>1. n \in Nat /\ n < Len(P(v)) /\ n + 1 = Len(P(v)) /\ Len(P(v)) \in Nat
    BY <1>2
  <2>2. P(v)[n + 1] = "stage-finished"
    BY <2>1, LastLines
  <2>3. Append(SubSeq(P(v), 1, n), P(v)[n + 1]) = SubSeq(P(v), 1, n + 1)
    <3>1. P(v) \in Seq(Codes)
      BY PathType
    <3> HIDE DEF n, P
    <3> QED
      BY <2>1, <3>1, Extend
  <2>4. SubSeq(P(v), 1, Len(P(v))) = P(v)
    BY PathType, SubSeqFull
  <2> QED
    BY <2>1, <2>2, <2>3, <2>4, Zenon DEF Announced
<1> QED
  BY <1>3, <1>4, <1>5, <1>6, <1>7, <1>8, <1>9, <1>10, Zenon

LEMMA OnThePath ==
  ASSUME NEW v \in Verdicts, NEW s \in { Told(v), Announced(v), StagePath(v) }
  PROVE  \E u \in Verdicts : \E n \in 0 .. Len(StagePath(u)) : s = SubSeq(StagePath(u), 1, n)
<1>1. Len(StagePath(v)) \in {1, 3, 4, 5} /\ (Len(StagePath(v)) = 1 <=> v = "skipped")
  BY PathLines DEF Verdicts, Limits
<1>2. SubSeq(StagePath(v), 1, 0) = << >>
  BY SubSeqEmpty
<1>3. CASE s = Told(v) /\ v # "skipped"
  <2>1. Len(StagePath(v)) - 2 \in 0 .. Len(StagePath(v))
    BY <1>1, <1>3
  <2> QED
    BY <1>3, <2>1, Zenon DEF Told
<1>4. CASE s = Told(v) /\ v = "skipped"
  <2>1. 0 \in 0 .. Len(StagePath(v))
    BY <1>1
  <2> QED
    BY <1>2, <1>4, <2>1, ToldLines, Zenon
<1>5. CASE s = Announced(v)
  <2>1. Len(StagePath(v)) - 1 \in 0 .. Len(StagePath(v))
    BY <1>1
  <2> QED
    BY <1>5, <2>1, Zenon DEF Announced
<1>6. CASE s = StagePath(v)
  <2>1. Len(StagePath(v)) \in 0 .. Len(StagePath(v))
    BY <1>1
  <2>2. SubSeq(StagePath(v), 1, Len(StagePath(v))) = StagePath(v)
    BY PathType, SubSeqFull
  <2> QED
    BY <1>6, <2>1, <2>2, Zenon
<1> QED
  BY <1>3, <1>4, <1>5, <1>6

LEMMA EventsStep ==
  ASSUME TypeOK, GroupInv, ClockInv, VerdictInv, AttemptInv, EventsInv, [Next]_vars
  PROVE  EventsInv'
<1> USE DEF EventsInv, EventsFollowAPath, At, Goto, Preparing, InTry, Publishing, Handled,
            fixed, request, ends, group, limits, times, files
<1>1. UNCHANGED printed => OnAPath'
  BY DEF OnAPath
<1>2. \A v \in Verdicts : printed' \in { Told(v), Announced(v), StagePath(v) } => OnAPath'
  BY OnThePath DEF OnAPath
<1>3. /\ "lost" \in Verdicts /\ "descendants" \in Verdicts /\ "accepted" \in Verdicts
      /\ "rejected" \in Verdicts /\ Limits \subseteq Verdicts
      /\ "skipped" \notin Limits \cup {"descendants", "nonzero", "signal", "accepted",
                                       "rejected", "lost"}
  BY DEF Verdicts, Limits
<1>4. CASE Start \/ Check \/ MakeWork
  BY <1>1, <1>4, ToldLines DEF AttemptInv, Start, Check, MakeWork
<1>5. CASE Setup
  BY <1>2, <1>3, <1>5, ToldLines DEF AttemptInv, Setup, Emit
<1>6. CASE Spawn \/ NoteProcess
  BY <1>1, <1>3, <1>6 DEF AttemptInv, Spawn, NoteProcess
<1>7. CASE SetLimit
  BY <1>2, <1>3, <1>7, ToldLines DEF AttemptInv, SetLimit, Emit
<1>8. CASE Return
  BY <1>1, <1>8 DEF AttemptInv, Return
<1>9. CASE Expire
  <2>1. reached \in Limits /\ printed' = Told(reached) /\ outcome' # "returned"
    BY <1>9, ToldLines DEF ClockInv, AttemptInv, Expire, Emit
  <2> QED
    BY <1>2, <1>3, <1>9, <2>1 DEF Expire
<1>10. CASE Settle
  <2>1. exit' = "none" /\ outcome' = "none" /\ printed = Told("descendants")
    BY <1>10 DEF AttemptInv, Settle
  <2>2. CASE GroupExists
    <3>1. pc' = "term" /\ verdict' = "descendants" /\ UNCHANGED printed
      BY <1>10, <2>2 DEF Settle
    <3> QED
      BY <1>1, <2>1, <3>1
  <2>3. CASE ~ GroupExists /\ status # "zero"
    <3>1. status \in {"nonzero", "signal"}
      BY <1>10, <2>3 DEF TypeOK, GroupInv, Settle
    <3>2. pc' = "drop_work" /\ verdict' = status /\ UNCHANGED printed
      BY <1>10, <2>3 DEF Settle
    <3>3. printed' = Told(verdict')
      BY <2>1, <3>1, <3>2, ToldLines
    <3> QED
      BY <1>1, <2>1, <3>1, <3>2, <3>3
  <2>4. CASE ~ GroupExists /\ status = "zero"
    <3>1. pc' = "capture" /\ printed' = Append(printed, "checking-output")
      BY <1>10, <2>4 DEF Settle, Emit
    <3>2. printed' = Told("accepted")
      BY <2>1, <3>1, ToldLines
    <3> QED
      BY <1>2, <1>3, <2>1, <3>1, <3>2
  <2> QED
    BY <2>2, <2>3, <2>4
<1>11. CASE Capture
  BY <1>1, <1>3, <1>11, ToldLines DEF AttemptInv, Capture
<1>12. CASE Term \/ Poll \/ EndGrace
  BY <1>1, <1>3, <1>12 DEF AttemptInv, VerdictInv, Late, Term, Poll, EndGrace
<1>13. CASE KillGroup \/ Reap
  BY <1>1, <1>3, <1>13 DEF AttemptInv, VerdictInv, Late, KillGroup, KillAll, Reap
<1>14. CASE Cancel
  BY <1>1, <1>14 DEF AttemptInv, Cancel, KillAll
<1>15. CASE DropWork
  <2>1. CASE outcome = "none"
    <3>1. verdict \in Verdicts \ {"skipped"} /\ printed = Told(verdict)
      BY <1>15, <2>1 DEF DropWork, VerdictInv, Settled
    <3>2. printed' = Announced(verdict)
      BY <1>15, <2>1, <3>1, ToldLines DEF DropWork, Emit
    <3> QED
      BY <1>2, <1>15, <2>1, <3>1, <3>2 DEF DropWork
  <2>2. CASE outcome # "none"
    BY <1>1, <1>15, <2>2 DEF AttemptInv, DropWork
  <2> QED
    BY <2>1, <2>2
<1>16. CASE MakeStaging \/ Publish
  BY <1>1, <1>16 DEF AttemptInv, MakeStaging, Publish
<1>17. CASE DropStaging
  BY <1>1, <1>17 DEF AttemptInv, DropStaging
<1>18. CASE Finish
  <2>1. CASE pc = "finish"
    <3>1. verdict \in Verdicts /\ printed = Announced(verdict) /\ outcome = "none"
      BY <1>18, <2>1 DEF Finish, VerdictInv, AttemptInv, Settled
    <3>2. printed' = StagePath(verdict)
      BY <1>18, <2>1, <3>1, ToldLines DEF Finish, Emit
    <3> QED
      BY <1>2, <1>18, <2>1, <3>1, <3>2 DEF Finish
  <2>2. CASE pc = "finished"
    BY <1>1, <1>18, <2>2 DEF AttemptInv, Finish
  <2> QED
    BY <1>18, <2>1, <2>2 DEF Finish
<1>19. CASE Break
  BY <1>1, <1>19 DEF AttemptInv, Break
<1>20. CASE Leave \/ Remove
  BY <1>1, <1>20 DEF TypeOK, AttemptInv, Leave, Remove
<1>21. CASE Signal
  BY <1>1, <1>21 DEF AttemptInv, Signal
<1>22. CASE Kill
  BY <1>1, <1>22 DEF Kill
<1>23. CASE Adapter
  BY <1>1, <1>23 DEF Adapter, LeaderExits, Fork, HelperExits
<1>24. CASE Tick \/ UNCHANGED vars
  BY <1>1, <1>24 DEF Tick, vars
<1> QED
  BY <1>4, <1>5, <1>6, <1>7, <1>8, <1>9, <1>10, <1>11, <1>12, <1>13, <1>14, <1>15,
     <1>16, <1>17, <1>18, <1>19, <1>20, <1>21, <1>22, <1>23, <1>24 DEF Next, Run, Ended

-----------------------------------------------------------------------------
(* The theorems.                                                           *)

LEMMA IInvInit == Init => IInv
<1> SUFFICES ASSUME Init PROVE IInv
  OBVIOUS
<1>1. TypeOK
  BY TypeInit
<1>2. GroupInv /\ ClockInv
  BY LimitsAreTimes
     DEF Init, GroupInv, ClockInv, AdapterIsBounded, Preparing
<1>3. VerdictInv /\ AttemptInv
  BY DEF Init, VerdictInv, AttemptInv, Verdicts, Limits, Preparing, InTry,
     Handled,
         Publishing, GroupExists
<1>4. FilesInv
  BY DEF Init, FilesInv, NothingIsLeft, ExitTellsTheAttempt, Preparing, InTry,
     Handled,
         Publishing
<1>5. EventsInv
  <2>1. printed = Told("skipped") /\ "skipped" \in Verdicts /\ printed = << >>
    BY ToldLines DEF Init, Verdicts
  <2>2. OnAPath
    <3>1. \E u \in Verdicts : \E n \in 0 .. Len(StagePath(u)) :
            Told("skipped") = SubSeq(StagePath(u), 1, n)
      BY <2>1, OnThePath
    <3> QED
      BY <2>1, <3>1, Zenon DEF OnAPath
  <2> QED
    BY <2>1, <2>2 DEF Init, EventsInv, EventsFollowAPath, Preparing, Publishing
<1> QED
  BY <1>1, <1>2, <1>3, <1>4, <1>5 DEF IInv

LEMMA IInvStep == IInv /\ [Next]_vars => IInv'
  BY TypeStep, GroupStep, ClockStep, VerdictStep, AttemptStep, FilesStep,
     EventsStep DEF IInv

LEMMA Invariant == Spec => []IInv
  BY IInvInit, IInvStep, PTL DEF Spec

(* Every reachable state is well typed: what is published at the attempt   *)
(* root is one of the verdicts of _run_adapter, whatever the adapter does. *)
THEOREM TypeCorrect == Spec => []TypeOK
<1>1. IInv => TypeOK
  BY DEF IInv
<1> QED
  BY <1>1, Invariant, PTL

(* However the adapter forks, ends or ignores SIGTERM, a command that ends *)
(* of itself has left no process of it, and no directory of the attempt    *)
(* but one that the file system would not let go.                          *)
THEOREM LeavesNothing == Spec => []NothingIsLeft
<1>1. IInv => NothingIsLeft
  BY DEF IInv, FilesInv
<1> QED
  BY <1>1, Invariant, PTL

(* No process of the adapter is alive when its files are read, nor ever    *)
(* again once its attempt stands.                                          *)
THEOREM ReadsInQuiet == Spec => []QuietWhenRead
<1>1. IInv => QuietWhenRead
  BY DEF IInv, QuietWhenRead, GroupInv, VerdictInv, Settled, GroupExists
<1> QED
  BY <1>1, Invariant, PTL

(* For every work limit, grace and run deadline, no adapter is waited for  *)
(* longer than its limit and one grace, nor longer than one grace after    *)
(* the run deadline.                                                       *)
THEOREM Bounded == Spec => []AdapterIsBounded
<1>1. IInv => AdapterIsBounded
  BY DEF IInv, ClockInv
<1> QED
  BY <1>1, Invariant, PTL

(* A published attempt is true of the way its adapter came to its end.     *)
THEOREM TellsTheTruth == Spec => []VerdictIsTrue
<1>1. IInv => VerdictIsTrue
  BY DEF IInv, VerdictInv, Settled, VerdictIsTrue
<1> QED
  BY <1>1, Invariant, PTL

(* The exit status agrees with the attempt root in every case.             *)
THEOREM ExitAgrees == Spec => []ExitTellsTheAttempt
<1>1. IInv => ExitTellsTheAttempt
  BY DEF IInv, FilesInv
<1> QED
  BY <1>1, Invariant, PTL

(* The event lines of an attempt are a prefix of a declared path wherever  *)
(* a signal, a failure or a kill stops the command, and the whole path of  *)
(* its verdict when the command returns.                                   *)
THEOREM EventsOnPath == Spec => []EventsFollowAPath
<1>1. IInv => EventsFollowAPath
  BY DEF IInv, EventsInv
<1> QED
  BY <1>1, Invariant, PTL

-----------------------------------------------------------------------------
(* The runtime implements the promise of an attempt.                       *)

LEMMA PromiseInit == Init => Promise!Init
  BY DEF Init, Promise!Init, AdapterState

(* The steps that leave the adapter and the attempt root alone.            *)
LEMMA OtherSteps ==
  ASSUME [Next]_vars,
         ~ (Spawn \/ Return \/ Poll \/ KillGroup \/ Reap \/ Cancel \/ Adapter),
         ~ (Publish \/ Remove)
  PROVE  UNCHANGED << leader, status, helpers, attempt >>
<1> USE DEF fixed, request, ends, group, limits, times, files
<1>1. CASE Start \/ Check \/ MakeWork \/ Setup \/ NoteProcess \/ SetLimit
  BY <1>1 DEF Start, Check, MakeWork, Setup, NoteProcess, SetLimit
<1>2. CASE Expire \/ Settle \/ Capture \/ Term \/ EndGrace \/ DropWork
  BY <1>2 DEF Expire, Settle, Capture, Term, EndGrace, DropWork
<1>3. CASE MakeStaging \/ DropStaging \/ Finish \/ Break \/ Leave
  BY <1>3 DEF MakeStaging, DropStaging, Finish, Break, Leave
<1>4. CASE Signal \/ Kill \/ Tick \/ UNCHANGED vars
  BY <1>4 DEF Signal, Kill, Tick, vars
<1> QED
  BY <1>1, <1>2, <1>3, <1>4 DEF Next, Run, Ended

(* What happens to a group that exists leaves it running or ends it.       *)
LEMMA GroupSteps ==
  ASSUME TypeOK, GroupInv,
         Return \/ Poll \/ KillGroup \/ Reap \/ Cancel \/ Adapter
  PROVE  /\ UNCHANGED attempt
         /\ \/ UNCHANGED AdapterState
            \/ AdapterState = "running" /\ AdapterState' \in Promise!Ends
<1> USE DEF TypeOK, GroupInv, GroupExists, AdapterState, At, Promise!Ends,
            fixed, request, ends, limits, times, files
<1>1. CASE Return \/ Poll \/ Reap
  BY <1>1 DEF Return, Poll, Reap
<1>2. CASE KillGroup \/ Cancel
  BY <1>2 DEF KillGroup, Cancel, KillAll
<1>3. CASE Adapter
  BY <1>3 DEF Adapter, LeaderExits, Fork, HelperExits
<1> QED
  BY <1>1, <1>2, <1>3

LEMMA PromiseStep ==
  ASSUME IInv, [Next]_vars
  PROVE  [Promise!Next]_(Promise!vars)
<1> USE DEF IInv
<1>1. CASE UNCHANGED << leader, status, helpers, attempt >>
  BY <1>1 DEF Promise!vars, AdapterState, GroupExists
<1>2. CASE Spawn
  <2>1. leader = "none" /\ helpers = {} /\ attempt = "none"
    BY <1>2 DEF Spawn, At, GroupInv, AttemptInv, InTry
  <2>2. UNCHANGED attempt /\ (leader' = "running" \/ UNCHANGED << leader, status, helpers >>)
    BY <1>2 DEF Spawn, files
  <2> QED
    BY <1>1, <2>1, <2>2
       DEF AdapterState, GroupExists, Promise!Next, Promise!Launch
<1>3. CASE Return \/ Poll \/ KillGroup \/ Reap \/ Cancel \/ Adapter
  BY <1>3, GroupSteps DEF Promise!Next, Promise!Stop, Promise!vars
<1>4. CASE Publish
  <2>1. attempt = "none" /\ Settled
    BY <1>4 DEF Publish, At, AttemptInv, VerdictInv, Publishing, Handled
  <2>2. verdict \in Promise!TrueOf(AdapterState)
    BY <2>1 DEF TypeOK, GroupInv, Settled, Truth, Verdicts, Limits,
       AdapterState,
                GroupExists, Promise!TrueOf, Promise!Stopped
  <2>3. attempt' = verdict /\ UNCHANGED AdapterState
    BY <1>4 DEF Publish, group, AdapterState, GroupExists
  <2> QED
    BY <2>1, <2>2, <2>3 DEF Promise!Next, Promise!Publish
<1>5. CASE Remove
  <2>1. UNCHANGED AdapterState
    BY <1>5 DEF Remove, group, AdapterState, GroupExists
  <2>2. \/ UNCHANGED attempt
        \/ attempt \in Promise!Verdicts /\ attempt' = "partial"
        \/ attempt = "partial" /\ attempt' = "none"
    BY <1>5 DEF Remove, At, TypeOK, AttemptInv, Verdicts, Limits,
                Promise!Verdicts, Promise!Stopped
  <2> QED
    BY <2>1, <2>2 DEF Promise!Next, Promise!Withdraw, Promise!vars
<1> QED
  BY <1>1, <1>2, <1>3, <1>4, <1>5, OtherSteps

(* The runtime implements AttemptPromise: an attempt appears whole, after  *)
(* the last process of its adapter, it says how the adapter ended, and     *)
(* what stood at the attempt root before is never touched.                 *)
THEOREM PromiseKept == Spec => KeepsPromise
  BY Invariant, PromiseInit, PromiseStep, PTL DEF Spec, KeepsPromise,
     Promise!Spec
=============================================================================
