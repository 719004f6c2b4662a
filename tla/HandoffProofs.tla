---------------------------- MODULE HandoffProofs ---------------------------
(***************************************************************************)
(* Theorems about Handoff, for any number of signals.                      *)
(***************************************************************************)
EXTENDS HandoffInvariant, TLAPS

USE DEF vars, clientVars, outerVars, netVars, jenkinsVars, fileVars

-----------------------------------------------------------------------------
(* Every variable keeps its type.  Each action is a case of its own.       *)

LEMMA PhaseSets ==
  /\ LivePhases \subseteq Phases
  /\ TerminalPhases \subseteq Phases
  /\ "none" \notin Phases
  BY DEF Phases, LivePhases, TerminalPhases

LEMMA TerminalTypes ==
  /\ NoTerminal \in Terminals
  /\ Succeeded \in Terminals
  /\ Cancelled \in Terminals
  /\ \A c \in Codes, p \in LivePhases : Failed(c, p) \in Terminals
  BY DEF Terminals

LEMMA ConstantReceipts ==
  /\ NoReceipt \in Receipts
  /\ FirstReceipt \in Receipts
  <1>1. << >> \in Seq(Phases) /\ << "validating" >> \in Seq(Phases)
    BY DEF Phases, LivePhases
  <1>2. NoReceipt \in Receipts
    BY <1>1, TerminalTypes DEF NoReceipt, Receipts
  <1>3. FirstReceipt \in Receipts
    BY <1>1, <1>2, TerminalTypes DEF FirstReceipt, NoReceipt, Receipts, Phases,
    LivePhases
  <1> QED
    BY <1>2, <1>3

LEMMA IdleType ==
  /\ Idle \in Operations
  /\ [Method("validating", FALSE, FALSE, NoTerminal) EXCEPT !.at = "write"]
       \in Operations
  BY TerminalTypes DEF Method, Operations, Phases, LivePhases

LEMMA MethodType ==
  ASSUME NEW p \in Phases, NEW q \in BOOLEAN, NEW b \in BOOLEAN,
         NEW t \in Terminals
  PROVE  Method(p, q, b, t) \in Operations
  BY DEF Method, Operations

LEMMA RaiseType ==
  ASSUME NEW c \in Codes, NEW p \in LivePhases, Raise(c, p)
  PROVE  op' \in Operations /\ pc' = "failing"
  BY MethodType, TerminalTypes DEF Raise, Phases, TerminalPhases

LEMMA TransitionType ==
  ASSUME NEW p \in LivePhases, NEW q \in BOOLEAN, NEW b \in BOOLEAN,
         NEW place \in Places, Transition(p, q, b, place)
  PROVE  op' \in Operations /\ pc' \in Places
  BY MethodType, TerminalTypes DEF Transition, Phases

LEMMA TypeInit == Init => TypeOK
  <1>1. Init => late \in BOOLEAN
    BY DEF Init
  <1> QED
    BY <1>1, ConstantReceipts, IdleType, MaxSignalsIsNat
       DEF Init, TypeOK, Places, Outcomes, Requests, Archives

LEMMA WriterType == TypeOK /\ Writer => TypeOK'
  <1> SUFFICES ASSUME TypeOK, Writer PROVE TypeOK'
    OBVIOUS
  <1> USE DEF TypeOK, Writing
  <1>1. CASE MarkPhase
    <2>1. op' \in Operations /\ op.phase \in Phases
      BY <1>1 DEF MarkPhase, Operations, Idle
    <2>2. doc' \in Receipts
      BY <1>1, <2>1 DEF MarkPhase, Receipts
    <2> QED
      BY <1>1, <2>1, <2>2 DEF MarkPhase
  <1>2. CASE AppendTransition
    <2>1. op' \in Operations /\ op.phase \in Phases
      BY <1>2 DEF AppendTransition, Operations, Idle
    <2>2. Append(doc.phases, op.phase) \in Seq(Phases)
      BY <2>1 DEF Receipts
    <2>3. doc' \in Receipts
      BY <1>2, <2>2 DEF AppendTransition, Receipts
    <2> QED
      BY <1>2, <2>1, <2>3 DEF AppendTransition
  <1>3. CASE AddFacts
    <2>1. /\ op' \in Operations
          /\ op.queue \in BOOLEAN /\ op.build \in BOOLEAN /\ op.terminal \in Terminals
      BY <1>3 DEF AddFacts, Operations, Idle
    <2>2. doc' \in Receipts
      BY <1>3, <2>1 DEF AddFacts, Receipts
    <2> QED
      BY <1>3, <2>1, <2>2 DEF AddFacts
  <1>4. CASE Persist
    BY <1>4, IdleType DEF Persist, Places, Outcomes, InTry
  <1> QED
    BY <1>1, <1>2, <1>3, <1>4 DEF Writer

LEMMA CodeSets ==
  /\ \A own \in SUBSET Codes : Deadlines(own) \subseteq Codes
  /\ StatusFailures \subseteq Codes
  /\ RetrievalFailures \subseteq Codes
  BY DEF Deadlines, StatusFailures, RetrievalFailures, Codes

(* The actions that only move the client and start writer methods.         *)
LEMMA ClientMoveType ==
  ASSUME TypeOK, op' \in Operations, pc' \in Places, outcome' \in Outcomes,
         UNCHANGED << doc, disk, known, exit, outerVars, netVars,
                      jenkinsVars, fileVars >>
  PROVE  TypeOK'
  BY DEF TypeOK

LEMMA PreparationType ==
  TypeOK /\ (IdentifyRun \/ LoadSettings \/ RejectInput \/ Preflight) => TypeOK'
  <1> SUFFICES ASSUME TypeOK,
                      IdentifyRun \/ LoadSettings \/ RejectInput \/ Preflight
               PROVE  TypeOK'
    OBVIOUS
  <1>0. op \in Operations /\ outcome \in Outcomes
    BY DEF TypeOK
  <1>1. CASE IdentifyRun
    <2>1. op' \in Operations
      BY <1>0, <1>1, MethodType, TerminalTypes
         DEF IdentifyRun, Phases, LivePhases, TerminalPhases, Codes
    <2> QED
      BY <1>0, <1>1, <2>1, ClientMoveType DEF IdentifyRun, Places, InTry
  <1>2. CASE LoadSettings
    <2>1. op' \in Operations
      BY <1>0, <1>2, MethodType, TerminalTypes
         DEF LoadSettings, Transition, Phases, LivePhases, TerminalPhases, Codes
    <2> QED
      BY <1>0, <1>2, <2>1, ClientMoveType DEF LoadSettings, Transition, Places, InTry
  <1>3. CASE RejectInput
    BY <1>0, <1>3, ClientMoveType DEF RejectInput, Escape, Places, Outcomes
  <1>4. CASE Preflight
    <2>1. CASE Transition("submitting", FALSE, FALSE, "submit")
      BY <1>0, <1>4, <2>1, TransitionType, ClientMoveType
         DEF Preflight, Places, InTry, LivePhases
    <2>2. CASE \E code \in {"reachability", "identity_mismatch"} \cup StatusFailures
                    \cup Deadlines({}) : Raise(code, "preflighting")
      <3>1. PICK code \in Codes : Raise(code, "preflighting")
        BY <2>2, CodeSets DEF Codes
      <3>2. op' \in Operations /\ pc' = "failing"
        BY <3>1, RaiseType DEF LivePhases
      <3> QED
        BY <1>0, <1>4, <3>2, ClientMoveType DEF Preflight, Places, Handlers
    <2> QED
      BY <1>4, <2>1, <2>2 DEF Preflight
  <1> QED
    BY <1>1, <1>2, <1>3, <1>4

(* raise HandoffError with some code of the contract.                      *)
RaiseSome(phase) == \E code \in Codes : Raise(code, phase)

LEMMA RaiseSomeType ==
  ASSUME NEW p \in LivePhases, RaiseSome(p)
  PROVE  op' \in Operations /\ pc' \in Places
  BY RaiseType DEF RaiseSome, Places, Handlers

LEMMA SubmissionType ==
  TypeOK /\ (SendSubmission \/ Submitted) => TypeOK'
  <1> SUFFICES ASSUME TypeOK, SendSubmission \/ Submitted
               PROVE  TypeOK'
    OBVIOUS
  <1>1. CASE SendSubmission
    <2>1. CASE Raise("outer_deadline", "submitting") /\ UNCHANGED wire
      <3>1. op' \in Operations /\ pc' \in Places
        BY <2>1, RaiseSomeType DEF RaiseSome, Codes, LivePhases
      <3> QED
        BY <1>1, <2>1, <3>1 DEF TypeOK, SendSubmission
    <2>2. CASE pc' = "submitting" /\ wire' = wire \cup {"submit"} /\ op' = op
      BY <1>1, <2>2 DEF TypeOK, SendSubmission, Places, InTry, Requests
    <2> QED
      BY <1>1, <2>1, <2>2 DEF SendSubmission
  <1>2. CASE Submitted
    <2>1. \/ Transition("queued", TRUE, FALSE, "queue")
          \/ RaiseSome("submitting") /\ UNCHANGED known
      BY <1>2, CodeSets DEF Submitted, RaiseSome, Codes
    <2>2. op' \in Operations /\ pc' \in Places
      BY <2>1, TransitionType, RaiseSomeType DEF LivePhases, Places, InTry
    <2>3. known' \in [queue : BOOLEAN, build : BOOLEAN]
      BY <1>2 DEF Submitted, TypeOK
    <2> QED
      BY <1>2, <2>2, <2>3 DEF Submitted, TypeOK
  <1> QED
    BY <1>1, <1>2

LEMMA QueueType ==
  TypeOK /\ (PollQueue \/ ReadQueue \/ QueueDeadline) => TypeOK'
  <1> SUFFICES ASSUME TypeOK, PollQueue \/ ReadQueue \/ QueueDeadline
               PROVE  TypeOK'
    OBVIOUS
  <1>1. CASE PollQueue
    BY <1>1 DEF TypeOK, PollQueue, Places, InTry
  <1>2. CASE ReadQueue
    <2>1. \/ Transition("running", FALSE, TRUE, "build")
          \/ RaiseSome("queued")
          \/ pc' = "queue" /\ op' = op
      BY <1>2, CodeSets DEF ReadQueue, RaiseSome, Codes
    <2>2. op' \in Operations /\ pc' \in Places
      BY <2>1, TransitionType, RaiseSomeType DEF LivePhases, Places, InTry, TypeOK
    <2>3. known' \in [queue : BOOLEAN, build : BOOLEAN]
      BY <1>2 DEF ReadQueue, TypeOK
    <2> QED
      BY <1>2, <2>2, <2>3 DEF ReadQueue, TypeOK
  <1>3. CASE QueueDeadline
    <2>1. RaiseSome("queued")
      BY <1>3, CodeSets DEF QueueDeadline, RaiseSome, Codes
    <2>2. op' \in Operations /\ pc' \in Places
      BY <2>1, RaiseSomeType DEF LivePhases
    <2> QED
      BY <1>3, <2>2 DEF QueueDeadline, TypeOK
  <1> QED
    BY <1>1, <1>2, <1>3

LEMMA BuildType ==
  TypeOK /\ (PollBuild \/ ReadBuild \/ BuildDeadline) => TypeOK'
  <1> SUFFICES ASSUME TypeOK, PollBuild \/ ReadBuild \/ BuildDeadline
               PROVE  TypeOK'
    OBVIOUS
  <1>1. CASE PollBuild
    BY <1>1 DEF TypeOK, PollBuild, Places, InTry
  <1>2. CASE ReadBuild
    <2>1. \/ Transition("retrieving", FALSE, FALSE, "retrieve")
          \/ RaiseSome("running")
          \/ pc' = "build" /\ op' = op
      BY <1>2, CodeSets DEF ReadBuild, RaiseSome, Codes
    <2>2. op' \in Operations /\ pc' \in Places
      BY <2>1, TransitionType, RaiseSomeType DEF LivePhases, Places, InTry, TypeOK
    <2> QED
      BY <1>2, <2>2 DEF ReadBuild, TypeOK
  <1>3. CASE BuildDeadline
    <2>1. RaiseSome("running")
      BY <1>3, CodeSets DEF BuildDeadline, RaiseSome, Codes
    <2>2. op' \in Operations /\ pc' \in Places
      BY <2>1, RaiseSomeType DEF LivePhases
    <2> QED
      BY <1>3, <2>2 DEF BuildDeadline, TypeOK
  <1> QED
    BY <1>1, <1>2, <1>3

LEMMA EscapeType ==
  ASSUME TypeOK, Escape
  PROVE  op' \in Operations /\ pc' \in Places /\ outcome' \in Outcomes
  BY DEF Escape, TypeOK, Places, Outcomes

LEMMA RetrievalType ==
  TypeOK /\ (RetrieveResult \/ Download \/ PublishBundle \/ WriteManifest
               \/ Conclude) => TypeOK'
  <1> SUFFICES ASSUME TypeOK, RetrieveResult \/ Download \/ PublishBundle
                              \/ WriteManifest \/ Conclude
               PROVE  TypeOK'
    OBVIOUS
  <1>0. op \in Operations /\ outcome \in Outcomes
    BY DEF TypeOK
  <1>1. CASE RetrieveResult
    <2>1. \/ pc' = "download" /\ op' = op /\ UNCHANGED outcome
          \/ RaiseSome("retrieving") /\ UNCHANGED outcome
          \/ Escape
      BY <1>1, CodeSets DEF RetrieveResult, RaiseSome, Codes
    <2>2. op' \in Operations /\ pc' \in Places /\ outcome' \in Outcomes
      BY <1>0, <2>1, EscapeType, RaiseSomeType DEF LivePhases, Places, InTry
    <2> QED
      BY <1>1, <2>2 DEF RetrieveResult, TypeOK
  <1>2. CASE Download
    <2>1. \/ pc' = "publish" /\ op' = op /\ UNCHANGED outcome
          \/ RaiseSome("retrieving") /\ UNCHANGED outcome
          \/ Escape
      BY <1>2, CodeSets DEF Download, RaiseSome, Codes
    <2>2. op' \in Operations /\ pc' \in Places /\ outcome' \in Outcomes
      BY <1>0, <2>1, EscapeType, RaiseSomeType DEF LivePhases, Places, InTry
    <2> QED
      BY <1>2, <2>2 DEF Download, TypeOK
  <1>3. CASE PublishBundle
    BY <1>0, <1>3, EscapeType DEF PublishBundle, TypeOK, Places, InTry
  <1>4. CASE WriteManifest
    BY <1>0, <1>4, EscapeType DEF WriteManifest, TypeOK, Places, InTry
  <1>5. CASE Conclude
    <2>1. \/ RaiseSome("retrieving")
          \/ /\ op' = Method("completed", FALSE, FALSE, Succeeded)
             /\ pc' = "returning"
      BY <1>5 DEF Conclude, RaiseSome, Codes
    <2>2. op' \in Operations /\ pc' \in Places
      BY <2>1, RaiseSomeType, MethodType, TerminalTypes
         DEF LivePhases, Places, InTry, Phases, TerminalPhases
    <2> QED
      BY <1>5, <2>2 DEF Conclude, TypeOK
  <1> QED
    BY <1>1, <1>2, <1>3, <1>4, <1>5

LEMMA CancelMethodType == Method("cancelled", FALSE, FALSE, Cancelled) \in Operations
  BY MethodType, TerminalTypes DEF Phases, TerminalPhases

LEMMA EndingType ==
  TypeOK /\ (Leave \/ End \/ CancelCorrelated \/ CancelSettled \/ Signal \/ Kill \/ OuterLimit)
    => TypeOK'
  <1> SUFFICES ASSUME TypeOK, Leave \/ End \/ CancelCorrelated
                              \/ CancelSettled \/ Signal \/ Kill \/ OuterLimit
               PROVE  TypeOK'
    OBVIOUS
  <1>1. CASE Leave
    BY <1>1 DEF Leave, TypeOK, Places, Outcomes
  <1>2. CASE End
    BY <1>2 DEF End, TypeOK, Places, Outcomes
  <1>3. CASE CancelCorrelated
    <2>1. op' \in Operations /\ pc' \in Places
      BY <1>3, CancelMethodType
         DEF CancelCorrelated, Ask, CancelUnasked, TypeOK, Places, Handlers
    <2>2. wire' \in SUBSET Requests /\ asked' \in {"none", "stop", "cancelItem"}
      BY <1>3 DEF CancelCorrelated, Ask, CancelUnasked, TypeOK, Requests
    <2> QED
      BY <1>3, <2>1, <2>2 DEF CancelCorrelated, Ask, CancelUnasked, TypeOK
  <1>4. CASE CancelSettled
    <2>1. op' \in Operations /\ pc' \in Places
      BY <1>4, CancelMethodType DEF CancelSettled, Places, Handlers
    <2> QED
      BY <1>4, <2>1, ClientMoveType DEF CancelSettled, TypeOK
  <1>5. CASE Signal
    BY <1>5, IdleType, MaxSignalsIsNat
       DEF Signal, TypeOK, Places, Handlers, Outcomes
  <1>6. CASE Kill
    BY <1>6 DEF Kill, TypeOK, Places
  <1>7. CASE OuterLimit
    <2>1. late' \in BOOLEAN
      BY <1>7 DEF OuterLimit
    <2> QED
      BY <1>7, <2>1 DEF OuterLimit, TypeOK
  <1> QED
    BY <1>1, <1>2, <1>3, <1>4, <1>5, <1>6, <1>7

LEMMA JenkinsType == TypeOK /\ Jenkins => TypeOK'
  <1> SUFFICES ASSUME TypeOK, Jenkins PROVE TypeOK'
    OBVIOUS
  <1>1. CASE ServeSubmission
    BY <1>1 DEF ServeSubmission, TypeOK
  <1>2. CASE ServeCancel
    BY <1>2 DEF ServeCancel, TypeOK
  <1>3. CASE LoseRequest
    BY <1>3 DEF LoseRequest, TypeOK
  <1>4. CASE StartBuild
    BY <1>4 DEF StartBuild, TypeOK
  <1>5. CASE CancelledByOperator
    BY <1>5 DEF CancelledByOperator, TypeOK
  <1>6. CASE FinishBuild
    BY <1>6 DEF FinishBuild, TypeOK
  <1> QED
    BY <1>1, <1>2, <1>3, <1>4, <1>5, <1>6 DEF Jenkins

LEMMA TypeStep == TypeOK /\ [Next]_vars => TypeOK'
  <1> SUFFICES ASSUME TypeOK, [Next]_vars PROVE TypeOK'
    OBVIOUS
  <1>1. CASE UNCHANGED vars
    BY <1>1 DEF TypeOK
  <1>2. CASE ClientStep
    BY <1>2, WriterType, PreparationType, SubmissionType, QueueType, BuildType,
       RetrievalType, EndingType DEF ClientStep
  <1>3. CASE Signal \/ Kill \/ OuterLimit
    BY <1>3, EndingType
  <1>4. CASE Jenkins
    BY <1>4, JenkinsType
  <1> QED
    BY <1>1, <1>2, <1>3, <1>4 DEF Next, Ended

(* Whatever the interleaving of client, Jenkins and signals, every         *)
(* variable keeps its type; in particular every failure that handoff_jenkins *)
(* raises carries a code and a phase the receipt contract knows.           *)
THEOREM TypeCorrect == Spec => []TypeOK
  <1>1. Init => TypeOK
    BY TypeInit
  <1>2. TypeOK /\ [Next]_vars => TypeOK'
    BY TypeStep
  <1> QED
    BY <1>1, <1>2, PTL DEF Spec

-----------------------------------------------------------------------------
(* The document in memory and the file.                                    *)

LEMMA ReceiptLength ==
  ASSUME NEW r \in Receipts
  PROVE  Len(r.phases) \in Nat
  BY DEF Receipts

LEMMA FileInit == Init => FileInv
  BY DEF Init, FileInv, Prefix, FirstReceipt, NoReceipt, Method, Idle

(* Persist: the validated document replaces a strictly shorter prefix of   *)
(* itself.                                                                 *)
LEMMA PersistGrows ==
  ASSUME TypeOK, FileInv, Persist, disk' # disk
  PROVE  /\ Len(disk.phases) < Len(disk'.phases)
         /\ \A i \in 1 .. Len(disk.phases) : disk'.phases[i] = disk.phases[i]
         /\ disk.queue => disk'.queue
         /\ disk.build => disk'.build
         /\ disk.terminal = NoTerminal
  <1>1. disk' = doc /\ ValidReceipt(doc) /\ op.at = "write"
    BY DEF Persist, Writing
  <1>2. /\ Len(disk.phases) < Len(doc.phases)
        /\ \A i \in 1 .. Len(disk.phases) : doc.phases[i] = disk.phases[i]
    BY <1>1 DEF FileInv, Prefix
  <1>3. Len(disk.phases) \in Nat /\ Len(doc.phases) \in Nat
    BY ReceiptLength DEF TypeOK
  <1>4. \A p : Reached(disk, p) => Reached(doc, p)
    BY <1>2, <1>3 DEF Reached
  <1>5. CASE disk = NoReceipt
    BY <1>1, <1>2, <1>5 DEF NoReceipt
  <1>6. CASE ValidReceipt(disk)
    <2>1. disk.queue => doc.queue
      BY <1>1, <1>4, <1>6 DEF ValidReceipt
    <2>2. disk.build => doc.build
      BY <1>1, <1>4, <1>6 DEF ValidReceipt
    <2>3. disk.terminal = NoTerminal
      <3> DEFINE m == Len(disk.phases)
      <3> SUFFICES ASSUME disk.terminal # NoTerminal PROVE FALSE
        OBVIOUS
      <3>1. m \in 1 .. Len(doc.phases) - 1 /\ disk.phases[m] \in TerminalPhases
        BY <1>2, <1>3, <1>6 DEF ValidReceipt
      <3>2. doc.phases[m] \in TerminalPhases
        BY <1>2, <1>3, <3>1
      <3>3. doc.phases[m + 1] \in AllowedNext(doc.phases[m])
        BY <1>1, <3>1 DEF ValidReceipt
      <3> QED
        BY <3>2, <3>3 DEF AllowedNext, TerminalPhases, LivePhases
    <2> QED
      BY <1>1, <1>2, <2>1, <2>2, <2>3
  <1> QED
    BY <1>5, <1>6 DEF FileInv

LEMMA WriterFile == TypeOK /\ FileInv /\ Writer => FileInv'
  <1> SUFFICES ASSUME TypeOK, FileInv, Writer PROVE FileInv'
    OBVIOUS
  <1>0. Len(disk.phases) \in Nat /\ Len(doc.phases) \in Nat /\ doc \in Receipts
    BY ReceiptLength DEF TypeOK
  <1>1. CASE MarkPhase
    <2>1. doc'.phases = doc.phases /\ disk' = disk /\ op'.at = "append"
      BY <1>0, <1>1 DEF MarkPhase, TypeOK, Receipts, Operations, Idle, Writing
    <2> QED
      BY <2>1 DEF FileInv, Prefix
  <1>2. CASE AppendTransition
    <2>1. op.phase \in Phases /\ op'.at = "facts" /\ disk' = disk
      BY <1>2 DEF AppendTransition, Writing, TypeOK, Operations, Idle
    <2>2. doc'.phases = Append(doc.phases, op.phase) /\ doc.phases \in Seq(Phases)
      BY <1>0, <1>2 DEF AppendTransition, Receipts
    <2>3. /\ Len(doc'.phases) = Len(doc.phases) + 1
          /\ \A i \in 1 .. Len(doc.phases) : doc'.phases[i] = doc.phases[i]
      BY <2>1, <2>2
    <2> QED
      BY <1>0, <2>1, <2>3 DEF FileInv, Prefix
  <1>3. CASE AddFacts
    <2>1. doc'.phases = doc.phases /\ disk' = disk /\ op.at = "facts"
      BY <1>0, <1>3 DEF AddFacts, Receipts, Writing
    <2> QED
      BY <2>1 DEF FileInv, Prefix
  <1>4. CASE Persist
    <2>1. doc' = doc /\ op' = Idle /\ op.at = "write"
      BY <1>4 DEF Persist, Writing
    <2>2. CASE disk' = doc /\ ValidReceipt(doc)
      BY <1>0, <2>1, <2>2 DEF FileInv, Prefix, Idle
    <2>3. CASE disk' = disk
      BY <2>1, <2>3 DEF FileInv, Prefix, Idle
    <2> QED
      BY <1>4, <2>2, <2>3 DEF Persist
  <1> QED
    BY <1>1, <1>2, <1>3, <1>4 DEF Writer

(* Every action but the writer's leaves document and file alone, and only  *)
(* calls a method from its beginning.                                      *)
LEMMA OthersLeaveFile ==
  ASSUME [Next]_vars, ~Writer
  PROVE  /\ doc' = doc /\ disk' = disk
         /\ op' = op \/ op'.at \in {"idle", "phase"}
  <1>1. CASE ClientStep
    BY <1>1 DEF ClientStep, IdentifyRun, LoadSettings, RejectInput, Preflight,
      SendSubmission, Submitted, PollQueue, ReadQueue, QueueDeadline, PollBuild,
      ReadBuild, BuildDeadline, RetrieveResult, Download, PublishBundle,
      WriteManifest, Conclude, Leave, End, CancelCorrelated, Ask, CancelUnasked,
      CancelSettled,
      Transition, Raise, Escape, Method
  <1>2. CASE Signal \/ Kill \/ OuterLimit \/ Ended
    BY <1>2 DEF Signal, Kill, OuterLimit, Ended, Idle
  <1>3. CASE Jenkins
    BY <1>3 DEF Jenkins, ServeSubmission, ServeCancel, LoseRequest, StartBuild,
      CancelledByOperator, FinishBuild
  <1> QED
    BY <1>1, <1>2, <1>3 DEF Next

LEMMA FileStep == TypeOK /\ FileInv /\ [Next]_vars => FileInv'
  <1> SUFFICES ASSUME TypeOK, FileInv, [Next]_vars PROVE FileInv'
    OBVIOUS
  <1>1. CASE Writer
    BY <1>1, WriterFile
  <1>2. CASE ~Writer
    BY <1>2, OthersLeaveFile DEF FileInv, Prefix
  <1> QED
    BY <1>1, <1>2

(* A signal may leave the document in memory half changed, yet the receipt *)
(* on disk only grows, and nothing is written after a terminal phase.      *)
THEOREM ReceiptGrows == Spec => ReceiptOnlyGrows
  <1> DEFINE Grows ==
        /\ Len(disk.phases) < Len(disk'.phases)
        /\ \A i \in 1 .. Len(disk.phases) : disk'.phases[i] = disk.phases[i]
        /\ disk.queue => disk'.queue
        /\ disk.build => disk'.build
        /\ disk.terminal = NoTerminal
  <1>1. Init => TypeOK /\ FileInv
    BY TypeInit, FileInit
  <1>2. TypeOK /\ FileInv /\ [Next]_vars => TypeOK' /\ FileInv'
    BY TypeStep, FileStep
  <1>3. TypeOK /\ FileInv /\ [Next]_vars => [Grows]_disk
    <2> SUFFICES ASSUME TypeOK, FileInv, [Next]_vars, disk' # disk PROVE Grows
      OBVIOUS
    <2>1. Writer
      BY OthersLeaveFile
    <2>2. Persist
      BY <2>1 DEF Writer, MarkPhase, AppendTransition, AddFacts
    <2> QED
      BY <2>2, PersistGrows
  <1> QED
    BY <1>1, <1>2, <1>3, PTL DEF Spec, ReceiptOnlyGrows

-----------------------------------------------------------------------------
(* The receipt is ahead of the submission.                                 *)

LEMMA PersistKeepsReached ==
  ASSUME TypeOK, FileInv, Writer, NEW p, Reached(disk, p)
  PROVE  Reached(disk', p)
  <1>1. Len(disk.phases) \in Nat /\ Len(doc.phases) \in Nat
    BY ReceiptLength DEF TypeOK
  <1>2. disk' = disk \/ disk' = doc
    BY DEF Writer, MarkPhase, AppendTransition, AddFacts, Persist
  <1> QED
    BY <1>1, <1>2 DEF FileInv, Prefix, Reached

LEMMA CancelIsNoSubmission ==
  ASSUME CancelCorrelated
  PROVE  /\ "submit" \in wire' => "submit" \in wire
         /\ UNCHANGED << jenkinsVars, doc, disk, known, reply >>
         /\ pc' \in {"cancel_wait", "cancelled"}
  <1>1. CASE (known.build \/ known.queue) /\ ~late
    <2>1. asked' \in {"stop", "cancelItem"} /\ wire' = wire \cup {asked'}
      BY <1>1 DEF CancelCorrelated, Ask, CancelUnasked
    <2> QED
      BY <1>1, <2>1 DEF CancelCorrelated, Ask, CancelUnasked
  <1>2. CASE ~(known.build \/ known.queue) \/ late
    BY <1>2 DEF CancelCorrelated, Ask, CancelUnasked
  <1> QED
    BY <1>1, <1>2

LEMMA SubmissionSources ==
  ASSUME [Next]_vars, "submit" \in wire' \/ item' # "none"
  PROVE  \/ "submit" \in wire \/ item # "none"
         \/ SendSubmission
  <1>1. CASE ClientStep
    BY <1>1, CancelIsNoSubmission
       DEF ClientStep, Writer, MarkPhase, AppendTransition, AddFacts, Persist,
      IdentifyRun, LoadSettings, RejectInput, Preflight, Submitted, PollQueue,
      ReadQueue, QueueDeadline, PollBuild, ReadBuild, BuildDeadline,
      RetrieveResult, Download, PublishBundle, WriteManifest, Conclude, Leave,
      End, CancelSettled
  <1>2. CASE Signal \/ Kill \/ OuterLimit \/ Ended
    BY <1>2 DEF Signal, Kill, OuterLimit, Ended
  <1>3. CASE Jenkins
    BY <1>3 DEF Jenkins, ServeSubmission, ServeCancel, LoseRequest, StartBuild,
      CancelledByOperator, FinishBuild
  <1> QED
    BY <1>1, <1>2, <1>3 DEF Next

LEMMA SubmitSources ==
  ASSUME [Next]_vars, ~Writer, pc' = "submit"
  PROVE  \/ pc = "submit" /\ op' = op
         \/ op' = Method("submitting", FALSE, FALSE, NoTerminal)
  <1>1. CASE ClientStep
    BY <1>1 DEF ClientStep, IdentifyRun, LoadSettings, RejectInput, Preflight,
      SendSubmission, Submitted, PollQueue, ReadQueue, QueueDeadline, PollBuild,
      ReadBuild, BuildDeadline, RetrieveResult, Download, PublishBundle,
      WriteManifest, Conclude, Leave, End, CancelCorrelated, Ask, CancelUnasked,
      CancelSettled,
      Transition, Raise, Escape
  <1>2. CASE Signal \/ Kill \/ OuterLimit \/ Ended
    BY <1>2 DEF Signal, Kill, OuterLimit, Ended
  <1>3. CASE Jenkins
    BY <1>3 DEF Jenkins, ServeSubmission, ServeCancel, LoseRequest, StartBuild,
      CancelledByOperator, FinishBuild
  <1> QED
    BY <1>1, <1>2, <1>3 DEF Next

LEMMA AheadStep ==
  TypeOK /\ FileInv /\ AheadInv /\ [Next]_vars => AheadInv'
  <1> SUFFICES ASSUME TypeOK, FileInv, AheadInv, [Next]_vars PROVE AheadInv'
    OBVIOUS
  <1>1. SubmissionIsWrittenAhead'
    <2> SUFFICES ASSUME "submit" \in wire' \/ item' # "none"
                 PROVE  Reached(disk', "submitting")
      BY DEF SubmissionIsWrittenAhead
    <2>1. Reached(disk, "submitting")
      BY SubmissionSources DEF AheadInv, SubmissionIsWrittenAhead,
         SendSubmission, At
    <2>2. CASE Writer
      BY <2>1, <2>2, PersistKeepsReached
    <2>3. CASE ~Writer
      BY <2>1, <2>3, OthersLeaveFile
    <2> QED
      BY <2>2, <2>3
  <1>2. ASSUME pc' = "submit"
        PROVE  /\ op' = Idle => Reached(disk', "submitting")
               /\ op'.at \in {"phase", "append"} => op'.phase = "submitting"
               /\ op'.at \in {"facts", "write"} => Reached(doc', "submitting")
    <2>1. CASE MarkPhase
      <3>1. op.at = "phase" /\ op'.at = "append" /\ op'.phase = op.phase /\ pc = "submit"
        BY <1>2, <2>1 DEF MarkPhase, Writing, TypeOK, Operations, Idle
      <3> QED
        BY <3>1 DEF AheadInv, Idle
    <2>2. CASE AppendTransition
      <3>1. op.at = "append" /\ op'.at = "facts" /\ pc = "submit" /\ op.phase \in Phases
        BY <1>2, <2>2 DEF AppendTransition, Writing, TypeOK, Operations, Idle
      <3>2. op.phase = "submitting"
        BY <3>1 DEF AheadInv
      <3>3. doc'.phases = Append(doc.phases, op.phase) /\ doc.phases \in Seq(Phases)
        BY <2>2 DEF AppendTransition, TypeOK, Receipts
      <3>4. /\ Len(doc'.phases) = Len(doc.phases) + 1 /\ Len(doc.phases) \in Nat
            /\ doc'.phases[Len(doc.phases) + 1] = op.phase
        BY <3>1, <3>3
      <3>5. Reached(doc', "submitting")
        BY <3>2, <3>4 DEF Reached
      <3> QED
        BY <3>1, <3>5 DEF Idle
    <2>3. CASE AddFacts
      <3>1. op.at = "facts" /\ op'.at = "write" /\ pc = "submit"
        BY <1>2, <2>3 DEF AddFacts, Writing, TypeOK, Operations, Idle
      <3>2. doc'.phases = doc.phases
        BY <2>3 DEF AddFacts, TypeOK, Receipts
      <3> QED
        BY <3>1, <3>2 DEF AheadInv, Reached, Idle
    <2>4. CASE Persist
      <3>1. op.at = "write" /\ op' = Idle /\ disk' = doc /\ pc = "submit"
        BY <1>2, <2>4 DEF Persist, Writing
      <3> QED
        BY <3>1 DEF AheadInv, Idle
    <2>5. CASE ~Writer
      <3>1. doc' = doc /\ disk' = disk
        BY <2>5, OthersLeaveFile
      <3>2. CASE pc = "submit" /\ op' = op
        BY <3>1, <3>2 DEF AheadInv
      <3>3. CASE op' = Method("submitting", FALSE, FALSE, NoTerminal)
        BY <3>3 DEF Method, Idle
      <3> QED
        BY <1>2, <2>5, <3>2, <3>3, SubmitSources
    <2> QED
      BY <2>1, <2>2, <2>3, <2>4, <2>5 DEF Writer
  <1> QED
    BY <1>1, <1>2 DEF AheadInv

(* A handoff that stops at any point, even killed, never hides a build it  *)
(* may have started: "submitting" is on disk before the POST is sent.      *)
THEOREM WrittenAhead == Spec => []SubmissionIsWrittenAhead
  <1>1. Init => TypeOK /\ FileInv /\ AheadInv
    BY TypeInit, FileInit DEF Init, AheadInv, SubmissionIsWrittenAhead
  <1>2. TypeOK /\ FileInv /\ AheadInv /\ [Next]_vars
          => TypeOK' /\ FileInv' /\ AheadInv'
    BY TypeStep, FileStep, AheadStep
  <1>3. AheadInv => SubmissionIsWrittenAhead
    BY DEF AheadInv
  <1> QED
    BY <1>1, <1>2, <1>3, PTL DEF Spec

-----------------------------------------------------------------------------
(* One submission.                                                         *)

LEMMA QueueStep == TypeOK /\ QueueInv /\ [Next]_vars => QueueInv'
  <1> SUFFICES ASSUME TypeOK, QueueInv, [Next]_vars PROVE QueueInv'
    OBVIOUS
  <1> USE DEF QueueInv, BeforeSubmission
  <1>1. CASE Writer
    BY <1>1 DEF Writer, MarkPhase, AppendTransition, AddFacts, Persist
  <1>2. CASE IdentifyRun \/ LoadSettings \/ RejectInput \/ Preflight
    BY <1>2 DEF IdentifyRun, LoadSettings, RejectInput, Preflight, At
  <1>3. CASE SendSubmission \/ Submitted
    <2>1. CASE SendSubmission
      BY <2>1 DEF SendSubmission, At
    <2>2. CASE Submitted
      <3>1. pc' \notin BeforeSubmission
        BY <2>2 DEF Submitted, Transition, Raise
      <3> QED
        BY <2>2, <3>1 DEF Submitted
    <2> QED
      BY <1>3, <2>1, <2>2
  <1>4. CASE PollQueue \/ ReadQueue \/ QueueDeadline
    <2>1. pc' \notin BeforeSubmission
      BY <1>4 DEF PollQueue, ReadQueue, QueueDeadline, Transition, Raise
    <2> QED
      BY <1>4, <2>1 DEF PollQueue, ReadQueue, QueueDeadline
  <1>5. CASE PollBuild \/ ReadBuild \/ BuildDeadline
    <2>1. pc' \notin BeforeSubmission
      BY <1>5 DEF PollBuild, ReadBuild, BuildDeadline, Transition, Raise
    <2> QED
      BY <1>5, <2>1 DEF PollBuild, ReadBuild, BuildDeadline
  <1>6. CASE RetrieveResult \/ Download \/ PublishBundle \/ WriteManifest \/ Conclude
    <2>1. pc' \notin BeforeSubmission
      BY <1>6 DEF RetrieveResult, Download, PublishBundle, WriteManifest, Conclude,
         Transition, Raise, Escape
    <2> QED
      BY <1>6, <2>1 DEF RetrieveResult, Download, PublishBundle, WriteManifest, Conclude
  <1>7. CASE Leave \/ End \/ CancelSettled \/ Signal \/ Kill \/ OuterLimit \/ Ended
    BY <1>7 DEF Leave, End, CancelSettled, Signal, Kill, OuterLimit, Ended
  <1>8. CASE CancelCorrelated
    BY <1>8, CancelIsNoSubmission
  <1>9. CASE Jenkins
    BY <1>9 DEF Jenkins, ServeSubmission, ServeCancel, LoseRequest, StartBuild,
      CancelledByOperator, FinishBuild, TypeOK, Results
  <1>10. CASE UNCHANGED vars
    BY <1>10
  <1> QED
    BY <1>1, <1>2, <1>3, <1>4, <1>5, <1>6, <1>7, <1>8, <1>9, <1>10
       DEF Next, ClientStep

(* One run is enqueued at most once.                                       *)
THEOREM OneSubmission == Spec => EnqueuedOnce
  <1>1. Init => TypeOK /\ QueueInv
    BY TypeInit DEF Init, QueueInv
  <1>2. TypeOK /\ QueueInv /\ [Next]_vars => TypeOK' /\ QueueInv'
    BY TypeStep, QueueStep
  <1>3. TypeOK /\ QueueInv /\ [Next]_vars => [item = "none" \/ item' # "waiting"]_item
    <2> SUFFICES ASSUME QueueInv, [Next]_vars, item' # item, item' = "waiting"
                 PROVE  item = "none"
      OBVIOUS
    <2>1. CASE Jenkins
      BY <2>1 DEF Jenkins, ServeSubmission, ServeCancel, LoseRequest, StartBuild,
        CancelledByOperator, FinishBuild, QueueInv
    <2>2. CASE ClientStep
      BY <2>2 DEF ClientStep, Writer, MarkPhase, AppendTransition, AddFacts, Persist,
        IdentifyRun, LoadSettings, RejectInput, Preflight, SendSubmission,
        Submitted, PollQueue, ReadQueue, QueueDeadline, PollBuild, ReadBuild,
        BuildDeadline, RetrieveResult, Download, PublishBundle, WriteManifest,
        Conclude, Leave, End, CancelCorrelated, Ask, CancelUnasked, CancelSettled
    <2>3. CASE Signal \/ Kill \/ OuterLimit \/ Ended
      BY <2>3 DEF Signal, Kill, OuterLimit, Ended
    <2> QED
      BY <2>1, <2>2, <2>3 DEF Next
  <1> QED
    BY <1>1, <1>2, <1>3, PTL DEF Spec, EnqueuedOnce

-----------------------------------------------------------------------------
(* What the client has learnt stays true.                                  *)

LEMMA JenkinsMoves ==
  ASSUME TypeOK, QueueInv, Jenkins
  PROVE  /\ item # "none" => item' # "none"
         /\ item \in {"left", "cancelled"} => item' = item
         /\ build \in Results => build' = build
         /\ UNCHANGED << clientVars, fileVars >>
         /\ reply' # reply => reply' \in {"accepted", "unclear", "error",
                                         "unauthorized", "forbidden"}
         /\ reply' # reply /\ reply' = "accepted" => item' = "waiting"
         /\ reply' # reply => pc = "submitting"
  BY DEF Jenkins, ServeSubmission, ServeCancel, LoseRequest, StartBuild,
     CancelledByOperator, FinishBuild, TypeOK, QueueInv, Results

(* The failure codes that name a state of Jenkins.                         *)
JenkinsCauses == {"queue_cancelled", "jenkins_failure", "jenkins_unstable",
            "jenkins_aborted"}

LEMMA RaiseBacked ==
  ASSUME NEW c, NEW p, Raise(c, p)
  PROVE  /\ op'.terminal = Failed(c, p) /\ op'.terminal.code = c
         /\ ~op'.queue /\ ~op'.build
         /\ pc' = "failing"
  BY DEF Raise, Method, Failed

LEMMA CallBacked ==
  ASSUME NEW p, NEW q \in BOOLEAN, NEW b \in BOOLEAN, NEW place,
         Transition(p, q, b, place)
  PROVE  /\ op'.terminal = NoTerminal /\ op'.terminal.code = "none"
         /\ op'.queue = q /\ op'.build = b
         /\ pc' = place
  BY DEF Transition, Method, NoTerminal

LEMMA OtherCodes ==
  /\ StatusFailures \cap JenkinsCauses = {}
  /\ RetrievalFailures \cap JenkinsCauses = {}
  /\ \A own : Deadlines(own) \cap JenkinsCauses \subseteq own
  BY DEF StatusFailures, RetrievalFailures, Deadlines, JenkinsCauses

(* Raising a code that says nothing of Jenkins.                            *)
LEMMA RaiseOther ==
  ASSUME TruthInv, NEW c, NEW p, Raise(c, p), c \notin JenkinsCauses,
         UNCHANGED << doc, disk, known, jenkinsVars >>,
         reply' \in {"none", reply}
  PROVE  TruthInv'
  BY RaiseBacked DEF TruthInv, Backed, JenkinsCauses, Results

LEMMA TruthInit == Init => TruthInv
  BY DEF Init, TruthInv, Backed, NoReceipt, FirstReceipt, NoTerminal, Method, Idle,
     Results

LEMMA WriterTruth == TypeOK /\ TruthInv /\ Writer => TruthInv'
  <1> SUFFICES ASSUME TypeOK, TruthInv, Writer PROVE TruthInv'
    OBVIOUS
  <1>0. doc \in Receipts /\ op \in Operations
    BY DEF TypeOK
  <1>1. CASE MarkPhase
    <2>1. /\ doc'.queue = doc.queue /\ doc'.build = doc.build
          /\ doc'.terminal = doc.terminal
          /\ op'.queue = op.queue /\ op'.build = op.build
          /\ op'.terminal = op.terminal
      BY <1>0, <1>1 DEF MarkPhase, Receipts, Operations, Idle
    <2> QED
      BY <1>1, <2>1 DEF MarkPhase, TruthInv, Backed
  <1>2. CASE AppendTransition
    <2>1. /\ doc'.queue = doc.queue /\ doc'.build = doc.build
          /\ doc'.terminal = doc.terminal
          /\ op'.queue = op.queue /\ op'.build = op.build
          /\ op'.terminal = op.terminal
      BY <1>0, <1>2 DEF AppendTransition, Receipts, Operations, Idle
    <2> QED
      BY <1>2, <2>1 DEF AppendTransition, TruthInv, Backed
  <1>3. CASE AddFacts
    <2>1. /\ doc'.queue = (doc.queue \/ op.queue)
          /\ doc'.build = (doc.build \/ op.build)
          /\ doc'.terminal \in {doc.terminal, op.terminal}
          /\ op'.queue = op.queue /\ op'.build = op.build
          /\ op'.terminal = op.terminal
      BY <1>0, <1>3 DEF AddFacts, Receipts, Operations, Idle
    <2> QED
      BY <1>3, <2>1 DEF AddFacts, TruthInv, Backed
  <1>4. CASE Persist
    <2>1. disk' \in {disk, doc}
      BY <1>4 DEF Persist
    <2> QED
      BY <1>4, <2>1 DEF Persist, TruthInv, Backed, Idle, NoTerminal
  <1> QED
    BY <1>1, <1>2, <1>3, <1>4 DEF Writer

LEMMA TruthStep == TypeOK /\ QueueInv /\ TruthInv /\ [Next]_vars => TruthInv'
  <1> SUFFICES ASSUME TypeOK, QueueInv, TruthInv, [Next]_vars PROVE TruthInv'
    OBVIOUS
  <1>1. CASE Writer
    BY <1>1, WriterTruth
  <1>2. CASE IdentifyRun \/ LoadSettings \/ RejectInput
    BY <1>2 DEF IdentifyRun, LoadSettings, RejectInput, Escape, Transition, Method,
       Failed, TruthInv, Backed, NoTerminal
  <1>3. CASE Preflight
    <2>1. CASE Transition("submitting", FALSE, FALSE, "submit")
      BY <1>3, <2>1, CallBacked DEF Preflight, TruthInv, Backed
    <2>2. CASE \E code \in {"reachability", "identity_mismatch"} \cup StatusFailures
                    \cup Deadlines({}) : Raise(code, "preflighting")
      <3>1. PICK code : Raise(code, "preflighting") /\ code \notin JenkinsCauses
        BY <2>2, OtherCodes DEF JenkinsCauses
      <3> QED
        BY <1>3, <3>1, RaiseOther DEF Preflight
    <2> QED
      BY <1>3, <2>1, <2>2 DEF Preflight
  <1>4. CASE SendSubmission
    <2>1. CASE Raise("outer_deadline", "submitting")
      BY <1>4, <2>1, RaiseOther DEF SendSubmission, JenkinsCauses
    <2>2. CASE op' = op
      BY <1>4, <2>2 DEF SendSubmission, TruthInv, Backed
    <2> QED
      BY <1>4, <2>1, <2>2 DEF SendSubmission
  <1>5. CASE Submitted
    <2>1. CASE reply = "accepted" /\ Transition("queued", TRUE, FALSE, "queue")
      <3>1. known'.build = known.build
        BY <1>5, <2>1 DEF Submitted, TypeOK
      <3> QED
        BY <1>5, <2>1, <3>1, CallBacked DEF Submitted, TruthInv, Backed, Results
    <2>2. CASE known' = known /\ \E c : Raise(c, "submitting") /\ c \notin JenkinsCauses
      BY <1>5, <2>2, RaiseOther DEF Submitted
    <2>3. CASE known' = known /\ \E c \in {"authentication", "authorization",
                         "indeterminate_submission", "submission_deadline"} :
                                  Raise(c, "submitting")
      BY <2>2, <2>3 DEF JenkinsCauses
    <2>4. CASE known' = known /\ \E c \in Deadlines({"submission_deadline"}) :
                                  Raise(c, "submitting")
      BY <2>2, <2>4, OtherCodes DEF JenkinsCauses
    <2> QED
      BY <1>5, <2>1, <2>3, <2>4 DEF Submitted
  <1>6. CASE PollQueue
    <2>1. /\ reply' = "left" => item = "left"
          /\ reply' = "cancelled" => item = "cancelled"
          /\ reply' \notin Results /\ reply' # "accepted"
      BY <1>6 DEF PollQueue, Results, TypeOK
    <2> QED
      BY <1>6, <2>1 DEF PollQueue, TruthInv, Backed
  <1>7. CASE ReadQueue
    <2>0. reply' = "none"
      BY <1>7 DEF ReadQueue
    <2>1. CASE reply = "left" /\ Transition("running", FALSE, TRUE, "build")
      <3>1. /\ known'.queue = known.queue
            /\ item = "left" /\ UNCHANGED << doc, disk, jenkinsVars >>
        BY <1>7, <2>1 DEF ReadQueue, TypeOK, TruthInv
      <3> QED
        BY <2>0, <2>1, <3>1, CallBacked DEF TruthInv, Backed, Results
    <2>2. CASE reply = "cancelled" /\ Raise("queue_cancelled", "queued")
               /\ UNCHANGED known
      BY <1>7, <2>0, <2>2, RaiseBacked DEF ReadQueue, TruthInv, Backed, Results
    <2>3. CASE UNCHANGED known /\ \E c : Raise(c, "queued") /\ c \notin JenkinsCauses
      BY <1>7, <2>3, RaiseOther DEF ReadQueue
    <2>4. CASE op' = op /\ UNCHANGED known
      BY <1>7, <2>0, <2>4 DEF ReadQueue, TruthInv, Backed, Results
    <2>5. CASE UNCHANGED known /\ \E c \in {"queue_unavailable", "identity_mismatch"} :
                                     Raise(c, "queued")
      BY <2>3, <2>5 DEF JenkinsCauses
    <2>6. CASE UNCHANGED known /\ \E c \in StatusFailures : Raise(c, "queued")
      BY <2>3, <2>6, OtherCodes
    <2> QED
      BY <1>7, <2>1, <2>2, <2>4, <2>5, <2>6 DEF ReadQueue
  <1>8. CASE QueueDeadline
    <2>1. \E c : Raise(c, "queued") /\ c \notin JenkinsCauses
      BY <1>8, OtherCodes DEF QueueDeadline, JenkinsCauses
    <2> QED
      BY <1>8, <2>1, RaiseOther DEF QueueDeadline
  <1>9. CASE PollBuild
    <2>1. /\ reply' \in Results => build = reply'
          /\ reply' \notin {"accepted", "left", "cancelled"}
      BY <1>9 DEF PollBuild, Results
    <2> QED
      BY <1>9, <2>1 DEF PollBuild, TruthInv, Backed
  <1>10. CASE ReadBuild
    <2>0. reply' \in {"none", reply} /\ UNCHANGED << doc, disk, known, jenkinsVars >>
      BY <1>10 DEF ReadBuild
    <2>1. CASE reply \in {"ABORTED", "NOT_BUILT"} /\ Raise("jenkins_aborted", "running")
      BY <2>0, <2>1, RaiseBacked DEF TruthInv, Backed, Results
    <2>2. CASE reply = "UNSTABLE" /\ Raise("jenkins_unstable", "running")
      BY <2>0, <2>2, RaiseBacked DEF TruthInv, Backed, Results
    <2>3. CASE \E c : Raise(c, "running") /\ c \notin JenkinsCauses
      BY <2>0, <2>3, RaiseOther
    <2>4. CASE op' = op
      BY <2>0, <2>4 DEF TruthInv, Backed, Results
    <2>5. CASE Transition("retrieving", FALSE, FALSE, "retrieve")
      BY <2>0, <2>5, CallBacked DEF TruthInv, Backed, Results
    <2>6. CASE \E c \in {"identity_mismatch", "stale_agent_image", "missing_artifact"} :
                  Raise(c, "running")
      BY <2>3, <2>6 DEF JenkinsCauses
    <2>7. CASE \E c \in StatusFailures : Raise(c, "running")
      BY <2>3, <2>7, OtherCodes
    <2> QED
      BY <1>10, <2>1, <2>2, <2>4, <2>5, <2>6, <2>7 DEF ReadBuild
  <1>11. CASE BuildDeadline
    <2>1. \E c : Raise(c, "running") /\ c \notin JenkinsCauses
      BY <1>11, OtherCodes DEF BuildDeadline, JenkinsCauses
    <2> QED
      BY <1>11, <2>1, RaiseOther DEF BuildDeadline
  <1>12. CASE RetrieveResult \/ Download \/ PublishBundle \/ WriteManifest
    <2>0. UNCHANGED << doc, disk, known, jenkinsVars, reply >>
      BY <1>12 DEF RetrieveResult, Download, PublishBundle, WriteManifest
    <2>1. op' = op \/ \E c : Raise(c, "retrieving") /\ c \notin JenkinsCauses
      BY <1>12, OtherCodes DEF RetrieveResult, Download, PublishBundle,
         WriteManifest, Escape, JenkinsCauses
    <2>2. CASE op' = op
      BY <2>0, <2>2 DEF TruthInv, Backed
    <2> QED
      BY <2>0, <2>1, <2>2, RaiseOther
  <1>13. CASE Conclude
    <2>0. UNCHANGED << doc, disk, known, jenkinsVars, reply >>
      BY <1>13 DEF Conclude
    <2>1. CASE reply = "FAILURE" /\ Raise("jenkins_failure", "retrieving")
      BY <2>0, <2>1, RaiseBacked DEF TruthInv, Backed, Results
    <2>2. CASE op' = Method("completed", FALSE, FALSE, Succeeded)
      BY <2>0, <2>2 DEF TruthInv, Backed, Method, Succeeded
    <2> QED
      BY <1>13, <2>1, <2>2 DEF Conclude
  <1>14. CASE Leave \/ End \/ Kill \/ OuterLimit \/ Ended \/ UNCHANGED vars
    BY <1>14 DEF Leave, End, Kill, OuterLimit, Ended, TruthInv, Backed
  <1>15. CASE CancelCorrelated \/ CancelSettled
    <2>0. UNCHANGED << doc, disk, known, jenkinsVars, reply >>
      BY <1>15, CancelIsNoSubmission DEF CancelSettled
    <2>1. op' = op \/ op' = Method("cancelled", FALSE, FALSE, Cancelled)
      BY <1>15 DEF CancelCorrelated, Ask, CancelUnasked, CancelSettled
    <2> QED
      BY <2>0, <2>1 DEF TruthInv, Backed, Method, Cancelled
  <1>16. CASE Signal
    BY <1>16 DEF Signal, TruthInv, Backed, Idle, NoTerminal, Results
  <1>17. CASE Jenkins
    BY <1>17, JenkinsMoves DEF TruthInv, Backed, Results
  <1> QED
    BY <1>1, <1>2, <1>3, <1>4, <1>5, <1>6, <1>7, <1>8, <1>9, <1>10, <1>11, <1>12,
       <1>13, <1>14, <1>15, <1>16, <1>17 DEF Next, ClientStep

(* The receipt never claims what Jenkins has not done: the references and  *)
(* the causes it records are facts, not intentions.                        *)
THEOREM ReceiptIsTrue == Spec => []ReceiptTellsTruth
  <1>1. Init => TypeOK /\ QueueInv /\ TruthInv
    BY TypeInit, TruthInit DEF Init, QueueInv
  <1>2. TypeOK /\ QueueInv /\ TruthInv /\ [Next]_vars
          => TypeOK' /\ QueueInv' /\ TruthInv'
    BY TypeStep, QueueStep, TruthStep
  <1>3. QueueInv /\ TruthInv => ReceiptTellsTruth
    BY DEF QueueInv, TruthInv, Backed, ReceiptTellsTruth
  <1> QED
    BY <1>1, <1>2, <1>3, PTL DEF Spec
-----------------------------------------------------------------------------
(* The verdict.                                                            *)

LEMMA Verdicts4 ==
  /\ NoTerminal # Succeeded /\ Cancelled # Succeeded /\ Cancelled # NoTerminal
  /\ \A c, p : Failed(c, p) # Succeeded /\ Failed(c, p) # NoTerminal
  /\ Idle.terminal = NoTerminal
  /\ \A p, q, b, t : Method(p, q, b, t).terminal = t
  BY DEF NoTerminal, Succeeded, Cancelled, Failed, Idle, Method

LEMMA Regions ==
  /\ Retrieved \subseteq Open /\ Visible \subseteq Retrieved
  /\ "conclude" \in Visible
  /\ {"failing", "closing", "cancel", "cancelled", "cancel_wait", "returning",
      "reject_input", "done"} \cap Open = {}
  /\ {"start", "identify", "settings", "preflight", "submit", "submitting", "queue",
      "queue_seen", "build", "build_seen"} \subseteq Open \ Retrieved
  /\ {"retrieve", "download", "publish"} \subseteq Retrieved \ Visible
  BY DEF Open, Visible, Retrieved, InTry

(* The client moves on among its open places, with no verdict.             *)
LEMMA StaysOpen ==
  ASSUME VerdictInv, pc \in Open, op' = op \/ op'.terminal = NoTerminal,
         UNCHANGED << doc, disk, build >>,
         pc' \in Retrieved => reply' \in {"SUCCESS", "FAILURE"},
         pc' \in Open => (bundle' = "published" <=> pc' \in Visible)
  PROVE  VerdictInv'
  BY Verdicts4 DEF VerdictInv

(* It leaves them, with a verdict that is no success.                      *)
LEMMA LeavesOpen ==
  ASSUME VerdictInv, pc' \notin Open,
         op' = op \/ op'.terminal # Succeeded,
         UNCHANGED << doc, disk, build >>,
         pc \in Open \/ bundle' = bundle \/ bundle # "published"
  PROVE  VerdictInv'
  BY Verdicts4, Regions DEF VerdictInv

LEMMA WriterVerdict == TypeOK /\ VerdictInv /\ Writer => VerdictInv'
  <1> SUFFICES ASSUME TypeOK, VerdictInv, Writer PROVE VerdictInv'
    OBVIOUS
  <1>0. doc \in Receipts /\ op \in Operations
    BY DEF TypeOK
  <1>1. UNCHANGED << reply, bundle, build >>
    BY DEF Writer, MarkPhase, AppendTransition, AddFacts, Persist
  <1>2. /\ op'.terminal \in {op.terminal, NoTerminal}
        /\ doc'.terminal \in {doc.terminal, op.terminal}
        /\ disk'.terminal \in {disk.terminal, doc.terminal}
    <2>1. CASE MarkPhase \/ AppendTransition \/ AddFacts
      BY <1>0, <2>1 DEF MarkPhase, AppendTransition, AddFacts, Receipts, Operations,
      Idle
    <2>2. CASE Persist
      BY <2>2, Verdicts4 DEF Persist
    <2> QED
      BY <2>1, <2>2 DEF Writer
  <1>3. \/ pc' = pc
        \/ pc' = "closing"
        \/ pc = "start" /\ pc' = "identify"
    BY DEF Writer, MarkPhase, AppendTransition, AddFacts, Persist
  <1> QED
    BY <1>1, <1>2, <1>3, Verdicts4, Regions DEF VerdictInv

LEMMA VerdictInit == Init => VerdictInv
  BY Verdicts4, Regions DEF Init, VerdictInv, NoReceipt, FirstReceipt, Method

LEMMA RaiseVerdict ==
  ASSUME NEW c, NEW p, Raise(c, p)
  PROVE  pc' = "failing" /\ op'.terminal # Succeeded
  <1>1. op'.terminal = Failed(c, p) /\ pc' = "failing"
    BY RaiseBacked
  <1>2. Failed(c, p).outcome # Succeeded.outcome
    BY DEF Failed, Succeeded
  <1> QED
    BY <1>1, <1>2

LEMMA TransitionVerdict ==
  ASSUME NEW p, NEW q, NEW b, NEW place, Transition(p, q, b, place)
  PROVE  pc' = place /\ op'.terminal = NoTerminal
  BY Verdicts4 DEF Transition

(* A step of the client up to the retrieval moves on with no verdict, or   *)
(* leaves with one that is no success.                                     *)
Onward ==
  \/ /\ pc' \in Open \ Visible
     /\ op' = op \/ op'.terminal = NoTerminal
  \/ /\ pc' \notin Open
     /\ op' = op \/ op'.terminal # Succeeded

LEMMA OnwardVerdict ==
  ASSUME VerdictInv, Onward, pc \in Open \ Visible,
         UNCHANGED << doc, disk, build >>, bundle' # "published",
         pc' \in Retrieved => reply' \in {"SUCCESS", "FAILURE"}
  PROVE  VerdictInv'
  BY StaysOpen, LeavesOpen DEF Onward

LEMMA VerdictStep ==
  TypeOK /\ QueueInv /\ TruthInv /\ VerdictInv /\ [Next]_vars => VerdictInv'
  <1> SUFFICES ASSUME TypeOK, QueueInv, TruthInv, VerdictInv, [Next]_vars
               PROVE  VerdictInv'
    OBVIOUS
  <1>1. CASE Writer
    BY <1>1, WriterVerdict
  <1>2. CASE IdentifyRun \/ LoadSettings \/ Preflight
    <2>1. UNCHANGED << doc, disk, build, bundle, reply >> /\ pc \in Open \ Visible
      BY <1>2, Regions DEF IdentifyRun, LoadSettings, Preflight, At
    <2>2. Onward /\ pc' \notin Retrieved
      <3>1. CASE IdentifyRun \/ LoadSettings
        <4>1. CASE pc' = "settings" /\ op' = op
          BY <4>1, Regions DEF Onward
        <4>2. CASE Transition("preflighting", FALSE, FALSE, "preflight")
          BY <4>2, Regions, TransitionVerdict DEF Onward
        <4>3. CASE /\ pc' = "reject_input"
                   /\ \E c : op' = Method("failed", FALSE, FALSE, Failed(c, "validating"))
          BY <4>3, Regions DEF Onward, Method, Failed, Succeeded
        <4> QED
          BY <3>1, <4>1, <4>2, <4>3 DEF IdentifyRun, LoadSettings
      <3>2. CASE Preflight
        <4>1. CASE Transition("submitting", FALSE, FALSE, "submit")
          BY <4>1, Regions, TransitionVerdict DEF Onward
        <4>2. CASE \E c : Raise(c, "preflighting")
          BY <4>2, Regions, RaiseVerdict DEF Onward
        <4> QED
          BY <3>2, <4>1, <4>2 DEF Preflight
      <3> QED
        BY <1>2, <3>1, <3>2
    <2> QED
      BY <2>1, <2>2, OnwardVerdict DEF VerdictInv
  <1>3. CASE SendSubmission \/ Submitted
    <2>1. UNCHANGED << doc, disk, build, bundle >> /\ pc \in Open \ Visible
      BY <1>3, Regions DEF SendSubmission, Submitted, At
    <2>2. Onward /\ pc' \notin Retrieved
      <3>1. CASE SendSubmission /\ op' = op /\ pc' = "submitting"
        BY <3>1, Regions DEF SendSubmission, Onward
      <3>2. CASE Transition("queued", TRUE, FALSE, "queue")
        BY <3>2, Regions, TransitionVerdict DEF Onward
      <3>3. CASE \E c : Raise(c, "submitting")
        BY <3>3, Regions, RaiseVerdict DEF Onward
      <3> QED
        BY <1>3, <3>1, <3>2, <3>3 DEF SendSubmission, Submitted
    <2> QED
      BY <2>1, <2>2, OnwardVerdict DEF VerdictInv
  <1>4. CASE PollQueue \/ ReadQueue \/ QueueDeadline
    <2>1. UNCHANGED << doc, disk, build, bundle >> /\ pc \in Open \ Visible
      BY <1>4, Regions DEF PollQueue, ReadQueue, QueueDeadline, At
    <2>2. Onward /\ pc' \notin Retrieved
      <3>1. CASE op' = op /\ pc' \in {"queue", "queue_seen"}
        BY <3>1, Regions DEF Onward
      <3>2. CASE Transition("running", FALSE, TRUE, "build")
        BY <3>2, Regions, TransitionVerdict DEF Onward
      <3>3. CASE \E c : Raise(c, "queued")
        BY <3>3, Regions, RaiseVerdict DEF Onward
      <3> QED
        BY <1>4, <3>1, <3>2, <3>3 DEF PollQueue, ReadQueue, QueueDeadline
    <2> QED
      BY <2>1, <2>2, OnwardVerdict DEF VerdictInv
  <1>5. CASE PollBuild \/ ReadBuild \/ BuildDeadline
    <2>1. UNCHANGED << doc, disk, build, bundle >> /\ pc \in Open \ Visible
      BY <1>5, Regions DEF PollBuild, ReadBuild, BuildDeadline, At
    <2>2. Onward /\ (pc' \in Retrieved => reply' \in {"SUCCESS", "FAILURE"})
      <3>1. CASE op' = op /\ pc' \in {"build", "build_seen"}
        BY <3>1, Regions DEF Onward
      <3>2. CASE /\ reply' \in {"SUCCESS", "FAILURE"}
                 /\ Transition("retrieving", FALSE, FALSE, "retrieve")
        BY <3>2, Regions, TransitionVerdict DEF Onward
      <3>3. CASE \E c : Raise(c, "running")
        BY <3>3, Regions, RaiseVerdict DEF Onward
      <3> QED
        BY <1>5, <3>1, <3>2, <3>3 DEF PollBuild, ReadBuild, BuildDeadline
    <2> QED
      BY <2>1, <2>2, OnwardVerdict DEF VerdictInv
  <1>6. CASE RetrieveResult \/ Download
    <2>1. UNCHANGED << doc, disk, build, reply >> /\ pc \in Retrieved \ Visible
      BY <1>6, Regions DEF RetrieveResult, Download, At
    <2>2. bundle' # "published" /\ reply' \in {"SUCCESS", "FAILURE"}
      BY <1>6, <2>1, Regions DEF RetrieveResult, Download, VerdictInv
    <2>3. Onward
      <3>1. CASE op' = op /\ pc' \in {"download", "publish", "closing"}
        BY <3>1, Regions DEF Onward
      <3>2. CASE \E c : Raise(c, "retrieving")
        BY <3>2, Regions, RaiseVerdict DEF Onward
      <3> QED
        BY <1>6, <3>1, <3>2 DEF RetrieveResult, Download, Escape
    <2> QED
      BY <2>1, <2>2, <2>3, Regions, OnwardVerdict
  <1>7. CASE PublishBundle \/ WriteManifest
    <2>1. /\ UNCHANGED << doc, disk, build, reply >> /\ pc \in Retrieved /\ op' = op
      BY <1>7, Regions DEF PublishBundle, WriteManifest, Escape, At, Visible
    <2>2. \/ pc' \in Visible /\ bundle' = "published"
          \/ pc' = "closing"
      BY <1>7, <2>1, Regions DEF PublishBundle, WriteManifest, Escape, At, Visible,
         VerdictInv
    <2> QED
      BY <2>1, <2>2, Regions, StaysOpen, LeavesOpen DEF VerdictInv
  <1>8. CASE Conclude
    <2>1. UNCHANGED << doc, disk, build, reply, bundle >> /\ pc = "conclude"
      BY <1>8 DEF Conclude, At
    <2>2. reply \in {"SUCCESS", "FAILURE"} /\ bundle = "published"
          /\ Succeeded \notin {doc.terminal, disk.terminal}
      BY <2>1, Regions, Verdicts4 DEF VerdictInv
    <2>3. CASE \E c : Raise(c, "retrieving")
      BY <2>1, <2>3, Regions, RaiseVerdict, LeavesOpen
    <2>4. CASE reply # "FAILURE" /\ pc' = "returning"
      <3>1. build = "SUCCESS"
        BY <2>2, <2>4 DEF TruthInv, Results
      <3> QED
        BY <2>1, <2>2, <2>4, <3>1, Regions DEF VerdictInv
    <2> QED
      BY <1>8, <2>3, <2>4 DEF Conclude
  <1>9. CASE RejectInput \/ Leave \/ End \/ CancelCorrelated \/ CancelSettled \/ Kill
    <2>1. UNCHANGED << doc, disk, build, bundle >>
      BY <1>9
         DEF RejectInput, Leave, End, CancelCorrelated, Ask, CancelUnasked,
           CancelSettled, Kill
    <2>2. pc' \notin Open /\ (op' = op \/ op'.terminal # Succeeded)
      <3>1. op' = op \/ op' = Method("cancelled", FALSE, FALSE, Cancelled)
        BY <1>9
           DEF RejectInput, Leave, End, CancelCorrelated, Ask, CancelUnasked,
           CancelSettled, Kill, Escape
      <3>2. pc' \in {"closing", "done", "cancelled", "cancel_wait"}
        BY <1>9
           DEF RejectInput, Leave, End, CancelCorrelated, Ask, CancelUnasked,
           CancelSettled, Kill, Escape
      <3> QED
        BY <3>1, <3>2, Regions DEF Method, Cancelled, Succeeded
    <2> QED
      BY <2>1, <2>2, LeavesOpen
  <1>10. CASE Signal
    <2>1. /\ UNCHANGED << doc, disk, build >>
          /\ pc' \in {"cancel", "closing"}
          /\ op' = Idle
          /\ bundle = "published" => bundle' = bundle
      BY <1>10 DEF Signal
    <2> QED
      BY <2>1, Regions, Verdicts4, LeavesOpen
  <1>11. CASE Jenkins
    <2>1. build' = build \/ build \notin Results
      BY <1>11, JenkinsMoves
    <2>2. reply' = reply \/ pc = "submitting"
      BY <1>11, JenkinsMoves
    <2>3. UNCHANGED << pc, op, doc, disk, bundle >>
      BY <1>11, JenkinsMoves DEF clientVars, fileVars
    <2> QED
      BY <2>1, <2>2, <2>3, Regions DEF VerdictInv, Results
  <1>12. CASE OuterLimit \/ Ended \/ UNCHANGED vars
    BY <1>12 DEF OuterLimit, Ended, VerdictInv
  <1> QED
    BY <1>1, <1>2, <1>3, <1>4, <1>5, <1>6, <1>7, <1>8, <1>9, <1>10, <1>11, <1>12
       DEF Next, ClientStep
-----------------------------------------------------------------------------
(* The handoff implements its promise.                                     *)

RunInv == TypeOK /\ FileInv /\ QueueInv /\ TruthInv /\ VerdictInv

LEMMA RunInit == Init => RunInv
  BY TypeInit, FileInit, TruthInit, VerdictInit DEF Init, QueueInv, RunInv

LEMMA RunStep == RunInv /\ [Next]_vars => RunInv'
  BY TypeStep, FileStep, QueueStep, TruthStep, VerdictStep DEF RunInv

LEMMA Outcomes4 ==
  ASSUME NEW t \in Terminals
  PROVE  /\ t.outcome = "succeeded" <=> t = Succeeded
         /\ t # NoTerminal <=> t.outcome # "none"
         /\ t # NoTerminal => t.outcome \in {"succeeded", "failed", "cancelled"}
  BY DEF Terminals, NoTerminal, Succeeded, Cancelled, Failed

(* What the mapped state of HandoffPromise depends on.                     *)
LEMMA PromiseStutter ==
  ASSUME disk' = disk, item' = item, build' = build,
         (bundle' = "published") <=> (bundle = "published")
  PROVE  UNCHANGED Promise!vars
  BY DEF Promise!vars, Verdict, Remote

LEMMA SuccessBacked ==
  ASSUME RunInv, Verdict = "succeeded" \/ doc.terminal = Succeeded
  PROVE  Remote = "succeeded" /\ bundle = "published" /\ item = "left"
  <1>1. doc.terminal = Succeeded \/ disk.terminal = Succeeded
    BY Outcomes4 DEF Verdict, RunInv, TypeOK, Receipts
  <1>2. build = "SUCCESS" /\ bundle = "published"
    BY <1>1 DEF RunInv, VerdictInv
  <1>3. item = "left"
    BY <1>2 DEF RunInv, QueueInv
  <1> QED
    BY <1>2, <1>3 DEF Remote

LEMMA PersistPromise ==
  ASSUME RunInv, Persist, disk' # disk
  PROVE  Promise!Succeed \/ Promise!GiveUp \/ UNCHANGED Promise!vars
  <1>1. disk.terminal = NoTerminal /\ disk' = doc
        /\ UNCHANGED << item, build, bundle >>
    BY PersistGrows DEF Persist, RunInv, jenkinsVars, fileVars
  <1>2. Verdict = "open" /\ Remote' = Remote /\ (bundle = "published")' = (bundle = "published")
    BY <1>1 DEF Verdict, Remote
  <1>3. doc.terminal \in Terminals
    BY DEF RunInv, TypeOK, Receipts
  <1>4. CASE doc.terminal = NoTerminal
    <2>1. Verdict' = "open"
      BY <1>1, <1>4 DEF Verdict
    <2> QED
      BY <1>2, <2>1 DEF Promise!vars
  <1>5. CASE doc.terminal = Succeeded
    <2>1. Verdict' = "succeeded"
      BY <1>1, <1>3, <1>5, Outcomes4 DEF Verdict
    <2> QED
      BY <1>2, <1>5, <2>1, SuccessBacked DEF Promise!Succeed
  <1>6. CASE doc.terminal \notin {NoTerminal, Succeeded}
    <2>1. Verdict' \in {"failed", "cancelled"}
      BY <1>1, <1>3, <1>6, Outcomes4 DEF Verdict
    <2> QED
      BY <1>2, <2>1 DEF Promise!GiveUp
  <1> QED
    BY <1>4, <1>5, <1>6

LEMMA JenkinsPromise ==
  ASSUME RunInv, Jenkins
  PROVE  Promise!Submit \/ Promise!RemoteEnd \/ UNCHANGED Promise!vars
  <1>0. /\ item = "left" <=> build # "none"
        /\ "submit" \in wire => item = "none"
        /\ item \in {"none", "waiting", "left", "cancelled"}
        /\ build \in {"none", "building", "stopping"} \cup Results
    BY DEF RunInv, QueueInv, TypeOK
  <1>1. disk' = disk /\ bundle' = bundle
    BY JenkinsMoves DEF RunInv, clientVars, fileVars
  <1>2. Verdict' = Verdict /\ (bundle = "published")' = (bundle = "published")
    BY <1>1 DEF Verdict
  <1>3. CASE item' = item /\ build' = build
    BY <1>1, <1>3, PromiseStutter
  <1>4. CASE ServeSubmission /\ item' # item
    <2>1. item = "none" /\ item' = "waiting" /\ build' = build /\ build = "none"
      BY <1>0, <1>4 DEF ServeSubmission
    <2>2. Remote = "none" /\ Remote' = "pending"
      BY <2>1 DEF Remote
    <2>3. Verdict # "succeeded"
      BY <2>1, SuccessBacked
    <2> QED
      BY <1>2, <2>2, <2>3 DEF Promise!Submit
  <1>5. CASE ServeCancel \/ CancelledByOperator \/ StartBuild
    <2>1. \/ item = "waiting" /\ item' = "cancelled" /\ build' = "none" /\ build = "none"
          \/ item = "waiting" /\ item' = "left" /\ build = "none" /\ build' = "building"
          \/ item = "left" /\ item' = item /\ build = "building" /\ build' = "stopping"
          \/ item' = item /\ build' = build
      BY <1>0, <1>5 DEF ServeCancel, CancelledByOperator, StartBuild
    <2>2. CASE item = "waiting" /\ item' = "cancelled" /\ build' = "none" /\ build = "none"
      <3>1. Remote = "pending" /\ Remote' = "dropped"
        BY <2>2 DEF Remote
      <3> QED
        BY <1>2, <3>1 DEF Promise!RemoteEnd, Promise!RemoteEnds
    <2>3. CASE item = "waiting" /\ item' = "left" /\ build = "none" /\ build' = "building"
      <3>1. Remote = "pending" /\ Remote' = "pending"
        BY <2>3 DEF Remote
      <3> QED
        BY <1>2, <3>1 DEF Promise!vars
    <2>4. CASE item = "left" /\ item' = item /\ build = "building" /\ build' = "stopping"
      <3>1. Remote = "pending" /\ Remote' = "pending"
        BY <2>4 DEF Remote
      <3> QED
        BY <1>2, <3>1 DEF Promise!vars
    <2> QED
      BY <1>3, <2>1, <2>2, <2>3, <2>4
  <1>6. CASE FinishBuild
    <2>1. item = "left" /\ item' = item /\ build \in {"building", "stopping"}
          /\ build' \in Results
      BY <1>0, <1>6 DEF FinishBuild
    <2>2. Remote = "pending" /\ Remote' \in {"succeeded", "failed", "dropped"}
      BY <2>1 DEF Remote, Results
    <2> QED
      BY <1>2, <2>2 DEF Promise!RemoteEnd, Promise!RemoteEnds
  <1> QED
    BY <1>3, <1>4, <1>5, <1>6 DEF Jenkins, LoseRequest, ServeSubmission, jenkinsVars

LEMMA ClientLeavesJenkins ==
  ASSUME ClientStep \/ Signal \/ Kill \/ OuterLimit
  PROVE  item' = item /\ build' = build
  BY DEF ClientStep, Writer, MarkPhase, AppendTransition, AddFacts, Persist,
     IdentifyRun, LoadSettings, RejectInput, Preflight, SendSubmission, Submitted,
     PollQueue, ReadQueue, QueueDeadline, PollBuild, ReadBuild, BuildDeadline,
     RetrieveResult, Download, PublishBundle, WriteManifest, Conclude, Leave, End,
     CancelCorrelated, Ask, CancelUnasked, CancelSettled, Signal, Kill, OuterLimit,
     jenkinsVars

(* Outside of PublishBundle a published bundle stays and no other appears. *)
LEMMA BundleStays ==
  ASSUME RunInv, ClientStep \/ Signal \/ Kill \/ OuterLimit, ~PublishBundle
  PROVE  (bundle' = "published") <=> (bundle = "published")
  <1>1. CASE RetrieveResult \/ Download
    <2>1. pc \in Retrieved \ Visible
      BY <1>1, Regions DEF RetrieveResult, Download, At
    <2>2. bundle # "published"
      BY <2>1, Regions DEF RunInv, VerdictInv
    <2> QED
      BY <1>1, <2>2 DEF RetrieveResult, Download
  <1>2. CASE Signal
    BY <1>2 DEF Signal
  <1>3. CASE ~(RetrieveResult \/ Download \/ Signal)
    BY <1>3 DEF ClientStep, Writer, MarkPhase, AppendTransition, AddFacts, Persist,
     IdentifyRun, LoadSettings, RejectInput, Preflight, SendSubmission, Submitted,
     PollQueue, ReadQueue, QueueDeadline, PollBuild, ReadBuild, BuildDeadline,
     WriteManifest, Conclude, Leave, End, CancelCorrelated, Ask, CancelUnasked,
     CancelSettled, Kill, OuterLimit,
     fileVars
  <1> QED
    BY <1>1, <1>2, <1>3

LEMMA PublishPromise ==
  ASSUME RunInv, PublishBundle
  PROVE  Promise!Return \/ UNCHANGED Promise!vars
  <1>1. pc = "publish" /\ disk' = disk /\ UNCHANGED << item, build >>
    BY DEF PublishBundle, At, jenkinsVars
  <1>2. disk.terminal = NoTerminal /\ bundle # "published"
        /\ reply \in {"SUCCESS", "FAILURE"}
    BY <1>1, Regions DEF RunInv, VerdictInv
  <1>3. build = reply /\ item = "left"
    BY <1>2 DEF RunInv, TruthInv, QueueInv, Results
  <1>4. Remote \in {"succeeded", "failed"} /\ Verdict = "open"
    BY <1>2, <1>3 DEF Remote, Verdict
  <1>5. Verdict' = Verdict /\ Remote' = Remote
    BY <1>1 DEF Verdict, Remote
  <1>6. CASE bundle' = "published"
    BY <1>4, <1>5, <1>6 DEF Promise!Return
  <1>7. CASE bundle' # "published"
    BY <1>1, <1>2, <1>7, PromiseStutter
  <1> QED
    BY <1>6, <1>7

LEMMA PromiseStep ==
  ASSUME RunInv, [Next]_vars
  PROVE  [Promise!Next]_(Promise!vars)
  <1>1. CASE Persist /\ disk' # disk
    BY <1>1, PersistPromise DEF Promise!Next
  <1>2. CASE Jenkins
    BY <1>2, JenkinsPromise DEF Promise!Next
  <1>3. CASE PublishBundle
    BY <1>3, PublishPromise DEF Promise!Next
  <1>4. CASE (ClientStep \/ Signal \/ Kill \/ OuterLimit) /\ ~PublishBundle /\ disk' = disk
    BY <1>4, ClientLeavesJenkins, BundleStays, PromiseStutter
  <1>5. CASE Ended \/ UNCHANGED vars
    <2>1. UNCHANGED << disk, item, build, bundle >>
      BY <1>5 DEF Ended, vars, clientVars, jenkinsVars, fileVars
    <2> QED
      BY <2>1, PromiseStutter
  <1>6. disk' = disk \/ Persist
    <2>1. CASE Writer
      BY <2>1 DEF Writer, MarkPhase, AppendTransition, AddFacts
    <2> QED
      BY <2>1, OthersLeaveFile
  <1> QED
    BY <1>1, <1>2, <1>3, <1>4, <1>5, <1>6 DEF Next, ClientStep, Writer

(* Whoever reads the receipt can rely on HandoffPromise: one verdict, no   *)
(* success without a SUCCESS build and its bundle, no bundle before the    *)
(* build has ended or after the verdict.                                   *)
THEOREM PromiseKept == Spec => KeepsPromise
  <1>1. Init => RunInv
    BY RunInit
  <1>2. RunInv /\ [Next]_vars => RunInv'
    BY RunStep
  <1>3. Init => Promise!Init
    BY DEF Init, Promise!Init, Verdict, Remote, NoReceipt
  <1>4. RunInv /\ [Next]_vars => [Promise!Next]_(Promise!vars)
    BY PromiseStep
  <1> QED
    BY <1>1, <1>2, <1>3, <1>4, PTL DEF Spec, KeepsPromise, Promise!Spec

-----------------------------------------------------------------------------
(* The bundle and the failures beside it.                                  *)

(* What the writer moves: terminal facts from the pending method to the    *)
(* document, and from there to the file.                                   *)
LEMMA WriterMoves ==
  ASSUME TypeOK, Writer
  PROVE  /\ UNCHANGED << known, exit, outerVars, netVars, jenkinsVars, fileVars >>
         /\ op'.terminal \in {op.terminal, NoTerminal}
         /\ doc'.terminal \in {doc.terminal, op.terminal}
         /\ disk'.terminal \in {disk.terminal, doc.terminal}
         /\ \/ pc' = pc
            \/ pc' = "closing"
            \/ pc = "start" /\ pc' = "identify"
  <1>0. doc \in Receipts /\ op \in Operations
    BY DEF TypeOK
  <1>1. CASE MarkPhase \/ AppendTransition \/ AddFacts
    BY <1>0, <1>1 DEF MarkPhase, AppendTransition, AddFacts, Receipts, Operations, Idle
  <1>2. CASE Persist
    BY <1>2, Verdicts4 DEF Persist
  <1> QED
    BY <1>1, <1>2 DEF Writer

LEMMA ExplainedFacts ==
  /\ Explained(NoTerminal) /\ Explained(Cancelled)
  /\ \A c \in STRING : \A p : c # "jenkins_failure" /\ bundle # "published"
                 => Explained(Failed(c, p))
  /\ Whole => Explained(Succeeded) /\ \A p : Explained(Failed("jenkins_failure", p))
  BY DEF Explained, Whole, NoTerminal, Cancelled, Failed, Succeeded

(* Nothing the step adds to the pending method accuses the build.          *)
Neutral ==
  \/ op' = op
  \/ op'.terminal \in {NoTerminal, Cancelled}
  \/ \E c \in Codes \ {"jenkins_failure"}, p \in LivePhases : op'.terminal = Failed(c, p)

(* raise HandoffError with a code that does not.                           *)
RaiseOwn(phase) == \E c \in Codes \ {"jenkins_failure"} : Raise(c, phase)

LEMMA RaiseNeutral ==
  ASSUME NEW p \in LivePhases, RaiseOwn(p)
  PROVE  Neutral /\ pc' = "failing"
  BY RaiseBacked DEF RaiseOwn, Neutral

LEMMA OwnCodes ==
  /\ StatusFailures \subseteq Codes \ {"jenkins_failure"}
  /\ RetrievalFailures \subseteq Codes \ {"jenkins_failure"}
  /\ \A own \in { {}, {"submission_deadline"}, {"queue_deadline"}, {"build_deadline"} } :
       Deadlines(own) \subseteq Codes \ {"jenkins_failure"}
  /\ {"reachability", "identity_mismatch", "authentication", "authorization",
      "indeterminate_submission", "queue_cancelled", "queue_unavailable",
      "stale_agent_image", "missing_artifact", "invalid_artifact", "jenkins_aborted",
      "jenkins_unstable"} \subseteq Codes \ {"jenkins_failure"}
  BY DEF StatusFailures, RetrievalFailures, Deadlines, Codes

LEMMA BeforePublication ==
  ASSUME BundleInv, Neutral, bundle # "published", bundle' # "published",
         UNCHANGED << doc, disk >>,
         pc' # "conclude", pc' = "publish" => archive' \in GoodArchives
  PROVE  BundleInv'
  <1>1. \A t : Explained(t) => Explained(t)'
    BY DEF Explained, Whole
  <1>2. Explained(op.terminal)'
    <2>1. CASE op' = op
      BY <1>1, <2>1 DEF BundleInv
    <2>2. CASE op'.terminal \in {NoTerminal, Cancelled}
      BY <2>2 DEF Explained, NoTerminal, Cancelled
    <2>3. CASE \E c \in Codes \ {"jenkins_failure"}, p \in LivePhases :
                 op'.terminal = Failed(c, p)
      BY <2>3 DEF Explained, Failed
    <2> QED
      BY <2>1, <2>2, <2>3 DEF Neutral
  <1>3. Explained(doc.terminal)' /\ Explained(disk.terminal)'
    BY <1>1 DEF BundleInv
  <1> QED
    BY <1>2, <1>3 DEF BundleInv

LEMMA NothingAdded ==
  ASSUME BundleInv, op' = op \/ op'.terminal \in {NoTerminal, Cancelled},
         UNCHANGED << doc, disk, build, archive, manifest >>,
         (bundle' = "published") <=> (bundle = "published"),
         pc' \notin {"publish", "conclude"} \/ pc' = pc
  PROVE  BundleInv'
  <1>1. \A t : Explained(t) => Explained(t)'
    BY DEF Explained, Whole
  <1>2. Explained(op.terminal)'
    BY <1>1, ExplainedFacts DEF BundleInv
  <1>3. Explained(doc.terminal)' /\ Explained(disk.terminal)'
    BY <1>1 DEF BundleInv
  <1> QED
    BY <1>2, <1>3 DEF BundleInv, Whole

LEMMA BundleInit == Init => BundleInv
  BY Verdicts4, ExplainedFacts
     DEF Init, BundleInv, NoReceipt, FirstReceipt, Method

LEMMA BundleStep ==
  ASSUME TypeOK, QueueInv, TruthInv, VerdictInv, BundleInv, [Next]_vars
  PROVE  BundleInv'
  <1>1. CASE Writer
    <2>1. \A t : Explained(t) => Explained(t)'
      BY <1>1, WriterMoves DEF Explained, Whole
    <2> QED
      BY <1>1, <2>1, WriterMoves, ExplainedFacts DEF BundleInv, Whole
  <1>2. CASE IdentifyRun \/ LoadSettings \/ Preflight \/ SendSubmission \/ Submitted
    <2>1. UNCHANGED << doc, disk, bundle >> /\ pc \in Open \ Visible
      BY <1>2, Regions DEF IdentifyRun, LoadSettings, Preflight, SendSubmission,
         Submitted, At
    <2>2. Neutral /\ pc' \notin {"publish", "conclude"}
      <3>1. CASE IdentifyRun \/ LoadSettings
        <4>1. \/ op' = op
              \/ op'.terminal = NoTerminal
              \/ \E c \in {"input_validation", "configuration"} :
                   op'.terminal = Failed(c, "validating")
          BY <3>1 DEF IdentifyRun, LoadSettings, Transition, Method
        <4>2. /\ {"input_validation", "configuration"} \subseteq Codes \ {"jenkins_failure"}
              /\ "validating" \in LivePhases
          BY DEF Codes, LivePhases
        <4>3. pc' \in {"settings", "preflight", "reject_input"}
          BY <3>1 DEF IdentifyRun, LoadSettings, Transition
        <4> QED
          BY <4>1, <4>2, <4>3 DEF Neutral
      <3>2. CASE Preflight
        <4>1. Transition("submitting", FALSE, FALSE, "submit") \/ RaiseOwn("preflighting")
          BY <3>2, OwnCodes DEF Preflight, RaiseOwn
        <4>2. CASE Transition("submitting", FALSE, FALSE, "submit")
          BY <4>2 DEF Transition, Method, Neutral
        <4>3. CASE RaiseOwn("preflighting")
          BY <4>3, RaiseNeutral DEF LivePhases
        <4> QED
          BY <4>1, <4>2, <4>3
      <3>3. CASE SendSubmission
        <4>1. CASE op' = op /\ pc' = "submitting"
          BY <3>3, <4>1 DEF SendSubmission, Neutral
        <4>2. CASE Raise("outer_deadline", "submitting")
          <5>1. RaiseOwn("submitting")
            BY <4>2 DEF RaiseOwn, Codes
          <5> QED
            BY <5>1, RaiseNeutral DEF LivePhases
        <4> QED
          BY <3>3, <4>1, <4>2 DEF SendSubmission
      <3>4. CASE Submitted
        <4>1. Transition("queued", TRUE, FALSE, "queue") \/ RaiseOwn("submitting")
          BY <3>4, OwnCodes DEF Submitted, RaiseOwn, Codes
        <4>2. CASE Transition("queued", TRUE, FALSE, "queue")
          BY <4>2 DEF Transition, Method, Neutral
        <4>3. CASE RaiseOwn("submitting")
          BY <4>3, RaiseNeutral DEF LivePhases
        <4> QED
          BY <4>1, <4>2, <4>3
      <3> QED
        BY <1>2, <3>1, <3>2, <3>3, <3>4
    <2> QED
      BY <2>1, <2>2, BeforePublication DEF VerdictInv
  <1>3. CASE PollQueue \/ ReadQueue \/ QueueDeadline
    <2>1. UNCHANGED << doc, disk, bundle >> /\ pc \in Open \ Visible
      BY <1>3, Regions DEF PollQueue, ReadQueue, QueueDeadline, At
    <2>2. Neutral /\ pc' \notin {"publish", "conclude"}
      <3>1. \/ op' = op /\ pc' \in {"queue", "queue_seen"}
            \/ Transition("running", FALSE, TRUE, "build")
            \/ RaiseOwn("queued")
        BY <1>3, OwnCodes DEF PollQueue, ReadQueue, QueueDeadline, RaiseOwn
      <3>2. CASE op' = op /\ pc' \in {"queue", "queue_seen"}
        BY <3>2 DEF Neutral
      <3>3. CASE Transition("running", FALSE, TRUE, "build")
        BY <3>3 DEF Transition, Method, Neutral
      <3>4. CASE RaiseOwn("queued")
        BY <3>4, RaiseNeutral DEF LivePhases
      <3> QED
        BY <3>1, <3>2, <3>3, <3>4
    <2> QED
      BY <2>1, <2>2, BeforePublication DEF VerdictInv
  <1>4. CASE PollBuild \/ ReadBuild \/ BuildDeadline
    <2>1. UNCHANGED << doc, disk, bundle >> /\ pc \in Open \ Visible
      BY <1>4, Regions DEF PollBuild, ReadBuild, BuildDeadline, At
    <2>2. Neutral /\ pc' \notin {"publish", "conclude"}
      <3>1. \/ op' = op /\ pc' \in {"build", "build_seen"}
            \/ Transition("retrieving", FALSE, FALSE, "retrieve")
            \/ RaiseOwn("running")
        BY <1>4, OwnCodes DEF PollBuild, ReadBuild, BuildDeadline, RaiseOwn
      <3>2. CASE op' = op /\ pc' \in {"build", "build_seen"}
        BY <3>2 DEF Neutral
      <3>3. CASE Transition("retrieving", FALSE, FALSE, "retrieve")
        BY <3>3 DEF Transition, Method, Neutral
      <3>4. CASE RaiseOwn("running")
        BY <3>4, RaiseNeutral DEF LivePhases
      <3> QED
        BY <3>1, <3>2, <3>3, <3>4
    <2> QED
      BY <2>1, <2>2, BeforePublication DEF VerdictInv
  <1>5. CASE RetrieveResult \/ Download
    <2>1. UNCHANGED << doc, disk, archive >> /\ pc \in Retrieved \ Visible
      BY <1>5, Regions DEF RetrieveResult, Download, At
    <2>2. bundle # "published" /\ bundle' # "published"
      BY <1>5, <2>1, Regions DEF RetrieveResult, Download, VerdictInv
    <2>3. Neutral /\ pc' # "conclude" /\ (pc' = "publish" => archive \in GoodArchives)
      <3>1. \/ op' = op /\ pc' \in {"download", "closing"}
            \/ op' = op /\ pc' = "publish" /\ archive \in GoodArchives
            \/ RaiseOwn("retrieving")
        BY <1>5, OwnCodes DEF RetrieveResult, Download, Escape, RaiseOwn
      <3> QED
        BY <3>1, RaiseNeutral DEF Neutral, LivePhases
    <2> QED
      BY <2>1, <2>2, <2>3, BeforePublication
  <1>6. CASE PublishBundle \/ WriteManifest
    <2>1. pc \in Retrieved /\ UNCHANGED << op, doc, disk, build, archive >>
      BY <1>6, Regions DEF PublishBundle, WriteManifest, Escape, At, Visible
    <2>2. /\ op'.terminal = NoTerminal /\ doc'.terminal = NoTerminal
          /\ disk'.terminal = NoTerminal
      BY <2>1, Regions DEF VerdictInv
    <2>3. archive \in GoodArchives /\ build \in {"SUCCESS", "FAILURE"}
      BY <1>6, <2>1, Regions DEF PublishBundle, WriteManifest, At, Visible, VerdictInv,
         BundleInv, TruthInv, Results
    <2>4. pc' # "publish" /\ (pc' = "conclude" => Whole')
      BY <1>6, <2>1, Regions DEF PublishBundle, WriteManifest, At, Escape, Visible,
         VerdictInv, Whole
    <2> QED
      BY <2>1, <2>2, <2>3, <2>4, ExplainedFacts DEF BundleInv, Explained, NoTerminal
  <1>7. CASE Conclude
    <2>1. Whole /\ UNCHANGED << doc, disk, build, archive, bundle, manifest >>
          /\ pc' \in {"failing", "returning"}
      BY <1>7 DEF Conclude, At, BundleInv, Raise
    <2>2. op'.terminal \in {Failed("jenkins_failure", "retrieving"), Succeeded}
      BY <1>7 DEF Conclude, Raise, Method
    <2>3. \A t : Explained(t) => Explained(t)'
      BY <2>1 DEF Explained, Whole
    <2>4. Explained(op'.terminal)
      BY <2>1, <2>2, ExplainedFacts
    <2> QED
      BY <2>1, <2>3, <2>4 DEF BundleInv
  <1>8. CASE RejectInput \/ Leave \/ End \/ CancelCorrelated \/ CancelSettled \/ Kill
    <2>1. UNCHANGED << doc, disk, build, archive, bundle, manifest >>
      BY <1>8
         DEF RejectInput, Leave, End, CancelCorrelated, Ask, CancelUnasked,
           CancelSettled, Kill
    <2>2. op' = op \/ op'.terminal = Cancelled
      BY <1>8
         DEF RejectInput, Leave, End, CancelCorrelated, Ask, CancelUnasked,
           CancelSettled, Kill, Escape, Method
    <2>3. pc' \in {"closing", "done", "cancelled", "cancel_wait"}
      BY <1>8
         DEF RejectInput, Leave, End, CancelCorrelated, Ask, CancelUnasked,
           CancelSettled, Kill, Escape
    <2> QED
      BY <2>1, <2>2, <2>3, NothingAdded
  <1>9. CASE Signal
    BY <1>9, Verdicts4, NothingAdded DEF Signal
  <1>10. CASE Jenkins
    <2>1. UNCHANGED << pc, op, doc, disk, bundle, manifest >>
      BY <1>10, JenkinsMoves
    <2>2. build \in Results => UNCHANGED << build, archive >>
      BY <1>10 DEF Jenkins, ServeSubmission, ServeCancel, LoseRequest, StartBuild,
         CancelledByOperator, FinishBuild, QueueInv, Results
    <2>3. CASE pc = "publish" \/ bundle = "published"
      <3>1. build \in Results
        BY <2>3, Regions DEF BundleInv, VerdictInv, TruthInv, Results
      <3> QED
        BY <2>1, <2>2, <3>1, NothingAdded
    <2>4. CASE pc # "publish" /\ bundle # "published"
      BY <2>1, <2>4 DEF BundleInv, Explained, Whole
    <2> QED
      BY <2>3, <2>4
  <1>11. CASE OuterLimit \/ Ended \/ UNCHANGED vars
    BY <1>11, NothingAdded DEF OuterLimit, Ended
  <1> QED
    BY <1>1, <1>2, <1>3, <1>4, <1>5, <1>6, <1>7, <1>8, <1>9, <1>10, <1>11
       DEF Next, ClientStep

-----------------------------------------------------------------------------
(* The exit status.                                                        *)

LEMMA IdleOp ==
  ASSUME NEW o \in Operations
  PROVE  o = Idle <=> o.at = "idle"
  BY DEF Operations, Idle

(* A step that leaves document and file alone goes on, gives up without a  *)
(* handler, or calls the method its new place waits for.                   *)
GoesOn == /\ op' = op /\ op = Idle /\ outcome' = outcome
          /\ pc' \notin {"returning", "failing", "closing", "done"}
GivesUp == op' = op /\ op = Idle /\ pc' = "closing" /\ outcome' = "invalid"
Calls == /\ op'.at = "phase" /\ outcome' = outcome
         /\ pc' \notin {"closing", "done"}
         /\ pc' = "returning" => op'.phase = "completed"
         /\ pc' = "failing" => op'.phase = "failed"

LEMMA ExitMove ==
  ASSUME TypeOK, ExitInv, exit = "none", pc \notin {"closing", "done"},
         UNCHANGED << doc, disk, exit >>, GoesOn \/ GivesUp \/ Calls
  PROVE  ExitInv'
  BY DEF ExitInv, Leaves, GoesOn, GivesUp, Calls, Idle

LEMMA ExitInit == Init => ExitInv
  BY DEF Init, ExitInv, FirstReceipt, NoReceipt, Method

LEMMA WriterExit ==
  ASSUME TypeOK, ExitInv, Writer
  PROVE  ExitInv'
  <1> USE IdleOp DEF TypeOK, Writing
  <1>0. doc \in Receipts /\ op \in Operations
    OBVIOUS
  <1>1. CASE MarkPhase
    <2>1. /\ op.at = "phase" /\ op'.at = "append" /\ op'.phase = op.phase
          /\ doc'.phase = op.phase /\ exit = "none"
          /\ UNCHANGED << pc, disk, outcome, exit >>
      BY <1>0, <1>1 DEF MarkPhase, Operations, Receipts, Idle
    <2> QED
      BY <2>1 DEF ExitInv, Leaves, Idle
  <1>2. CASE AppendTransition
    <2>1. /\ op.at = "append" /\ op'.at = "facts" /\ op'.phase = op.phase
          /\ doc'.phase = doc.phase /\ exit = "none"
          /\ UNCHANGED << pc, disk, outcome, exit >>
      BY <1>0, <1>2 DEF AppendTransition, Operations, Receipts, Idle
    <2> QED
      BY <2>1 DEF ExitInv, Leaves, Idle
  <1>3. CASE AddFacts
    <2>1. /\ op.at = "facts" /\ op'.at = "write" /\ op'.phase = op.phase
          /\ doc'.phase = doc.phase /\ exit = "none"
          /\ UNCHANGED << pc, disk, outcome, exit >>
      BY <1>0, <1>3 DEF AddFacts, Operations, Receipts, Idle
    <2> QED
      BY <2>1 DEF ExitInv, Leaves, Idle
  <1>4. CASE Persist
    <2>1. op.at = "write" /\ op # Idle /\ exit = "none" /\ pc \notin {"closing", "done"}
          /\ outcome = "none"
      BY <1>4 DEF Persist, ExitInv, Idle
    <2> QED
      BY <1>4, <2>1 DEF Persist, ExitInv, Leaves, Idle
  <1> QED
    BY <1>1, <1>2, <1>3, <1>4 DEF Writer

LEMMA ExitStep ==
  ASSUME TypeOK, ExitInv, [Next]_vars
  PROVE  ExitInv'
  <1>1. CASE Writer
    BY <1>1, WriterExit
  <1>2. CASE IdentifyRun \/ LoadSettings \/ RejectInput \/ Preflight
    <2>1. /\ UNCHANGED << doc, disk, exit >> /\ exit = "none"
          /\ pc \notin {"closing", "done"}
      BY <1>2 DEF IdentifyRun, LoadSettings, RejectInput, Preflight, At
    <2>2. GoesOn \/ GivesUp \/ Calls
      BY <1>2
         DEF IdentifyRun, LoadSettings, RejectInput, Preflight, At, Transition, Raise,
         Escape, Method, GoesOn, GivesUp, Calls
    <2> QED
      BY <2>1, <2>2, ExitMove
  <1>3. CASE SendSubmission \/ Submitted \/ PollQueue \/ ReadQueue \/ QueueDeadline
    <2>1. /\ UNCHANGED << doc, disk, exit >> /\ exit = "none"
          /\ pc \notin {"closing", "done"}
      BY <1>3 DEF SendSubmission, Submitted, PollQueue, ReadQueue, QueueDeadline, At
    <2>2. GoesOn \/ GivesUp \/ Calls
      BY <1>3 DEF SendSubmission, Submitted, PollQueue, ReadQueue, QueueDeadline, At,
         Transition, Raise, Method, GoesOn, Calls
    <2> QED
      BY <2>1, <2>2, ExitMove
  <1>4. CASE PollBuild \/ ReadBuild \/ BuildDeadline
    <2>1. /\ UNCHANGED << doc, disk, exit >> /\ exit = "none"
          /\ pc \notin {"closing", "done"}
      BY <1>4 DEF PollBuild, ReadBuild, BuildDeadline, At
    <2>2. GoesOn \/ GivesUp \/ Calls
      BY <1>4 DEF PollBuild, ReadBuild, BuildDeadline, At, Transition, Raise, Method,
         GoesOn, Calls
    <2> QED
      BY <2>1, <2>2, ExitMove
  <1>5. CASE RetrieveResult \/ Download \/ PublishBundle \/ WriteManifest
    <2>1. /\ UNCHANGED << doc, disk, exit >> /\ exit = "none"
          /\ pc \notin {"closing", "done"}
      BY <1>5 DEF RetrieveResult, Download, PublishBundle, WriteManifest, At
    <2>2. GoesOn \/ GivesUp \/ Calls
      BY <1>5 DEF RetrieveResult, Download, PublishBundle, WriteManifest, At, Raise,
         Escape, Method, GoesOn, GivesUp, Calls
    <2> QED
      BY <2>1, <2>2, ExitMove
  <1>6. CASE Conclude \/ CancelCorrelated \/ CancelSettled
    <2>1. /\ UNCHANGED << doc, disk, exit >> /\ exit = "none"
          /\ pc \notin {"closing", "done"}
      BY <1>6 DEF Conclude, CancelCorrelated, Ask, CancelUnasked, CancelSettled, At
    <2>2. GoesOn \/ Calls
      BY <1>6
         DEF Conclude, CancelCorrelated, Ask, CancelUnasked, CancelSettled, At, Raise, Method,
         GoesOn,
         Calls
    <2> QED
      BY <2>1, <2>2, ExitMove
  <1>7. CASE Leave
    BY <1>7 DEF Leave, At, ExitInv, Leaves, Idle
  <1>8. CASE End
    BY <1>8 DEF End, At, ExitInv, Leaves, Idle, TypeOK, Outcomes
  <1>9. CASE Signal
    <2>1. /\ op' = Idle /\ exit' = "none" /\ disk' = disk /\ doc' = doc
          /\ \/ pc' = "closing" /\ outcome' = "cancelled"
             \/ pc' = "cancel" /\ outcome' = "none"
      BY <1>9 DEF Signal, ExitInv, InTry
    <2> QED
      BY <2>1 DEF ExitInv, Idle
  <1>10. CASE Kill
    BY <1>10 DEF Kill, ExitInv, Leaves
  <1>11. CASE Jenkins \/ OuterLimit \/ Ended \/ UNCHANGED vars
    <2>1. UNCHANGED << pc, op, doc, disk, outcome, exit >>
      BY <1>11 DEF Jenkins, ServeSubmission, ServeCancel, LoseRequest, StartBuild,
         CancelledByOperator, FinishBuild, OuterLimit, Ended
    <2> QED
      BY <2>1 DEF ExitInv, Leaves
  <1> QED
    BY <1>1, <1>2, <1>3, <1>4, <1>5, <1>6, <1>7, <1>8, <1>9, <1>10, <1>11
       DEF Next, ClientStep

-----------------------------------------------------------------------------
(* The cancellation request.                                               *)

LEMMA AskedMove ==
  ASSUME AskedInv, UNCHANGED << doc, disk >>,
         known.queue => known'.queue, known.build => known'.build,
         \/ op' = op
         \/ /\ op'.phase # "cancelled"
            /\ op'.queue => known'.queue
            /\ op'.build => known'.build,
         pc \notin {"cancelled", "closing", "done"},
         pc' \notin {"cancel_wait", "cancelled"}
  PROVE  AskedInv'
  BY DEF AskedInv

LEMMA AskedInit == Init => AskedInv
  BY DEF Init, AskedInv, FirstReceipt, NoReceipt, Method

LEMMA WriterAsked ==
  ASSUME TypeOK, AskedInv, ExitInv, Writer
  PROVE  AskedInv'
  <1>0. doc \in Receipts /\ op \in Operations /\ known \in [queue : BOOLEAN, build : BOOLEAN]
    BY DEF TypeOK
  <1>1. UNCHANGED << known, asked >>
    BY WriterMoves
  <1>2. /\ op'.queue => op.queue
        /\ op'.build => op.build
        /\ doc'.queue => doc.queue \/ op.queue
        /\ doc'.build => doc.build \/ op.build
        /\ disk'.queue => disk.queue \/ doc.queue
        /\ disk'.build => disk.build \/ doc.build
        /\ op'.phase \in {op.phase, "none"} /\ doc'.phase \in {doc.phase, op.phase}
        /\ disk'.phase \in {disk.phase, doc.phase}
    <2>1. CASE MarkPhase
      BY <1>0, <2>1 DEF MarkPhase, Receipts, Operations, Idle
    <2>2. CASE AppendTransition \/ AddFacts
      BY <1>0, <2>2 DEF AppendTransition, AddFacts, Receipts, Operations, Idle
    <2>3. CASE Persist
      BY <2>3 DEF Persist, Idle
    <2> QED
      BY <2>1, <2>2, <2>3 DEF Writer
  <1>3. pc' = pc \/ pc' = "closing" \/ (pc = "start" /\ pc' = "identify")
    BY WriterMoves
  <1>4. late' = late
    BY DEF Writer, MarkPhase, AppendTransition, AddFacts, Persist
  <1> QED
    BY <1>0, <1>1, <1>2, <1>3, <1>4 DEF AskedInv

LEMMA AskedStep ==
  ASSUME TypeOK, ExitInv, AskedInv, [Next]_vars
  PROVE  AskedInv'
  <1>0. known \in [queue : BOOLEAN, build : BOOLEAN]
    BY DEF TypeOK
  <1>1. CASE Writer
    BY <1>1, WriterAsked
  <1>2. CASE IdentifyRun \/ LoadSettings \/ RejectInput \/ Preflight \/ SendSubmission
    BY <1>2, AskedMove DEF IdentifyRun, LoadSettings, RejectInput, Preflight,
       SendSubmission, At, Transition, Raise, Escape, Method
  <1>3. CASE Submitted
    BY <1>0, <1>3, AskedMove DEF Submitted, At, Transition, Raise, Method
  <1>4. CASE PollQueue \/ QueueDeadline
    BY <1>4, AskedMove DEF PollQueue, QueueDeadline, At, Raise, Method
  <1>5. CASE ReadQueue
    BY <1>0, <1>5, AskedMove DEF ReadQueue, At, Transition, Raise, Method
  <1>6. CASE PollBuild \/ ReadBuild \/ BuildDeadline
    BY <1>6, AskedMove DEF PollBuild, ReadBuild, BuildDeadline, At, Transition, Raise,
       Method
  <1>7. CASE RetrieveResult \/ Download \/ PublishBundle \/ WriteManifest \/ Conclude
    BY <1>7, AskedMove
       DEF RetrieveResult, Download, PublishBundle, WriteManifest, Conclude,
       At, Raise, Escape, Method
  <1>8. CASE CancelCorrelated
    <2>1. "cancelled" \notin {op.phase, doc.phase, disk.phase}
      BY <1>8 DEF CancelCorrelated, Ask, CancelUnasked, At, AskedInv
    <2> QED
      BY <1>0, <1>8, <2>1 DEF CancelCorrelated, Ask, CancelUnasked, At, AskedInv, Method
  <1>9. CASE CancelSettled
    BY <1>9 DEF CancelSettled, At, AskedInv, Method
  <1>10. CASE Leave
    BY <1>10 DEF Leave, At, AskedInv, Idle
  <1>11. CASE End \/ Kill \/ OuterLimit
    BY <1>11 DEF End, Kill, OuterLimit, At, AskedInv
  <1>12. CASE Signal
    BY <1>12 DEF Signal, AskedInv, Idle, InTry
  <1>13. CASE Jenkins \/ OuterLimit \/ Ended \/ UNCHANGED vars
    <2>1. UNCHANGED << pc, op, doc, disk, known, asked >>
      BY <1>13 DEF Jenkins, ServeSubmission, ServeCancel, LoseRequest, StartBuild,
         CancelledByOperator, FinishBuild, OuterLimit, Ended
    <2>2. late => late'
      BY <1>13 DEF Jenkins, ServeSubmission, ServeCancel, LoseRequest, StartBuild,
         CancelledByOperator, FinishBuild, OuterLimit, Ended
    <2> QED
      BY <2>1, <2>2 DEF AskedInv
  <1> QED
    BY <1>1, <1>2, <1>3, <1>4, <1>5, <1>6, <1>7, <1>8, <1>9, <1>10, <1>11, <1>12, <1>13
       DEF Next, ClientStep

-----------------------------------------------------------------------------
(* The theorems that need the three of them.                               *)

EndInv == RunInv /\ BundleInv /\ ExitInv /\ AskedInv

LEMMA EndInvariant == Spec => []EndInv
  <1>1. Init => EndInv
    BY RunInit, BundleInit, ExitInit, AskedInit DEF EndInv
  <1>2. EndInv /\ [Next]_vars => EndInv'
    BY RunStep, BundleStep, ExitStep, AskedStep DEF EndInv, RunInv
  <1> QED
    BY <1>1, <1>2, PTL DEF Spec

(* The terminal facts of the file and its phase name the same end.         *)
LEMMA TerminalPhase ==
  ASSUME TypeOK, FileInv
  PROVE  /\ disk.phase = "completed" => disk.terminal.outcome = "succeeded"
         /\ disk.phase = "failed" => disk.terminal.outcome = "failed"
         /\ disk.terminal.code = "jenkins_failure" => disk.terminal.outcome = "failed"
  <1>1. disk.terminal \in Terminals
    BY DEF TypeOK, Receipts
  <1>2. disk.terminal.code = "jenkins_failure" => disk.terminal.outcome = "failed"
    BY <1>1 DEF Terminals, NoTerminal, Succeeded, Cancelled, Failed
  <1>3. CASE disk = NoReceipt
    BY <1>2, <1>3 DEF NoReceipt
  <1>4. CASE ValidReceipt(disk)
    BY <1>1, <1>2, <1>4, Outcomes4 DEF ValidReceipt, TerminalPhases
  <1> QED
    BY <1>3, <1>4 DEF FileInv

(* Whatever the archive holds and wherever a signal strikes, a bundle      *)
(* directory that the workflow uploads was validated, a receipt beside it  *)
(* names no failure but Jenkins's own, and a receipt that speaks of the    *)
(* build's end stands beside a bundle with its whole manifest.             *)
THEOREM BundleExplained == Spec => []PublishedBundleIsExplained
  <1>1. EndInv => PublishedBundleIsExplained
    <2> SUFFICES ASSUME EndInv PROVE PublishedBundleIsExplained
      OBVIOUS
    <2>1. disk.terminal \in Terminals /\ Explained(disk.terminal)
      BY DEF EndInv, RunInv, TypeOK, Receipts, BundleInv
    <2>2. /\ disk.phase = "completed" => disk.terminal = Succeeded
          /\ disk.phase = "completed" => disk.terminal.outcome = "succeeded"
          /\ disk.phase = "failed" => disk.terminal.outcome = "failed"
      BY <2>1, TerminalPhase, Outcomes4 DEF EndInv, RunInv
    <2> QED
      BY <2>1, <2>2
         DEF PublishedBundleIsExplained, EndInv, RunInv, BundleInv, VerdictInv,
         Explained, Whole
  <1> QED
    BY <1>1, EndInvariant, PTL

(* The exit status that the workflow turns into the handoff's outcome is   *)
(* never 0 without a completed receipt, nor 1 without a failed one, also   *)
(* when the disk refuses the terminal record, or when only the line after  *)
(* it fails.                                                               *)
THEOREM ExitAgrees == Spec => []ExitAgreesWithReceipt
  <1>1. EndInv => ExitAgreesWithReceipt
    BY DEF EndInv, ExitInv, ExitAgreesWithReceipt
  <1> QED
    BY <1>1, EndInvariant, PTL

(* Until the outer limit of the job has passed, a cancelled receipt never  *)
(* names a queue item or a build that Jenkins was not asked to give up.    *)
THEOREM CancellationAsked == Spec => []CancellationWasAsked
  <1>1. EndInv => CancellationWasAsked
    BY DEF EndInv, AskedInv, CancellationWasAsked
  <1> QED
    BY <1>1, EndInvariant, PTL
=============================================================================
