---------------------------- MODULE RecoveryProofs ----------------------------
(***************************************************************************)
(* Proofs about Recovery, for any set of runners and of agents, any bound  *)
(* of the queue and any number of restores.                                *)
(***************************************************************************)
EXTENDS Recovery, TLAPS

LEMMA VolumesAreTyped == NoVolume \in Volumes /\ Empty(TRUE) \in Volumes
BY RestoresAreBounded DEF NoVolume, Empty, Volumes, Keys, NoKey

LEMMA VolumeUpdates ==
  ASSUME NEW v \in Volumes, NEW b \in BOOLEAN, NEW k \in Keys
  PROVE  /\ [v EXCEPT !.exists = b] \in Volumes
         /\ [v EXCEPT !.tokens = b] \in Volumes
         /\ [v EXCEPT !.idle = b] \in Volumes
         /\ [v EXCEPT !.data = "part"] \in Volumes
         /\ [v EXCEPT !.key = k] \in Volumes
         /\ [v EXCEPT !.tokens = b, !.key = k] \in Volumes
         /\ v.key \in Keys
BY DEF Volumes, Keys, NoKey

LEMMA VolumeFields ==
  ASSUME NEW v \in Volumes, NEW k
  PROVE  /\ [v EXCEPT !.exists = TRUE].idle = v.idle
         /\ [v EXCEPT !.exists = TRUE].data = v.data
         /\ [v EXCEPT !.exists = TRUE].tokens = v.tokens
         /\ [v EXCEPT !.exists = TRUE].key = v.key
         /\ [v EXCEPT !.data = "part"].idle = v.idle
         /\ [v EXCEPT !.tokens = FALSE].idle = v.idle
         /\ [v EXCEPT !.tokens = FALSE].data = v.data
         /\ [v EXCEPT !.tokens = FALSE].key = v.key
         /\ [v EXCEPT !.tokens = FALSE].tokens = FALSE
         /\ [v EXCEPT !.tokens = FALSE, !.key = k].idle = v.idle
         /\ [v EXCEPT !.tokens = FALSE, !.key = k].data = v.data
         /\ [v EXCEPT !.tokens = FALSE, !.key = k].tokens = FALSE
         /\ [v EXCEPT !.tokens = FALSE, !.key = k].key = k
         /\ Empty(TRUE).idle /\ ~ Empty(TRUE).tokens /\ Empty(TRUE).key = NoKey
BY DEF Volumes, Empty

LEMMA StartedIsTyped ==
  ASSUME NEW v \in Volumes, attempt \in Keys
  PROVE  Started(v) \in Volumes
BY VolumeUpdates DEF Started, Volumes, Keys, NoKey

LEMMA BootedIsTyped ==
  ASSUME NEW v \in Volumes
  PROVE  Booted(v) \in Volumes
<1>1. OwnKey \in Keys
  BY RestoresAreBounded DEF OwnKey, Keys
<1> QED
  BY <1>1 DEF Booted, Volumes

(* Nothing but an empty volume changes when Jenkins starts on it.          *)
LEMMA BootedFields ==
  ASSUME NEW v \in Volumes
  PROVE  /\ Booted(v).tokens = v.tokens /\ Booted(v).idle = v.idle
         /\ v.data # "none" => Booted(v).data = v.data
         /\ v.key # NoKey => Booted(v).key = v.key
BY DEF Booted, Volumes

LEMMA InvariantInit == Init => IInv
<1> SUFFICES ASSUME Init PROVE IInv
  OBVIOUS
<1> USE RestoresAreBounded DEF Init, StackInit
<1>1. StackTypeOK
  BY DEF StackTypeOK, Where
<1>2. archive \in Volumes /\ volume \in Volumes /\ staging \in Volumes
  BY VolumesAreTyped DEF Volumes, Keys, OwnKey
<1>3. TypeOK
  <2>1. installed \in [ToSet(Agents) -> Keys] /\ issued \in Keys /\ attempt \in 0 .. MaxRestores
    BY DEF Keys, OwnKey
  <2> QED
    BY <1>1, <1>2, <2>1 DEF TypeOK
<1>4. QuietInv /\ EndedInv
  BY DEF QuietInv, EndedInv
<1>5. ArchiveInv /\ StagingInv /\ TargetInv
  BY DEF ArchiveInv, StagingInv, TargetInv, RestoreIsLast, Restoring, NoVolume, Empty
<1> QED
  BY <1>3, <1>4, <1>5 DEF IInv

-----------------------------------------------------------------------------
(* Types.                                                                  *)

LEMMA StackTypeStep ==
  ASSUME TypeOK, StackNext
  PROVE  StackTypeOK'
<1>1. CASE World
  <2>1. queued' \in Nat
    BY <1>1 DEF TypeOK, StackTypeOK, World, AssignJob, EndJob, Submit, StartBuild, EndBuild,
                CancelQueued, jenkins
  <2>2. runner' \in [Runners -> {"stopped", "idle", "job"}]
    BY <1>1 DEF TypeOK, StackTypeOK, World, AssignJob, EndJob, Submit, StartBuild, EndBuild,
                CancelQueued
  <2>3. UNCHANGED << controller, quiet, command >> /\ building' \in BOOLEAN
    BY <1>1 DEF TypeOK, StackTypeOK, World, AssignJob, EndJob, Submit, StartBuild, EndBuild,
                CancelQueued, jenkins
  <2> QED
    BY <2>1, <2>2, <2>3 DEF TypeOK, StackTypeOK, Where, command
<1> USE DEF TypeOK, StackTypeOK, Where, Maintaining, Quiescing, Staging, Restoring, jenkins,
        command, GoesOn, Ends, Running, Commands
<1>2. CASE BeginCommand
  BY <1>2 DEF BeginCommand, FirstStep
<1>3. CASE ProbeRunners \/ StopRunners
  BY <1>3 DEF ProbeRunners, StopRunners
<1>4. CASE QuietDown \/ CancelQuiet
  BY <1>4 DEF QuietDown, CancelQuiet
<1>5. CASE ReadQueue \/ ReadBuilds
  BY <1>5 DEF ReadQueue, ReadBuilds
<1>6. CASE Refused
  BY <1>6 DEF Refused
<1>7. CASE ReplaceAgent \/ LookAgain
  BY <1>7 DEF ReplaceAgent, LookAgain
<1>8. CASE Resume
  BY <1>8 DEF Resume
<1>9. CASE StopStack
  BY <1>9 DEF StopStack
<1>10. CASE Interrupt
  BY <1>10 DEF Interrupt
<1> QED
  BY <1>1, <1>2, <1>3, <1>4, <1>5, <1>6, <1>7, <1>8, <1>9, <1>10 DEF StackNext, Steps

LEMMA WhereStep ==
  ASSUME TypeOK, [Next]_vars
  PROVE  Where'
<1> USE DEF Where, Maintaining, Quiescing, Staging, Restoring, GoesOn, Ends, Fails
<1>1. CASE StackNext /\ UNCHANGED << snapshotting, restoring >>
  BY <1>1, StackTypeStep DEF StackTypeOK
<1>2. CASE StartAgain
  BY <1>2 DEF StartAgain, StartStack, TypeOK, StackTypeOK
<1>3. CASE BeginSnapshot \/ ArchiveVolume \/ WriteManifest \/ InterruptSnapshot \/ Destroy
  BY <1>3 DEF BeginSnapshot, ArchiveVolume, WriteManifest, InterruptSnapshot, Destroy, TypeOK,
              StackTypeOK
<1>4. CASE BeginRestore
  BY <1>4 DEF BeginRestore
<1>5. CASE StagingSteps
  BY <1>5 DEF StagingSteps, MakeStaging, ExtractStaging, CleanStaging, StartStaging,
              ProveStaging, CaptureKey, TypeOK, StackTypeOK, Commands
<1>6. CASE InstallSecret
  BY <1>6 DEF InstallSecret, TypeOK, StackTypeOK, Commands
<1>7. CASE TargetSteps
  BY <1>7 DEF TargetSteps, ExtractTarget, CleanTarget, StartTarget, ProveTarget, TypeOK,
              StackTypeOK, Commands
<1>8. CASE CleanUp \/ Signal \/ Kill
  BY <1>8 DEF CleanUp, Signal, Kill, TypeOK, StackTypeOK, Commands
<1>9. CASE UNCHANGED vars
  BY <1>9 DEF vars, stack, command, TypeOK, StackTypeOK
<1> QED
  BY <1>1, <1>2, <1>3, <1>4, <1>5, <1>6, <1>7, <1>8, <1>9 DEF Next, RestoreSteps

LEMMA TypeStep ==
  ASSUME IInv, [Next]_vars
  PROVE  TypeOK'
<1> USE RestoresAreBounded, VolumesAreTyped, WhereStep
    DEF IInv, TypeOK, StackTypeOK, jenkins, command, stack, snapshotting, loss, restoring,
        GoesOn, Ends, Fails
<1>1. CASE StackNext /\ UNCHANGED << snapshotting, restoring >>
  BY <1>1, StackTypeStep
<1>2. CASE StartAgain
  <2>1. volume' \in Volumes
    <3>1. volume \in Volumes /\ [volume EXCEPT !.exists = TRUE] \in Volumes
      BY VolumeUpdates
    <3>2. Booted(volume) \in Volumes
      BY BootedIsTyped
    <3> HIDE VolumesAreTyped DEF IInv, TypeOK
    <3> QED
      BY <1>2, <3>1, <3>2 DEF StartAgain
  <2> QED
    BY <1>2, <2>1 DEF StartAgain, StartStack
<1>3. CASE BeginSnapshot \/ InterruptSnapshot
  BY <1>3 DEF BeginSnapshot, InterruptSnapshot
<1>4. CASE ArchiveVolume
  <2>1. archive' \in Volumes
    BY <1>4 DEF ArchiveVolume, Volumes, Active
  <2> QED
    BY <1>4, <2>1 DEF ArchiveVolume
<1>5. CASE WriteManifest
  BY <1>5 DEF WriteManifest
<1>6. CASE Destroy
  BY <1>6 DEF Destroy
<1>7. CASE BeginRestore
  <2>1. attempt' \in 0 .. MaxRestores
    <3>1. attempt < MaxRestores /\ attempt' = attempt + 1
      BY <1>7 DEF BeginRestore
    <3>2. attempt \in 0 .. MaxRestores
      OBVIOUS
    <3> HIDE DEF IInv, TypeOK
    <3> QED
      BY <3>1, <3>2
  <2>2. issued' \in Keys
    BY <1>7 DEF BeginRestore, Keys
  <2> QED
    BY <1>7, <2>1, <2>2 DEF BeginRestore
<1>8. CASE StagingSteps
  <2> USE DEF StagingSteps, MakeStaging, ExtractStaging, CleanStaging, StartStaging,
              ProveStaging, CaptureKey
  <2>1. staging' \in Volumes
    <3>1. attempt \in Keys /\ NoKey \in Keys
      BY DEF Keys, OwnKey
    <3>2. Started(staging) \in Volumes
      BY <3>1, StartedIsTyped
    <3>3. /\ [archive EXCEPT !.exists = TRUE] \in Volumes
          /\ [archive EXCEPT !.data = "part"] \in Volumes
          /\ [staging EXCEPT !.tokens = FALSE] \in Volumes
          /\ [staging EXCEPT !.tokens = FALSE, !.key = NoKey] \in Volumes
      BY <3>1, VolumeUpdates
    <3> HIDE VolumesAreTyped DEF IInv, TypeOK
    <3>4. staging \in Volumes /\ NoVolume \in Volumes /\ Empty(TRUE) \in Volumes
      BY VolumesAreTyped DEF IInv, TypeOK
    <3>5. staging' \in {staging, Empty(TRUE), [archive EXCEPT !.exists = TRUE],
                        [archive EXCEPT !.data = "part"], [staging EXCEPT !.tokens = FALSE],
                        [staging EXCEPT !.tokens = FALSE, !.key = NoKey], Started(staging)}
      BY <1>8
    <3> QED
      BY <3>2, <3>3, <3>4, <3>5
  <2>2. issued' \in Keys
    BY <1>8, VolumeUpdates
  <2>3. stagingUp' \in BOOLEAN /\ failing' \in BOOLEAN
    BY <1>8
  <2>4. op' = op /\ UNCHANGED << runner, jenkins, stopped, snapshotting, volume, loss, installed,
                                 attempt, killed >>
    BY <1>8
  <2> QED
    BY <2>1, <2>2, <2>3, <2>4
<1>9. CASE InstallSecret
  <2>1. installed' \in [ToSet(Agents) -> Keys]
    BY <1>9 DEF InstallSecret
  <2>2. /\ op' = op /\ failing' \in BOOLEAN
        /\ UNCHANGED << runner, jenkins, stopped, snapshotting, volume, loss, attempt, staging,
                        stagingUp, issued, killed >>
    BY <1>9 DEF InstallSecret
  <2> QED
    BY <2>1, <2>2
<1>10. CASE TargetSteps
  <2> USE DEF TargetSteps, ExtractTarget, CleanTarget, StartTarget, ProveTarget
  <2>1. volume' \in Volumes
    <3>1. /\ [archive EXCEPT !.exists = TRUE] \in Volumes
          /\ [archive EXCEPT !.data = "part"] \in Volumes
          /\ [volume EXCEPT !.tokens = FALSE] \in Volumes
          /\ [volume EXCEPT !.tokens = FALSE, !.key = issued] \in Volumes
      BY VolumeUpdates
    <3> HIDE VolumesAreTyped DEF IInv, TypeOK
    <3>2. volume \in Volumes /\ Empty(TRUE) \in Volumes
      BY VolumesAreTyped DEF IInv, TypeOK
    <3>3. volume' \in {volume, Empty(TRUE), [archive EXCEPT !.exists = TRUE],
                       [archive EXCEPT !.data = "part"], [volume EXCEPT !.tokens = FALSE],
                       [volume EXCEPT !.tokens = FALSE, !.key = issued]}
      BY <1>10
    <3> QED
      BY <3>1, <3>2, <3>3
  <2>2. controller' \in {"up", "stopped"} /\ quiet' \in BOOLEAN /\ failing' \in BOOLEAN
    BY <1>10
  <2>3. /\ op' = op /\ restored' \in BOOLEAN
        /\ UNCHANGED << runner, queued, building, stopped, snapshotting, lost, installed,
                        attempt, staging, stagingUp, issued, killed >>
    BY <1>10
  <2> QED
    BY <2>1, <2>2, <2>3
<1>11. CASE CleanUp
  BY <1>11 DEF CleanUp
<1>12. CASE Signal \/ Kill
  BY <1>12 DEF Signal, Kill
<1>13. CASE UNCHANGED vars
  BY <1>13 DEF vars
<1> QED
  BY <1>1, <1>2, <1>3, <1>4, <1>5, <1>6, <1>7, <1>8, <1>9, <1>10, <1>11, <1>12, <1>13
     DEF Next, RestoreSteps

-----------------------------------------------------------------------------
(* What maintenance knows of runners and builds.                           *)

LEMMA RunningStays ==
  ASSUME StackTypeOK, AssignJob \/ EndJob
  PROVE  Running' = Running
BY DEF StackTypeOK, AssignJob, EndJob, Running

LEMMA QuietByWorld ==
  ASSUME QuietInv, StackTypeOK, World
  PROVE  QuietInv'
<1>1. CASE AssignJob \/ EndJob
  <2>1. UNCHANGED << quiet, queued, building, op, at, stopped, failing >>
    BY <1>1 DEF AssignJob, EndJob, jenkins, command
  <2> QED
    BY <1>1, <2>1, RunningStays DEF QuietInv
<1>2. CASE Submit
  <2>1. UNCHANGED << quiet, building, op, at, stopped, failing >> /\ Running' = Running
    BY <1>2 DEF Submit, command, Running
  <2>2. Running # {}
    BY <1>2 DEF Submit, Running
  <2> QED
    BY <2>1, <2>2 DEF QuietInv
<1>3. CASE StartBuild \/ EndBuild
  <2>1. UNCHANGED << quiet, op, at, stopped, failing >> /\ Running' = Running
    BY <1>3 DEF StartBuild, EndBuild, command, Running
  <2>2. queued = 0 => queued' = 0
    BY <1>3 DEF StartBuild, EndBuild, StackTypeOK
  <2>3. building' \in BOOLEAN /\ (quiet => (building' => building))
    BY <1>3 DEF StartBuild, EndBuild, StackTypeOK
  <2> QED
    BY <2>1, <2>2, <2>3 DEF QuietInv
<1>4. CASE CancelQueued
  <2>1. UNCHANGED << quiet, building, op, at, stopped, failing >> /\ Running' = Running
    BY <1>4 DEF CancelQueued, command, Running
  <2>2. queued # 0
    BY <1>4 DEF CancelQueued, StackTypeOK
  <2> QED
    BY <2>1, <2>2 DEF QuietInv
<1> QED
  BY <1>1, <1>2, <1>3, <1>4 DEF World

LEMMA QuietByStack ==
  ASSUME QuietInv, StackTypeOK, StackNext
  PROVE  QuietInv'
<1> USE DEF QuietInv, GoesOn, Ends
<1>1. CASE World
  BY <1>1, QuietByWorld
<1>2. CASE BeginCommand
  BY <1>2 DEF BeginCommand, FirstStep, Commands
<1> USE DEF StackTypeOK, Where, Maintaining, Quiescing, jenkins, Running
<1>3. CASE ProbeRunners \/ StopRunners
  BY <1>3 DEF ProbeRunners, StopRunners
<1>4. CASE QuietDown \/ CancelQuiet
  BY <1>4 DEF QuietDown, CancelQuiet
<1>5. CASE ReadQueue
  BY <1>5 DEF ReadQueue
<1>6. CASE ReadBuilds
  BY <1>6 DEF ReadBuilds
<1>7. CASE Refused
  BY <1>7 DEF Refused
<1>8. CASE ReplaceAgent
  BY <1>8 DEF ReplaceAgent
<1>9. CASE LookAgain
  BY <1>9 DEF LookAgain
<1>10. CASE Resume
  BY <1>10 DEF Resume
<1>11. CASE StopStack
  BY <1>11 DEF StopStack
<1>12. CASE Interrupt
  BY <1>12 DEF Interrupt
<1> QED
  BY <1>1, <1>2, <1>3, <1>4, <1>5, <1>6, <1>7, <1>8, <1>9, <1>10, <1>11, <1>12
     DEF StackNext, Steps

(* Each place belongs to few commands.                                     *)
LEMMA PlacesAreApart ==
  ASSUME StackTypeOK
  PROVE  /\ at \in Staging \cup Restoring
                  \cup {"install", "target volume", "target credentials", "cleanup"}
              => op = "restore"
         /\ at \in {"probe", "stop runners"} => op \in {"quiesce", "snapshot"}
         /\ at \in Maintaining => op \in {"quiesce", "snapshot", "reconcile-agent"}
         /\ at \in {"replace", "idle queue", "idle builds"} => op = "reconcile-agent"
         /\ at = "resume" => op \in {"resume", "reconcile-agent"}
         /\ at = "stop stack" => op \in {"stop", "snapshot"}
         /\ at \in {"archive", "manifest"} => op = "snapshot"
         /\ op # "none" => at # "idle"
BY DEF StackTypeOK, Where, Maintaining, Quiescing, Staging, Restoring, Commands

LEMMA RestoreIsApart ==
  ASSUME StackTypeOK, RestoreSteps
  PROVE  /\ op = "restore"
         /\ \/ op' = "restore"
            \/ op' = "none" /\ ended' \in {<< op, "ok" >>, << op, "broken" >>}
<1>1. CASE StagingSteps
  <2>1. at \in Staging
    BY <1>1 DEF StagingSteps, MakeStaging, ExtractStaging, CleanStaging, StartStaging,
                ProveStaging, CaptureKey, Staging
  <2>2. op' = op
    BY <1>1 DEF StagingSteps, MakeStaging, ExtractStaging, CleanStaging, StartStaging,
                ProveStaging, CaptureKey, GoesOn, Fails
  <2> QED
    BY <2>1, <2>2, PlacesAreApart
<1>2. CASE InstallSecret
  <2>1. at = "install" /\ op' = op
    BY <1>2 DEF InstallSecret, GoesOn, Fails
  <2> QED
    BY <2>1, PlacesAreApart
<1>3. CASE TargetSteps
  <2>1. at \in Restoring \cup {"target volume", "target credentials"}
    BY <1>3 DEF TargetSteps, ExtractTarget, CleanTarget, StartTarget, ProveTarget, Restoring
  <2>2. op' = op
    BY <1>3 DEF TargetSteps, ExtractTarget, CleanTarget, StartTarget, ProveTarget, GoesOn, Fails
  <2> QED
    BY <2>1, <2>2, PlacesAreApart
<1>4. CASE CleanUp
  <2>1. at \in Restoring \cup {"cleanup"}
    BY <1>4 DEF CleanUp, Restoring
  <2>2. op' = "none" /\ ended' \in {<< op, "ok" >>, << op, "broken" >>}
    BY <1>4 DEF CleanUp, Ends
  <2> QED
    BY <2>1, <2>2, PlacesAreApart
<1>5. CASE Signal \/ Kill
  BY <1>5 DEF Signal, Kill, Ends
<1> QED
  BY <1>1, <1>2, <1>3, <1>4, <1>5 DEF RestoreSteps

LEMMA QuietStep ==
  ASSUME IInv, [Next]_vars
  PROVE  QuietInv'
<1>0. StackTypeOK /\ QuietInv /\ Where'
  BY WhereStep DEF IInv, TypeOK
<1>1. CASE StackNext
  BY <1>0, <1>1, QuietByStack
<1>2. CASE StartAgain
  BY <1>0, <1>2 DEF StartAgain, StartStack, StackTypeOK, Where, QuietInv
<1>3. CASE BeginSnapshot \/ InterruptSnapshot \/ BeginRestore
  BY <1>3 DEF BeginSnapshot, InterruptSnapshot, BeginRestore, QuietInv, Ends
<1>7. CASE Destroy
  <2>1. op' = "none" /\ at' = "idle"
    BY <1>0, <1>7 DEF Destroy, StackTypeOK, Where
  <2> QED
    BY <2>1 DEF QuietInv
<1>4. CASE ArchiveVolume \/ WriteManifest
  BY <1>4 DEF ArchiveVolume, WriteManifest, QuietInv, GoesOn, Ends
<1>5. CASE RestoreSteps
  BY <1>0, <1>5, RestoreIsApart DEF QuietInv, Where, Staging, Restoring
<1>6. CASE UNCHANGED vars
  BY <1>0, <1>6 DEF vars, stack, jenkins, command, QuietInv, Running
<1> QED
  BY <1>1, <1>2, <1>3, <1>4, <1>5, <1>6, <1>7 DEF Next

LEMMA EndedOtherwise ==
  ASSUME \/ op' # "none"
         \/ ended' = << op, "broken" >>
         \/ ended' = << op, "ok" >> /\ op # "quiesce"
         \/ ended' = << op, "refused" >> /\ op \notin {"quiesce", "reconcile-agent"}
  PROVE  EndedInv'
BY DEF EndedInv

LEMMA EndedByWorld ==
  ASSUME EndedInv, StackTypeOK, World
  PROVE  EndedInv'
<1>1. CASE AssignJob \/ EndJob
  <2>1. UNCHANGED << quiet, queued, building, op, stopped, ended >>
    BY <1>1 DEF AssignJob, EndJob, jenkins, command
  <2> QED
    BY <1>1, <2>1, RunningStays DEF EndedInv
<1>2. CASE Submit
  <2>1. UNCHANGED << quiet, building, op, stopped, ended >> /\ Running' = Running
    BY <1>2 DEF Submit, command, Running
  <2>2. Running # {} /\ queued' > 0
    BY <1>2 DEF Submit, Running, StackTypeOK
  <2> QED
    BY <2>1, <2>2 DEF EndedInv
<1>3. CASE StartBuild
  <2>1. UNCHANGED << quiet, op, stopped, ended >> /\ Running' = Running
    BY <1>3 DEF StartBuild, command, Running
  <2>2. ~ quiet
    BY <1>3 DEF StartBuild
  <2> QED
    BY <2>1, <2>2 DEF EndedInv
<1>4. CASE EndBuild
  <2>1. UNCHANGED << quiet, queued, op, stopped, ended >> /\ Running' = Running
    BY <1>4 DEF EndBuild, command, Running
  <2>2. building' = FALSE
    BY <1>4 DEF EndBuild
  <2> QED
    BY <2>1, <2>2 DEF EndedInv
<1>5. CASE CancelQueued
  <2>1. UNCHANGED << quiet, building, op, stopped, ended >> /\ Running' = Running
    BY <1>5 DEF CancelQueued, command, Running
  <2>2. queued > 0
    BY <1>5 DEF CancelQueued
  <2> QED
    BY <2>1, <2>2 DEF EndedInv
<1> QED
  BY <1>1, <1>2, <1>3, <1>4, <1>5 DEF World

LEMMA EndedByStack ==
  ASSUME EndedInv, QuietInv, StackTypeOK, StackNext
  PROVE  EndedInv'
<1>0. op # "none" => op \in Commands \cup {"snapshot", "restore"}
  BY DEF StackTypeOK
<1>1. CASE World
  BY <1>1, EndedByWorld
<1>2. CASE BeginCommand
  BY <1>2, EndedOtherwise DEF BeginCommand, Commands
<1>3. CASE ProbeRunners
  <2>1. at = "probe" /\ op # "none"
    BY <1>3 DEF ProbeRunners, StackTypeOK, Where
  <2>2. stopped = {} /\ op \in {"quiesce", "snapshot"}
    BY <2>1, PlacesAreApart DEF QuietInv
  <2>3. \/ op' # "none"
        \/ ended' = << op, "broken" >>
        \/ ended' = << op, "refused" >> /\ stopped' = stopped
    BY <1>3, <2>1 DEF ProbeRunners, GoesOn, Ends
  <2> QED
    BY <2>2, <2>3 DEF EndedInv
<1> USE EndedOtherwise DEF GoesOn, Ends, StackTypeOK, Where, Maintaining, Quiescing, Commands
<1>4. CASE StopRunners
  BY <1>4 DEF StopRunners
<1>5. CASE QuietDown \/ ReadQueue \/ CancelQuiet \/ ReplaceAgent
  BY <1>5 DEF QuietDown, ReadQueue, CancelQuiet, ReplaceAgent
<1>6. CASE ReadBuilds
  <2> HIDE EndedOtherwise DEF StackTypeOK, Where, Maintaining, Quiescing, Commands
  <2>1. at = "read builds" /\ op # "none"
    BY <1>6 DEF ReadBuilds, StackTypeOK, Where
  <2>2. \/ op' # "none"
        \/ op = "quiesce" /\ ~ building /\ ended' = << op, "ok" >>
    BY <1>6, <2>1 DEF ReadBuilds
  <2>3. op = "quiesce" => quiet /\ Running = {} /\ queued = 0
    BY <2>1 DEF QuietInv
  <2>4. UNCHANGED << quiet, queued, building >> /\ Running' = Running
    BY <1>6 DEF ReadBuilds, jenkins, Running
  <2> QED
    BY <2>2, <2>3, <2>4 DEF EndedInv
<1>7. CASE Refused
  BY <1>7 DEF Refused, QuietInv, EndedInv, Running, jenkins
<1>8. CASE LookAgain
  <2> HIDE EndedOtherwise DEF StackTypeOK, Where, Maintaining, Quiescing, Commands
  <2>1. at \in {"idle queue", "idle builds"}
    BY <1>8 DEF LookAgain
  <2>2. op = "reconcile-agent" /\ ~ building
    BY <2>1, PlacesAreApart DEF QuietInv
  <2>3. \/ op' = "reconcile-agent"
        \/ ended' = << op, "refused" >>
        \/ ended' = << op, "broken" >>
    BY <1>8, <2>1, <2>2 DEF LookAgain
  <2>4. UNCHANGED << quiet, queued, building >>
    BY <1>8 DEF LookAgain, jenkins
  <2> QED
    BY <2>2, <2>3, <2>4 DEF EndedInv
<1>9. CASE Resume
  BY <1>9 DEF Resume
<1>10. CASE StopStack \/ Interrupt
  BY <1>10 DEF StopStack, Interrupt
<1> QED
  BY <1>1, <1>2, <1>3, <1>4, <1>5, <1>6, <1>7, <1>8, <1>9, <1>10 DEF StackNext, Steps

LEMMA EndedStep ==
  ASSUME IInv, [Next]_vars
  PROVE  EndedInv'
<1>0. StackTypeOK /\ QuietInv /\ EndedInv
  BY DEF IInv, TypeOK
<1>1. CASE StackNext
  BY <1>0, <1>1, EndedByStack
<1>2. CASE StartAgain
  BY <1>2 DEF StartAgain, StartStack, EndedInv
<1>3. CASE BeginSnapshot \/ Destroy \/ BeginRestore
  BY <1>3 DEF BeginSnapshot, Destroy, BeginRestore, EndedInv
<1>4. CASE InterruptSnapshot
  BY <1>4, EndedOtherwise DEF InterruptSnapshot, Ends
<1>5. CASE ArchiveVolume \/ WriteManifest
  BY <1>0, <1>5, EndedOtherwise DEF ArchiveVolume, WriteManifest, GoesOn, Ends, StackTypeOK,
     Where, Maintaining, Quiescing, Staging, Restoring, Commands
<1>6. CASE RestoreSteps
  BY <1>0, <1>6, RestoreIsApart, EndedOtherwise
<1>7. CASE UNCHANGED vars
  BY <1>0, <1>7 DEF vars, stack, jenkins, command, EndedInv, Running
<1> QED
  BY <1>1, <1>2, <1>3, <1>4, <1>5, <1>6, <1>7 DEF Next

-----------------------------------------------------------------------------
(* The archive and the credentials.                                        *)

(* The maintenance of a running stack is no part of a restore.             *)
LEMMA StackIsApart ==
  ASSUME StackTypeOK, StackNext
  PROVE  \/ UNCHANGED << op, at, ended, controller >>
         \/ /\ op # "restore" /\ op' # "restore"
            /\ op' = "snapshot" => op = "snapshot"
            /\ at' # "manifest"
            /\ controller' \in {controller, "stopped"}
            /\ ended' = ended \/ ended'[1] # "restore"
            /\ op' = "none" => ended'[1] # "restore"
<1>1. CASE World
  BY <1>1 DEF World, AssignJob, EndJob, Submit, StartBuild, EndBuild, CancelQueued, jenkins,
              command
<1>2. CASE BeginCommand
  <2>1. /\ op = "none" /\ op' \in Commands /\ at' = FirstStep(op')
        /\ UNCHANGED << controller, ended >>
    BY <1>2 DEF BeginCommand, jenkins
  <2> QED
    BY <2>1 DEF Commands, FirstStep
<1>3. CASE Steps
  <2>1. at \in Quiescing \cup {"replace", "idle queue", "idle builds", "resume", "stop stack"}
    BY <1>3 DEF Steps, ProbeRunners, StopRunners, QuietDown, ReadQueue, ReadBuilds, CancelQuiet,
                Refused, ReplaceAgent, LookAgain, Resume, StopStack, Quiescing, Maintaining
  <2>2. op \notin {"restore", "none"}
    BY <2>1, PlacesAreApart DEF Quiescing
  <2>3. \/ op' = op /\ at' # "manifest" /\ ended' = ended
        \/ op' = "none" /\ at' = "idle" /\ \E how \in {"ok", "refused", "broken"} :
                                              ended' = << op, how >>
    <3> USE DEF GoesOn, Ends
    <3>1. CASE ProbeRunners \/ StopRunners
      BY <3>1 DEF ProbeRunners, StopRunners
    <3>2. CASE QuietDown \/ CancelQuiet \/ ReadQueue
      BY <3>2 DEF QuietDown, CancelQuiet, ReadQueue
    <3>3. CASE ReadBuilds
      BY <3>3 DEF ReadBuilds
    <3>4. CASE Refused
      BY <3>4 DEF Refused
    <3>5. CASE ReplaceAgent \/ LookAgain
      BY <3>5 DEF ReplaceAgent, LookAgain
    <3>6. CASE Resume
      BY <3>6 DEF Resume
    <3>7. CASE StopStack
      BY <3>7 DEF StopStack
    <3> QED
      BY <1>3, <3>1, <3>2, <3>3, <3>4, <3>5, <3>6, <3>7 DEF Steps
  <2>4. controller' \in {controller, "stopped"}
    BY <1>3 DEF Steps, ProbeRunners, StopRunners, QuietDown, ReadQueue, ReadBuilds, CancelQuiet,
                Refused, ReplaceAgent, LookAgain, Resume, StopStack, jenkins
  <2>5. (\E how \in {"ok", "refused", "broken"} : ended' = << op, how >>) => ended'[1] # "restore"
    BY <2>2
  <2> QED
    BY <2>2, <2>3, <2>4, <2>5
<1>4. CASE Interrupt
  <2>1. op \in Commands /\ UNCHANGED controller
    BY <1>4 DEF Interrupt, jenkins
  <2>2. \/ op' = op /\ at' # "manifest" /\ ended' = ended
        \/ op' = "none" /\ at' = "idle" /\ ended' = << op, "broken" >>
    BY <1>4 DEF Interrupt, Ends
  <2>3. ended' = << op, "broken" >> => ended'[1] # "restore"
    BY <2>1 DEF Commands
  <2> QED
    BY <2>1, <2>2, <2>3 DEF Commands
<1> QED
  BY <1>1, <1>2, <1>3, <1>4 DEF StackNext

LEMMA ArchiveStep ==
  ASSUME IInv, [Next]_vars
  PROVE  ArchiveInv'
<1>0. StackTypeOK /\ ArchiveInv /\ archive \in Volumes /\ volume \in Volumes
  BY DEF IInv, TypeOK
<1>1. CASE StackNext /\ UNCHANGED << snapshotting, restoring >>
  <2>1. UNCHANGED << archive, manifest, volume, lost >>
    BY <1>1 DEF snapshotting, restoring, loss
  <2> QED
    BY <1>0, <1>1, <2>1, StackIsApart DEF ArchiveInv
<1>2. CASE StartAgain
  <2>1. UNCHANGED << archive, manifest, lost, op, at >>
    BY <1>2 DEF StartAgain, StartStack, snapshotting, loss
  <2>2. volume'.idle = volume.idle /\ (volume.data = "whole" => volume'.data = "whole")
    <3>1. volume' \in {volume, [volume EXCEPT !.exists = TRUE], Booted(volume)}
      BY <1>2 DEF StartAgain
    <3>2. /\ [volume EXCEPT !.exists = TRUE].idle = volume.idle
          /\ [volume EXCEPT !.exists = TRUE].data = volume.data
      BY <1>0, VolumeFields
    <3>3. /\ Booted(volume).idle = volume.idle
          /\ volume.data # "none" => Booted(volume).data = volume.data
      BY <1>0, BootedFields
    <3> QED
      BY <3>1, <3>2, <3>3
  <2> QED
    BY <1>0, <2>1, <2>2 DEF ArchiveInv
<1>3. CASE BeginSnapshot \/ InterruptSnapshot
  BY <1>0, <1>3 DEF BeginSnapshot, InterruptSnapshot, Ends, snapshotting, restoring, loss, ArchiveInv
<1>4. CASE ArchiveVolume
  <2>1. op = "snapshot" /\ ~ lost /\ ~ Active
    BY <1>0, <1>4, PlacesAreApart DEF ArchiveVolume, ArchiveInv, IInv, QuietInv, Active
  <2>2. UNCHANGED << volume, lost >> /\ op' # "restore"
    BY <1>4, <2>1 DEF ArchiveVolume, restoring, loss, GoesOn, Ends
  <2>3. CASE archive' = [volume EXCEPT !.idle = ~ Active] /\ manifest' = FALSE
    <3>1. archive'.idle = ~ Active /\ archive'.data = volume.data
      BY <1>0, <2>3 DEF Volumes
    <3>2. op' # "snapshot" \/ op' = op
      BY <1>4 DEF ArchiveVolume, GoesOn, Ends
    <3> QED
      BY <1>0, <2>1, <2>2, <2>3, <3>1, <3>2 DEF ArchiveInv
  <2>4. CASE UNCHANGED snapshotting /\ at' = "idle"
    BY <1>0, <2>1, <2>2, <2>4 DEF ArchiveInv, snapshotting
  <2> QED
    BY <1>4, <2>3, <2>4 DEF ArchiveVolume, Ends
<1>5. CASE WriteManifest
  <2>1. at = "manifest" /\ op = "snapshot"
    BY <1>0, <1>5, PlacesAreApart DEF WriteManifest
  <2>2. UNCHANGED << volume, lost >> /\ op' = "none" /\ at' = "idle"
    BY <1>5 DEF WriteManifest, restoring, loss, Ends
  <2>3. \/ archive' = archive
        \/ archive' = NoVolume /\ manifest' = manifest
    BY <1>5 DEF WriteManifest
  <2> QED
    BY <1>0, <2>1, <2>2, <2>3 DEF ArchiveInv, NoVolume, Empty
<1>6. CASE Destroy
  BY <1>0, <1>6 DEF Destroy, snapshotting, ArchiveInv, NoVolume, Empty
<1>7. CASE BeginRestore
  BY <1>0, <1>7 DEF BeginRestore, snapshotting, ArchiveInv
<1>8. CASE RestoreSteps
  <2>1. UNCHANGED << archive, manifest, lost >> /\ lost /\ manifest
    BY <1>0, <1>8, RestoreIsApart DEF IInv, TargetInv, ArchiveInv, RestoreSteps, StagingSteps,
       InstallSecret, TargetSteps, CleanUp, Signal, Kill, snapshotting, restoring, loss
  <2>2. volume'.idle
    <3>1. CASE TargetSteps
      <4>1. volume' \in {volume, Empty(TRUE), [archive EXCEPT !.exists = TRUE],
                         [archive EXCEPT !.data = "part"], [volume EXCEPT !.tokens = FALSE],
                         [volume EXCEPT !.tokens = FALSE, !.key = issued]}
        BY <3>1 DEF TargetSteps, ExtractTarget, CleanTarget, StartTarget, ProveTarget
      <4>2. volume.idle /\ archive.idle
        BY <1>0 DEF ArchiveInv
      <4>3. /\ [archive EXCEPT !.exists = TRUE].idle = archive.idle
            /\ [archive EXCEPT !.data = "part"].idle = archive.idle
        BY <1>0, VolumeFields
      <4>4. /\ [volume EXCEPT !.tokens = FALSE].idle = volume.idle
            /\ [volume EXCEPT !.tokens = FALSE, !.key = issued].idle = volume.idle
        BY <1>0, VolumeFields
      <4>5. Empty(TRUE).idle
        BY DEF Empty
      <4> QED
        BY <4>1, <4>2, <4>3, <4>4, <4>5
    <3>2. CASE ~ TargetSteps
      BY <1>0, <1>8, <3>2 DEF RestoreSteps, StagingSteps, InstallSecret, CleanUp, Signal, Kill,
         restoring, ArchiveInv
    <3> QED
      BY <3>1, <3>2
  <2>3. op' \in {"restore", "none"} /\ at' # "manifest"
    <3>1. op' \in {"restore", "none"}
      BY <1>0, <1>8, RestoreIsApart
    <3>2. Where'
      BY WhereStep DEF IInv
    <3> QED
      BY <3>1, <3>2 DEF Where, Staging, Restoring
  <2> QED
    BY <1>0, <2>1, <2>2, <2>3 DEF ArchiveInv
<1>9. CASE UNCHANGED vars
  BY <1>0, <1>9 DEF vars, stack, command, snapshotting, restoring, loss, ArchiveInv
<1> QED
  BY <1>1, <1>2, <1>3, <1>4, <1>5, <1>6, <1>7, <1>8, <1>9 DEF Next

LEMMA StagingStep ==
  ASSUME IInv, [Next]_vars
  PROVE  StagingInv'
<1> DEFINE Early == {"staging volume", "staging extract", "staging credentials",
                     "staging start"}
           Proving == {"staging prove", "capture key"}
<1>0. /\ StackTypeOK /\ StagingInv /\ Where'
      /\ staging \in Volumes /\ archive \in Volumes
      /\ op = "restore" => attempt # 0
  <2>1. attempt \in 0 .. MaxRestores /\ (op = "restore" => attempt >= 1)
    BY DEF IInv, TypeOK, TargetInv
  <2>2. op = "restore" => attempt # 0
    BY <2>1
  <2> QED
    BY <2>2, WhereStep DEF IInv, TypeOK
<1>1. ASSUME op' \in Commands \cup {"none", "snapshot"}
      PROVE  at' \notin Early \cup Proving
  BY <1>0, <1>1 DEF Where, Commands, Quiescing, Maintaining
<1>2. CASE StackNext /\ UNCHANGED << snapshotting, restoring >>
  <2>1. UNCHANGED << staging, stagingUp, attempt, killed >>
    BY <1>2 DEF restoring
  <2>2. CASE UNCHANGED << op, at >>
    BY <1>0, <2>1, <2>2 DEF StagingInv
  <2>3. CASE op # "restore" /\ op' # "restore"
    <3>1. op' \in Commands \cup {"none", "snapshot"}
      BY <1>0, <1>2, <2>3, StackTypeStep DEF IInv, StackTypeOK
    <3> QED
      BY <1>0, <1>1, <2>1, <2>3, <3>1 DEF StagingInv
  <2> QED
    BY <1>0, <1>2, <2>2, <2>3, StackIsApart
<1>3. CASE StartAgain \/ Destroy \/ Signal
  <2>1. UNCHANGED << staging, stagingUp, attempt, killed, op >>
    BY <1>3 DEF StartAgain, StartStack, Destroy, Signal, restoring
  <2>2. at' = at \/ at' \notin Early \cup Proving
    BY <1>3 DEF StartAgain, StartStack, Destroy, Signal
  <2> QED
    BY <1>0, <2>1, <2>2 DEF StagingInv
<1>4. CASE BeginSnapshot \/ InterruptSnapshot \/ ArchiveVolume \/ WriteManifest
  <2>1. UNCHANGED << staging, stagingUp, attempt, killed >>
    BY <1>4 DEF BeginSnapshot, InterruptSnapshot, ArchiveVolume, WriteManifest, restoring
  <2>2. op # "restore" /\ op' \in {"none", "snapshot"}
    BY <1>0, <1>4, PlacesAreApart DEF BeginSnapshot, InterruptSnapshot, ArchiveVolume,
       WriteManifest, GoesOn, Ends
  <2> QED
    BY <1>0, <1>1, <2>1, <2>2 DEF StagingInv
<1>5. CASE BeginRestore
  BY <1>5 DEF BeginRestore, StagingInv
<1>6. CASE StagingSteps
  <2>0. op = "restore" /\ op' = "restore" /\ UNCHANGED << attempt, killed >>
    BY <1>0, <1>6, RestoreIsApart DEF StagingSteps, MakeStaging, ExtractStaging, CleanStaging,
       StartStaging, ProveStaging, CaptureKey, RestoreSteps, GoesOn, Fails
  <2>1. CASE MakeStaging
    <3>1. ~ stagingUp /\ ~ stagingUp'
      BY <1>0, <2>1 DEF MakeStaging, StagingInv
    <3>2. at' \in {"staging extract", "cleanup"}
      BY <2>1 DEF MakeStaging, GoesOn, Fails
    <3> QED
      BY <2>0, <3>1, <3>2 DEF StagingInv
  <2>2. CASE ExtractStaging
    <3>1. ~ stagingUp /\ ~ stagingUp'
      BY <1>0, <2>2 DEF ExtractStaging, StagingInv
    <3>2. at' \in {"staging credentials", "cleanup"}
      BY <2>2 DEF ExtractStaging, GoesOn, Fails
    <3> QED
      BY <2>0, <3>1, <3>2 DEF StagingInv
  <2>3. CASE CleanStaging
    <3>1. ~ stagingUp /\ ~ stagingUp'
      BY <1>0, <2>3 DEF CleanStaging, StagingInv
    <3>2. \/ at' = "cleanup"
          \/ at' = "staging start" /\ ~ staging'.tokens /\ staging'.key = NoKey
      <4>1. LET v == [staging EXCEPT !.tokens = FALSE, !.key = NoKey]
            IN  v.tokens = FALSE /\ v.key = NoKey
        BY <1>0, VolumeFields
      <4> QED
        BY <2>3, <4>1 DEF CleanStaging, GoesOn, Fails
    <3> QED
      BY <2>0, <3>1, <3>2 DEF StagingInv
  <2>4. CASE StartStaging
    <3>1. ~ staging.tokens /\ staging.key = NoKey /\ ~ stagingUp
      BY <1>0, <2>4 DEF StartStaging, StagingInv
    <3>2. Started(staging).tokens = staging.tokens /\ Started(staging).key = attempt
      BY <1>0, <3>1 DEF Started, Volumes
    <3>3. attempt # 0
      BY <1>0, <2>0
    <3>4. \/ at' = "staging prove" /\ staging' = Started(staging)
          \/ at' = "cleanup" /\ UNCHANGED << staging, stagingUp >>
          \/ at' = "cleanup" /\ staging' = Started(staging)
      BY <2>4 DEF StartStaging, GoesOn, Fails
    <3>5. CASE UNCHANGED << staging, stagingUp >> /\ at' = "cleanup"
      BY <2>0, <3>1, <3>5 DEF StagingInv
    <3>6. CASE staging' = Started(staging) /\ at' \in {"staging prove", "cleanup"}
      <4>1. staging'.tokens = FALSE /\ staging'.key = attempt
        BY <1>0, <3>1, <3>2, <3>6 DEF Volumes
      <4> QED
        BY <2>0, <3>3, <3>6, <4>1 DEF StagingInv
    <3> QED
      BY <3>4, <3>5, <3>6
  <2>5. CASE ProveStaging
    <3>1. at = "staging prove" /\ at' \in {"capture key", "cleanup"} /\ staging' = staging
      BY <2>5 DEF ProveStaging, GoesOn, Fails
    <3>2. attempt # 0
      BY <1>0, <2>0
    <3> QED
      BY <1>0, <2>0, <3>1, <3>2 DEF StagingInv
  <2>6. CASE CaptureKey
    <3>1. UNCHANGED << staging, stagingUp >> /\ at' \in {"install", "cleanup"}
      BY <2>6 DEF CaptureKey, GoesOn, Fails
    <3> QED
      BY <1>0, <2>0, <3>1 DEF StagingInv
  <2> QED
    BY <1>6, <2>1, <2>2, <2>3, <2>4, <2>5, <2>6 DEF StagingSteps
<1>7. CASE InstallSecret \/ TargetSteps
  <2>1. UNCHANGED << staging, stagingUp, attempt, killed >>
    BY <1>7 DEF InstallSecret, TargetSteps
  <2>2. at' \notin Early \cup Proving /\ op' = op
    BY <1>7 DEF InstallSecret, TargetSteps, ExtractTarget, CleanTarget, StartTarget, ProveTarget,
                GoesOn, Fails
  <2> QED
    BY <1>0, <2>1, <2>2 DEF StagingInv
<1>8. CASE CleanUp
  <2>1. at' = "idle" /\ op' = "none"
    BY <1>8 DEF CleanUp, Ends
  <2>2. ~ killed' => ~ stagingUp' /\ ~ staging'.exists
    BY <1>8 DEF CleanUp
  <2>3. stagingUp' => stagingUp /\ ~ staging.tokens /\ staging.key # 0
    BY <1>0, <1>8 DEF CleanUp, StagingInv
  <2>4. staging' = staging \/ staging' = NoVolume
    BY <1>8 DEF CleanUp
  <2>5. NoVolume.tokens = FALSE /\ NoVolume.key # 0
    BY DEF NoVolume, Empty, NoKey
  <2>6. stagingUp' => ~ staging'.tokens /\ staging'.key # 0
    BY <2>3, <2>4, <2>5
  <2> QED
    BY <2>1, <2>2, <2>6 DEF StagingInv
<1>9. CASE Kill
  BY <1>0, <1>9 DEF Kill, Ends, StagingInv
<1>10. CASE UNCHANGED vars
  BY <1>0, <1>10 DEF vars, stack, command, restoring, StagingInv
<1> QED
  BY <1>2, <1>3, <1>4, <1>5, <1>6, <1>7, <1>8, <1>9, <1>10 DEF Next, RestoreSteps

(* What the target holds, and its agents with it, is kept by every step    *)
(* that leaves these three alone.                                          *)
LEMMA CleanStays ==
  ASSUME UNCHANGED << volume, issued, installed >>
  PROVE  Clean' <=> Clean
BY DEF Clean

LEMMA TargetByMaintenance ==
  ASSUME TargetInv, StackTypeOK', UNCHANGED << volume, loss, issued, installed, killed >>,
         op # "restore", op' # "restore",
         controller' \in {controller, "stopped"},
         ended' = ended \/ ended'[1] # "restore",
         op' = "none" => (op = "none" /\ ended' = ended) \/ ended'[1] # "restore"
  PROVE  TargetInv'
<1>0. UNCHANGED << lost, restored >> /\ (controller' = "up" => controller = "up")
  BY DEF loss
<1>1. at' \notin Restoring \cup {"install", "target volume", "target credentials"}
  BY DEF StackTypeOK, Where, Maintaining, Quiescing, Restoring, Commands
<1>2. /\ lost' /\ controller' = "up" /\ RestoreIsLast' => Clean'
      /\ restored' => lost' /\ Clean'
  <2>1. RestoreIsLast' => RestoreIsLast
    BY DEF RestoreIsLast
  <2> QED
    BY <1>0, <2>1, CleanStays DEF TargetInv
<1>3. op' = "none" /\ ~ killed' /\ lost' /\ controller' = "up"
         => ended' # << "restore", "broken" >>
  <2>1. ended'[1] # "restore" => ended' # << "restore", "broken" >>
    OBVIOUS
  <2> QED
    BY <1>0, <2>1 DEF TargetInv
<1> QED
  BY <1>1, <1>2, <1>3 DEF TargetInv

(* A restore works on a stack that is stopped until it starts the target.  *)
LEMMA TargetByRestore ==
  ASSUME op' = "restore", lost', attempt' = attempt, attempt >= 1,
         at' \notin {"target prove", "cleanup target", "leave"} => controller' = "stopped",
         at' \in {"install", "target volume", "target credentials"} => issued' = attempt,
         at' \in {"target volume", "target credentials"}
           => \A a \in ToSet(Agents) : installed'[a] = issued',
         at' = "target credentials" => volume'.data = "whole",
         at' \in Restoring => Clean',
         controller' = "up" => Clean',
         restored' => at' = "leave"
  PROVE  TargetInv'
BY DEF TargetInv, Restoring

LEMMA TargetByStaging ==
  ASSUME IInv, StagingSteps
  PROVE  TargetInv'
<1>0. StackTypeOK /\ TargetInv /\ StagingInv
  BY DEF IInv, TypeOK
<1>1. op = "restore" /\ lost /\ attempt >= 1 /\ (restored => at = "leave")
  BY <1>0, RestoreIsApart DEF TargetInv, RestoreSteps
<1>2. op' = "restore"
  BY <1>1 DEF StagingSteps, MakeStaging, ExtractStaging, CleanStaging, StartStaging,
              ProveStaging, CaptureKey, GoesOn, Fails
<1>3. UNCHANGED << lost, restored, attempt, controller, volume, installed >>
  BY DEF StagingSteps, jenkins, loss
<1>4. at \in Staging
  BY DEF StagingSteps, MakeStaging, ExtractStaging, CleanStaging, StartStaging, ProveStaging,
         CaptureKey, Staging
<1>5. controller = "stopped" /\ ~ restored
  BY <1>0, <1>1, <1>4 DEF TargetInv, Staging
<1>6. \/ at' \in Staging \cup {"cleanup"}
      \/ at' = "install" /\ CaptureKey /\ issued' = staging.key
  BY DEF StagingSteps, MakeStaging, ExtractStaging, CleanStaging, StartStaging, ProveStaging,
         CaptureKey, Staging, GoesOn, Fails
<1>7. CaptureKey => staging.key = attempt
  BY <1>0 DEF CaptureKey, StagingInv
<1>8. /\ at' \in {"install", "target volume", "target credentials"} => issued' = attempt
      /\ at' \notin Restoring \cup {"target volume", "target credentials"}
  BY <1>6, <1>7 DEF Staging, Restoring
<1> QED
  BY <1>1, <1>2, <1>3, <1>5, <1>8, TargetByRestore

LEMMA TargetByInstall ==
  ASSUME IInv, InstallSecret
  PROVE  TargetInv'
<1>0. StackTypeOK /\ TargetInv
  BY DEF IInv, TypeOK
<1>1. op = "restore" /\ lost /\ attempt >= 1 /\ (restored => at = "leave")
  BY <1>0, RestoreIsApart DEF TargetInv, RestoreSteps
<1>2. op' = "restore" /\ at = "install"
  BY <1>1 DEF InstallSecret, GoesOn, Fails
<1>3. UNCHANGED << lost, restored, attempt, controller, volume, issued >>
  BY DEF InstallSecret, jenkins, loss
<1>4. controller = "stopped" /\ issued = attempt /\ ~ restored
  BY <1>0, <1>1, <1>2 DEF TargetInv
<1>5. \/ at' \in {"install", "cleanup"}
      \/ /\ at' = "target volume" /\ installed' = installed
         /\ {i \in DOMAIN Agents : installed[Agents[i]] # issued} = {}
  BY DEF InstallSecret, GoesOn, Fails
<1>6. {i \in DOMAIN Agents : installed[Agents[i]] # issued} = {}
        => \A a \in ToSet(Agents) : installed[a] = issued
  BY DEF ToSet
<1>7. at' \in {"target volume", "target credentials"}
        => \A a \in ToSet(Agents) : installed'[a] = issued'
  BY <1>3, <1>5, <1>6
<1> QED
  BY <1>1, <1>2, <1>3, <1>4, <1>5, <1>7, TargetByRestore DEF Restoring

LEMMA TargetByTarget ==
  ASSUME IInv, TargetSteps
  PROVE  TargetInv'
<1>0. /\ StackTypeOK /\ TargetInv /\ ArchiveInv
      /\ archive \in Volumes /\ volume \in Volumes /\ attempt \in 0 .. MaxRestores
  BY DEF IInv, TypeOK
<1>1. op = "restore" /\ lost /\ attempt >= 1 /\ (restored => at = "leave")
  BY <1>0, RestoreIsApart DEF TargetInv, RestoreSteps
<1>2. op' = "restore" /\ UNCHANGED << lost, attempt, installed, issued >>
  BY <1>1 DEF TargetSteps, ExtractTarget, CleanTarget, StartTarget, ProveTarget, GoesOn, Fails
<1>9. restored' => at' = "leave"
  <2>1. at # "leave"
    BY DEF TargetSteps, ExtractTarget, CleanTarget, StartTarget, ProveTarget
  <2>2. restored' = restored \/ at' = "leave"
    BY DEF TargetSteps, ProveTarget, GoesOn
  <2> QED
    BY <1>1, <2>1, <2>2
<1>3. CASE ExtractTarget
  <2>1. /\ at = "target volume" /\ UNCHANGED controller
        /\ \/ at' = "cleanup"
           \/ at' = "target credentials" /\ volume' = [archive EXCEPT !.exists = TRUE]
    <3>1. Fails => at' = "cleanup"
      BY DEF Fails
    <3>2. GoesOn("target credentials") => at' = "target credentials"
      BY DEF GoesOn
    <3>3. UNCHANGED jenkins => UNCHANGED controller
      BY DEF jenkins
    <3> QED
      BY <1>3, <3>1, <3>2, <3>3, Zenon DEF ExtractTarget
  <2>2. /\ controller = "stopped" /\ issued = attempt
        /\ \A a \in ToSet(Agents) : installed[a] = issued
    BY <1>0, <1>1, <2>1 DEF TargetInv
  <2>3. at' = "target credentials" => volume'.data = "whole"
    <3>1. archive.data = "whole"
      BY <1>0, <1>1 DEF ArchiveInv
    <3>2. [archive EXCEPT !.exists = TRUE].data = archive.data
      BY <1>0, VolumeFields
    <3> QED
      BY <2>1, <3>1, <3>2
  <2> QED
    BY <1>1, <1>2, <1>9, <2>1, <2>2, <2>3, TargetByRestore DEF Restoring
<1>4. CASE CleanTarget
  <2>1. /\ at = "target credentials" /\ UNCHANGED controller
        /\ \/ at' = "cleanup"
           \/ /\ at' = "target start"
              /\ volume' = [volume EXCEPT !.tokens = FALSE, !.key = issued]
    <3>1. Fails => at' = "cleanup"
      BY DEF Fails
    <3>2. GoesOn("target start") => at' = "target start"
      BY DEF GoesOn
    <3>3. UNCHANGED jenkins => UNCHANGED controller
      BY DEF jenkins
    <3> QED
      BY <1>4, <3>1, <3>2, <3>3, Zenon DEF CleanTarget
  <2>2. /\ controller = "stopped" /\ issued = attempt /\ volume.data = "whole"
        /\ \A a \in ToSet(Agents) : installed[a] = issued
    BY <1>0, <1>1, <2>1 DEF TargetInv
  <2>3. at' \in Restoring => Clean'
    <3>1. /\ [volume EXCEPT !.tokens = FALSE, !.key = issued].data = volume.data
          /\ [volume EXCEPT !.tokens = FALSE, !.key = issued].tokens = FALSE
          /\ [volume EXCEPT !.tokens = FALSE, !.key = issued].key = issued
      BY <1>0, VolumeFields
    <3>2. issued' \in 1 .. MaxRestores
      BY <1>0, <1>1, <1>2, <2>2, RestoresAreBounded
    <3> QED
      BY <1>2, <2>1, <2>2, <3>1, <3>2 DEF Clean, Restoring
  <2> QED
    BY <1>1, <1>2, <1>9, <2>1, <2>2, <2>3, TargetByRestore
<1>5. CASE StartTarget \/ ProveTarget
  <2>1. at \in Restoring /\ at' \in {"target prove", "cleanup target", "leave"}
    BY <1>5 DEF StartTarget, ProveTarget, GoesOn, Restoring
  <2>2. volume' = volume
    BY <1>5 DEF StartTarget, ProveTarget
  <2>3. Clean'
    BY <1>0, <1>2, <2>1, <2>2, CleanStays DEF TargetInv
  <2> QED
    BY <1>1, <1>2, <1>9, <2>1, <2>3, TargetByRestore
<1> QED
  BY <1>3, <1>4, <1>5 DEF TargetSteps

LEMMA TargetByCleanUp ==
  ASSUME IInv, StackTypeOK', CleanUp
  PROVE  TargetInv'
<1>0. StackTypeOK /\ TargetInv
  BY DEF IInv, TypeOK
<1>1. op = "restore"
  BY <1>0, RestoreIsApart DEF RestoreSteps
<1>2. op' = "none" /\ at' = "idle" /\ UNCHANGED << volume, lost, restored, issued, installed >>
  BY DEF CleanUp, Ends, loss
<1>3. controller' = "up" => controller = "up"
  BY DEF CleanUp
<1>4. /\ lost' /\ controller' = "up" => Clean'
      /\ restored' => lost' /\ Clean'
  BY <1>0, <1>1, <1>2, <1>3, CleanStays DEF TargetInv, RestoreIsLast
<1>5. at \notin {"cleanup target", "leave"} => controller = "stopped"
  BY <1>0, <1>1 DEF TargetInv, CleanUp
<1>6. at = "cleanup target" /\ controller' = "up" => killed'
  BY DEF CleanUp
<1>7. at = "leave" /\ ~ killed' => ended' # << "restore", "broken" >>
  <2>1. at = "leave" /\ ~ killed' => ended' = << op, "ok" >>
    BY DEF CleanUp, Ends
  <2> QED
    BY <2>1
<1>8. ~ killed' /\ controller' = "up" => ended' # << "restore", "broken" >>
  <2>1. controller' = "up" => controller # "stopped"
    BY <1>3
  <2> QED
    BY <1>5, <1>6, <1>7, <2>1
<1> QED
  BY <1>2, <1>4, <1>8 DEF TargetInv, Restoring

LEMMA TargetStep ==
  ASSUME IInv, [Next]_vars
  PROVE  TargetInv'
<1>0. StackTypeOK /\ TargetInv /\ StackTypeOK'
  BY TypeStep DEF IInv, TypeOK
<1>1. CASE StackNext /\ UNCHANGED << snapshotting, restoring >>
  <2>1. UNCHANGED << volume, loss, lost, restored, issued, installed, attempt, killed >>
    BY <1>1 DEF restoring, loss
  <2>2. CASE UNCHANGED << op, at, ended, controller >>
    BY <1>0, <2>1, <2>2, CleanStays DEF TargetInv, RestoreIsLast
  <2>3. CASE /\ op # "restore" /\ op' # "restore"
             /\ controller' \in {controller, "stopped"}
             /\ ended' = ended \/ ended'[1] # "restore"
             /\ op' = "none" => ended'[1] # "restore"
    BY <1>0, <2>1, <2>3, TargetByMaintenance
  <2> QED
    BY <1>0, <1>1, <2>2, <2>3, StackIsApart
<1>2. CASE StartAgain
  <2>1. /\ UNCHANGED << lost, restored, issued, installed, op >>
        /\ volume' \in {volume, [volume EXCEPT !.exists = TRUE], Booted(volume)}
    BY <1>2 DEF StartAgain, StartStack, loss
  <2>2. op' = "none" /\ at' = "idle"
    BY <1>0, <1>2 DEF StartAgain, StartStack, StackTypeOK, Where
  <2>3. ended'[1] = "start" /\ ended' # << "restore", "broken" >>
    BY <1>2 DEF StartAgain, StartStack
  <2>4. Clean => Clean'
    <3> SUFFICES ASSUME Clean PROVE Clean'
      OBVIOUS
    <3>1. volume \in Volumes
      BY DEF IInv, TypeOK
    <3>2. volume.data = "whole" /\ ~ volume.tokens /\ volume.key = issued /\ issued # NoKey
      BY RestoresAreBounded DEF Clean, NoKey
    <3>3. LET v == [volume EXCEPT !.exists = TRUE]
          IN  v.data = "whole" /\ ~ v.tokens /\ v.key = issued
      <4>1. /\ [volume EXCEPT !.exists = TRUE].data = volume.data
            /\ [volume EXCEPT !.exists = TRUE].tokens = volume.tokens
            /\ [volume EXCEPT !.exists = TRUE].key = volume.key
        BY <3>1, VolumeFields
      <4> QED
        BY <3>2, <4>1
    <3>4. Booted(volume).data = "whole" /\ ~ Booted(volume).tokens /\ Booted(volume).key = issued
      BY <3>1, <3>2, BootedFields
    <3>5. volume'.data = "whole" /\ ~ volume'.tokens /\ volume'.key = issued
      BY <2>1, <3>2, <3>3, <3>4
    <3> QED
      BY <2>1, <3>5 DEF Clean
  <2>5. ~ RestoreIsLast'
    BY <2>2, <2>3 DEF RestoreIsLast
  <2>6. restored' => lost' /\ Clean'
    BY <1>0, <2>1, <2>4 DEF TargetInv
  <2> QED
    BY <2>2, <2>3, <2>5, <2>6 DEF TargetInv, Restoring
<1>3. CASE BeginSnapshot \/ InterruptSnapshot \/ ArchiveVolume \/ WriteManifest
  <2>1. UNCHANGED << volume, loss, issued, installed, attempt, killed, controller >>
    BY <1>3 DEF BeginSnapshot, InterruptSnapshot, ArchiveVolume, WriteManifest, restoring, jenkins
  <2>2. /\ op \in {"none", "snapshot"}
        /\ \/ op' = "snapshot" /\ ended' = ended
           \/ op = "snapshot" /\ op' = "none" /\ ended' \in {<< op, "ok" >>, << op, "broken" >>}
    BY <1>0, <1>3, PlacesAreApart DEF BeginSnapshot, InterruptSnapshot, ArchiveVolume,
       WriteManifest, GoesOn, Ends
  <2>3. op # "restore" /\ (ended' = ended \/ ended'[1] # "restore")
    BY <2>2
  <2>4. op' = "none" => ended'[1] # "restore"
    BY <2>2
  <2> QED
    BY <1>0, <2>1, <2>2, <2>3, <2>4, TargetByMaintenance
<1>4. CASE Destroy
  <2>1. op' = "none" /\ at' = "idle" /\ controller' = "stopped" /\ ~ restored'
    BY <1>0, <1>4 DEF Destroy, StackTypeOK, Where
  <2> QED
    BY <2>1 DEF TargetInv, Restoring
<1>5. CASE BeginRestore
  <2>1. /\ op' = "restore" /\ at' = "staging volume" /\ controller' = "stopped" /\ lost'
        /\ ~ restored' /\ attempt' = attempt + 1
    BY <1>5 DEF BeginRestore, jenkins
  <2>2. attempt' >= 1
    <3>1. attempt \in 0 .. MaxRestores
      BY DEF IInv, TypeOK
    <3>2. attempt' = attempt + 1
      BY <2>1
    <3>3. attempt \in Nat
      BY <3>1, RestoresAreBounded
    <3> QED
      BY <3>2, <3>3
  <2> QED
    BY <2>1, <2>2 DEF TargetInv, Restoring
<1>6. CASE StagingSteps
  BY <1>6, TargetByStaging
<1>7. CASE InstallSecret
  BY <1>7, TargetByInstall
<1>8. CASE TargetSteps
  BY <1>8, TargetByTarget
<1>9. CASE CleanUp
  BY <1>0, <1>9, TargetByCleanUp
<1>10. CASE Signal
  <2>1. /\ op = "restore" /\ lost /\ attempt >= 1 /\ ~ restored
        /\ UNCHANGED << op, lost, restored, attempt, controller, volume, issued, installed >>
    BY <1>0, <1>10 DEF Signal, TargetInv, restoring, loss, jenkins
  <2>2. \/ at = "target prove" /\ at' = "cleanup target" /\ Clean'
        \/ at' = "cleanup" /\ controller = "stopped"
    BY <1>0, <1>10, <2>1, CleanStays DEF Signal, TargetInv, Restoring
  <2> QED
    BY <2>1, <2>2, TargetByRestore DEF Restoring
<1>11. CASE Kill
  <2>1. /\ op' = "none" /\ at' = "idle" /\ killed'
        /\ UNCHANGED << lost, restored, controller, volume, issued, installed >>
        /\ op = "restore"
    BY <1>11 DEF Kill, Ends, jenkins, loss
  <2> QED
    BY <1>0, <2>1, CleanStays DEF TargetInv, RestoreIsLast, Restoring
<1>12. CASE UNCHANGED vars
  BY <1>0, <1>12, CleanStays DEF vars, stack, jenkins, command, restoring, loss, TargetInv,
     RestoreIsLast
<1> QED
  BY <1>1, <1>2, <1>3, <1>4, <1>5, <1>6, <1>7, <1>8, <1>9, <1>10, <1>11, <1>12
     DEF Next, RestoreSteps

-----------------------------------------------------------------------------

LEMMA Inductive == Spec => []IInv
<1>1. IInv /\ [Next]_vars => IInv'
  BY TypeStep, QuietStep, EndedStep, ArchiveStep, StagingStep, TargetStep DEF IInv
<1> QED
  BY <1>1, InvariantInit, PTL DEF Spec

(* Every variable of the two scripts and of the volumes they work on keeps *)
(* its type, and a command is only ever at a step of its own               *)
(* (StackTypeOK), for any set of runners and of agents and any number of   *)
(* restores (deployment/jenkins/bin/stack, bin/recovery).                  *)
THEOREM TypeCorrect == Spec => []TypeOK
<1>1. IInv => TypeOK
  BY DEF IInv
<1> QED
  BY <1>1, Inductive, PTL

(* An agent is replaced, a stack is quiesced and a controller is archived  *)
(* only while no build runs (and, but for the agent, none is queued); a    *)
(* quiesce that refused has started its runners again, and a               *)
(* reconcile-agent that refused and leaves Jenkins quiet leaves no build   *)
(* running beside the new agent (bin/stack quiesce and reconcile-agent,    *)
(* bin/recovery snapshot), for any set of runners and whatever is withdrawn*)
(* from the queue meanwhile.                                               *)
THEOREM MaintenanceSafe == Spec => []MaintenanceIsIdle
<1>1. IInv => MaintenanceIsIdle
  <2> SUFFICES ASSUME IInv PROVE MaintenanceIsIdle
    OBVIOUS
  <2>1. ReplacedWhileIdle
    BY DEF IInv, QuietInv, ReplacedWhileIdle
  <2>2. CommandsAreWhole
    <3>1. EndedInv /\ queued \in Nat
      BY DEF IInv, TypeOK, StackTypeOK
    <3> QED
      BY <3>1 DEF EndedInv, CommandsAreWhole, Active
  <2> QED
    BY <2>1, <2>2 DEF IInv, ArchiveInv, MaintenanceIsIdle
<1> QED
  BY <1>1, Inductive, PTL

(* No archived token or key becomes active on the staging stack, on a      *)
(* target that a restore starts, or on one it has proved, however often    *)
(* that is stopped and started again; the secret files of all agents are of*)
(* the key it holds, and a restore that ended by itself has removed its    *)
(* staging stack (bin/recovery restore), for any number of agents and of   *)
(* restores, failed and killed ones included.  What an operator starts     *)
(* after a restore that has not come so far is left out.                   *)
THEOREM CredentialsSafe == Spec => []CredentialsAreReplaced
<1>1. IInv => CredentialsAreReplaced
  <2> SUFFICES ASSUME IInv PROVE CredentialsAreReplaced
    OBVIOUS
  <2>1. lost /\ controller = "up" /\ (restored \/ RestoreIsLast) => Clean
    BY DEF IInv, TargetInv
  <2>2. Clean => volume.key \notin {0, NoKey}
    BY RestoresAreBounded DEF Clean, NoKey
  <2>3. op = "none" /\ ~ killed =>
          /\ ~ stagingUp /\ ~ staging.exists
          /\ lost /\ controller = "up" => ended # << "restore", "broken" >>
    BY DEF IInv, StagingInv, TargetInv
  <2>4. stagingUp => ~ staging.tokens /\ staging.key # 0
    BY DEF IInv, StagingInv
  <2> QED
    BY <2>1, <2>2, <2>3, <2>4 DEF Clean, CredentialsAreReplaced
<1> QED
  BY <1>1, Inductive, PTL
=============================================================================
