------------------------------ MODULE Recovery ------------------------------
(***************************************************************************)
(* bin/recovery beside the stack commands: a snapshot of the controller's  *)
(* volume, the loss of the installation, and its restore with fresh        *)
(* credentials, which a disposable staging stack issues first              *)
(* (deployment/jenkins/bin/recovery, _recovery_contracts.py).              *)
(*                                                                         *)
(* A credential is known by its generation: 0 is what was archived, n the  *)
(* key that the n-th restore makes Jenkins issue.  Any command of the      *)
(* script may fail, HUP, INT and TERM run its cleanup, and SIGKILL ends it *)
(* without.                                                                *)
(***************************************************************************)
EXTENDS StackOperations, SequencesExt

CONSTANTS
  Agents,       \* the five agents, in the order their secrets are installed
  MaxRestores   \* a bound of the model: the attempts to restore

ASSUME RestoresAreBounded == MaxRestores \in Nat

VARIABLES
  archive,    \* what the snapshot holds of the controller, or NoVolume
  manifest,   \* the archive has its recovery manifest
  volume,     \* the controller volume of the installation
  lost,       \* the installation was lost after its snapshot
  restored,   \* the last restore has proved the target, and it is still there
  installed,  \* the generation of each agent's secret file
  attempt,    \* the restores that were begun
  staging,    \* the volume of the disposable stack
  stagingUp,  \* it runs
  issued,     \* the secrets and the key captured from it
  killed      \* the last restore was killed, or its cleanup failed

snapshotting == << archive, manifest >>
loss         == << lost, restored >>
restoring    == << volume, loss, installed, attempt, staging, stagingUp, issued, killed >>
vars         == << stack, snapshotting, restoring >>

(* A volume holds the controller's state (none, a part or the whole of what*)
(* was archived, or that of a new Jenkins), its users' API tokens, the key *)
(* that the agents' secrets are derived from, and whether it was archived  *)
(* with no build queued or running.                                        *)
NoKey == -1
OwnKey == MaxRestores + 1   \* what the target's Jenkins makes for itself
Keys == 0 .. OwnKey \cup {NoKey}
Volumes == [exists : BOOLEAN, data : {"none", "new", "part", "whole"}, tokens : BOOLEAN,
            key : Keys, idle : BOOLEAN]
Empty(exists) ==
  [exists |-> exists, data |-> "none", tokens |-> FALSE, key |-> NoKey, idle |-> TRUE]
NoVolume == Empty(FALSE)

Init ==
  /\ StackInit
  /\ archive = NoVolume
  /\ manifest = FALSE
  /\ volume = [exists |-> TRUE, data |-> "whole", tokens |-> TRUE, key |-> 0, idle |-> TRUE]
  /\ lost = FALSE
  /\ restored = FALSE
  /\ installed = [a \in ToSet(Agents) |-> 0]
  /\ attempt = 0
  /\ staging = NoVolume
  /\ stagingUp = FALSE
  /\ issued = NoKey
  /\ killed = FALSE

-----------------------------------------------------------------------------
(* snapshot: quiesce, stop, archive, manifest.  A bound of the model: none *)
(* is taken of the installation that followed a loss.                      *)

BeginSnapshot ==
  /\ op = "none" /\ controller = "up" /\ ~ lost
  /\ op' = "snapshot"
  /\ at' = "probe"
  /\ stopped' = {}
  /\ UNCHANGED << runner, jenkins, failing, ended, snapshotting, restoring >>

(* The archive is written beside its name and renamed; without a manifest  *)
(* it is removed again.                                                    *)
ArchiveVolume ==
  /\ at = "archive"
  /\ \/ /\ archive' = [volume EXCEPT !.idle = ~ Active]
        /\ manifest' = FALSE
        /\ GoesOn("manifest")
     \/ Ends("broken") /\ UNCHANGED snapshotting
  /\ UNCHANGED << runner, jenkins, stopped, restoring >>

WriteManifest ==
  /\ at = "manifest"
  /\ \/ manifest' = TRUE /\ Ends("ok") /\ UNCHANGED archive
     \/ archive' = NoVolume /\ Ends("broken") /\ UNCHANGED manifest
  /\ UNCHANGED << runner, jenkins, stopped, restoring >>

(* Nothing of the snapshot outlives an interruption but the archive that   *)
(* was renamed and has no manifest.                                        *)
InterruptSnapshot ==
  /\ op = "snapshot"
  /\ Ends("broken")
  /\ UNCHANGED << runner, jenkins, stopped, snapshotting, restoring >>

(* The installation is lost, or its operator destroys it: the controller's *)
(* volume and the agents' secrets of no use are gone.                      *)
Destroy ==
  /\ op = "none" /\ manifest
  /\ lost' = TRUE
  /\ restored' = FALSE
  /\ volume' \in {NoVolume, Empty(TRUE)}
  /\ controller' = "stopped"
  /\ runner' = [r \in Runners |-> "stopped"]
  /\ quiet' = FALSE /\ queued' = 0 /\ building' = FALSE
  /\ ended' = << "destroy", "ok" >>
  /\ UNCHANGED << op, at, stopped, failing, snapshotting, installed, attempt, staging,
                  stagingUp, issued, killed >>

(* start, which looks neither at what the volume holds nor at how it got   *)
(* there: Jenkins comes up on what a restore left behind, and makes what it*)
(* does not find.                                                          *)
Booted(of) == [of EXCEPT !.exists = TRUE, !.data = IF @ = "none" THEN "new" ELSE @,
                         !.key = IF @ = NoKey THEN OwnKey ELSE @]

StartAgain ==
  /\ StartStack
  /\ \/ volume' = Booted(volume)
     \/ controller' = "stopped" /\ volume' \in {volume, [volume EXCEPT !.exists = TRUE]}
  /\ UNCHANGED << snapshotting, loss, installed, attempt, staging, stagingUp, issued, killed >>

-----------------------------------------------------------------------------
(* restore.  Each step succeeds or fails; a step that fails, or that a     *)
(* signal ends, is followed by the cleanup.                                *)

(* _check_manifest, _check_fresh_credentials, preflight, and an empty      *)
(* volume or none.                                                         *)
BeginRestore ==
  /\ op = "none" /\ manifest /\ lost
  /\ controller = "stopped" /\ volume.data = "none"
  /\ attempt < MaxRestores
  /\ attempt' = attempt + 1
  /\ op' = "restore"
  /\ at' = "staging volume"
  /\ killed' = FALSE
  /\ issued' = NoKey
  /\ staging' = NoVolume
  /\ stagingUp' = FALSE
  /\ restored' = FALSE
  /\ UNCHANGED << runner, jenkins, stopped, failing, ended, snapshotting, volume, lost,
                  installed >>

Fails == failing' = TRUE /\ at' = "cleanup" /\ UNCHANGED << op, ended >>

(* Steps on the staging volume and the stack that runs on it.  A start     *)
(* that fails may have started the controller.                             *)
MakeStaging ==
  /\ at = "staging volume"
  /\ \/ staging' = Empty(TRUE) /\ GoesOn("staging extract")
     \/ Fails /\ UNCHANGED staging
  /\ UNCHANGED << stagingUp, issued >>

ExtractStaging ==
  /\ at = "staging extract"
  /\ \/ staging' = [archive EXCEPT !.exists = TRUE] /\ GoesOn("staging credentials")
     \/ staging' = [archive EXCEPT !.data = "part"] /\ Fails
  /\ UNCHANGED << stagingUp, issued >>

(* RemoveArchivedApiTokens, then the key that the agents' secrets derive   *)
(* from.                                                                   *)
CleanStaging ==
  /\ at = "staging credentials"
  /\ \/ staging' = [staging EXCEPT !.tokens = FALSE, !.key = NoKey] /\ GoesOn("staging start")
     \/ staging' \in {staging, [staging EXCEPT !.tokens = FALSE]} /\ Fails
  /\ UNCHANGED << stagingUp, issued >>

(* Jenkins makes a key when it starts without one.                         *)
Started(of) == [of EXCEPT !.key = IF @ = NoKey THEN attempt ELSE @]

StartStaging ==
  /\ at = "staging start"
  /\ \/ staging' = Started(staging) /\ stagingUp' = TRUE /\ GoesOn("staging prove")
     \/ /\ Fails
        /\ \/ UNCHANGED << staging, stagingUp >>
           \/ staging' = Started(staging) /\ stagingUp' = TRUE
  /\ UNCHANGED issued

(* provision-secrets, start with the new secrets, verify-live, stop.       *)
ProveStaging ==
  /\ at = "staging prove"
  /\ \/ stagingUp' = FALSE /\ GoesOn("capture key")
     \/ stagingUp' \in BOOLEAN /\ Fails
  /\ UNCHANGED << staging, issued >>

CaptureKey ==
  /\ at = "capture key"
  /\ \/ issued' = staging.key /\ GoesOn("install")
     \/ Fails /\ UNCHANGED issued
  /\ UNCHANGED << staging, stagingUp >>

StagingSteps ==
  /\ \/ MakeStaging \/ ExtractStaging \/ CleanStaging \/ StartStaging \/ ProveStaging
     \/ CaptureKey
  /\ UNCHANGED << runner, jenkins, stopped, snapshotting, volume, loss, installed, attempt,
                  killed >>

(* The secrets of the agents, one file after the other.                    *)
InstallSecret ==
  /\ at = "install"
  /\ LET missing == {i \in DOMAIN Agents : installed[Agents[i]] # issued}
     IN  \/ missing = {} /\ GoesOn("target volume") /\ UNCHANGED installed
         \/ /\ missing # {}
            /\ installed' = [installed EXCEPT ![Agents[Min(missing)]] = issued]
            /\ GoesOn("install")
         \/ Fails /\ UNCHANGED installed
  /\ UNCHANGED << runner, jenkins, stopped, snapshotting, volume, loss, attempt, staging,
                  stagingUp, issued, killed >>

(* The target volume is made if there was none, and looked at again; the   *)
(* archive is extracted into it.                                           *)
ExtractTarget ==
  /\ at = "target volume"
  /\ \/ volume' = [archive EXCEPT !.exists = TRUE] /\ GoesOn("target credentials")
     \/ volume' \in {volume, Empty(TRUE), [archive EXCEPT !.data = "part"]} /\ Fails
  /\ UNCHANGED jenkins

(* A mutant: the archived key stays on the target.                         *)
CleanTargetTokens ==
  /\ at = "target credentials"
  /\ volume' = [volume EXCEPT !.tokens = FALSE]
  /\ GoesOn("target start")
  /\ UNCHANGED jenkins

(* Its tokens are removed and the proven key replaces the archived one.    *)
CleanTarget ==
  /\ at = "target credentials"
  /\ \/ volume' = [volume EXCEPT !.tokens = FALSE, !.key = issued] /\ GoesOn("target start")
     \/ volume' \in {volume, [volume EXCEPT !.tokens = FALSE]} /\ Fails
  /\ UNCHANGED jenkins

StartTarget ==
  /\ at = "target start"
  /\ \/ controller' = "up" /\ GoesOn("target prove")
     \/ controller' \in {"up", "stopped"} /\ failing' = TRUE /\ at' = "cleanup target"
        /\ UNCHANGED << op, ended >>
  /\ quiet' = FALSE
  /\ UNCHANGED << queued, building, volume >>

(* verify-live proves the agents with the secrets that were installed.     *)
ProveTarget ==
  /\ at = "target prove"
  /\ \/ restored' = TRUE /\ GoesOn("leave")
     \/ failing' = TRUE /\ at' = "cleanup target" /\ UNCHANGED << restored, op, ended >>
  /\ UNCHANGED << jenkins, volume >>

TargetSteps ==
  /\ \/ (ExtractTarget \/ CleanTarget \/ StartTarget) /\ UNCHANGED restored
     \/ ProveTarget
  /\ UNCHANGED << runner, stopped, snapshotting, lost, installed, attempt, staging, stagingUp,
                  issued, killed >>

(* cleanup_staging: a part of it that fails is not retried, and the next   *)
(* ones run all the same.                                                  *)
CleanUp ==
  /\ at \in {"cleanup", "cleanup target", "leave"}
  /\ stagingUp' \in {FALSE, stagingUp}
  /\ controller' \in (IF at = "cleanup target" THEN {"stopped", controller} ELSE {controller})
  /\ staging' \in {NoVolume, staging}
  /\ killed' = \/ stagingUp' \/ staging'.exists
               \/ at = "cleanup target" /\ controller' = "up"
  /\ Ends(IF at = "leave" /\ ~ killed' THEN "ok" ELSE "broken")
  /\ UNCHANGED << runner, quiet, queued, building, stopped, snapshotting, volume, loss,
                  installed, attempt, issued >>

Signal ==
  /\ op = "restore" /\ at \notin {"cleanup", "cleanup target", "leave"}
  /\ failing' = TRUE
  /\ at' = IF at = "target prove" THEN "cleanup target" ELSE "cleanup"
  /\ UNCHANGED << runner, jenkins, op, stopped, ended, snapshotting, restoring >>

Kill ==
  /\ op = "restore"
  /\ killed' = TRUE
  /\ Ends("broken")
  /\ UNCHANGED << runner, jenkins, stopped, snapshotting, volume, loss, installed, attempt,
                  staging, stagingUp, issued >>

RestoreSteps == StagingSteps \/ InstallSecret \/ TargetSteps \/ CleanUp \/ Signal \/ Kill

Next ==
  \/ StackNext /\ UNCHANGED << snapshotting, restoring >>
  \/ StartAgain \/ BeginSnapshot \/ ArchiveVolume \/ WriteManifest \/ InterruptSnapshot
  \/ Destroy \/ BeginRestore \/ RestoreSteps

Spec == Init /\ [][Next]_vars

-----------------------------------------------------------------------------

(* Nothing runs in what maintenance works on: the agent it replaces, the   *)
(* stack it has quiesced, and the controller in an archive ("refuses       *)
(* queued or building runs, cleanly stops every container", lines 566-567  *)
(* of deployment/jenkins/README.md), so a restored controller starts idle. *)
MaintenanceIsIdle ==
  /\ ReplacedWhileIdle
  /\ CommandsAreWhole
  /\ archive.idle
  /\ lost => volume.idle

(* No command has ended since a restore began.                             *)
RestoreIsLast == op = "restore" \/ ended[1] = "restore"

(* "Archived controller and agent credentials therefore never become active*)
(* on the target" (lines 612-613 of deployment/jenkins/README.md), nor on  *)
(* the staging stack: what a restore starts, and what runs since one that  *)
(* has proved its target, has none of them, and the secret files of all    *)
(* agents are of the key that it holds.  Only a restore that was killed or *)
(* could not clean up leaves a staging stack or an unproven target running.*)
(* The sentence holds no further: an operator may start what a restore that*)
(* failed between its extraction and its key has left on the volume.       *)
CredentialsAreReplaced ==
  /\ lost /\ controller = "up" /\ (restored \/ RestoreIsLast) =>
       /\ volume.data = "whole" /\ ~ volume.tokens
       /\ volume.key \notin {0, NoKey}
       /\ \A a \in ToSet(Agents) : installed[a] = volume.key
  /\ stagingUp => ~ staging.tokens /\ staging.key # 0
  /\ op = "none" /\ ~ killed =>
       /\ ~ stagingUp /\ ~ staging.exists
       /\ lost /\ controller = "up" => ended # << "restore", "broken" >>

-----------------------------------------------------------------------------
(* The inductive invariant.                                                *)

Maintaining == {"quiet down", "read queue", "read builds", "cancel quiet", "refused"}
Quiescing == {"probe", "stop runners"} \cup Maintaining
Staging == {"staging volume", "staging extract", "staging credentials", "staging start",
            "staging prove", "capture key"}
Restoring == {"target start", "target prove", "cleanup target", "leave"}

Where ==
  /\ op = "none" => at = "idle"
  /\ op = "quiesce" => at \in Quiescing
  /\ op = "snapshot" => at \in Quiescing \cup {"stop stack", "archive", "manifest"}
  /\ op = "reconcile-agent" =>
       at \in Maintaining \cup {"replace", "idle queue", "idle builds", "resume"}
  /\ op = "resume" => at = "resume"
  /\ op = "stop" => at = "stop stack"
  /\ op = "restore" => at \in Staging \cup Restoring
                               \cup {"install", "target volume", "target credentials", "cleanup"}

StackTypeOK ==
  /\ runner \in [Runners -> {"stopped", "idle", "job"}]
  /\ controller \in {"up", "stopped"}
  /\ quiet \in BOOLEAN /\ building \in BOOLEAN /\ failing \in BOOLEAN
  /\ queued \in Nat
  /\ op \in Commands \cup {"none", "snapshot", "restore"}
  /\ stopped \subseteq Runners
  /\ Where

TypeOK ==
  /\ StackTypeOK
  /\ archive \in Volumes /\ volume \in Volumes /\ staging \in Volumes
  /\ manifest \in BOOLEAN /\ lost \in BOOLEAN /\ restored \in BOOLEAN
  /\ stagingUp \in BOOLEAN /\ killed \in BOOLEAN
  /\ installed \in [ToSet(Agents) -> Keys]
  /\ attempt \in 0 .. MaxRestores
  /\ issued \in Keys

(* Once Jenkins is quiet no build starts, and once the runners have stopped*)
(* none is queued; so what a command has read of them stays true.          *)
QuietInv ==
  /\ at \in {"read queue", "read builds"} => quiet
  /\ at \in {"replace", "idle queue", "idle builds"} => quiet /\ ~ building
  /\ op \in {"quiesce", "snapshot"} =>
       /\ at \in {"quiet down", "read queue", "read builds", "stop stack", "archive"}
            => Running = {}
       /\ at \in {"read builds", "stop stack", "archive"} => queued = 0
       /\ at \in {"stop stack", "archive"} => quiet /\ ~ building
  /\ at = "probe" => stopped = {}
  /\ at = "refused" /\ ~ failing => ~ quiet

EndedInv ==
  op = "none" =>
    /\ ended = << "quiesce", "ok" >> => quiet /\ Running = {} /\ queued = 0 /\ ~ building
    /\ ended = << "quiesce", "refused" >>
         => stopped \subseteq Running /\ (stopped # {} => ~ quiet)
    /\ ended = << "reconcile-agent", "refused" >> /\ quiet => ~ building

(* What is archived, and so what is restored, is a whole and idle volume.  *)
ArchiveInv ==
  /\ archive.idle /\ volume.idle
  /\ op = "snapshot" => ~ lost
  /\ ~ lost => volume.data = "whole"
  /\ manifest \/ at = "manifest" => archive.data = "whole"
  /\ at = "manifest" => ~ manifest
  /\ op = "restore" => manifest

StagingInv ==
  /\ at \in {"staging volume", "staging extract", "staging credentials", "staging start"}
       => ~ stagingUp
  /\ at = "staging start" => ~ staging.tokens /\ staging.key = NoKey
  /\ at \in {"staging prove", "capture key"} => ~ staging.tokens /\ staging.key = attempt
  /\ stagingUp => ~ staging.tokens /\ staging.key # 0
  /\ op # "restore" /\ ~ killed => ~ stagingUp /\ ~ staging.exists

(* The target holds what was archived and, instead of the credentials, the *)
(* key its last restore issued, and all agents have its secrets.           *)
Clean ==
  /\ volume.data = "whole" /\ ~ volume.tokens
  /\ issued \in 1 .. MaxRestores
  /\ volume.key = issued
  /\ \A a \in ToSet(Agents) : installed[a] = issued

TargetInv ==
  /\ op = "restore" => lost /\ attempt >= 1 /\ (restored => at = "leave")
  /\ op = "restore" /\ at \notin {"target prove", "cleanup target", "leave"}
       => controller = "stopped"
  /\ at \in {"install", "target volume", "target credentials"} => issued = attempt
  /\ at \in {"target volume", "target credentials"}
       => \A a \in ToSet(Agents) : installed[a] = issued
  /\ at = "target credentials" => volume.data = "whole"
  /\ at \in Restoring => Clean
  /\ lost /\ controller = "up" /\ RestoreIsLast => Clean
  /\ restored => lost /\ Clean
  /\ op = "none" /\ ~ killed /\ lost /\ controller = "up" => ended # << "restore", "broken" >>

IInv == TypeOK /\ QuietInv /\ EndedInv /\ ArchiveInv /\ StagingInv /\ TargetInv
=============================================================================
