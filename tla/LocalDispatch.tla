---------------------------- MODULE LocalDispatch ----------------------------
(***************************************************************************)
(* dispatch-local: several processes run the four Stages for one bundle    *)
(* root (_local_dispatch.py, and the command in _cli.py around it).        *)
(*                                                                         *)
(* What the processes share is a directory: the bundle root, and beside it *)
(* a claim file created with O_EXCL.  Their work and staging directories   *)
(* have random names, so each process has its own.  A process can fail in  *)
(* any file operation, the removals of its clean-up among them, be killed  *)
(* at any point, and be interrupted by a signal whose handler raises       *)
(* ExternalCancellation between any two bytecodes: making a directory or   *)
(* the claim file and storing that it was made are therefore two steps.    *)
(***************************************************************************)
EXTENDS StageAttempts

CONSTANTS
  Dispatches,   \* the processes, all with the same bundle root
  Descriptors,  \* the adapter modes a commit may select, Stage by Stage
  Stubborn      \* the dispatches whose directories may resist their removal,
                \* as where an adapter has left a read-only directory

ASSUME DescriptorsAreModes ==
  Descriptors # {} /\ Descriptors \subseteq [Stages -> Modes]

VARIABLES
  modes,     \* the local descriptors at the commit all of them dispatch
  claim,     \* who created the claim file that exists
  bundle,    \* the directory at the bundle root
  pc,        \* where each process is
  existed,   \* bundle_existed of the command
  acquired,  \* claim_acquired
  work,      \* the work directory of each process
  staging,   \* its bundle staging directory
  chain,     \* executions
  outcome,   \* how dispatch_local will end
  opened,    \* the bundle that rmtree has opened
  exit       \* how the command ended

shared == << modes, claim, bundle >>
files  == << work, staging, opened >>
local  == << existed, acquired, chain >>
ends   == << outcome, exit >>
vars   == << shared, pc, files, local, ends >>

Nobody == "nobody"
Earlier == "earlier"   \* whoever left a bundle here before
ASSUME NamesAreFresh == {Nobody, Earlier} \cap Dispatches = {}

Absent == [state |-> "absent", of |-> Nobody]
Whole(p) == [state |-> "whole", of |-> p]
Bundles == [state : {"absent", "whole", "partial", "empty"},
            of : Dispatches \cup {Nobody, Earlier}]

(* Inside the try block of dispatch_local, in its finally block, and where *)
(* the claim of a process stands while it may touch the bundle root.       *)
InTry == {"claim", "claimed", "make_work", "work_made", "make_staging",
          "staging_made", "loop", "assemble", "publish"}
InFinally == {"drop_work", "drop_staging", "drop_claim"}
Removing == {"remove", "remove_entries", "remove_root"}
Places == {"start", "check", "leave", "done"} \cup InTry \cup InFinally \cup Removing
Claiming == {"make_work", "work_made", "make_staging", "staging_made", "loop",
             "assemble", "publish"}

(* Three outcomes are exit status 2.  "invalid" is an error before the     *)
(* bundle was published, "untold" one in the event line of the published   *)
(* bundle, "unreleased" one that leaves the claim file of this process.    *)
Outcomes == {"none", "returned", "invalid", "untold", "unreleased", "cancelled"}
Exits == (Outcomes \ {"returned"}) \cup {"ok", "red", "killed"}

TypeOK ==
  /\ modes \in Descriptors
  /\ claim \in Dispatches \cup {Nobody}
  /\ bundle \in Bundles
  /\ pc \in [Dispatches -> Places]
  /\ existed \in [Dispatches -> BOOLEAN]
  /\ acquired \in [Dispatches -> BOOLEAN]
  /\ work \in [Dispatches -> {"none", "made", "known", "stuck"}]
  /\ staging \in [Dispatches -> {"none", "made", "known", "stuck", "moved"}]
  /\ chain \in [Dispatches -> Seq(Attempts)]
  /\ \A p \in Dispatches : Len(chain[p]) <= StageCount
  /\ outcome \in [Dispatches -> Outcomes]
  /\ opened \in [Dispatches -> Dispatches \cup {Nobody, Earlier}]
  /\ exit \in [Dispatches -> Exits]

Init ==
  /\ modes \in Descriptors
  /\ claim = Nobody
  /\ bundle \in {Absent, Whole(Earlier)}
  /\ pc = [p \in Dispatches |-> "start"]
  /\ existed = [p \in Dispatches |-> FALSE]
  /\ acquired = [p \in Dispatches |-> FALSE]
  /\ work = [p \in Dispatches |-> "none"]
  /\ staging = [p \in Dispatches |-> "none"]
  /\ chain = [p \in Dispatches |-> << >>]
  /\ outcome = [p \in Dispatches |-> "none"]
  /\ opened = [p \in Dispatches |-> Nobody]
  /\ exit = [p \in Dispatches |-> "none"]

-----------------------------------------------------------------------------
At(p, place) == exit[p] = "none" /\ pc[p] = place
Goto(p, place) == pc' = [pc EXCEPT ![p] = place]

(* An InputError, OSError or ValidationError leaves the try block.         *)
Fail(p) ==
  /\ Goto(p, "drop_work")
  /\ outcome' = [outcome EXCEPT ![p] = "invalid"]

(* The process ends, and what it remembered is gone.  (Its executions are  *)
(* kept here for the promise below.)                                       *)
End(p, how) ==
  /\ exit' = [exit EXCEPT ![p] = how]
  /\ Goto(p, "done")
  /\ existed' = [existed EXCEPT ![p] = FALSE]
  /\ acquired' = [acquired EXCEPT ![p] = FALSE]
  /\ outcome' = [outcome EXCEPT ![p] = "none"]
  /\ opened' = [opened EXCEPT ![p] = Nobody]
  /\ UNCHANGED << work, staging, chain >>

(* The command looks at the bundle root before it installs its handlers.   *)
Start(p) ==
  /\ At(p, "start")
  /\ existed' = [existed EXCEPT ![p] = bundle # Absent]
  /\ Goto(p, "check")
  /\ UNCHANGED << shared, files, acquired, chain, ends >>

(* The checks before the claim, which also refuse a bad request.           *)
Check(p) ==
  /\ At(p, "check")
  /\ \/ bundle = Absent /\ Goto(p, "claim") /\ UNCHANGED outcome
     \/ Goto(p, "leave") /\ outcome' = [outcome EXCEPT ![p] = "invalid"]
  /\ UNCHANGED << shared, files, local, exit >>

(* Faulty variant: a claim that is held is waited for.                     *)
ClaimWaiting(p) ==
  /\ At(p, "claim")
  /\ claim = Nobody
  /\ claim' = p
  /\ Goto(p, "claimed")
  /\ UNCHANGED << modes, bundle, files, local, ends >>

Claim(p) ==
  /\ At(p, "claim")
  /\ IF claim = Nobody
       THEN claim' = p /\ Goto(p, "claimed") /\ UNCHANGED outcome
       ELSE Fail(p) /\ UNCHANGED claim
  /\ UNCHANGED << modes, bundle, files, local, exit >>

(* The file just created is closed; the claim counts after that only.      *)
NoteClaim(p) ==
  /\ At(p, "claimed")
  /\ \/ /\ acquired' = [acquired EXCEPT ![p] = TRUE]
        /\ Goto(p, "make_work")
        /\ UNCHANGED outcome
     \/ /\ outcome' = [outcome EXCEPT ![p] = "unreleased"]
        /\ Goto(p, "drop_work")
        /\ UNCHANGED acquired
  /\ UNCHANGED << shared, files, existed, chain, exit >>

MakeWork(p) ==
  /\ \/ At(p, "make_work") /\ work' = [work EXCEPT ![p] = "made"]
                           /\ Goto(p, "work_made")
     \/ At(p, "work_made") /\ work' = [work EXCEPT ![p] = "known"]
                           /\ Goto(p, "make_staging")
  /\ UNCHANGED << shared, staging, opened, local, ends >>

MakeStaging(p) ==
  /\ \/ At(p, "make_staging") /\ staging' = [staging EXCEPT ![p] = "made"]
                              /\ Goto(p, "staging_made")
     \/ At(p, "staging_made") /\ staging' = [staging EXCEPT ![p] = "known"]
                              /\ Goto(p, "loop")
  /\ UNCHANGED << shared, work, opened, local, ends >>

(* Faulty variant: a blocked Stage is run all the same.                    *)
RunStageUnblocked(p) ==
  /\ At(p, "loop")
  /\ IF Len(chain[p]) = StageCount
       THEN Goto(p, "assemble") /\ UNCHANGED chain
       ELSE /\ \E a \in Executions(modes[Len(chain[p]) + 1], chain[p]) :
                 chain' = [chain EXCEPT ![p] = Append(@, a)]
            /\ UNCHANGED pc
  /\ UNCHANGED << shared, files, existed, acquired, ends >>

(* One turn of the Stage loop: the Stage runs, or is skipped because an    *)
(* earlier attempt blocks it.                                              *)
RunStage(p) ==
  /\ At(p, "loop")
  /\ IF Len(chain[p]) = StageCount
       THEN Goto(p, "assemble") /\ UNCHANGED chain
       ELSE LET mode == modes[Len(chain[p]) + 1] IN
            /\ \E a \in IF Blocked(chain[p])
                          THEN {Skip(mode, "prerequisite_blocked")}
                          ELSE Executions(mode, chain[p]) :
                 chain' = [chain EXCEPT ![p] = Append(@, a)]
            /\ UNCHANGED pc
  /\ UNCHANGED << shared, files, existed, acquired, ends >>

(* assemble_bundle_staging validates what it has written.                  *)
Assemble(p) ==
  /\ At(p, "assemble")
  /\ IF ValidResult(chain[p])
       THEN Goto(p, "publish") /\ UNCHANGED outcome
       ELSE Fail(p)
  /\ UNCHANGED << shared, files, local, exit >>

(* Faulty variant: what stands at the bundle root is cleared first.        *)
PublishOver(p) ==
  /\ At(p, "publish")
  /\ bundle' = Whole(p)
  /\ staging' = [staging EXCEPT ![p] = "moved"]
  /\ outcome' = [outcome EXCEPT ![p] = "returned"]
  /\ Goto(p, "drop_work")
  /\ UNCHANGED << modes, claim, work, opened, local, exit >>

(* The staging directory is renamed, and an event line tells it.  Rename   *)
(* fails if the target is a directory with entries.                        *)
Publish(p) ==
  /\ At(p, "publish")
  /\ IF bundle.state \in {"absent", "empty"}
       THEN /\ bundle' = Whole(p)
            /\ staging' = [staging EXCEPT ![p] = "moved"]
            /\ \E how \in {"returned", "untold"} : outcome' = [outcome EXCEPT ![p] = how]
            /\ Goto(p, "drop_work")
       ELSE Fail(p) /\ UNCHANGED << bundle, staging >>
  /\ UNCHANGED << modes, claim, work, opened, local, exit >>

(* Any file operation, adapter descriptor or agent label can be refused.   *)
Break(p) ==
  /\ exit[p] = "none" /\ pc[p] \in Claiming \ {"work_made", "staging_made"}
  /\ Fail(p)
  /\ UNCHANGED << shared, files, local, exit >>

(* shutil.rmtree with ignore_errors: a directory that the file system will *)
(* not let go stays, and the clean-up goes on all the same.                *)
Removed(p, where) ==
  IF where # "known" THEN {where}
  ELSE {"none"} \cup IF p \in Stubborn THEN {"stuck"} ELSE {}

(* Faulty variant: the work directory is removed after success only.       *)
DropWorkOnSuccess(p) ==
  /\ At(p, "drop_work")
  /\ \E left \in IF outcome[p] = "returned" THEN Removed(p, work[p])
                 ELSE {work[p]} :
       work' = [work EXCEPT ![p] = left]
  /\ Goto(p, "drop_staging")
  /\ UNCHANGED << shared, staging, opened, local, ends >>

DropWork(p) ==
  /\ At(p, "drop_work")
  /\ \E left \in Removed(p, work[p]) : work' = [work EXCEPT ![p] = left]
  /\ Goto(p, "drop_staging")
  /\ UNCHANGED << shared, staging, opened, local, ends >>

DropStaging(p) ==
  /\ At(p, "drop_staging")
  /\ \E left \in Removed(p, staging[p]) : staging' = [staging EXCEPT ![p] = left]
  /\ Goto(p, "drop_claim")
  /\ UNCHANGED << shared, work, opened, local, ends >>

(* Faulty variant: whoever leaves removes the claim file.                  *)
DropAnyClaim(p) ==
  /\ At(p, "drop_claim")
  /\ claim' = Nobody
  /\ Goto(p, "leave")
  /\ UNCHANGED << modes, bundle, files, local, ends >>

(* An unlink that fails raises, whatever the try block was about to end    *)
(* with.                                                                   *)
DropClaim(p) ==
  /\ At(p, "drop_claim")
  /\ \/ claim' = (IF acquired[p] THEN Nobody ELSE claim) /\ UNCHANGED outcome
     \/ /\ acquired[p]
        /\ outcome' = [outcome EXCEPT ![p] = "unreleased"]
        /\ UNCHANGED claim
  /\ Goto(p, "leave")
  /\ UNCHANGED << modes, bundle, files, local, exit >>

(* Faulty variant: the exit status ignores the colour.                     *)
LeaveColourless(p) ==
  /\ At(p, "leave")
  /\ IF outcome[p] = "cancelled" /\ ~ existed[p]
       THEN Goto(p, "remove") /\ UNCHANGED << files, local, ends >>
       ELSE End(p, IF outcome[p] = "returned" THEN "ok" ELSE outcome[p])
  /\ UNCHANGED shared

(* The command after dispatch_local: its exit status, or the removal of    *)
(* the bundle root that was not there when it started.                     *)
Leave(p) ==
  /\ At(p, "leave")
  /\ IF outcome[p] = "cancelled" /\ ~ existed[p]
       THEN Goto(p, "remove") /\ UNCHANGED << files, local, ends >>
       ELSE End(p, IF outcome[p] # "returned" THEN outcome[p]
                   ELSE IF Red(chain[p]) THEN "red" ELSE "ok")
  /\ UNCHANGED shared

(* shutil.rmtree opens the directory, removes its entries through the open *)
(* handle, and then the name; each of the three may be refused and is then *)
(* passed over.                                                            *)
Remove(p) ==
  /\ At(p, "remove")
  /\ \/ End(p, "cancelled") /\ UNCHANGED bundle
     \/ /\ bundle # Absent
        /\ opened' = [opened EXCEPT ![p] = bundle.of]
        /\ bundle' = [bundle EXCEPT !.state = IF @ = "whole" THEN "partial" ELSE @]
        /\ Goto(p, "remove_entries")
        /\ UNCHANGED << work, staging, local, ends >>
  /\ UNCHANGED << modes, claim >>

RemoveEntries(p) ==
  /\ At(p, "remove_entries")
  /\ \/ UNCHANGED bundle
     \/ bundle.of = opened[p] /\ bundle' = [bundle EXCEPT !.state = "empty"]
  /\ Goto(p, "remove_root")
  /\ UNCHANGED << modes, claim, files, local, ends >>

RemoveRoot(p) ==
  /\ At(p, "remove_root")
  /\ bundle' \in {bundle} \cup IF bundle.state = "empty" THEN {Absent} ELSE {}
  /\ End(p, "cancelled")
  /\ UNCHANGED << modes, claim >>

(* SIGINT or SIGTERM while the handlers are installed.                     *)
Signal(p) ==
  /\ exit[p] = "none"
  /\ pc[p] \in {"check"} \cup InTry \cup InFinally
  /\ outcome' = [outcome EXCEPT ![p] = "cancelled"]
  /\ Goto(p, IF pc[p] \in InTry THEN "drop_work" ELSE "leave")
  /\ UNCHANGED << shared, files, local, exit >>

(* SIGKILL at any point, or a signal where no handler is installed: the    *)
(* files stay.                                                             *)
Kill(p) ==
  /\ exit[p] = "none"
  /\ End(p, "killed")
  /\ UNCHANGED shared

-----------------------------------------------------------------------------
Run(p) ==
  \/ Start(p) \/ Check(p) \/ Claim(p) \/ NoteClaim(p)
  \/ MakeWork(p) \/ MakeStaging(p) \/ RunStage(p) \/ Assemble(p) \/ Publish(p)
  \/ Break(p)
  \/ DropWork(p) \/ DropStaging(p) \/ DropClaim(p) \/ Leave(p)
  \/ Remove(p) \/ RemoveEntries(p) \/ RemoveRoot(p)

Ended == (\A p \in Dispatches : exit[p] # "none") /\ UNCHANGED vars

Next == (\E p \in Dispatches : Run(p) \/ Signal(p) \/ Kill(p)) \/ Ended

(* The operating system schedules every process, and a Stage ends at its   *)
(* work limit at the latest.                                               *)
Spec == Init /\ [][Next]_vars /\ \A p \in Dispatches : WF_vars(Run(p))

-----------------------------------------------------------------------------
(* Properties.                                                             *)

(* One bundle root has one dispatcher: no two processes run Stages, write  *)
(* staging or publish at the same time, whoever failed, was cancelled or   *)
(* died before (the claim file and claim_acquired).                        *)
OneDispatcherWorks ==
  \A p, q \in Dispatches :
    exit[p] = "none" /\ exit[q] = "none" /\ pc[p] \in Claiming /\ pc[q] \in Claiming
      => p = q

(* What ends without a signal leaves nothing behind but what could not be  *)
(* removed: the removal of every work and staging directory was tried,     *)
(* also after an error and after a removal before it failed, and a claim   *)
(* that would refuse the next dispatch stays only with the error of its    *)
(* own removal, or of the close after which it counts (the finally block   *)
(* of dispatch_local).  That error takes the place even of a cancellation, *)
(* whose signal may have come before a directory made was known.           *)
UncancelledLeavesNothing ==
  \A p \in Dispatches :
    /\ exit[p] \notin {"none", "cancelled", "killed"} =>
         work[p] # "known" /\ staging[p] # "known"
    /\ exit[p] \in {"ok", "red", "invalid", "untold"} =>
         work[p] # "made" /\ staging[p] # "made" /\ claim # p

(* The exit status tells what happened: 0 and 1 only for a published       *)
(* result of that colour, 2 only if nothing was published, unless the      *)
(* error came after the rename: in the event line or in the finally block. *)
ExitTellsTheResult ==
  \A p \in Dispatches :
    /\ exit[p] \in {"ok", "red"} =>
         staging[p] = "moved" /\ (exit[p] = "red" <=> Red(chain[p]))
    /\ exit[p] = "invalid" => staging[p] # "moved"
    /\ exit[p] = "untold" => staging[p] = "moved"

(* The contract never refuses what the Stage loop made: a run that comes   *)
(* to its assembly has a result to publish, whichever adapters the commit  *)
(* selects ("publishes a complete contract-valid bundle whenever           *)
(* finalization remains possible").                                        *)
AssemblyNeverRejects ==
  \A p \in Dispatches : pc[p] = "assemble" => ValidResult(chain[p])

(* A bundle that stood before the dispatches is never touched, not even by *)
(* a cancelled one (the exists check and bundle_existed).                  *)
EarlierBundleStays == [][bundle # Whole(Earlier)]_bundle

(* A whole bundle is never replaced: it can only be taken away by the      *)
(* removal of a cancelled command (rename onto a directory with entries    *)
(* fails).                                                                 *)
NothingIsReplaced ==
  [][bundle.state \in {"whole", "partial"} => bundle'.of = bundle.of]_bundle

(* Every command ends, though others have died with the claim in hand.     *)
DispatchesEnd == \A p \in Dispatches : <>(exit[p] # "none")

(* Each dispatch keeps the promise of a run: RunPromise!Spec for every     *)
(* process, with the boxes drawn together.                                 *)
Colour(p) == IF staging[p] # "moved" THEN "none"
             ELSE IF Red(chain[p]) THEN "red" ELSE "green"

Promise(p) == INSTANCE RunPromise WITH attempts <- chain[p], result <- Colour(p)

KeepsPromise ==
  /\ \A p \in Dispatches : Promise(p)!Init
  /\ [][\A p \in Dispatches : [Promise(p)!Next]_(Promise(p)!vars)]_vars

(* The reference manual: dispatch-local "publishes a complete              *)
(* contract-valid bundle whenever finalization remains possible", and a    *)
(* cancelled one removes its own attempt and staging state.  So a command  *)
(* that has printed its result has its bundle at the bundle root.          *)
FinishedBundleStays ==
  \A p \in Dispatches : exit[p] \in {"ok", "red"} => bundle = Whole(p)

-----------------------------------------------------------------------------
(* The inductive invariant behind the theorems.                            *)

(* Who is past the claim holds it, and who knows that it made the claim    *)
(* still holds it until it removes it.                                     *)
ClaimInv ==
  \A p \in Dispatches : exit[p] = "none" =>
    /\ pc[p] \in Claiming \cup {"claimed"} => claim = p
    /\ pc[p] \in Claiming => acquired[p]
    /\ acquired[p] /\ pc[p] \in Claiming \cup InFinally => claim = p
    /\ pc[p] \in {"start", "check", "claim", "claimed"} => ~ acquired[p]

(* What the loop has made so far could be the beginning of a result, and   *)
(* is one when the loop is left; only a published run has left its staging *)
(* directory.                                                              *)
ChainInv ==
  \A p \in Dispatches :
    /\ \A i \in 1 .. Len(chain[p]) : ValidAt(chain[p], i)
    /\ pc[p] \in {"assemble", "publish"} => Len(chain[p]) = StageCount
    /\ staging[p] = "moved" => /\ pc[p] \notin InTry \cup {"start", "check"}
                               /\ Len(chain[p]) = StageCount

(* The outcome a process is about to report agrees with what it published, *)
(* and without a signal the finally block finds everything that was made.  *)
OutcomeInv ==
  \A p \in Dispatches : exit[p] = "none" =>
    /\ outcome[p] \in {"returned", "untold"} => staging[p] = "moved"
    /\ outcome[p] = "invalid" => staging[p] # "moved"
    /\ pc[p] \in InTry \cup {"start", "check"} => outcome[p] = "none"
    /\ pc[p] \in InFinally \cup {"leave"} => outcome[p] # "none"
    /\ pc[p] \in Removing => outcome[p] = "cancelled"

TidyInv ==
  \A p \in Dispatches : exit[p] = "none" =>
    /\ pc[p] \in {"start", "check", "claim"} =>
         work[p] = "none" /\ staging[p] = "none" /\ claim # p
    /\ work[p] = "known" => /\ pc[p] \notin {"drop_staging", "drop_claim"}
                            /\ pc[p] = "leave" => outcome[p] = "cancelled"
    /\ staging[p] = "known" => /\ pc[p] # "drop_claim"
                               /\ pc[p] = "leave" => outcome[p] = "cancelled"
    /\ outcome[p] \notin {"cancelled", "unreleased"} =>
         /\ work[p] = "made" => pc[p] = "work_made"
         /\ staging[p] = "made" => pc[p] = "staging_made"
         /\ pc[p] \in InFinally /\ ~ acquired[p] => claim # p
         /\ pc[p] = "leave" => claim # p

(* Whoever could remove the earlier bundle has seen it.                    *)
SeenInv ==
  \A p \in Dispatches : exit[p] = "none" =>
    /\ bundle = Whole(Earlier) /\ pc[p] # "start" => existed[p]
    /\ pc[p] \in Removing => ~ existed[p]

IInv == TypeOK /\ ClaimInv /\ ChainInv /\ OutcomeInv /\ TidyInv /\ SeenInv
=============================================================================
