----------------------------- MODULE StageRuntime -----------------------------
(***************************************************************************)
(* One attempt at a Stage: the command execute-stage or                    *)
(* execute-jenkins-stage (_cli.py), the runtime in it (_stage_runtime.py)  *)
(* and the adapter it spawns.                                              *)
(*                                                                         *)
(* The adapter is the leader of a process group of its own and may fork    *)
(* helpers, which can outlive it.  SIGTERM only asks: a process that       *)
(* receives it may end at once, later or never, which it may do anyway.    *)
(* SIGKILL ends the whole group.  A leader that has ended is a zombie, and *)
(* a member of its group, until the runtime reaps it; helpers are reaped   *)
(* by the init process of the container.                                   *)
(*                                                                         *)
(* Time is counted where the runtime may take its time: while it reads its *)
(* inputs, and while it waits for the adapter.  Its other steps are short. *)
(* A signal raises ExternalCancellation between any two bytecodes, so      *)
(* making a directory or a process and storing that it was made are two    *)
(* steps.  Directories are removed with ignore_errors: what the file       *)
(* system will not let go, as a read-only directory that the adapter left, *)
(* stays and nobody is told.                                               *)
(***************************************************************************)
EXTENDS Integers, Sequences

CONSTANTS
  Helpers,    \* the processes the adapter may fork
  WorkLimit,  \* work_limit_seconds
  Grace,      \* ADAPTER_SHUTDOWN_GRACE_SECONDS
  RunBudget   \* the time a run may have left when the command starts

ASSUME LimitsAreTimes == WorkLimit \in Nat /\ Grace \in Nat /\ RunBudget \in Nat

VARIABLES
  timed,    \* execute-jenkins-stage, which has a run deadline
  runLeft,  \* the time until the run deadline, negative once it has passed
  pc,       \* where the command is
  existed,  \* attempt_existed
  outcome,  \* how the command will end
  exit,     \* how it ended
  leader,   \* the process the runtime spawned
  status,   \* how that process ended
  helpers,  \* the forked processes that live
  known,    \* the variable process holds the leader
  age,      \* the time since it was spawned
  due,      \* the age at which the current wait ends
  reached,  \* which limit the adapter runs against
  verdict,  \* the attempt the runtime has settled on
  work,     \* the attempt's work root
  staging,  \* the directory the attempt is written to
  attempt,  \* what stands at the attempt root
  printed   \* the event lines of the Stage

request == << timed, existed >>
ends    == << outcome, exit >>
group   == << leader, status, helpers >>
limits  == << due, reached >>
times   == << runLeft, age >>
files   == << work, staging, attempt >>
fixed   == << request, known, limits, times >>
vars    == << request, ends, group, known, limits, times, verdict, files,
              printed, pc >>

Limits == {"work-limit-reached", "run-deadline-reached"}
Codes == {"stage-started", "adapter-running", "checking-output", "publishing",
          "stage-finished"} \cup Limits
Verdicts == {"skipped", "lost", "descendants", "nonzero", "signal", "rejected",
             "accepted"} \cup Limits

(* STAGE_PATHS: the event lines of a Stage, by the attempt it ends with.   *)
StagePath(v) ==
  CASE v = "skipped" -> << "stage-finished" >>
    [] v = "lost" -> << "stage-started", "publishing", "stage-finished" >>
    [] v \in Limits -> << "stage-started", "adapter-running", v, "publishing",
                         "stage-finished" >>
    [] v \in {"accepted", "rejected"} ->
         << "stage-started", "adapter-running", "checking-output", "publishing",
            "stage-finished" >>
    [] OTHER -> << "stage-started", "adapter-running", "publishing", "stage-finished" >>

(* Where the command is: before the attempt, in the try block around the   *)
(* adapter, publishing, and after the handlers of _external_cancellation.  *)
Preparing == {"check", "make_work", "work_made", "setup"}
InTry == {"spawn", "spawned", "limit", "wait", "inner", "settle", "capture",
          "term", "grace", "killing", "reap"}
Publishing == {"make_staging", "staging_made", "write", "drop_staging",
               "finish", "finished"}
Handled == Preparing \cup InTry \cup {"outer", "drop_work"} \cup Publishing
Places == Handled \cup {"start", "leave", "remove", "remove_rest", "done"}

TypeOK ==
  /\ timed \in BOOLEAN /\ existed \in BOOLEAN /\ known \in BOOLEAN
  /\ runLeft \in Int /\ age \in Nat /\ due \in Nat
  /\ pc \in Places
  /\ outcome \in {"none", "returned", "invalid", "stale", "expired", "cancelled"}
  /\ exit \in {"none", "ok", "invalid", "stale", "expired", "cancelled",
              "unremoved", "killed"}
  /\ leader \in {"none", "running", "zombie", "reaped"}
  /\ status \in {"none", "zero", "nonzero", "signal"}
  /\ helpers \subseteq Helpers
  /\ reached \in {"none"} \cup Limits
  /\ verdict \in {"none"} \cup Verdicts
  /\ work \in {"none", "made", "known", "stuck"}
  /\ staging \in {"none", "made", "known", "stuck", "moved"}
  /\ attempt \in {"none", "earlier", "partial"} \cup Verdicts
  /\ printed \in Seq(Codes)

Init ==
  /\ timed \in BOOLEAN
  /\ runLeft \in 0 .. RunBudget
  /\ attempt \in {"none", "earlier"}
  /\ pc = "start"
  /\ existed = FALSE /\ outcome = "none" /\ exit = "none"
  /\ leader = "none" /\ status = "none" /\ helpers = {}
  /\ known = FALSE /\ age = 0 /\ due = 0 /\ reached = "none" /\ verdict = "none"
  /\ work = "none" /\ staging = "none"
  /\ printed = << >>

-----------------------------------------------------------------------------
At(place) == exit = "none" /\ pc = place
Goto(place) == pc' = place
Emit(code) == printed' = Append(printed, code)

(* _process_group_exists.                                                  *)
GroupExists == leader \in {"running", "zombie"} \/ helpers # {}

(* SIGKILL to the group.                                                   *)
KillAll(left) ==
  /\ helpers' = {}
  /\ leader' = left
  /\ status' = IF leader = "running" THEN "signal" ELSE status

(* The command looks at the attempt root before it installs its handlers.  *)
Start ==
  /\ At("start")
  /\ existed' = (attempt # "none")
  /\ Goto("check")
  /\ UNCHANGED << timed, ends, group, known, limits, times, verdict, files,
                  printed >>

(* The checks before the attempt, the last of which is the run deadline,   *)
(* and the skip of an adapter that is not to be spawned.                   *)
Check ==
  /\ At("check")
  /\ \/ /\ attempt = "none" /\ (timed => runLeft > 0)
        /\ \/ Goto("make_work") /\ UNCHANGED verdict
           \/ Goto("make_staging") /\ verdict' = "skipped"
        /\ UNCHANGED outcome
     \/ /\ \/ outcome' = "invalid"
           \/ timed /\ outcome' = "stale"
           \/ timed /\ runLeft = 0 /\ outcome' = "expired"
        /\ Goto("leave") /\ UNCHANGED verdict
  /\ UNCHANGED << fixed, exit, group, files, printed >>

MakeWork ==
  /\ \/ At("make_work") /\ work' = "made" /\ Goto("work_made")
     \/ At("work_made") /\ work' = "known" /\ Goto("setup")
  /\ UNCHANGED << fixed, ends, group, verdict, staging, attempt, printed >>

(* The inputs, the request and the environment of the adapter.             *)
Setup ==
  /\ At("setup")
  /\ Emit("stage-started")
  /\ Goto("spawn")
  /\ UNCHANGED << fixed, ends, group, verdict, files >>

Spawn ==
  /\ At("spawn")
  /\ \/ leader' = "running" /\ Goto("spawned") /\ UNCHANGED verdict
     \/ verdict' = "lost" /\ Goto("drop_work") /\ UNCHANGED leader
  /\ UNCHANGED << fixed, ends, status, helpers, files, printed >>

NoteProcess ==
  /\ At("spawned")
  /\ known' = TRUE
  /\ Goto("limit")
  /\ UNCHANGED << request, ends, group, limits, times, verdict, files,
                  printed >>

(* Faulty variant: the adapter always has its work limit.                  *)
SetWorkLimit ==
  /\ At("limit")
  /\ due' = WorkLimit
  /\ reached' = IF timed /\ runLeft < WorkLimit THEN "run-deadline-reached"
                ELSE "work-limit-reached"
  /\ Emit("adapter-running")
  /\ Goto("wait")
  /\ UNCHANGED << request, ends, group, known, times, verdict, files >>

(* Faulty variant: the sooner limit is kept, but not which it was.         *)
SetUnnamedLimit ==
  /\ At("limit")
  /\ due' = IF timed /\ runLeft < WorkLimit THEN runLeft ELSE WorkLimit
  /\ reached' = "work-limit-reached"
  /\ Emit("adapter-running")
  /\ Goto("wait")
  /\ UNCHANGED << request, ends, group, known, times, verdict, files >>

(* adapter_time_limit: the work limit, or the run deadline if it is sooner. *)
SetLimit ==
  /\ At("limit")
  /\ LET sooner == timed /\ runLeft < WorkLimit IN
     /\ due' = IF sooner THEN runLeft ELSE WorkLimit
     /\ reached' = IF sooner THEN "run-deadline-reached" ELSE "work-limit-reached"
  /\ Emit("adapter-running")
  /\ Goto("wait")
  /\ UNCHANGED << request, ends, group, known, times, verdict, files >>

(* process.wait returns the status of the leader.                          *)
Return ==
  /\ At("wait") /\ leader = "zombie"
  /\ leader' = "reaped"
  /\ Goto("settle")
  /\ UNCHANGED << fixed, ends, status, helpers, verdict, files, printed >>

(* Faulty variant: a late adapter is left to itself.                       *)
ExpireLeaving ==
  /\ At("wait") /\ leader = "running" /\ age >= due
  /\ verdict' = reached
  /\ Emit(reached)
  /\ Goto("drop_work")
  /\ UNCHANGED << fixed, ends, group, files >>

(* process.wait raises TimeoutExpired.                                     *)
Expire ==
  /\ At("wait") /\ leader = "running" /\ age >= due
  /\ verdict' = reached
  /\ Emit(reached)
  /\ Goto("term")
  /\ UNCHANGED << fixed, ends, group, files >>

(* Faulty variant: the output is announced before the status is read.      *)
SettleAnnouncing ==
  /\ At("settle")
  /\ IF GroupExists
       THEN verdict' = "descendants" /\ Goto("term") /\ UNCHANGED printed
       ELSE /\ Emit("checking-output")
            /\ IF status # "zero"
                 THEN verdict' = status /\ Goto("drop_work")
                 ELSE Goto("capture") /\ UNCHANGED verdict
  /\ UNCHANGED << fixed, ends, group, files >>

(* What the leader left behind, and how it ended.                          *)
Settle ==
  /\ At("settle")
  /\ IF GroupExists
       THEN verdict' = "descendants" /\ Goto("term") /\ UNCHANGED printed
     ELSE IF status # "zero"
       THEN verdict' = status /\ Goto("drop_work") /\ UNCHANGED printed
     ELSE Emit("checking-output") /\ Goto("capture") /\ UNCHANGED verdict
  /\ UNCHANGED << fixed, ends, group, files >>

Capture ==
  /\ At("capture")
  /\ verdict' \in {"accepted", "rejected"}
  /\ Goto("drop_work")
  /\ UNCHANGED << fixed, ends, group, files, printed >>

(* _terminate_process_group asks the group with SIGTERM,                   *)
Term ==
  /\ At("term")
  /\ IF GroupExists
       THEN due' = age + Grace /\ Goto("grace")
       ELSE Goto("drop_work") /\ UNCHANGED due
  /\ UNCHANGED << request, ends, group, known, reached, times, verdict,
                  files, printed >>

(* polls the leader,                                                       *)
Poll ==
  /\ At("grace") /\ leader = "zombie"
  /\ leader' = "reaped"
  /\ UNCHANGED << fixed, ends, status, helpers, verdict, files, printed, pc >>

(* Faulty variant: the runtime waits until the group has gone.             *)
EndGraceWaiting ==
  /\ At("grace") /\ ~ GroupExists
  /\ Goto("killing")
  /\ UNCHANGED << fixed, ends, group, verdict, files, printed >>

(* waits until the group has gone or the grace is over,                    *)
EndGrace ==
  /\ At("grace") /\ (~ GroupExists \/ age >= due)
  /\ Goto("killing")
  /\ UNCHANGED << fixed, ends, group, verdict, files, printed >>

(* Faulty variant: only the leader is killed.                              *)
KillLeader ==
  /\ At("killing")
  /\ IF leader = "running" THEN leader' = "zombie" /\ status' = "signal"
     ELSE UNCHANGED << leader, status >>
  /\ Goto("reap")
  /\ UNCHANGED << fixed, ends, helpers, verdict, files, printed >>

(* kills what is left of it,                                               *)
KillGroup ==
  /\ At("killing")
  /\ KillAll(IF leader = "running" THEN "zombie" ELSE leader)
  /\ Goto("reap")
  /\ UNCHANGED << fixed, ends, verdict, files, printed >>

(* and reaps the leader.                                                   *)
Reap ==
  /\ At("reap")
  /\ leader' = "reaped"
  /\ Goto("drop_work")
  /\ UNCHANGED << fixed, ends, status, helpers, verdict, files, printed >>

(* The handler around process.wait kills the group at once; the handler    *)
(* around everything else does so if the leader has not ended.             *)
Cancel ==
  /\ \/ At("inner") /\ KillAll("reaped") /\ Goto("outer")
     \/ At("outer") /\ known /\ leader = "running" /\ KillAll("reaped") /\ Goto("drop_work")
     \/ /\ At("outer") /\ ~ (known /\ leader = "running")
        /\ leader' = IF known THEN "reaped" ELSE leader
        /\ Goto("drop_work") /\ UNCHANGED << status, helpers >>
  /\ UNCHANGED << fixed, ends, verdict, files, printed >>

(* What shutil.rmtree makes of a directory.                                *)
Removed(where) == IF where = "known" THEN {"none", "stuck"} ELSE {where}

(* The work root is removed on every way out.                              *)
DropWork ==
  /\ At("drop_work")
  /\ work' \in Removed(work)
  /\ IF outcome = "none" THEN Emit("publishing") /\ Goto("make_staging")
                         ELSE Goto("leave") /\ UNCHANGED printed
  /\ UNCHANGED << fixed, ends, group, verdict, staging, attempt >>

MakeStaging ==
  /\ \/ At("make_staging") /\ staging' = "made" /\ Goto("staging_made")
     \/ At("staging_made") /\ staging' = "known" /\ Goto("write")
  /\ UNCHANGED << fixed, ends, group, verdict, work, attempt, printed >>

(* The attempt is written, and its directory becomes the attempt root.     *)
Publish ==
  /\ At("write")
  /\ attempt' = verdict
  /\ staging' = "moved"
  /\ Goto("drop_staging")
  /\ UNCHANGED << fixed, ends, group, verdict, work, printed >>

DropStaging ==
  /\ At("drop_staging")
  /\ staging' \in Removed(staging)
  /\ Goto(IF outcome = "none" THEN "finish" ELSE "leave")
  /\ UNCHANGED << fixed, ends, group, verdict, work, attempt, printed >>

Finish ==
  /\ \/ At("finish") /\ Emit("stage-finished") /\ Goto("finished") /\ UNCHANGED outcome
     \/ At("finished") /\ outcome' = "returned" /\ Goto("leave") /\ UNCHANGED printed
  /\ UNCHANGED << fixed, exit, group, verdict, files >>

(* Faulty variant: a cancelled command leaves the attempt where it is.     *)
LeaveKeeping ==
  /\ At("leave")
  /\ Goto("done")
  /\ exit' = IF outcome = "returned" THEN "ok" ELSE outcome
  /\ UNCHANGED << fixed, outcome, group, verdict, files, printed >>

(* The command after the attempt: its exit status, or the removal of the   *)
(* attempt root that was not there when it started.                        *)
Leave ==
  /\ At("leave")
  /\ IF outcome = "cancelled" /\ ~ existed
       THEN Goto("remove") /\ UNCHANGED exit
       ELSE Goto("done") /\ exit' = IF outcome = "returned" THEN "ok" ELSE outcome
  /\ UNCHANGED << fixed, outcome, group, verdict, files, printed >>

(* shutil.rmtree of the attempt root, which may stop anywhere.             *)
Remove ==
  /\ \/ /\ At("remove") /\ attempt # "none"
        /\ attempt' = "partial" /\ Goto("remove_rest") /\ UNCHANGED exit
     \/ /\ (At("remove") /\ attempt = "none") \/ At("remove_rest")
        /\ attempt' = "none" /\ Goto("done") /\ exit' = "cancelled"
     \/ /\ At("remove") \/ At("remove_rest")
        /\ attempt # "none" /\ UNCHANGED attempt
        /\ Goto("done") /\ exit' = "unremoved"
  /\ UNCHANGED << fixed, outcome, group, verdict, work, staging, printed >>

(* Any file operation, committed file or supplied input can be refused.    *)
Break ==
  /\ \/ At("make_work") /\ Goto("leave")
     \/ At("setup") /\ Goto("drop_work")
     \/ At("make_staging") /\ Goto("leave")
     \/ At("write") /\ Goto("drop_staging")
  /\ outcome' = "invalid"
  /\ UNCHANGED << fixed, exit, group, verdict, files, printed >>

(* SIGINT or SIGTERM while the handlers are installed: the innermost       *)
(* handler or finally block around the place runs next.                    *)
Signal ==
  /\ exit = "none" /\ pc \in Handled
  /\ outcome' = "cancelled"
  /\ Goto(CASE pc = "wait" -> "inner"
            [] pc \in InTry \ {"wait"} -> "outer"
            [] pc \in {"setup", "outer"} -> "drop_work"
            [] pc = "write" -> "drop_staging"
            [] OTHER -> "leave")
  /\ UNCHANGED << fixed, exit, group, verdict, files, printed >>

(* SIGKILL at any point, or a signal where no handler is installed.  What  *)
(* the adapter does is its own business from there.                        *)
Kill ==
  /\ exit = "none"
  /\ exit' = "killed"
  /\ Goto("done")
  /\ UNCHANGED << fixed, outcome, group, verdict, files, printed >>

-----------------------------------------------------------------------------
(* The adapter and the clock.                                              *)

LeaderExits ==
  /\ leader = "running"
  /\ leader' = "zombie"
  /\ status' \in {"zero", "nonzero", "signal"}
  /\ UNCHANGED << fixed, ends, helpers, verdict, files, printed, pc >>

Fork(h) ==
  /\ leader = "running" \/ helpers # {}
  /\ h \notin helpers
  /\ helpers' = helpers \cup {h}
  /\ UNCHANGED << fixed, ends, leader, status, verdict, files, printed, pc >>

HelperExits(h) ==
  /\ h \in helpers
  /\ helpers' = helpers \ {h}
  /\ UNCHANGED << fixed, ends, leader, status, verdict, files, printed, pc >>

Tick ==
  /\ exit = "none"
  /\ \/ pc \in Preparing /\ runLeft > 0 /\ UNCHANGED age
     \/ pc \in {"wait", "grace"} /\ age < due /\ age' = age + 1
  /\ runLeft' = runLeft - 1
  /\ UNCHANGED << request, ends, group, known, limits, verdict, files,
                  printed, pc >>

-----------------------------------------------------------------------------
Run ==
  \/ Start \/ Check \/ MakeWork \/ Setup \/ Spawn \/ NoteProcess \/ SetLimit
  \/ Return \/ Expire \/ Settle \/ Capture
  \/ Term \/ Poll \/ EndGrace \/ KillGroup \/ Reap \/ Cancel \/ DropWork
  \/ MakeStaging \/ Publish \/ DropStaging \/ Finish \/ Break
  \/ Leave \/ Remove

Adapter == LeaderExits \/ \E h \in Helpers : Fork(h) \/ HelperExits(h)

Ended == exit # "none" /\ UNCHANGED vars

Next == Run \/ Signal \/ Kill \/ Adapter \/ Tick \/ Ended

(* The operating system schedules the command, and time goes on.  Nothing  *)
(* is asked of the adapter.                                                *)
Spec == Init /\ [][Next]_vars /\ WF_vars(Run) /\ WF_vars(Tick)

-----------------------------------------------------------------------------
(* Properties.                                                             *)

(* A command that ends of itself has left nothing behind but directories   *)
(* that could not be removed: no process of the adapter, no zombie, and no *)
(* work root or staging directory whose removal was not tried (the group's *)
(* termination in _run_adapter and the two finally blocks).                *)
NothingIsLeft ==
  exit \in {"ok", "invalid", "stale", "expired"} =>
    /\ ~ GroupExists
    /\ work \in {"none", "stuck"} /\ staging \in {"none", "stuck", "moved"}

(* The adapter's files are read, and its attempt is published, only when   *)
(* no process is left that could still write them (the look at the process *)
(* group before _capture_candidate).                                       *)
QuietWhenRead ==
  (exit = "none" /\ pc = "capture") \/ attempt \in Verdicts => ~ GroupExists

(* A command that waits for its adapter bounds it, whatever the adapter    *)
(* does with SIGTERM: it never gets older than its work limit and one      *)
(* grace, and is waited for no longer than one grace after the run         *)
(* deadline (adapter_time_limit and _terminate_process_group).             *)
AdapterIsBounded == age <= WorkLimit + Grace /\ (timed => runLeft >= -Grace)

(* A published attempt tells how its adapter came to its end: a deadline   *)
(* it names has passed, a status it names is the leader's, and no process  *)
(* ran behind a skip or a loss (the order of the checks of _run_adapter).  *)
Truth(v) ==
  /\ v \in {"skipped", "lost"} => leader = "none"
  /\ v = "work-limit-reached" => age >= WorkLimit
  /\ v = "run-deadline-reached" => timed /\ runLeft <= 0
  /\ v \in {"nonzero", "signal"} => status = v
  /\ v \in {"accepted", "rejected"} => status = "zero"
  /\ v \notin {"skipped", "lost"} => leader = "reaped"

VerdictIsTrue == attempt \in Verdicts => Truth(attempt)

(* The exit status tells what stands at the attempt root: an attempt after *)
(* 0, nothing new after every other one that is not a death, unless a      *)
(* cancelled command could not take its own attempt away again.            *)
ExitTellsTheAttempt ==
  /\ exit = "ok" => attempt = verdict /\ verdict \in Verdicts
  /\ exit \in {"invalid", "stale", "expired", "cancelled"} =>
       attempt \in {"none", "earlier"}

OnAPath == \E v \in Verdicts : \E n \in 0 .. Len(StagePath(v)) :
             printed = SubSeq(StagePath(v), 1, n)

(* The event lines of a Stage follow the path of its attempt               *)
(* (STAGE_PATHS), and stop short of its end only if the command did not    *)
(* publish the attempt (KILLED_PREFIXES).                                  *)
EventsFollowAPath ==
  /\ OnAPath
  /\ exit = "ok" => printed = StagePath(verdict)

(* Every command ends, though its adapter may never end by itself.         *)
CommandEnds == <>(exit # "none")

(* The attempt root keeps the promise of an attempt: what stood there      *)
(* before is never touched, not even by a cancelled command, and an        *)
(* attempt appears whole, after the last process of its adapter.           *)
AdapterState == IF leader = "none" THEN "idle"
                ELSE IF GroupExists THEN "running" ELSE status

Promise == INSTANCE AttemptPromise WITH adapter <- AdapterState

KeepsPromise == Promise!Spec

(* The reference manual: on SIGINT or SIGTERM "the CLI immediately         *)
(* terminates the active adapter process tree".  So a cancelled command    *)
(* that has reaped its adapter leaves no process of it behind.             *)
CancellationEndsTheTree == exit = "cancelled" /\ leader = "reaped" => helpers = {}

-----------------------------------------------------------------------------
(* The inductive invariant behind the theorems.                            *)

(* The leader's life, and which places the runtime reaches only with it.   *)
GroupInv ==
  /\ leader \in {"none", "running"} <=> status = "none"
  /\ leader = "none" => helpers = {} /\ ~ known
  /\ leader = "reaped" => known
  /\ exit = "none" =>
       /\ pc \in Preparing \cup {"start", "spawn"} => leader = "none"
       /\ pc = "spawned" => leader # "none"
       /\ pc \in {"limit", "wait", "inner", "settle", "capture", "term", "grace",
                  "killing", "reap"} => known
       /\ pc \in {"settle", "capture"} => leader = "reaped"
       /\ pc = "capture" => helpers = {} /\ status = "zero"
       /\ pc = "reap" => helpers = {} /\ leader # "running"

(* The clock against the limit the adapter runs under.                     *)
ClockInv ==
  /\ AdapterIsBounded
  /\ exit = "none" =>
       /\ pc \in Preparing \cup {"start", "spawn", "spawned", "limit"}
            => age = 0 /\ runLeft >= 0
       /\ pc = "wait" =>
            /\ age <= due /\ due <= WorkLimit
            /\ reached = "work-limit-reached" => due = WorkLimit
            /\ reached = "run-deadline-reached" => timed /\ runLeft + age = due
            /\ timed => runLeft + age >= due
            /\ reached \in Limits
       /\ pc \in {"settle", "term"} => age <= WorkLimit /\ (timed => runLeft >= 0)
       /\ pc = "grace" =>
            /\ age <= due /\ due <= WorkLimit + Grace
            /\ timed => runLeft + Grace >= due - age

(* The verdict, from where it is settled to where it is published.         *)
Settled == ~ GroupExists /\ verdict \in Verdicts /\ Truth(verdict)

Late(v) == /\ v \in Limits \cup {"descendants"}
           /\ v = "work-limit-reached" => age >= WorkLimit
           /\ v = "run-deadline-reached" => timed /\ runLeft <= 0

VerdictInv ==
  /\ attempt \in Verdicts => Settled /\ attempt = verdict
  /\ exit = "none" =>
       /\ pc \in {"term", "grace", "killing", "reap"} => Late(verdict)
       /\ pc \in {"drop_work"} \cup Publishing /\ outcome = "none" => Settled

(* The attempt root: what stands there, and who has put it there.          *)
AttemptInv ==
  exit = "none" =>
    /\ pc = "start" => attempt \in {"none", "earlier"} /\ outcome = "none"
    /\ pc # "start" => (existed <=> attempt = "earlier")
    /\ existed => pc \in {"check", "leave"}
    /\ pc \in Preparing \cup InTry \cup {"outer", "drop_work", "make_staging",
                "staging_made", "write"} => attempt \in {"none", "earlier"}
    /\ pc \in Handled \ {"inner", "outer", "drop_work", "drop_staging"}
         => outcome = "none"
    /\ pc \in {"inner", "outer"} => outcome = "cancelled"
    /\ pc \in {"drop_staging", "finish", "finished"} /\ outcome = "none"
         => attempt \in Verdicts
    /\ outcome = "returned" => pc = "leave" /\ attempt \in Verdicts
    /\ outcome \in {"invalid", "stale", "expired"} =>
         attempt \in {"none", "earlier"} /\ ~ GroupExists
    /\ pc = "leave" => outcome # "none"
    /\ pc \in {"remove", "remove_rest"} => outcome = "cancelled"
    /\ pc = "remove_rest" => attempt = "partial"
    /\ pc # "done"

(* The directories: which of them exist, and who will remove them.         *)
FilesInv ==
  /\ ExitTellsTheAttempt
  /\ NothingIsLeft
  /\ exit = "none" =>
       /\ pc \in {"start", "check", "make_work"} => work = "none"
       /\ pc \in Publishing => work \in {"none", "stuck"}
       /\ pc \in {"setup"} \cup InTry => work = "known"
       /\ pc = "drop_work" /\ outcome # "cancelled" => work = "known"
       /\ pc \in {"start"} \cup (Handled \ Publishing) \cup {"make_staging"}
            => staging = "none"
       /\ pc = "write" => staging = "known"
       /\ pc = "drop_staging" => staging \in {"known", "moved"}
       /\ pc \in {"finish", "finished"} => staging \in {"none", "stuck", "moved"}
       /\ pc = "leave" /\ outcome # "cancelled"
            => work \in {"none", "stuck"} /\ staging \in {"none", "stuck", "moved"}

(* The lines of an attempt before it is published.                         *)
Told(v) == SubSeq(StagePath(v), 1, Len(StagePath(v)) - 2)

(* The lines of an attempt before its last one.                            *)
Announced(v) == SubSeq(StagePath(v), 1, Len(StagePath(v)) - 1)

(* The lines printed so far, at each place.                                *)
EventsInv ==
  /\ EventsFollowAPath
  /\ exit = "none" =>
       /\ pc \in Preparing \cup {"start"} => printed = << >>
       /\ pc \in {"spawn", "spawned", "limit"} => printed = Told("lost")
       /\ pc \in {"wait", "settle"} => printed = Told("descendants")
       /\ pc = "capture" => printed = Told("accepted")
       /\ pc \in {"term", "grace", "killing", "reap"} => printed = Told(verdict)
       /\ outcome = "none" =>
            /\ pc = "drop_work" => verdict # "skipped" /\ printed = Told(verdict)
            /\ pc \in Publishing \ {"finished"} => printed = Announced(verdict)
       /\ pc = "finished" \/ outcome = "returned" =>
            verdict \in Verdicts /\ printed = StagePath(verdict)

IInv == TypeOK /\ GroupInv /\ ClockInv /\ VerdictInv /\ AttemptInv /\ FilesInv
        /\ EventsInv
=============================================================================
