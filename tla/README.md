# Verification of the SDI pipeline integration

This directory holds TLA+ models of the `ci-cv-cd_framework` repository: the
integration framework that takes one committed run request through four Stages
(composition, image build, CV, CD), either in one local process or from GitHub
Actions through a Jenkins build, and that ends with one bundle: a
`pipeline-integration-result.json` with the attempt of every Stage. Line numbers
refer to the repository's files; `PROJECT.json` maps every definition to its lines.

Contents: [inventory](#inventory), [modules](#modules), [runs](#runs),
[fairness](#fairness), [theorems](#theorems), [findings](#findings),
[what is not modelled](#what-is-not-modelled), [plan](#plan).

## Inventory

Python code without a path is under `integration/src/sdi_pipeline_integration/`.

| Component | State it keeps | Operations | Interacts with |
|---|---|---|---|
| Jenkins handoff (`_jenkins_handoff.py`, `_handoff_contracts.py`) | the receipt, in memory and on disk; the bundle and manifest of the GitHub job | identify, preflight, submit, wait for queue and build, retrieve, cancel; the receipt writer's `transition`, `fail`, `cancel`, `complete` | Jenkins over HTTP, GitHub by signals and the receipt |
| Local dispatch (`_local_dispatch.py`, `_bundle.py`) | claim file, work and staging directories, bundle root | `dispatch-local` and its cancellation | other dispatches of the same root, the attempt runtime |
| Jenkins pipeline (`Jenkinsfile`, `_jenkins_pipeline.py`) | `acceptedStages`, `continueChain`, `runDeadlineExpired`, stashes, archive | preflight, execute a Stage, allow continuation, finalize, conclude, archive | the five agents, the handoff that watches the build |
| Stage attempt runtime (`_stage_runtime.py`) | work root, process group of the adapter, attempt root | materialise inputs, spawn, wait, stop, capture, publish | adapters, signals, deadlines |
| Contracts (`_stage_contracts.py`, `_result_contracts.py`, `_stage_registry.py`, `_domain_contracts.py`, `_stage_documents.py`) | none | validate a document, an attempt, a result; colour of a run | everything above |
| Adapter shell (`_adapter_kit.py`) | the output root | read the request, run the body, publish documents and response | the runtime, by exit status and files |
| Composition (`_composition_adapter.py`, `_generation.py`, `_discovery.py`, `_assessment.py`) | none that lasts | discover services within a budget, generate proposals, assess, rank, publish | an embedding and a model provider |
| Image build (`_image_build_adapter.py`) | build clients, records | plan, start, poll, stop and reap, read the registry | BuildKit, registry |
| CV (`_cv_adapter.py`, `_cv_run.py`, `_cv_verdict.py`) | containers of one execution | declare, clean up, build, pull, start, wait, snapshot, read, record, tear down; the verdict | container engine |
| CD (`_cd_adapter.py`, `_cd_deployment.py`) | one namespace | pin, wait for nodes, create, apply, wait, settle, judge, delete | the cluster through kubectl |
| Pipeline events (`_pipeline_events.py` and its neighbours) | the attempts a printer was given; the console | emit, check a console | every command that runs a Stage or a run |
| GitHub side (`pipeline-integration.yml`, `_github_actions.py`, `_github_dispatch.py`) | artifacts, summary | identify, hand off, upload, summarise | the handoff |
| Stack and recovery (`deployment/jenkins/bin/`) | containers, volumes, secrets, quiet mode | start, quiesce, resume, reconcile an agent, snapshot, verify, restore | Docker, Jenkins, runners |

What is hard, and which properties make a component correct:

- **Handoff.** A request may be lost, or handled after the client has given up on
  it; a signal may arrive between any two bytecodes of the receipt writer; the job may
  be killed. Correct means: a submission is written ahead, a run enters the queue
  once, the receipt only grows and never says what Jenkins has not done, and exit
  status, receipt and bundle agree.
- **Local dispatch.** Processes share a directory with no lock but an exclusive
  file, and clean up in a `finally` that a signal can cut and whose removals may
  themselves be refused. Correct means: one dispatcher behind the claim, no bundle
  replaced, nothing whose removal was not tried left behind by a dispatch that was not
  cancelled, a result whose every attempt sequence the contract accepts,
  and an exit status that tells the result.
- **Jenkins pipeline.** Three nested time limits interrupt whatever step is waiting;
  attempts travel through stashes and are loaded by three commands that each refuse
  what they find inconsistent. Correct means: no adapter runs twice or behind a
  blocker, the finalization can always account for every Stage, skips say why, green
  means a green archived bundle as far as the build was told its colour, and the build
  ends by time alone.
- **Attempt runtime.** A work limit, the run deadline, the adapter's exit and a
  cancellation race over a process group. Correct means: no process outlives its
  attempt, a candidate is read in quiet, and the verdict names what really ended it.
- **Adapters.** Each works on something that changes by itself and answers late or
  never, with two or three deadlines that have to leave room for one another. Correct
  means: what an attempt set up is gone when it ends, the reserved time is really
  there, evidence says of a service only what happened to its pod, image or container,
  a blueprint is grounded in the described repository, and the runtime, another
  process with its own contracts, accepts whatever the adapter publishes but for the
  content of a file.
- **Pipeline events.** The lines of one Jenkins build come from up to six processes, each
  of which knows only the attempts it was given and may be stopped after any line.
  Correct means: the console, wherever it breaks off, is one the checker accepts, a row
  never takes back what another has told but for the one Stage whose end was lost, and
  the final line tells the colour of the result.
- **Contracts, summary.** Pure functions over sequences of attempts;
  correct means agreement with one reference definition.
- **Stack and recovery.** Shell scripts that act on runners, builds and volumes that go
  on meanwhile, any command of which may fail or be interrupted. Correct means:
  maintenance works only on what is idle, an archive holds an idle controller, and no
  archived credential is active on what a restore starts or has proved.

## Modules

| Module | Models | Role |
|---|---|---|
| `HandoffReceipt` | `_handoff_contracts.py` | receipts, their phases and terminal facts, `ValidReceipt`; no state |
| `HandoffPromise` | | abstract specification of a handoff: one submission, one verdict, a bundle only from an ended build |
| `Handoff` | `_jenkins_handoff.py`, `_cli.py` | client, receipt writer, network, Jenkins, signals |
| `HandoffInvariant` | | the inductive invariant of the handoff |
| `HandoffProofs` | | theorems |
| `StageAttempts` | `_stage_runtime.py`, `_stage_contracts.py`, `_result_contracts.py` | attempts, blocking, pre-spawn skips, the result contract, the colour; no state |
| `StageAttemptsProofs` | | lemmas about it that both schedulers use |
| `RunPromise` | | abstract specification of a run: attempts in Stage order, nothing after a blocker, one complete valid result of the right colour |
| `LocalDispatch` | `_local_dispatch.py`, `_cli.py` | any number of dispatches of one bundle root |
| `LocalDispatchProofs` | | theorems |
| `PipelineRun` | `Jenkinsfile`, `_jenkins_pipeline.py` | one Jenkins build with its limits |
| `PipelineRunProofs` | | theorems |
| `AttemptPromise` | | abstract specification of one attempt: it appears whole, after the last process of its adapter, and says truly how that adapter ended |
| `StageRuntime` | `_stage_runtime.py`, `_cli.py`, the checks of `_jenkins_pipeline.py:302-375` | one command, its adapter's process group, signals, limits |
| `StageRuntimeProofs` | | theorems |
| `StageDocuments` | `_domain_contracts.py`, `_stage_documents.py`, `_stage_registry.py` | the documents Stages hand on: placements, images, deployment results, validation evidence, and what each must say; no state |
| `Candidate` | `_stage_contracts.py`, `_stage_runtime.py` | what the runtime captures of an adapter that exited 0, and what a later process loads; no state |
| `AdapterKit` | `_adapter_kit.py` | the process shell of an adapter: request, verdict, publication, exit |
| `CdDeploy` | `_cd_adapter.py`, `_cd_deployment.py` | body of the CD adapter beside a cluster |
| `ImageBuilds` | `_image_build_adapter.py` | body of the image build beside clients and a registry |
| `CvRun` | `_cv_adapter.py`, `_cv_run.py`, `_cv_verdict.py` | body of the CV adapter beside a container engine |
| `Discovery` | `_discovery.py` | the selection of services within a budget, and the agenda of its calls; no state |
| `Assessment` | `_assessment.py` | eligibility, conflicts, gaps, downgrades and ranking of proposals; no state |
| `Composition` | `_composition_adapter.py`, `_generation.py` | body of the composition adapter beside its providers |
| `StageAdapters` | `_stage_registry.py` | an attempt of any of the four, and the properties they share |
| `AdaptersInvariant` | | the inductive invariant of the adapters |
| `StageAdaptersProofs` | | theorems |
| `StackOperations` | `bin/stack`, `bin/smoke-check` | maintenance commands beside runners and builds |
| `Recovery` | `bin/recovery` | snapshot and restore on top of `StackOperations` |
| `RecoveryProofs` | | theorems |
| `EventRows` | `_pipeline_event_rows.py`, `_pipeline_events.py`, `_stage_runtime.py` | the statuses and the reason of a row, and which line follows which; no state |
| `EventCheck` | `_pipeline_event_check.py`, `_pipeline_event_catalogue.py` | the consoles `check-events --real-run` accepts; no state |
| `BuildConsole` | `Jenkinsfile`, `_jenkins_pipeline.py`, `_pipeline_event_printer.py` | the console of one Jenkins build: `PipelineRun` with its lines |
| `BuildConsoleProofs` | | theorems |
| `MCHandoff`, `MCLocalDispatch`, `MCPipelineRun`, `MCStageRuntime`, `MCStageAdapters`, `MCRecovery`, `MCBuildConsole` | | instances for TLC |

Two schedulers implement one abstract specification: `LocalDispatch` (for each of
its processes) and `PipelineRun` are both shown to implement `RunPromise`, over the
same contract in `StageAttempts`. The handoff implements `HandoffPromise`, and the
runtime that both schedulers start for each Stage implements `AttemptPromise`. In the
schedulers an attempt is one step that ends in a member of `StageAttempts!Executions`;
`StageRuntime` opens that step: its verdicts `accepted` (passed, negative or
completed), `skipped` and the rest (failed or timed out) are the ends of such a step.
Inside it, the adapter is a process that may do anything; `StageAdapters` opens that:
one of the four bodies in the shell of `AdapterKit`, on inputs that the contracts of
`StageDocuments` allow, killed at any moment as the runtime may, and captured by the
rules of `Candidate`.

`BuildConsole` composes `PipelineRun` with the lines its processes print; it
implements `PipelineRun` (`PrintingChangesNothing`), so every property of a build holds
of it.

Operators whose comment begins with "Faulty variant" or "A mutant" are not part of any
specification: each is the mutant of the definition below it, named in
`PROJECT.json`, which the runs have to refute.

### How state and actions correspond to the code

*Handoff.* `pc` names the statement of `handoff_jenkins` that is next, `op` the writer
method under way. A writer method is four actions (`MarkPhase`, `AppendTransition`,
`AddFacts`, `Persist`), because the cancellation handler raises between them and leaves
`doc`, the document in memory, half changed; `Persist` validates before it replaces
`disk`, and any file operation of the writer may fail: then the command ends with status
2 (`unwritten`), over a file that is the old one or, if only the progress line after it
failed, the new one. `late` says that the outer limit of the job has passed, which may
be at any time after the first receipt. From then on `request()` raises before it sends:
a wait ends by `outer_deadline`, and a cancellation asks for nothing and is recorded all
the same (`CancelUnasked`). The five seconds `_cancel_correlated` gives its own request
are taken not to be over before that request. A request is sent on a worker thread:
`wire` keeps it deliverable after the client has given up, `reply` is the answer that
came in time. `item` and `build` are the run's queue item and build at Jenkins;
`Jenkins` groups the environment's actions. The receipt's phases, failure codes and
terminal kinds are those of `HandoffReceipt.validate_progress`. One deadline per wait is
a disjunct that may be taken whenever the code waits.

*Local dispatch.* `pc[p]` is the statement of process `p`; each acquisition is two
actions where the code can be interrupted between the effect and the assignment that
remembers it (`Claim` / `NoteClaim`, the two halves of `MakeWork` and `MakeStaging`).
`Break` is any refused file operation or validation. The `finally` clause is three
actions in its order. Its removals ignore errors: the directory of a dispatch in
`Stubborn` may stay (`stuck`), as where an adapter has left a read-only directory in it,
and the clause goes on. The unlink of the claim raises instead, and takes the place of
whatever the dispatch was about to end with (`unreleased`), as does the close of the
claim file just created. An error of the event line that follows the rename (`untold`)
is status 2 beside a published bundle. `Remove`, `RemoveEntries` and `RemoveRoot` are
the `rmtree` of the cancellation path of the command, each of which may be refused too.
`Signal` turns the outcome into a cancellation wherever the handlers are installed,
`Kill` ends a process anywhere.

*Pipeline run.* `clock` counts the limits that have passed: the run deadline, the
scheduling limit, the run limit (`Jenkinsfile:113-121`), which always pass in this
order. `pc` is the step of the scheduled script, `agent` the state of the
`execute-jenkins-stage` process of the current Stage, `attempt` what it has
published in its workspace. `Stash` and the append to `acceptedStages` are one action:
a step can be interrupted until it has ended, and nothing can interrupt between
its end and the append. `SchedulingTimeout` is the inner timeout with its handler;
the outer timeout, while the scheduling runs, is caught by the same handler
(`Jenkinsfile:274`), so it is the same action. A safety timeout before the scheduling
deadline is an error, after it the scheduling timeout (`Jenkinsfile:231-235`).
`Assemble` makes the three refusals of `finalize-jenkins-run`; the checks that these
never apply are properties. The script looks at the status of `bundle-conclusion` for 2
and for 1 only: one that was killed or never started (137, 127) leaves `conclusion` at
`lost`, and the build goes on to `SUCCESS` whatever the result says.

*Attempt runtime.* `pc` is the statement of `execute-stage` or (`timed`)
`execute-jenkins-stage` that is next; `leader`, `status` and `helpers` are the adapter's
process group. A leader that has ended is a `zombie`, and so still a member of the
group, until `Return`, `Poll`, `Reap` or `Cancel` reaps it. SIGTERM obliges nobody, so
`Term` changes no process: whatever a process may do after it, it may do before it.
`Spawn` and `NoteProcess` are the two halves of line 1579, `MakeWork` and `MakeStaging`
each have two disjuncts for the same reason. `Signal` goes to the innermost handler or
`finally` around its place: `inner` is the handler around `process.wait` (1615-1617),
`outer` the one around the whole `try` (1698-1701), and `Cancel` has one disjunct for
each way through them; a second signal may interrupt the first handler. `due` is the age
at which the current wait gives up, `reached` the limit this would be
(`AdapterTimeLimit.reached`). `Tick` is a unit of time: the code may lose time while it
prepares its inputs and while it waits, its other steps are short against a limit of
minutes. `Leave` and `Remove` are the exit and the removal of the attempt root by
`_cli.py:743-761`, in two steps as `rmtree` is not atomic; that removal may raise
(`unremoved`), while the work root and the staging directory are removed with errors
ignored and may stay (`stuck`). `printed` is the event lines of the Stage. `Capture`
accepts or rejects: what it compares is data.

*Adapters.* `pc` is the statement of the body that is next; `verdict` what it returns,
`files` what stands in its output root, `exit` its exit status. `flaw` is the one file,
if any, whose content the runtime refuses whatever its contract says: more bytes than
its grant, a forwarded secret, a private endpoint, a control character in the diagnostic
(`_stage_runtime.py:216-340`, `459-489`). Of all this an adapter looks at most at a size
(CV bounds its evidence), so any file may have one; `Envelope` is then the record of a failure. `Kill` may end it
anywhere, and no `finally` clause runs then. Time is the adapter's own clock; a call
takes any time up to its own timeout and what its deadline leaves.

- CD: `Call` is one `kubectl` with the three ways it ends (an answer, an error, the
  deadline); `create` remembers a create that was given up and is handled later.
  `pods` is what `kubectl get pods` would show of each service, and `PodChanges` moves
  it between any two steps; `exited` remembers containers that have exited, which
  restarts a pod. `held`, `starting` and `judged` are the locals of `deploy`.
- Image build: a client runs, or has ended with its image built or broken, or was
  stopped; `pushed` is what the registry holds of its image. `Finish` is
  `_finished_record` with the waits of one registry read and the cutoff; `Stopped` is
  `_stop` with its grace, called for the unfinished clients and again in the `finally`.
- CV: `container` holds what the engine has of this run, `late` for a start whose
  request was lost and may still be handled; `leftovers` are the containers of an
  earlier, killed run. `alive` and `sent` are not program state but what really
  happened, which the evidence is compared with.
- Composition: the provider answers with one of a set of proposals, refuses, fails or
  returns nothing usable; there is one request, which is not repeated. Assessment is an
  operator applied where the code calls it. `expand` and `admit` of `_discovery.py` call
  each other; `agenda` holds the calls that are under way, innermost first, each with the
  providers it has still to admit. `Admits` is one call of `admit`, and what it pulls in
  goes to the front; `Traces` is the end of one reference in `expand`; `Embeds` begins
  and `Discovers` ends the whole.

*Stack and recovery.* `at` is the next command of the script under way, `op` the script.
A request or a `docker` command that fails may or may not have taken effect, so failing
branches leave either state. `World` is what goes on meanwhile: jobs are assigned and
end, submit runs, builds start unless Jenkins is quiet, and end, and a queued item is
withdrawn by its handoff (`CancelQueued`). `StartAgain` is `stack start`, which may be
called after a restore that failed or was killed as well: Jenkins comes up on whatever
the volume holds and makes the state and the key it does not find (`Booted`). `lost`
says that the installation was destroyed, `restored` that a restore has since proved its
target. A credential is known by its generation, a controller volume by how much of the
archive it holds, whether it has archived API tokens, and the generation of the key the
agents' secrets derive from. `Signal` runs the restore's trap, `Kill` does not.

*Pipeline events.* A row is its line, the four statuses, the CI status and the reason.
`Held` is what a process passes to its `EventPrinter`: nothing in the preflight, the
accepted attempts in a Stage, the completed attempts of the result in the finalization.
Printing a line and what follows it are two steps of `BuildConsole`, and every timeout,
abort and failure of `PipelineRun` may come between them: `FinishStage` may have told the
end of an attempt that `EndStage` never accepts. `NextSteps` is the order of the lines
in `_run_adapter`, and `Fits` ties the attempt that is published to the line before
`publishing`. A Reason says no more than the rules look at: the code of a skip, the run
deadline, or the kind of outcome it belongs to. `Conforms` translates the checker rule by
rule.

*Attempts.* An attempt is the mode of its adapter, how it ended, and the code of a
skip. Files, digests and timestamps are abstracted away; `failed` and `timed_out`
are one value because no rule of the contract or colour separates them.

## Runs

| Run | Instance | Distinct states | Shows |
|---|---|---|---|
| `handoff` | two signals | 61,161 | the safety properties of the receipt, exit status, bundle and cancellation; the implementation of `HandoffPromise`; every handoff ends |
| `handoff_cancel` | one signal | violation | [finding 1](#findings) |
| `dispatch` | two dispatches, the directories of one of which may resist their removal; an implemented adapter, a fixture behind it, two more Stages | 355,826 | exit statuses, contract, nothing left whose removal was not tried, termination, `RunPromise` |
| `dispatch_claim` | three dispatches, symmetric | 491,744 | mutual exclusion behind the claim, nothing replaced |
| `dispatch_cancel` | two dispatches | violation | [finding 2](#findings) |
| `pipeline` | `BuildConsole` under 27 selections of modes | 173,960 | the properties of a build, its termination, `RunPromise`; the checker accepts every console, only the final line corrects, the final line tells the colour |
| `pipeline_deadline` | four implemented adapters | violation | [finding 3](#findings) |
| `attempt` | two helpers, work limit 2, grace 1, 0 to 3 units of run time | 69,429 | nothing left behind, time limits, truthful verdict and exit status, event path, termination, `AttemptPromise` |
| `attempt_cancel` | the same | violation | [finding 4](#findings) |
| `adapters` | two services, four Stages with the cases of `MCStageAdapters` | 1,214,568 | nothing stays behind, reserves are kept, verdicts are earned, runs do not mix, discovery is traced, blueprints are grounded, every verdict is accepted but for the content of a file, termination |
| `composition_duplicates` | the same | violation | [finding 5](#findings) |
| `operations` | two runners, queue of two, two agents, two restores | 980,207 | maintenance works on what is idle, no archived credential is active on what a restore starts or has proved |

Why the bounds are enough. *Two signals*: GitHub sends SIGINT and then SIGTERM
before it kills, and the kill is an action of its own; the theorems hold for any
number. One handoff, one queue item and one build are what an execution ID has, as
`_submit` never repeats. *Two and three dispatches*: a dispatch meets others only at the
claim file and at the bundle root, and every such meeting has a holder, a waiter and
one that has just lost its claim; the theorems hold for any set. In `dispatch` the
commit's first Stage may pass, be negative or fail, the fixture behind it is skipped by
the runtime or blocked, and so are the others; it has every kind of attempt, while the
order of all kinds over four Stages is what `pipeline` goes through, over the same
contract, and what `ContractAcceptsRuns` proves for any descriptors. One of the two
dispatches is in `Stubborn`: a removal that is refused concerns nobody but the dispatch
that made the directory. `dispatch_claim` uses a commit without adapters and removals
that succeed because its properties do not look into the chain or the directories, which
keeps three processes small; the theorems hold for any descriptors and any `Stubborn`.
*Modes*: `pipeline` takes 27 of the 81 assignments of implemented, fixture and not
implemented to the four Stages, chosen so that any three Stages have every choice; what
a Stage's attempt depends on, its own mode and whether an implemented or a fixture output
was accepted before it, comes in all its combinations. *Clock*: `RunLimit`
is the third of the three limits; nothing in the code compares any other time.
*Attempt*: a descendant matters by being there or not; two let one outlive
the other and be forked by it after the leader has gone. The run time left starts
below, at and above the work limit of 2, and 0 is the run that has expired on arrival;
a grace of 1 lets time pass inside it and at its end.

*Adapters*: a Stage treats services alike but for the ones it compares, and two are enough
for one to fail beside one that does not, and to share a topic or a host. The
limits of CD are the smallest its grant allows and a little more, so that every
deadline can cut every wait; the pods show every reason the code tells apart. The
image build meets every recipe and architecture for two placements, and a registry read
waits at most twice (`ReadWaits`), each wait with the timeout the read was given, which is
the least number that tells one timeout from the sum of several. Composition sees
every proposal of one or two services placed on an amd64 host, an arm64 host or none,
with coverage claims that may name a service twice, every pair of four simple proposals,
and repositories of three services that provide for each other in chains, cycles and
lists of two, under budgets from nothing to everything.
*Operations*: two runners, as the installation has at most (upstream and fork); a
second queued build and a second restore show that nothing depends on being the
first; two agents stand for five, since their secrets are written one after the
other by the same command. The one archive is of the installation before its loss: a
snapshot of a restored one would hold the credentials of a restore in the place of the
first ones, and nothing would tell the two apart.

*Consoles*: a console is as long as its build, at most 22 lines, and `pipeline` looks at
it after every line.

Types are proved (`TypeCorrect`), and so are the order of the Stages of a build
(`StagesOnce`), the one submission of a handoff (`OneSubmission`), the safety of an
earlier bundle (`EarlierBundleIsSafe`) and the quiet in which a candidate is read
(`ReadsInQuiet`); they are not listed in the runs again.

`CHECK_DEADLOCK` is off in `adapters` only, where the attempt simply ends and its
world with it. Elsewhere it stays on: the terminal states of the models stutter by an
explicit disjunct, so a state from which the code could do nothing is reported. Nothing
of `operations` ends: there is always a command to run or a job to assign.

## Fairness

- `Handoff`: weak fairness of the client's own step and of the deadline of the queue
  wait. The client is one thread that is never blocked longer than the timeout it
  passes to every wait (`_JenkinsClient.remaining`). Jenkins and the network get none.
- `LocalDispatch`: weak fairness of each process's step. No process waits for another:
  a claimed root is refused, not awaited, and an adapter is stopped at its limit.
- `PipelineRun`: weak fairness of the clock and of the two timeout steps, which
  Jenkins' timer triggers. Nodes, checkouts, adapters, stashes and archives get none;
  the build must end without them.
- `StageRuntime`: weak fairness of the command's step and of time. The adapter gets
  none: it may run for ever, ignore SIGTERM and leave helpers that do the same.
  Processes that have been sent SIGKILL die in the action that sends it.
- `StageAdapters`: weak fairness of the body's own step and of the shell's. Each call of
  a body carries a timeout (`kubectl` its own, the registry reads theirs, the engine
  its client's, the provider its request's), so the process is never blocked for good.
  Pods, build clients, containers and providers get none.
- `BuildConsole`: the fairness of `PipelineRun`; printing gets none.
- `Recovery`: no liveness is stated, and no fairness.

## Theorems

TLC checks the instances above; the proof modules prove, for every value of the
constants (any number of signals, any set of dispatches, any set of descriptors, any
set of helpers, any limits, any sets of runners and agents and any number of restores, any
services, hosts, descriptions, topics and inputs of the adapters):

- `HandoffProofs`: `TypeCorrect`, `ReceiptGrows`, `WrittenAhead`, `OneSubmission`,
  `ReceiptIsTrue`, `BundleExplained`, `ExitAgrees`, `CancellationAsked`, `PromiseKept`.
- `LocalDispatchProofs`: `TypeCorrect`, `OneDispatcher`, `ContractAcceptsRuns`,
  `ExitIsTrue`, `NothingLeftBehind`, `EarlierBundleIsSafe`, `NoReplacement`,
  `PromiseKept`.
- `PipelineRunProofs`: `TypeCorrect`, `StagesOnce`, `FinalizationPossible`,
  `SkipsTrue`, `GreenIsProved`, `PromiseKept`.
- `StageRuntimeProofs`: `TypeCorrect`, `LeavesNothing`, `ReadsInQuiet`, `Bounded`,
  `TellsTheTruth`, `ExitAgrees`, `EventsOnPath`, `PromiseKept`.
- `StageAdaptersProofs`: `AdaptersAlways`, `OneRunAtATime`, `EverythingIsTakenDown`,
  `ReservesAlwaysKept`, `VerdictAlwaysEarned`, `DiscoveryAlwaysTraced`,
  `BlueprintAlwaysGrounded`, `VerdictsAlwaysAccepted`.
- `RecoveryProofs`: `TypeCorrect`, `MaintenanceSafe`, `CredentialsSafe`.
- `BuildConsoleProofs`: `PrintingChangesNothing`, `ConsoleTypeCorrect`, `FinalLineTrue`,
  `ConsolesConform`, `OnlyTheEndCorrects`.

Assumptions: `MaxSignals` is a natural number; `Descriptors` is a non-empty set of
assignments of modes to Stages; the set of dispatches does not contain the two names
reserved for "nobody" and "an earlier run"; `WorkLimit`, `Grace`, `RunBudget`,
`MaxQueue` and `MaxRestores` are natural numbers. Of the adapters: there are services, finitely
many; "none" is no host; the sim and the orchestrator are no services, as the engine
knows each container by an identity of its own; the topics of the sim are topics; the
times are natural numbers, CD's work limit is at least the minimum its grant requires
(`CdTimes`), and the grace for the clients and the time to publish fit into
`DEADLINE_RESERVE_SECONDS`, as the code's constants do (`BuildTimes`); `TOP_K` is a natural number; and the inputs of an attempt are
ones the contracts of `StageDocuments` allow (`CasesAreInputs`). The image build's
reserve is stated of limits that leave time for asking the services at all, which is the
condition of `BuildKeepsItsTime` itself.

The arguments. None of these invariants is inductive alone. Each family has an `IInv`,
a conjunction of named parts; the proof modules show that it holds initially and
is kept by every action, one lemma for each part and one step for each group of
actions. The runs list the properties, which follow from it, and not `IInv` itself.

- *Handoff.* The receipt's file is explained through the document in memory
  (`FileInv`), which is itself only partly changed at known places of `op`, and after a
  write that was refused is either of the two;
  `AheadInv` ties requests in flight to the phase on disk, `QueueInv` and
  `TruthInv` tie references to Jenkins' state, `VerdictInv` ties the verdict to what
  was retrieved. `BundleInv` follows a bundle from the archive over the client to the
  published path and says which terminal record may still be written at each place;
  `ExitInv` ties the exit status to the document that was persisted last, `AskedInv` the
  cancelled record to the request made before it, or to the outer limit that kept the
  client from making it. Each of them must speak of `doc` as
  well as of `disk`, as what will be on disk is decided a step earlier.
- *Local dispatch.* `ClaimInv` says who owns the claim, separately for those who have
  made it and those who remember it. `ChainInv` says that each prefix of the chain
  could begin a valid result; the lemma `AppendValid` of `StageAttemptsProofs` shows
  that an attempt the runtime may produce, or a blocked skip, keeps that true.
  `OutcomeInv`, `TidyInv` and `SeenInv` carry what each process has acquired, what it
  is about to report and what it saw before it started.
- *Pipeline run.* `AcceptedInv` is the same idea for the accepted attempts, with the
  addition that only the last one may block. `LoopInv` says why the loop was left,
  `AgentInv` and `LaunchInv` which adapters may have run, `BundleInv` that the
  assembled result is `Completed`. The lemma `CompletedValid` shows that accepted
  attempts, completed with a deadline skip and blocked skips, are always valid.
- *Attempt runtime.* `GroupInv` says at which statements the leader must exist, be
  known and have been reaped. `ClockInv` ties the age and the remaining run time to the
  limit in force; it is what makes a late verdict true. `VerdictInv` carries the
  verdict, true and with the group gone (`Settled`), from where it is taken to the
  published attempt. `AttemptInv` and `FilesInv` say who may still be held
  responsible for the attempt root and for the two directories. `EventsInv` says for each
  place which prefix of which path has been printed: before the verdict every path that
  can still be taken begins with it, after it the one path of the verdict does.
- *Adapters.* `AdaptersInv` has a part for the shell (`KitInv`: who leaves an exit status,
  and that nothing is published before), one for the inputs, and one for each adapter;
  an attempt is of one Stage, so the steps of one adapter cannot disturb the others' parts.
  `CdTimeInv` gives for each place of the deploy the latest time at which the rest still
  fits (`Fits`); `NamespaceInv` and `PodsInv` carry a namespace to its delete and a
  judgement to the window that earned it. `ClientsInv` keeps every running client pending
  until it is stopped, which the two calls of `_stop` rest on; `BuildTimeInv` bounds the
  time at each place of the image build (`BuildFits`); `RecordsInv` ties a record to what
  its client pushed. `ContainersInv` says that at most one start can still come late, and
  only after it ended the run; `AliveInv` (`Observed`) that a service found running after
  the orchestrator's exit ran at it. `DiscoveryInv` is the classical invariant of a
  worklist: every reference of a selected service is settled for good or on the agenda,
  and what is over the budget is never selected after all. `BlueprintInv` says that what
  is composed is the assessed answer. `AcceptedInv` says that every verdict an adapter has
  taken, and every one CD and CV keep until their teardown is over, is acceptable to the
  runtime, though nothing in the adapter compares it with these rules; the lemmas before
  it (`DeploymentIsAcceptable`, `RecordedIsAcceptable`, `ValidationIsAcceptable`,
  `PreferredIsAcceptable`, `RejectionIsAcceptable`, `FailureIsAcceptable`) take one kind of
  verdict each.
- *Stack and recovery.* `QuietInv` says what a command has established at each of its
  steps (the runners stopped, then the queue read empty, then no build found) and why it
  stays true: a quiet Jenkins starts nothing, and without a runner nothing is queued.
  `EndedInv` keeps that for a command that has ended, `ArchiveInv` carries it into the
  archive and the restored volume. `StagingInv` says that the staging stack runs only on
  a volume without tokens and with the key of this attempt. `TargetInv` follows that key
  through the secret files of the agents to the target, which is `Clean` from its start
  on, and as long as it is `restored`: a start makes a key only where there is none, and
  nothing else outside a restore touches one of the three. `RestoreIsLast` names the time
  from a restore's start of its target to the next command, in which nothing is proved yet.
- *Pipeline events.* `ConsoleInv` is the build's `IInv` with three parts. `WhysInv` says
  that each accepted attempt has a Reason that belongs to how it ended, `FinalLineInv`
  that the final line is the row of the assembled result and was printed before the build
  can be green. About that one row: a result of a
  build either passed in every Stage or has one Stage that is broken, with only passed
  Stages before it and only skipped ones behind it (`ResultShape`); a row of the first
  kind shows no red (`GreenRow`), and a row of the second kind shows the colour of the
  result (`BrokenRow`), because no Stage behind the broken one gives a reason.
  `ShapeInv` is the shape of a whole console, and each of its parts needs the others.
  `RowsInv` ties a line of a Stage to the attempts that are accepted *now* (`Told`): the
  printer of that line knew fewer of them, and what it said of its own end was about an
  attempt that was not accepted yet. `OrderInv` orders the lines; `GroupsInv` puts every
  accepted Stage at the end of a path and the Stage that is due on the way along one,
  which is how the checker groups them. `ProcessInv` ties the last line to the place of the
  process, and carries the told end over the stash, which is where the attempt becomes
  accepted and `RowsInv` must hold of it. A line that is printed extends the group of its
  Stage by a step of some path (`PathGrows`, `GroupGrows`, `LineInGroups`); one lemma for
  each rule of the checker then follows from the shape alone (`LinesConform`,
  `GroupsConform`, `SequencesConform`, `FinalsConform`). For these proofs the rule about paths
  (`PathsConform`) is stated by contiguous groups, as `_add_to_group` builds them, and
  not by selecting the lines of a Stage with a recursive operator.

Only model-checked: `HandoffEnds`, `DispatchesEnd`, `BuildEnds`, `CommandEnds` and
`AdapterEnds`: liveness under fairness is outside the prover. Every other property of a
passing run is stated by a theorem.

## Findings

1. **A signal inside the receipt writer leaves the receipt open**
   (`_jenkins_handoff.py:233`). Between the append of `queued` and the addition of the
   queue reference the document is invalid; the cancellation handler asks Jenkins to
   cancel, then fails to write its own record and the command ends with status 2.
2. **A cancelled dispatch removes another dispatch's bundle** (`_cli.py:828`). The
   bundle root is removed if it was absent at the start, whoever made it since.
3. **A deadline skip may stand for a Stage that worked** (`_jenkins_pipeline.py:446`).
   Its summary says that the deadline expired before Stage work; the scheduling
   timeout can interrupt the Stage after its adapter was launched, or even while the
   finished attempt is being stashed.
4. **A cancellation may leave descendants of an adapter that has ended**
   (`_stage_runtime.py:1699`). The reference says that cancellation "immediately
   terminates the active adapter process tree". Outside `process.wait` the handler
   does so only while the adapter's first process runs; a signal between that
   process's end and the end of the grace leaves its descendants working.

5. **A preferred proposal that cites a service twice is never published**
   (`_composition_adapter.py:155`). The reference promises that the adapter "publishes
   the preferred proposal as the composition blueprint". The assessment compares sets of
   services, the blueprint's contract refuses a repeated one, and the adapter leaves with
   an exception: a failed execution, without the evidence a rejection would have had.

Eight sentences of the documentation say more than the code does, in a way no run is
needed to see: the CD adapter "waits for each pod to run, and then waits a 60 s settle
window" (`integration/README.md:360-361`), but pods Kubernetes complains about count as
settled (`_settled`), so a pod may start in the middle of the window and be `deployed`
after less than 60 s; it "deletes the namespace on every path"
(`integration/README.md:364-365`), but a create that was cut off may be handled after
the delete; and `reconcile-agent` "resumes Jenkins after replacement or failure"
(`deployment/jenkins/README.md:659`), but leaves it quiet when work arrived meanwhile or
could not be looked at (`bin/stack:906-909`); and reads of the registry "may run past
the deadline, but never into the cancel grace" (`_image_build_adapter.py:394`), but the
timeout of a read bounds each of its waits for bytes and not their sum, so a slow
registry can hold it for several of them; on cancellation the handoff "asks Jenkins to
cancel only its correlated queue item or exact build"
(`docs/pipeline-integration-trigger.md:214-215`), but once the outer limit of the job
has passed its request is refused by the client itself (`_jenkins_handoff.py:476`), the
refusal is swallowed (`1177`) and the cancelled receipt is written over a build nobody
was asked to stop; a cancelled local command "removes attempt-local and bundle staging
state" (`integration/README.md:587-588`), but with errors ignored
(`_local_dispatch.py:168-170`), so what an adapter made read-only stays; the colour of a
build is the one `bundle-conclusion` derives (`integration/README.md:438`), but a status
of that command other than 0, 1 and 2 passes for green (`Jenkinsfile:312-333`); and
"archived controller and agent credentials therefore never become active on the target"
(`deployment/jenkins/README.md:612-613`), but `stack start` looks neither at the volume
nor at how a restore ended, so after one that failed or was killed between its
extraction (`bin/recovery:400`) and the installed key (`404-408`) it brings up a Jenkins
with the archived key, and with the archived tokens if they had not been removed. That
last one is reachable in the model: stated of every lost installation whose controller
is up, and not only of what a restore starts or has proved, the first part of
`CredentialsAreReplaced` fails. `DeployedIsEarned`, `NamespaceIsDeleted`,
`CommandsAreWhole`, `BuildKeepsItsTime`, `CancellationWasAsked`,
`UncancelledLeavesNothing`, `GreenBuildIsProved` and `CredentialsAreReplaced` state what
does hold.

## What is not modelled

Reasons are listed per component in `PROJECT.json`. In short:

- parsing and validation of committed files, file generation, images and compose files
  have no interleaving to explore;
- the contents of candidates, prompts, simulations, manifests and logs are data the
  control branches on only through what the modules keep of them; digests, provenance
  and the timestamps of `_result_contracts.py:258-280` are left out, and so is the
  clock that steps back between two attempts;
- the GitHub summary and the dispatch of the S-04 fixtures are sequential programs
  without state beyond one pass over their input;
- of the pipeline events, the consoles of `dispatch-local` and of `execute-stage`, each
  printed by one process that knows all it has printed; the fields a row copies from result files, its message and
  bytes, the golden files, and the reports of adapters, which no adapter sends yet
  (`live_items=()` in `_pipeline_event_printer.py:51`);
- of the stack, the image builds of `start`, `register-runner` and the credential
  commands; of recovery, `verify` and the digests of an archive;
- a process that leaves the adapter's session with `setsid` is outside the group the
  code looks at, hence outside the model;
- an archive the orchestrator's container sends that `tarfile` cannot read, and an engine
  that keeps a connection silent for the client's whole 600 s: the first is an exception
  like those the models have, the second lets CV's teardown overrun its reserve, for which
  no property is stated;
- a snapshot of an installation that was restored or started after a loss.

A signal between `Popen` and the assignment of its result leaves the adapter running and
unknown; the model has that step, and the properties that exclude living processes are
stated of commands that no signal ended, or of published attempts.

## Plan

Done: the handoff; contracts, local dispatch and the abstract run; the pipeline run; the
attempt runtime; the four adapters with their documents and the rules their candidates
are captured by; stack and recovery; the pipeline events of a build and their checker. What is left, in
this order:

1. `Handoff` composed with `PipelineRun` in place of its abstract Jenkins: what a
   receipt of a red or aborted build with an archived bundle may say.
2. The consoles of a local run and of a single Stage, and the reports of adapters once an
   adapter sends them.
3. The GitHub summary as an operator on receipt and bundle.
