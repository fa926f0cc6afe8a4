# A verification development for verjson-github-runner

The repository builds, releases, deploys and runs self-hosted GitHub Actions
runners. This directory holds TLA+ specifications of its stateful parts, the
TLC configurations that check them on small instances, and theorems about them
with proofs checked by TLAPS. `PROJECT.json` is the machine-readable index: which
definition stands for which lines, which run checks which property, which
hazards of the code each property is aimed at.

## 1. Inventory

| Component | Source | State it keeps | Hard behaviour | Status |
|---|---|---|---|---|
| Deployment controller and receipts | `scripts/container_deployment_controller.py`, `scripts/container_deployment_preflight.py` | append-only receipt revisions of one attempt, the admitted plan, the retained copy of both | a rollout over several hosts in several jobs: crashes between a host change and its record, CLI timeouts, stale evidence, resume, reconcile, rollback | modelled |
| Deployment authorization | preflight 36-118, `container_deployment_review_producer.py` | none | pure checks of one document | not modelled |
| Host transport and probe broker | `scripts/container_deployment_transport.py` | an intent record per dispatch, an API budget | a dispatch whose answer is lost, runs that are listed late, polling against a deadline and a budget, crashes between the files and the dispatch | the probe operation is modelled |
| Evidence and probe adapters | `scripts/runner-deployment-evidence.py`, `-probe.py` | none | their answers are inputs of the controller | environment of the controller model |
| Runner container lifecycle | `entrypoint.sh` | the one-use PAT pipe, the work-root lock, the job container, the registration | signals while a container is being created, killed supervisors, two runners on one work root, de-registration on stop | modelled |
| PAT launchers | `app/internal/dockerx/dockerx.go`, `setup.sh` | a FIFO in a private directory | two processes that wait for each other in `open`, a deadline, interrupts | `Run`, `deliverPAT` and the launch loop are modelled |
| GHCR retention | `scripts/ghcr_retention.py` | a chain of observations of the registry's versions | a version is a candidate only when it is unreachable now and an unbroken chain of observations has seen it untagged for 30 days; runs fail, are rerun, come from other branches | modelled |
| Release promotion | `container_release_promotion.py`, `release-reconcile.sh` and helpers | none: they build a manifest from a candidate and the registry's state | the promotion itself, with its retries, is a workflow of another repository | not modelled |
| Changelog tooling | `changelog.py` and shell helpers | fragments, snapshots and the aggregate in the working tree; a lock, the index, the branch and its tags | a release of eight steps that may stop at any of them, races of two releases, pull requests in between | `release`, `next-version` and `check-pr` are modelled |
| Manager application | the rest of `app/` | none beyond a screen | none | not modelled |
| Installers, image contracts, GitLab configuration, workflows | see `PROJECT.json` | none | pure I/O and configuration | not modelled |

What makes each stateful component correct:

* **Controller** - canary first; at most one unproved host; a receipt never
  disagrees with a host it is not working on; capacity never falls below the
  floor; the run that admitted an attempt can take it to a verdict.
* **Broker** - at most one dispatched probe per intent, and an answer is taken
  only from the run that was dispatched.
* **Runner lifecycle** - one job per container and one token per job, no
  generation beside a live one, receipts that are true, one runner per work root,
  nothing schedulable that was not proved, no credential in a job's reach.
* **PAT launchers** - a PAT is read once and its path destroyed; a launcher ends,
  and leaves no container that waits for a PAT nobody writes.
* **Retention** - nothing reachable is ever a candidate, and nothing whose 30 days
  untagged are not covered by an unbroken chain of observations; nothing so
  covered is left out.
* **Changelog** - no fragment is lost or released twice, a version follows from its
  fragments, a tag names the commit of its release, and what a tag has never changes.

## 2. Modules

`DeploymentReceipt` - the data: transitions, receipts, `NextRevision`
(`_next_revision`), `AdmittedReceipt`, and `ValidReceipt`, the acceptance test of
`validate_receipt`. Runners are numbered in the plan's order (the canary is 1),
so the code's list of transitions is a function of the runner.

`DeploymentController` - the actors: one controller job at a time, the hosts, the
authority that retains receipts. One action per command step:

| Code | Actions |
|---|---|
| `collect-evidence` | `Collect` |
| `plan` + `admit` | `Deploy`, `Rollback`, `Resume` |
| `execute` up to the step loop | `Execute` |
| capacity check, CLI update, post-update export | `CapacityFree`, `CapacityShort`, `UpdateStarts`, `UpdateRefused`, `UpdateReturns`, `UpdateInterrupted`, `UpdateVerified`, `UpdateUnverified` |
| representative probe, canary observation, end | `ProbePasses`, `ProbeFails`, `ObservationEnds`, `ObservationInterrupted`, `Finish` |
| `reconcile` | `Reconcile` |
| workflow, hosts, failures (environment) | `Upload`, `JobEnds`, `Crash`, `JobLost`, `HostStops`, `HostReturns` |

Every place where the code can be killed between two effects is a state: between
the capacity check and the CLI, between the CLI's replacement of the container
and the revision that records it, between the probe and its revision. `Record`
is the one way a revision is written and contains the preflight that `persist`
runs: a refused revision leaves the command dead (`pc = "refused"`).
`authorized` says whether the job's authorization is the one the plan was built
with, by whose digest `execute_plan` refuses (1193-1195). It is in the job that
admitted the plan; in a job that resumes it may or may not be, since an
authorization names its workflow run (1945-1952).

`SequentialRollout` - the abstract specification, four variables and no receipts:
an attempt starts from the fleet there is and moves hosts in order, each after
the ones before it are proved and the canary was observed.

`DeploymentInvariants` - the inductive invariant `RolloutInv`, in named parts.

`MCDeploymentController` - model values, symmetry and the fault sets of the runs.

`DeploymentControllerProofs`, `DeploymentRolloutProofs` - the theorems.

`RunnerRegistration` - the persistent path of `entrypoint.sh`, for several
runners that share disks and names. A runner is two processes, the shell and
`run.sh`, because the lock of the work root is inherited and outlives the shell.

| Code | Actions |
|---|---|
| `main` up to the claim (capacity, bridge, PAT) | `Start`, `Admit` |
| `claim_work_root` | `Claim` |
| `attest_runner_labels`, `resolve_token`, `config.sh` | `AttestLabels`, `ResolveToken`, `Register` |
| `unset ...`, then `./run.sh & wait` | `UnsetCredentials`, `Listen`, `ListenerEnds` |
| the trap and `cleanup` | `Stop`, `Trap`, `Cleanup` |
| environment | `ShellDies`, `JobStarts`, `JobEnds` |

`EphemeralSupervisor` - `supervise_ephemeral` with its trap, the Docker client in
the background, the daemon, the job container and the operator who kills and
launches the controller. Between the client's requests and what the daemon does
with them everything may happen.

| Code | Actions |
|---|---|
| the loop up to `docker run` | `Sweep`, `Admit`, `Mint`, `AttestMetadata`, `StartChild` |
| `wait` to the bound | `ClientReturns`, `RemoveAfter`, `Inspect` |
| SIGTERM, `stop_ephemeral_child` | `Stop`, `StopChild`, `RemoveStopped`, `Verify`, `Exit` |
| launching and removing the controller (`dockerx.Run`, `Remove`) | `Launch`, `Kill` |
| the daemon | `DaemonCreates`, `DaemonStarts`, `DaemonRefuses`, `AutoRemove`, `DaemonGoes`, `DaemonReturns` |
| the child | `ChildBoots`, `JobEnds` |

Bash runs a trap at once in `wait` and otherwise when the foreground command
ends: `stopping` is a signal that waits, and `Goto` the point where it is
handled.

`SerialJobs` - the abstract specification: containers live one after the other,
each once, in the order in which they were asked for.

`SupervisorInvariants`, `EphemeralSupervisorProofs`, `RunnerRegistrationProofs` -
the inductive invariants and the theorems.

`PatDelivery` - two launchers, `gha` and `setup`, and the container up to
`consume_github_pat`, with the rules of `open` on a FIFO as guards.

| Code | Actions |
|---|---|
| `Run` / the loop of `setup.sh` | `Launch`, `RunContainer`, `CleanUp`, `Abort` |
| `deliverPATWithin` / `printf >fifo` | `OpenFifo`, `Deadline`, `WritePat`, `Interrupt` |
| `main` up to the PAT | `AttestHost` |
| `consume_github_pat` | `OpenReturns`, `ReadPat`, `ReadInterrupted`, `UnlinkFifo` |
| environment | `ContainerDies` |

`MCRunnerRegistration`, `MCEphemeralSupervisor`, `MCPatDelivery` - instances;
`PatDeliveryProofs` - the theorems of the delivery.

`RetentionGraph` - the manifests' edges and what the planner's worklist reaches
(`Reachable`, a recursive function on the states of the worklist), with the
reference definition `Held`: the least set that holds the tagged versions and is
closed under the edges.

`RetentionChain` - the weekly workflow around `ghcr_retention.py`, one job at a time
over a registry that others change between any two steps. A plan stands for its
bytes, its hash and its artifact; plans form a log and refer to each other by place.

| Code | Actions |
|---|---|
| `ghcr-retention.yml`: trigger, rerun, concurrency group | `Trigger`, `Rerun` |
| `inventory` and `prior-evidence` | `PriorEvidence`, `NoPriorEvidence`, `PriorEvidenceLost` |
| `plan` (`verified_prior_observations`, `build_plan`) and its upload | `Plan` |
| `preview` (`build_deletion_preview`) | `Preview` |
| a command that exits with an error, a step that fails | `Refuse`, `Fail` |
| clock and registry (environment) | `Tick`, `Retag`, `Delete`, `Push` |

`ProbeDispatch` - the probe operation of `container_deployment_transport.py` for one
request: any number of calls, on one output path or several, and GitHub's list of runs.

| Code | Actions |
|---|---|
| `main` up to `probe_runner` | `Start` |
| `complete_workflow_runs` and the baseline | `Baseline` |
| `persist_record` of the intent: file, then sync | `RecordIntent`, `SyncIntent` |
| the dispatch and the polling loop | `Dispatch`, `Poll` |
| job, artifact and `validate_probe_receipt` | `FetchReceipt` |
| `persist_record` of the result | `RecordResult`, `SyncResult` |
| a failed requirement or request, a killed process | `Fail` |
| GitHub, clock, host (environment) | `ForeignRun`, `Show`, `Conclude`, `Rerun`, `Tick`, `HostCrash` |

`DispatchLedger` - the abstract specification of it: an output is entered, then
dispatches once, then has the answer that all outputs have; no entry is taken back.

`ChangelogPolicy` - what `changelog.py` decides without changing anything: the next
version and `check_pr`. `ReleaseLedger` - the release command in one clone:

| Code | Actions |
|---|---|
| `next_version`, then `release` up to the lock | `Start`, `CheckStatus`, `Lock` |
| checks, snapshot, unlinks, aggregate | `Select`, `WriteSnapshot`, `Unlink`, `WriteAggregate` |
| `git add`, `commit`, `tag` and the end of the lock | `Add`, `Commit`, `Tag` |
| an error or a death anywhere | `Quit` |
| a merged pull request | `PullRequest` (`Merge` of a `Replace`, `Permit` or `Move`) |
| `git reset --hard`, `git clean` (environment) | `Restore` |

`MCRetentionChain`, `MCProbeDispatch`, `MCReleaseLedger` - instances;
`RetentionChainProofs`, `ProbeDispatchProofs`, `ReleaseLedgerProofs` - theorems.

### Abstractions

* A release stands for its manifest digest, image digest and identity; every
  comparison of those fields in the code is a comparison of releases.
* Timestamps, request age (`MAX_REQUEST_AGE_SECONDS`) and the content of the
  authorization document do not appear: a request that fails those checks does
  nothing. Whether the document is still the plan's is `authorized`.
* Revision numbers, digests and files are left out. The chain checks
  (`validate_receipt_chain`, `_restore_receipts`) then say that the retained
  receipt is the latest uploaded one, which is what `retained` is.
* The CLI of the deployment tool is external: when it returns, the host runs the
  selected release; when it fails, is timed out or its caller dies, the host may
  or may not have moved and may or may not be up. It has no effect later.
* Only one controller job runs at a time: the workflow's concurrency group and
  `activeDeploymentCount` (controller 692).
* Hosts are changed by nobody but the controller. They may stop and come back.
* A work root is the pair of a directory and a work folder, or an absolute
  folder alone; two different values are two places. Nobody deletes lock files.
* GitHub's registration is a function from names to runners; `config.sh` changes
  it or fails. `RUNNER_FRESH_CONTAINER` and the child's one-job registration
  belong to `EphemeralSupervisor`, the rest of the child to `RunnerRegistration`.
* A signal before the traps are set is ignored by the first process of a
  container, and kills a bare shell like any other death.
* Docker, flock, FIFOs and Bash's signal handling are external and modelled by
  their documented behaviour. A docker client loses its requests when it is told
  so, and when it dies they are carried out or dropped.
* A child container is the one of the job name: the daemon has at most one, and
  refuses to create a second.
* Time has no length in these modules: a deadline passes, an inspect loop ends, at
  some point. `RetentionChain` and `ProbeDispatch` have a clock.
* Retention: a version's digest, its id and what its manifest says stand for
  themselves; the same digest pushed again is a new id. The checks of archives and hashes say
  that a plan which is read is one that was uploaded. The planner's clock is the
  registry's.
* Probe: the pages of one inventory must name the same total, and a list that only
  grows then did not change between them, so an inventory is one step. What becomes
  of foreign runs does not matter. The clocks of a call, its host and GitHub agree.
  A file is new, written, and then synced; a crash of the host loses or keeps what
  was not synced.
* Changelog: a fragment is its identity, which no other fragment takes again; a
  snapshot is the set of its fragments. One release stream. While a release holds
  the lock nobody else works in the clone; between releases it may be reset.

## 3. Runs

| Run | Instance | Question |
|---|---|---|
| `rollout` | 3 hosts, 2 releases, every fault, symmetric releases | type invariant, `CanaryFirst`, `BlastRadius`, `ActsOnTruth`, `SucceededMeansDeployed`, `NeverRefused`, `NoSecondUpdate`, and the refinement `FollowsPlan` |
| `progress` | 2 hosts, 1 of them required, crashes, CLI failures and interrupted observations, fairness | `DeployStops`, `CapacityFloor` |
| `rollback_restores` | 2 hosts, no failure at all, fairness | `RollbackRestores`: violated, see below |
| `registration` | 2 runners, 2 names, 2 directories, contained or bare, every fault, fairness | `OneRunnerPerRoot`, `NoCredentialBesideJobs`, `SchedulableIsReady`, `StopEnds` |
| `shared_absolute_root` | 2 containers with one absolute work folder, no fault | `OneRunnerPerRoot`: violated |
| `compose_down` | 1 container, no fault, fairness | `StopDeregisters`: violated |
| `supervisor` | 2 lives of 2 jobs, every fault, fairness | `OneTokenPerChild`, `JobBound`, `LoopReceiptTrue`, `StopIsClean`, `AloneAtStart`, `ControllerEnds`, and the refinement `JobsAreSerial` |
| `pat_delivery` | both launchers, 3 launches, every fault, fairness | `NoWaiterLeft`, `PatIsGone`, `LaunchEnds`, `WaiterServed` |
| `retention` | 3 versions of which an index wraps an attestation of an image; 3 runs, 2 disturbances | `CandidateWasWatched`, `WatchedIsCandidate`, `ProtectedIsHeld`, `ChainNeverForks` |
| `probe` | 2 calls, 2 outputs, 3 runs with 2 attempts, crashes | `DispatchIsOnRecord`, `ResultIsTheProbe`, `AnswersAgree`, `PollIsAffordable`, and the refinement `KeepsLedger` |
| `changelog` | 2 releases at once, 3 fragments of two impacts, 4 commits, 1 death | type invariant with mutual exclusion, `NothingLost`, `ReleasedOnce`, `VersionFollows`, `TagIsRelease`, `TaggedStays` |
| `pr_consumption` | 1 releaser, 3 fragments, 3 commits, no death | `PullRequestsConsumeNothing`: violated |

The type invariants of the other modules, `OneDispatchPerOutput` (which `KeepsLedger`
implies) and the inductive invariants are theorems and not checked again. There is one
run per instance, and the safety properties are checked of the same graph as the
liveness ones.

**Bounds.** Nothing in the deployment model counts, so the only bounds are the number of
hosts and of releases. `MAX_FLEET_SIZE` is 3 in the controller, so three hosts
are every shape of fleet it accepts but the smaller ones (and the theorems hold
for any number). Two releases are enough to deploy, fail, roll back and deploy
again; a host never runs a third in one attempt (`PlanShape`), and an attempt
reads nothing of the ones before it but the receipt a rollback names. Liveness
is checked with two hosts, the canary and one more, because strong fairness on
nine actions multiplies the graph; symmetry is not used there.
`CapacityFloor` is checked with it: in `rollout` hosts stop at any moment, and the
property is about the hosts a command found or left down. The `progress` run has
those that an interrupted update left down; the theorem has the rest.

The supervisor counts jobs, tokens and lives. `MaxJobs = 2` has a generation
that follows another in its life and one that ends it
(`ControllerEnds` asks that a signal ends the life before its next generation, so the
bound cannot stand in for the signal); two lives let a request of
the first be carried out at any point of the second. The safety
theorems hold for any number of both. One controller name is enough because
controllers share nothing but through it. In the registration runs two runners
can clash over everything that is claimed; nothing is a relation of three. Three
launches of a PAT delivery are one that fails, one after it and one after a
success.

In the retention run the allowed gap and the age floor are one unit of time each. A
candidate was first seen more than one unit ago, which two plans within the gap cannot
span: it needs three (in the code's days, four), and the runs and the clock allow just that. Two disturbances put a retag,
a rerun, a failure or a run off main anywhere in it; one graph has the edge the
code has to follow twice, from an image to its attestation to the index around it.
In the probe run two pages hold an inventory, the budget pays for two of those, and
three runs are one of each output and a foreign one. In the changelog run `feature`
is there at first, a minor change, and the patches `fix` and `chore` may come with pull
requests; four commits are the first, and any order of releases and pull requests after it. `CHECK_DEADLOCK FALSE` stands in these
configurations, in which the bounds of time, runs and commits end a behaviour.

**Fairness.** `FairSpec` of the deployment says that a workflow run repeats its commands, that
hosts come back, and that a step which is enabled again and again is eventually not
interrupted: crashes and timeouts do not hit every attempt at the same step. The
run is a reusable workflow of another repository, so the repetition is an
assumption about it, and what `DeployStops` shows is of the commands: they leave no
revision that a run with the plan's authorization cannot take further. It is
conditioned on `authorized`, and nothing is assumed of a later run, not even that
it resumes.

In the runner modules the fairness is that of processes: a shell takes its next
step (`ShellStep`, `SupervisorStep`), the daemon deals with a request, a job ends,
a daemon that went away comes back, a launcher and a container go on, a deadline
passes. Nothing assumes that an operator launches, a signal comes or a fault
happens; and `setup.sh` is given no deadline because it has none.

**What the violations show.**

*`rollback_restores`.* A deployment whose canary fails its probe leaves
the canary on the new release. The rollback of that attempt is planned and
admitted, and its selected *and* observed release are the baseline. The first
`execute` then runs `_validate_refreshed_fleet`, which admits only those two
releases on any host, and refuses the canary's. No command goes on from there:
a rollback can only run where nothing has to be rolled back. `DeployStops` is
therefore stated of deployments, and the safety properties of both.

*`shared_absolute_root`.* `claim_work_root` locks `$(pwd)/${RUNNER_WORKDIR}`, and
`config.sh --work` takes an absolute path as it is. Two runners with different
directories and one absolute `RUNNER_WORKDIR` hold two locks and work in one
root, which is the case the comment above the function describes.

*`compose_down`.* The credentials are unset before `run.sh` starts, so the
cleanup of a listening runner can only remove it locally; the README says that it
is cleanly de-registered. The two promises exclude each other:
`NoCredentialBesideJobs` holds for the same reason.

*`pr_consumption`.* Git reports a deleted fragment that resembles an added one as a
rename, and `check_pr` looks for deleted fragments only: a pull request that replaces a
fragment by a similar one consumes it, which the contract test says an ordinary pull
request cannot do.

**What the properties leave out**, because the code does not provide it:

* An attempt that its run leaves is not taken further by another: a later run may
  restore its receipts and reconcile them, but its authorization names the later
  run and `execute_plan` refuses it (1193-1195, 1945-1952). `evidenceCommand`, as
  installed, offers no retained plan in the first place, and no rollback source. Such
  a fleet waits for a new deployment, which needs all hosts on one release.
  `DeployStops` ends with the run (`~ authorized`).
* A child's removal is read off a failing `docker container inspect`, which fails
  too while the daemon does not answer. `AloneAtStart`, `LoopReceiptTrue` and
  `StopIsClean` speak of a daemon that answered since the sweep (`daemon = "up"`).
* The trap may look for its child before the daemon has created it, print
  `removed=true` and exit. The container comes into being after that, and is even
  started when its client lives long enough between the look and the exit.
  `StopIsClean` leaves this case out (`missed`). The next life's sweep removes such a
  child; without a next life it runs one job and ends.
* `setup.sh` has no deadline: a container that refuses its host never opens the
  FIFO, and `setup.sh` waits until it is interrupted. `LaunchEnds` is about `gha`.
* `gha` handles no interrupt: the container it started waits until the next
  launch. `WaiterServed` and `NoWaiterLeft` leave an interrupted `gha` out.
* Two outputs may each dispatch one probe, when each takes its baseline before the
  other's run is listed. `AnswersAgree` says that they cannot end with two answers, and
  `ResultIsTheProbe` says whose run a result names only where nobody else dispatched.
* `PollIsAffordable` is about the first poll. Forty requests are about 39
  polls of a small inventory, some 195 seconds, though a request may live 1800.
* A release that dies between its snapshot and its commit leaves both the snapshot
  and the fragments; the next release commits them with its own. `ReleasedOnce` and
  `VersionFollows` leave such clones out (`torn`), `NothingLost` and the tags do not.
* An index that loses its tag keeps its 30 days, while manifests that it lists, long
  observed as untagged, are candidates with the next plan. `CandidateWasWatched`
  allows that: it speaks of tags and not of reachability in the past.

## 4. Proofs

Constants: `N >= 2` hosts, any set of releases, any `MinAvailable` in `1 .. N-1`,
any subset of the faults; the absent values are distinct from what they stand
for. Nothing else is assumed. All theorems are of `Spec`, that is with every
interleaving and no fairness.

* `TypeCorrect` - `TypeOK` is inductive by itself; one lemma per helper that
  builds a receipt.
* `CapacityFloorHolds` - with `SpareInv`: from the capacity check to the start of
  the CLI, one more than the floor is up; cardinality lemmas of finite sets give
  the rest.
* `RolloutInvariant` - `RolloutInv` is inductive. The properties are not: that no
  other host moved before the canary soaked depends on the receipt's transitions
  being in the plan's order (`InOrder`), that on the completed set being read off
  the receipt (`WorksInOrder`), and after a lost job on the evidence of a job
  without receipts being as new as the fleet (`Presence`, `LocalTruth`). One lemma
  per action.
* `CanaryFirstHolds`, `BlastRadiusHolds`, `ActsOnTruthHolds`,
  `SucceededMeansDeployedHolds`, `NeverRefusedHolds` - consequences of it.
* `NoSecondUpdateHolds` - an action property, from the same invariant.
* `Refinement` - `Spec => FollowsPlan`: initial states map to initial states, and
  every action maps to a step of `SequentialRollout` or to a stutter.

Of `RunnerRegistration`, for any sets of runners, names, directories and
environments and every set of faults:

* `RegistrationInvariant` - the lock is held by exactly the processes that should
  hold it: a shell from its claim on and a listener for its life, and all holders
  of one file are one runner's. Inductive because `Claim` looks at holders, and
  an orphaned listener is one.
* `OneRunnerPerRootHolds` - needs that no environment has an absolute work folder;
  the violation above shows that it is needed.
* `NoCredentialBesideJobsHolds`, `SchedulableIsReadyHolds`.

Of `EphemeralSupervisor`, for any `MaxJobs`, any number of lives:

* `SupervisorInvariant` - `SupervisorInv`, in parts. `Numbered` and `Ordered`: a run
  is asked for, created and started at most once, and a container that can be
  started is newer than all that were. `Attached`: the client is the latest run,
  and withdraws its requests before the controller goes on. `Tokens`: a token is
  in one place. `Counted`: runs, base and completed agree. While the daemon is up
  since the sweep also `Quiet` (after the sweep, and after a look that missed
  nothing, nothing is alive or can come to life) and `Reported` (a reported generation is in nobody's hands).
* `OneTokenPerChildHolds`, `JobBoundHolds`, `LoopReceiptTrueHolds`,
  `StopIsCleanHolds`, `AloneAtStartHolds`, and the refinement `JobsAreSerialHolds` -
  all under every set of faults. A `docker rm -f` that fails is ignored by the
  code, and after an absence of the daemon a generation may be asked for beside a
  live one. The daemon then refuses it by its name, which is why `JobsAreSerial`
  needs no condition on the daemon.

Of `PatDelivery`, for any number of launches: `PatTypeCorrect`, `NoWaiterIsLeft` and
`ThePatIsGone`, from `PatInv`. Its `Phases` tie what a launcher and a container may
be doing to each other and to the FIFO (a container past the pipe belongs to a
launcher past it), and its `Lines` say where the one PAT is: unwritten, in the
pipe, or taken.

Of `RetentionChain`, for any finite set of versions, any graphs, ages, gaps and any number of runs:

* `RetentionTypeCorrect` - with `Shape`: the plans are a sequence, and an idle job holds
  nothing.
* `CandidatesAreWatched` - `Watched`: every version that a plan first observed at time
  t has a set of plans on main, none further from the next than the gap, from t or
  earlier to this plan, all of which saw it untagged; a plan off main starts with
  itself. A new plan adds itself to its predecessor's set, whatever runs failed or were repeated since. A candidate is the case
  where t lies beyond the floor.
* `ObservationsFormALine` - `Line`: a plan continues one of an earlier run, an attempt
  makes one plan at most, and the plan that a job would continue is still of the latest
  successful run when the job makes its own, because one job runs at a time. Two plans
  of one predecessor are then of two attempts, or of a run that failed, and a later run
  can select one of them at most (`Alive`).
* `EvidenceIsNotLost` - the converse of `CandidatesAreWatched`. GitHub hands out an id
  once, so no observation that is carried on is lifted by a later date of creation
  (`Seen`); a plan dates what it and its predecessor saw untagged no later than
  the predecessor did (`Continues`), and its candidates are what is old enough (`Judges`).
  The rest is induction over the line of plans.
* `WorklistFindsWhatIsHeld` - what the worklist of `build_plan` computes is the least set
  closed under `Holds`, in every complete graph. `Reachable` is a function on the states
  of the worklist (`Worklist`), and each `Turn` takes a pending version away or reaches a
  new one; that such a function exists and is the only one is proved and not assumed. It needs
  that `Versions` is finite (`FiniteVersions`): an inventory is a list that GitHub
  paginates. `PlansProtectWhatIsHeld` follows, so that `ProtectedIsHeld` holds in every
  graph and not only in the one of the run.
* `PreviewIsOfOwnPlan` - `build_deletion_preview` refuses a plan of another attempt, and one
  that protects a candidate; neither happens, however runs fail and are repeated.

Of `ProbeDispatch`, for any calls, outputs, limits and lifetimes, from `ProbeInv`:

* a call that has written its intent owns its output until it ends (`Alone`), and no
  run of that output exists before its dispatch (`CallOK`); every run found or
  recorded is in the inventory with the request's nonce, and an inventory with two
  of them answers nobody, so all `Answers` are one.
* `ProbeTypeCorrect`, `OneDispatch`, `DispatchRecorded`, `ResultsAreTheProbe`,
  `AnswersDoAgree` follow. `PollsAreAffordable` assumes that the budget pays for two
  inventories of the largest admitted size; the code's 40 requests pay for exactly
  two of 20 pages.
* `LedgerRefinement` - `Spec => KeepsLedger`: a crash may enter several outputs and
  answer several others in one step, and takes nothing back.

Of `ReleaseLedger`, for any fragments, impacts, releasers, commits and deaths:

* `LedgerHolds` - one process at most is past the lock (`LockOK`), and the tree and the
  index have what it has done so far (`StageOK`). `Covers` is what makes it
  inductive after deaths: whatever a dead release left, a fragment missing from the
  tree or the index is in a snapshot that the branch does not have yet, and tagged
  snapshots are there as they were tagged. `NothingIsLost`, `TagsAreReleases` and
  `TaggedIsImmutable` follow; a pull request spares what a tag has because
  `check_pr` looks for it under every tag.
* `OrderHolds` - where no release died halfway, also: the tree has what the branch
  has unless a release is at work (`Kept`), its selection was in `NEXT/` and makes its
  version (`Chosen`), and fragments of snapshots are neither in `NEXT/` nor new
  (`Moved`). `FragmentsReleasedOnce` and `VersionsFollow` follow: the version
  computed before the lock is compared again after it.
* `LedgerTypeCorrect` - a log is a finite set of snapshots, which is why a newest
  version exists and the version a process computes is one; it stays finite because a
  release adds one snapshot and a pull request can only take one away. `TypeOK` says too
  that one process at most is past the lock.
* `NextVersionIsNewest` - of every finite log and every selection. `VersionsAscend`
  follows with `AscendInv`: every release is newer than every snapshot of the branch it
  is made on. Unlike `VersionFollows` it has no condition on deaths: a process that
  holds the lock has compared its version with the tree, and no snapshot of the branch
  is missing from the tree.

**Induction.** The provers do not take the library's induction theorems, which have an
operator as a parameter. Where a proof needs induction (over the plans of a line, over
the states of a worklist) it takes a least counterexample instead, from the
well-foundedness of `<` on the naturals or of strict inclusion on the subsets of a
finite set (`WFMin` of the library), and refutes it.

Only model-checked: the properties that need fairness (`DeployStops`, `StopEnds`,
`ControllerEnds`, `LaunchEnds` and `WaiterServed`), which are beyond the prover. The
four violations are TLC's counterexamples on their instances. Every other property of
the runs is a theorem.

## 5. Not modelled, and what is left

* Receipt files, revision numbers and digests: `DeploymentController` retains one
  receipt, and the chain checks of `validate_receipt_chain` say that it is the latest.
* The manifest and host-export operations of the transport, the deployment
  authorization and its producer, release manifests and candidates: each reads one
  document and accepts or refuses it, without a state or a partner.
* The evidence and probe adapters, whose answers are inputs of the controller model.
* In `changelog.py` the text: metadata, rendering, legacy fragments, dependency files,
  and streams other than one.
* The manager application but for the delivery of the PAT, the installers, the
  GitLab configuration, the image contracts and the workflows themselves: input and output.

Left to do: liveness of the probe and of releases.
