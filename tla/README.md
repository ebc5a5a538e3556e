# A TLA+ model of aws-bench

aws-bench runs agents against real AWS accounts. An *environment* is a set of
*scenarios*; a scenario is deployed into one or more accounts, benchmark *trials*
run against those accounts, and what a trial leaves behind must be undone before
the next one starts. Nearly everything that can go wrong is about that promise:
who may use an account, and whether it really is back at its baseline.

This directory holds TLA+ specifications of the parts that keep the promise, the
TLC configurations that check them on small instances, and TLAPS proofs of what
matters most for every instance. Paths below are relative to `aws_bench/`.

1. [The system](#1-the-system)
2. [Plan](#2-plan)
3. [Modules and their code](#3-modules-and-their-code)
4. [Runs](#4-runs)
5. [Where the code and its documents disagree](#5-where-the-code-and-its-documents-disagree)
6. [Proofs](#6-proofs)
7. [What is assumed, and what is left out](#7-what-is-assumed-and-what-is-left-out)

## 1. The system

### Components, their state and their operations

| component | state | operations | what makes it correct |
|---|---|---|---|
| trial queue, `task/queue.py` | a readers-writer gate per scenario, the global semaphore, the attempt of each trial | admit, take a slot, retry, release, unwind a cancellation | a mutating trial is alone on its scenario; no hold, slot or wakeup is lost; every trial settles |
| benchmark trial, `task/aws_trial.py`, `task/aws_creds.py` | staged credential files and their refresher, placeholders, whether post_invoke ran and succeeded | refuse a flagged account, pre_invoke, agent, verifier, post_invoke, post-trial reset | credentials exist exactly during their phase; post_invoke runs once; a mutating trial that settled is followed by a reset |
| benchmark job, `task/job.py`, `cli/jobs.py` | job directory, trial results | verify the environment, run or resume the trials | trials start only on verified accounts; a resumed job repeats no finished trial |
| scenario trial, `scenario/trial.py` | one phase run: container, script result, per-account results, recorded exception | deploy, verify, reset, cleanup, each a script followed by resource management | results tell the truth; baselines and flags match the accounts |
| scenario job and queue, `scenario/job.py`, `scenario/queue.py` | the trials of an env command, retries | submit, run, cancel, aggregate | every scenario gets one final result |
| resource management facade, `resource_management/manager.py` | none | fan out reset, cleanup, verify and snapshot over accounts | one account's exception is that account's failed result |
| reset, `resource_management/reset/` | per region: new stacks, new resources, drifted stacks; deferred global resources; census | delete, restore, defer, verify, ask for a redeploy | never removes what the baseline lists; globals go only after every region; never a false success |
| snapshots, `resource_management/snapshot/` | PRE_SETUP and POST_SETUP baseline of each account | capture, load, validate, delete | a baseline describes the state it is named for |
| cleanup, `resource_management/cleanup/` | stacks, residuals, orphans, per region | sweep, delete stacks in phases, sweep globals, scan | "clean" only after a finished scan |
| stack deletion and service handlers, `cleanup/stack_deleter.py`, `cleanup/handlers/` | the deletion status of each stack, retained resources, deferred stacks | delete with retries, empty what blocks a stack | a stack is reported deleted only if it is gone |
| verification, `resource_management/verify/` | none | compare a scan with the baseline, detect drift, region by region | no false pass |
| storage, `resource_management/storage/`, `utils/locking.py` | objects with ETags; files with locks | save against the ETag last read, load, delete | a concurrent update is never overwritten |
| account management, `account_management/` | accounts of the organization, contamination flag, state file of preexisting accounts | create, tag, untag, allocate | flags are per account and survive the process |
| provisioning and quotas, `scenario/provisioning.py`, `resource_management/quota_manager.py` | two semaphores; quota requests | create, bootstrap, request quotas and wait | bounded concurrency; an account is never half-provisioned silently |
| credentials, `utils/credentials_provider.py`, `utils/bedrock_credentials.py` | cached sessions, refresh deadline | mint, refresh | never used after expiry |
| shutdown and executors, `utils/concurrent.py` | a process-wide event | request, poll, cancel pending work | blocking workers stop |
| fast scan, `resource_management/fastscan/` | none | list resources type by type and region by region | an incomplete scan says so |
| Cloud Control deletion, `resource_management/ccapi/` | progress of each resource | delete, poll | no resource is dropped from the result |
| container, `scenario/container.py` | started or not; credential files | build, start, exec, stop | does not outlive its run unnoticed |
| the rest: CLI, datasets, agents, metrics, logging, scenario parsing | | | parsing, display and adapters |

### How they interact

A job verifies every account, then submits its trials to the queue. A trial waits
for the gate of its scenario and for a slot, checks the contamination flag, and
runs. After a *mutating* trial settled, the benchmark trial runs a scenario trial's
RESET while it still holds the gate. An operator's `env setup`, `env verify`,
`env reset` and `env cleanup` run the same scenario trial. It runs the phase's
script in a container, then calls resource management, which works on the accounts
concurrently, against the baselines in storage; a reset then sets or clears the
flags that gate the next trial and the next deploy.

### What is hard

* **Concurrency**: trials of one scenario meet at the gate; cancellations arrive at
  any await; accounts and regions are reset at the same time.
* **Partial failure**: every step may fail for some accounts of a scenario only,
  and what follows has to judge the rest by the results.
* **State that outlives the process**: cloud, baselines and flags are all that the
  next command finds after a failed or cancelled run.
* **Retries**: trials, redeploys, flag updates.
* **Order**: flags against baselines, scripts against the framework, capture
  against orphans, the gate against the semaphore.

`PROJECT.json` lists the hazards one by one, each at the line where it bites.

## 2. Plan

Done, most important behaviour first:

1. **`AdmissionGate`** with the abstract `AccountAccess` it implements: who may use
   an account. Proved for any number of trials and scenarios.
2. **`ScenarioTrial`**: the lifecycle of a scenario's accounts over many runs. Proved for
   any accounts, scripts and number of redeploys.
3. **`AccountReset`**: one account's reset with its concurrent regions, the scans and
   checks of verification it relies on, and the pass over global resources. Proved for
   any regions, resources and stacks.
4. **`BenchmarkTrial`**: one trial with its credential files and their refresher,
   post_invoke, cancellation at any await and the reset that follows. Proved for any
   homes of the phases and kinds of cancellation.
5. **`StateStorage`** with the abstract `SnapshotRegister` it implements: baselines on
   S3 and in files, and the file of contamination flags, under crashes. Proved for any
   processes and contents.
6. **`StackDeletion`** and **`AccountCleanup`**, which composes it: one account's
   cleanup, region by region, with its barrier. Proved for any account.
7. **`BaselineCapture`**: the fast scan with its two levels of threads, deadlines and
   signals, and the baseline that comes of it. Proved for any regions and listers.
8. **`TestEnvironment`** and **`Provisioning`**, which composes it: an organization's
   accounts over runs of `env init` and `env terminate`. Proved for any pairs.

Next, in this order:

9. The multi-region verdict of `env verify`, against a reference definition; it shares
   its checks with `AccountReset`.
10. `AdmissionGate` composed with `BenchmarkTrial`, so that the reset is seen to happen
    inside the hold; `AccountCleanup` as a refinement of
    `ScenarioTrial!FrameworkCleanup`, and `AccountReset` of
    `ScenarioTrial!FrameworkReset`, of which `SuccessesAreExact` (section 6) is the core.
11. `ScenarioQueue` and `AccountPool`: env commands with retries, and preexisting
    accounts.
12. `CredentialCache`, `CloudControlDelete`, `Ledger`.

Every safety property of the passing runs is a theorem. Theorems to come are those that
join modules: items 9 and 10, step by step.

## 3. Modules and their code

### `AccountAccess`, `AdmissionGate`

`AccountAccess` states what an account is promised: any number of read-only trials
or one mutating trial. `AdmissionGate` is the queue.

| `AdmissionGate` | `task/queue.py` |
|---|---|
| `gates`, `gateOf` | `_gates` and the local `gate` of `_run_trial`; a gate is named by the trial whose `setdefault` created it, so that two gates for one scenario could exist if the code were wrong |
| `readers`, `writer` | `_readers`, `_writer_held` of each gate |
| `free`, `attempt` | the semaphore's value, the loop variable |
| `pc` | `submitted`, `parked` (in `wait_for`), `woken` (notified, not run yet), `admitted` (holds the gate, waits for the slot), `running`, settled as `done`, `raised` or `cancelled` |
| `Arrive`, `Recheck` | `setdefault` and `_acquire`, first test and re-test |
| `TakeSlot`, `Retry`, `Finish` | the semaphore, the retry loop, its end with `_release` |
| `Interrupt`, `CancelWaiting`, `CancelHolding` | Ctrl+C and the unwinding of each coroutine |

The process is one event loop. Nothing awaits while the Condition's lock is held, so
a test of the predicate and the update after it are one step; between a notification
and the woken trial's re-test anything may happen, which is why `woken` is a state.

### `ScenarioTrial`

One scenario, seen over any sequence of runs.

| `ScenarioTrial` | code |
|---|---|
| `cloud[a]` | what an account holds: its stacks, taken as one, drift of them, which may outlive a redeploy of the others, an orphan (a resource outside the stacks), a hidden change (one no scan sees and only the scripts undo) |
| `pre[a]`, `post[a]` | the PRE_SETUP and POST_SETUP baselines, with the drift found at the capture; `NoBaseline` when none is stored |
| `stale` | accounts whose stacks were created again after the baseline was captured: the physical ids differ |
| `flagged` | contamination flags of the account manager |
| `job` | a benchmark job has passed its verification and runs |
| `phase`, `pc`, `scriptFailed`, `outcome`, `attempts`, `pending`, `clearFailed` | the phase and the local variables of `run()`, `_run_reset`, `_redeploy_with_retry` and the loops over accounts |
| `error`, `cancelled`, `container` | `exception_info`, whether the run saw a cancellation, whether its container is up |
| `lost` | accounts whose flag could not be written; the code only logs it |

| actions | code |
|---|---|
| `EnvCommand`, `CapturePreSetup`, `StartJob`, `EndJob` | `env` commands, `env init`, `run` after `verify_environment` |
| `MutatingTrial`, `SelfRestoringTrial`, `RefusedTrial`, `CancelledTrial` | the four ways a trial of `task/aws_trial.py` ends, as seen from the accounts |
| `PreCleanupSweep`, `ScriptSucceeds`, `ScriptFails`, `NoScript` | the head of `run()`: the sweep and the phase's script |
| `Snapshot`, `Verify` | `_run_snapshot`, `_run_verify` |
| `FrameworkReset`, `ResetReturns`, `RedeploySucceeds`, `RedeployFails`, `Recapture`, `Tag`, `TagsApplied`, `SkipFrameworkReset` | `_run_reset` step by step |
| `FrameworkCleanup`, `CleanupReturns`, `DeleteSnapshots`, `ClearAfterCleanup`, `FlagsCleared` | `_run_cleanup` step by step |
| `Cancel`, `StopContainer` | a cancellation at any await; the `finally` of `run()` |

The framework's reset and cleanup of an account are one action each, nondeterministic
over what the code may leave (`ResetLeaves`, the guard of `FrameworkCleanup`), with
the result it reports. A script that fails may have reached any of the accounts.

### `AccountReset`

One call of `reset_account`, from the first scan to its `ResetResult`.

| `AccountReset` | code |
|---|---|
| `live` | what exists beyond the baseline: resources of any type, a new stack being one of type `StackType`, and what new stacks own |
| `stack[s]` | the condition of each stack of the baseline, as the checks can tell it: missing, wrong status without or with drift, another template, drifted, drift unreadable, or reverted by an update |
| `step[r]` | what the coroutine of region `r` does next |
| `reusable`, `phase0`, `found` | `scan_by_region`: the regions whose scan of Phase 0 did not raise, the types it enumerated, what it listed; later the region's `new_resources` |
| `enumerated`, `missed` | types that the region's last scan enumerated, and what it did not list of them because another lister of the type failed |
| `FailedTypes` | `snapshot.failed_resource_types` after the merge of the regions' captures; such a type may also have resources or be empty in the baseline, through another region |
| `doomed`, `absent`, `drifted` | stacks in the diagnosis: unrecoverable in place, missing, with `drift_differences` |
| `deleted`, `deferred`, `abandoned` | `deleted_stacks`, the deferred scope, `abandoned_resources` |
| `verdict` | `ok`, `redeploy` (deleted stacks are to be created again) or `failed` |

| actions and operators | code |
|---|---|
| `ScanRegion` | `_scan_baseline_types` |
| `Misses` | `fastscan/manager.py`, a type for which one lister found something is not a failed one |
| `Diagnose`, `Recheck` | `_reset_region`, its first check and what it does after the remedies |
| `Tolerated`, `Unenumerable`, `NewResources`, `NothingNew` | `verify/manager.py`, `_check_new_resources` |
| `StatusFailures`, `TemplateMismatches`, `DriftInspected`, `DriftDifferences`, `DriftUndetectable` | `verify/stack_inspector.py`, `verify/drift_detector.py` |
| `DeleteNewStacks`, `SweepRegion`, `DeleteUnrecoverable`, `RestoreDrifted` | `_delete_new_stacks`, `_delete_new_resources`, `_delete_unrecoverable_stacks`, `_restore_drifted_stacks` with `stack_restorer.py` |
| `RegionRaises` | `_check_recoverable` and every exception that nothing in the region catches |
| `ReportFailure`, `GlobalPass` | the end of `reset_account`, `_delete_global_resources`, `_surviving_globals` |

Regions run concurrently, so between two steps of one any number of steps of the
others may happen. AWS is nondeterministic where the code cannot know: whether a
deletion succeeds or finishes later, whether a listing or a read of a stack fails.

### `BenchmarkTrial`

One trial, as Harbor drives the overridden methods of `task/aws_trial.py`.

| `BenchmarkTrial` | code |
|---|---|
| `phase`, `finalizing`, `outcome` | which of Harbor's calls is under way, whether it is the teardown of `_finalize`, and what the run will report |
| `at`, `raised` | the place within `_staged_credentials`, and the exception on its way out of it |
| `creds[h]` | the phases whose credential files the home folder `h` holds |
| `refresher` | the task of `run_credential_refresh_loop` |
| `late` | a command whose caller is gone, and which the container may still carry out |
| `started`, `postDone`, `postOk` | `_agent_container_started`, `_aws_post_invoke_done`, `_aws_post_invoke_ok` |
| `account`, `logged` | whether the account is dirty or flagged, whether the framework's reset was told to do nothing; failures that are only logged |

| actions | code |
|---|---|
| `RaiseIfContaminated`, `SetupAgentEnvironment`, `DetachedVerifier` | the refusal, the start of the container, a verifier in an environment of its own |
| `StageCredentials`, `WriteStageCredentials`, `WriteAwsConfig`, `RunPhase`, `JoinRefresher`, `RemoveFiles` | `_staged_credentials` around pre_invoke, agent, verifier and post_invoke |
| `RefreshDue`, `RefreshMinted`, `RefreshWritten` | `task/aws_creds.py`, the loop of the refresher |
| `Teardown`, `StopAgentEnvironment` | `_stop_agent_environment`, which Harbor reaches more than once |
| `ResetScenarioAccount` | `_reset_scenario_account`, abstracted to what `ScenarioTrial` does to an account |
| `CancelOutside`, `CancelCommand`, `CancelPhase`, `LateCommand` | a cancellation of the trial's task ("abort") or of every task ("interrupt"), and what it abandons |

### `SnapshotRegister`, `StateStorage`

`SnapshotRegister` states what a baseline's storage promises: a register with
compare-and-set, whose content is safe from a crash once its writer has the answer.
`StateStorage` is what implements it.

| `StateStorage` | code |
|---|---|
| `baseline`, `etag[p]` | the object or file, and the ETag that `SnapshotManager` of process `p` keeps; an ETag is a hash, so a content stands for its own |
| `flags` | the flags file of `account_management/preexisting.py` |
| `durable[f]` | the contents that file `f` may have after a crash of the host: all that were renamed into place since its directory was flushed |
| `lock[f]`, `op[p]` | `file_lock` of `utils/locking.py`; the write that process `p` is in, and its step |
| `saved`, `marked`, `removed` | what a caller was told: the baseline saved last, the flags set, and whether somebody took the flags file away |

| actions | code |
|---|---|
| `LoadSnapshot`, `SaveLocal`, `SaveS3`, `AnswerS3`, `RetryS3`, `DeleteSnapshot` | `storage/s3_backend.py`, `storage/local_storage_backend.py` and the ETags of `snapshot/manager.py`; boto3 repeats a request whose answer was lost |
| `Mark`, `Clear`, `Initialize` | the changes of `preexisting.py`, which read under the lock |
| `WriteTemporary`, `FlushTemporary`, `Replace`, `FinishWrite` | `_write_atomic` and `_write_unlocked`, which take the same steps |
| `Stopped`, `Crash`, `LoseFlags` | a killed process or a write that raises; the host; the hand of a user |

### `StackDeletion`, `AccountCleanup`

`StackDeletion` is `cleanup/stack_deleter.py`, `AccountCleanup` the phases of
`cleanup/manager.py` around it; its Next takes each step of `StackDeletion` in the phase
of the region that the stack is in.

| state | code |
|---|---|
| `cfn[s]`, `culprits[s]`, `live` | what CloudFormation does to a stack, the resources it failed on, the resources that exist |
| `round[r]` | `delete_all_stacks`: the environment's stacks, those refused once more, the bootstrap |
| `step[s]`, `drive[s]`, `outcome[s]` | `delete_stack`: its step, the DeleteStack it polls, its `StackDeletionResult` |
| `deferred` | the registry of deferred deletions, which later scans leave out |
| `snapshot`, `phase[r]`, `plan[r]` | the two snapshots, each with what it lists and the types it names as failed; `_cleanup_region_in_phases`; what the sweep is about to delete, after a scan that is older than the deletion |
| `errors`, `stage`, `globals`, `report` | the regions' errors, the account's own steps behind the barrier, `_sweep_global_leftovers`, `CleanupSummary.is_clean` with the types that the last scan failed on and what it missed |

| actions | code |
|---|---|
| `Begin`, `Request`, `PollDeleted`, `PollFailed`, `ReapNetworking`, `ReapPools`, `ForceDelete`, `SweepAbandoned`, `Defer`, `Crash` | `delete_stack` with its recoveries |
| `ListStacks`, `RetryRefused`, `DeleteInfra`, `FinishStacks` | `delete_all_stacks` |
| `LoadSnapshots`, `ScanForSweep`, `Sweep`, `DeleteStacks`, `ListingFails`, `StacksHandled` | a region's phases |
| `RegionsDone`, `ScanGlobals`, `SweepGlobals`, `ScanOrphans` | the account's steps when every region has ended |
| `CfnDeletes`, `CfnSticks` | CloudFormation, which is external |

### `BaselineCapture`

| `BaselineCapture` | code |
|---|---|
| `main`, `seen`, `verdict`, `baseline` | `snapshot_account` in `snapshot/manager.py`: its loop over the regions' futures and what it saves |
| `region[r]`, `invokes[r]` | a region's thread, up to its scan's deadline and beyond; the invocations of its Lambda |
| `job[r][l]`, `note[r][l]` | the future of a lister and what `fastscan/engine.py` has recorded of it; at the deadline the two may differ |
| `shutdown`, `backend` | the event of `utils/concurrent.py`; whether the scan runs on the host or in `fastscan/lambda_scanner.py` |

| actions | code |
|---|---|
| `StartLister`, `FinishLister` | a worker of the pool, which looks at the event before each call of AWS |
| `Collect`, `Expire`, `AfterDeadline`, `LeavePool`, `EndScan` | `scan`: `as_completed`, its timeout, the wait for every worker |
| `FailedKinds`, `Aborts`, `MayPass`, `Merged` | the projection of listers onto kinds in `fastscan/manager.py`, the transient errors that abort a capture, the merge |
| `StartRegion`, `CaptureStacks`, `InvokeFails` | a region around its scan |
| `Start`, `ReadRegion`, `Join`, `Save`, `Signal` | `snapshot_account`, and Ctrl+C or SIGTERM |

### `TestEnvironment`, `Provisioning`

`TestEnvironment` is the organization and what `account_management/` does to it;
`Provisioning` is `env init` on top of it, `scenario/provisioning.py`.

| state | code |
|---|---|
| `ou`, `policies` | the Organizational Unit and its policy, the region policy of each scenario |
| `place[a]`, `tag[a]`, `has[a]` | where an account is, the pair it is tagged with, what it was given: region policy ("fence"), roles, quotas, baseline |
| `leaving` | the accounts that a termination has yet to handle |
| `run`, `waits`, `interrupt`, `unmet` | the command, `wait_for_quotas`, Ctrl+C, `summary.unmet_quotas` |
| `pc[p]`, `account[p]`, `failure[p]`, `attempts[p]`, `submitted[p]`, `snapshot[p]`, `known` | the coroutine of a (scenario, account_tag) pair and its `ProvisionedAccount` |
| `ends[p]` | END events of a pair |

| actions | code |
|---|---|
| `EnsureScenarioAccount`, `CreateAccount`, `Backoff`, `Move`, `Tag` | `_create_account` and `_create_scenario_account`: list, create, retry an address that is taken, move, tag |
| `CheckBaseline`, `FindPolicy`, `EnsurePolicy`, `AttachPolicy`, `Bootstrap`, `RequestQuotas`, `Capture` | `_provision_account_lifecycle` |
| `Enter`, `StartLifecycles`, `EndLifecycles`, `AwaitQuotas`, `Unwind` | `provision_scenarios`: two semaphores, the barrier, the wait for quotas |
| `Cancel`, `Interrupt` | a coroutine ends at its await while the thread of its call goes on and may still take effect |
| `BeginTermination`, `TerminateAccount`, `FinishTermination`, `GrantQuota` | `terminate_environment`; AWS |

Operators whose comment says *Seeded fault* are not the system: each is a plausible
bug, put in the place of the definition that follows it to see that the property
named beside it in `PROJECT.json` notices.

## 4. Runs

| run | instance | shows |
|---|---|---|
| `gate` | two readers and two writers of one scenario, one slot, one retry, Ctrl+C | `ExclusiveWriter`, `HoldsAccounted`, `NoLostWakeup`, `SlotsAccounted`, `EveryTrialSettles`, and that the queue implements `AccountAccess` |
| `scenario` | two accounts, every script, two redeploy attempts, 2.4 million states | the seven safety properties below |
| `scenario_live` | one account, `reset.sh` and `cleanup.sh`, three redeploy attempts | `EveryRunReturns` |
| `reset_regions` | two regions, a type that does not exist in one of them, one that failed at the capture in one of them, a global role that a resource of the other region needs, a new stack with a child, listings that fail or miss something, 1.7 million states | `NoSilentSurvivor`, `DependentsKeepRoles` |
| `reset_stacks` | two regions, two stacks in every condition, every read failing or not, a stack that AWS removes with its owner, 300,000 states | `AbandonedNeverPasses`, `SuccessSettlesStacks`, `HealthyStackKept`, `EveryResetReports` |
| `trial` | one trial of every kind of task, an agent with a home of its own, refreshes at any time, one cancellation | `TypeOK`, `StageSeesOnlyItsOwn`, `NothingOutlivesItsStage`, `MutationAccounted`, `PostInvokeOnce`, `EveryTrialEnds` |
| `storage` | two processes, a baseline of two contents on S3 or in a file, the flags of two accounts, kills and crashes at any step | `NeverTorn`, `SavedSurvives`, `MarkedStaysMarked`, and that both backends implement `SnapshotRegister` |
| `cleanup` | two regions, an exporting stack in a VPC, its importer and the bootstrap, seven resources of four types, one of them an original that a stack owns, three combinations of snapshots (complete, failed on a type, or missing beside one that misses a default), 1.7 million states | `OriginalsSurvive`, `CleanAttests`, `GlobalsBehindBarrier` |
| `scan` | two regions, three listers, two of them of one type, host or Lambda, a deadline per region, a signal, 130,000 states | `BaselineComplete`, `NoFalseTimeout`, `EveryCaptureEnds` |
| `provisioning` | two pairs of one scenario, three accounts, two runs with terminations in between, 970,000 states | `UniquePair`, `OneEndEach`, `SummaryHonest`, `EveryRunEnds` |
| `cleanup_refused`, `terminate` | as `cleanup`; as `provisioning` | section 5: each finds its property violated |

The type invariant of every component, and every safety property of these runs, is also
proved (section 6).

Properties of `ScenarioTrial`:

* `InitBaselineIntact`: a PRE_SETUP baseline never lists a leftover, and an account
  without one is empty. Otherwise a leftover would pass for a default of the account
  forever.
* `ClearedOnlyWhenRestored`: a flag is cleared only on an account without leftovers,
  and at its baseline when the whole reset succeeded.
* `SettledResetAccounted`: a reset that was not cancelled ends with every account
  restored, or one flagged, or a flag that could not be written.
* `FlaggedScenarioFrozen`: while an account is flagged, only recovery changes any
  account of the scenario.
* `RecaptureNeverAbsorbs`: the capture after a redeploy never takes an orphan in.
* `SuccessMeansDone`: a result without an error means what its phase promises.
* `ContainerAccounted`: a container that outlives its run is in the result.
* `EveryRunReturns`: no sequence of failures keeps a run from ending.

Properties of `AccountReset`:

* `NoSilentSurvivor`: after a successful reset a resource of the agent is left only if
  its type failed at the capture, or if each region that could list it deferred what AWS
  was to remove later, missed it in its last scan beside others of its type, or tolerated
  its type there. The first and third are what the code does not catch (section 5).
* `DependentsKeepRoles`: no region takes a role that another one still needs to delete
  its resources, and neither does the pass over globals after a region failed.
* `HealthyStackKept`: a stack at its baseline is left alone, whichever reads fail.
* `SuccessSettlesStacks`: what was diagnosed is repaired or gone, what is gone is
  deployed again, and a region that deleted nothing is at its baseline.
* `AbandonedNeverPasses`: a forced deletion that left something behind is no success.
* `EveryResetReports`: every reset ends with a result.

Properties of `BenchmarkTrial`:

* `StageSeesOnlyItsOwn`: a phase runs with its own credential files and no others,
  unless a cancellation abandoned a command in the container.
* `NothingOutlivesItsStage`: no refresh puts credential files back behind their removal.
* `MutationAccounted`: a mutating trial that leaves its account dirty has flagged it,
  was cancelled, or logged that its reset raised.
* `PostInvokeOnce`: the teardown is reached twice, post_invoke runs once.
* `EveryTrialEnds`: with a refresher that is waited for, and a cancellation anywhere.

Properties of `StateStorage`:

* `NeverTorn`: no crash leaves a file whose content never reached the disk.
* `SavedSurvives`: a save that was reported is durable until it is replaced.
* `MarkedStaysMarked`: no change of one account's flag drops another's.
* `RegisterSpec`: two sessions never overwrite each other's baseline unseen.

Properties of `AccountCleanup`:

* `OriginalsSurvive`: a cleanup removes nothing that was there before setup, if no stack
  owns it and each snapshot that was found lists it or names its type as failed; whatever
  the scans fail on, and whichever snapshot is missing. `BaselineComplete` says how far a
  capture lives up to the second proviso, section 5 what becomes of the rest.
* `GlobalsBehindBarrier`: a global resource outside the stacks goes only when every
  region has finished.
* `CleanAttests`: a clean report is true of every stack, and of every resource but those
  of a type that the last scan failed on or that it missed beside others of their type.

Properties of `BaselineCapture`:

* `BaselineComplete`: what exists is in a saved baseline, or its type is among the
  failed ones for a reason other than a transient error, or another lister of its type
  found something in that region (see section 5).
* `NoFalseTimeout`: a lister that ended just behind the deadline has its result counted.
* `EveryCaptureEnds`: a capture ends and leaves no thread behind.

Properties of `Provisioning`:

* `UniquePair`: no pair ever has two accounts, which would end every later command.
* `OneEndEach`: both phases may end a pair; it says END once.
* `SummaryHonest`: a run that reports success left every account in the unit, under its
  tag, with its policy, roles and baseline, and its quotas if it waited for them.
* `EveryRunEnds`: no wait for slots, for the other phase or for quotas lasts forever.

**Bounds.** Two accounts are enough for one to fail, to be stale, to be flagged or to
be captured without the other, which is what the loops over accounts can get wrong;
accounts are interchangeable, so the safety run uses their symmetry (the liveness run
does not). Two redeploy attempts tell the first attempt from the last;
the liveness run has the code's three. Nothing bounds the number of runs, jobs or
trials of a scenario: the state is finite without it. In the gate, two readers and two
writers give every pair that may and may not overlap and a waiting trial of each kind;
with one slot a trial waits for it inside the gate while others wait for the gate. In a
reset, two regions give every order of one region's steps against another's, and
against the pass over globals; one resource of each kind the code treats differently
(regional, global, needed by another, owned by a stack) and two stacks, for one's check
to hide the other. The two questions have an instance each, since regions share
resources but not stacks. A trial is one, because the gate admits one; its refreshes are
not counted. Two processes give the storage every race between a check and a write, two
contents one that is expected and one that is not; processes and accounts are
interchangeable. The cleanup has a stack of each kind (exporter with a VPC, importer,
bootstrap) and a default, a leftover and a stack's resource of each scope; its
concurrency of two lets the importer and the exporter meet. The scan has two workers for
two regions but one for three listers, so that a lister is queued at the deadline; two
invocations tell the first from the last. In `provisioning`, one creation slot
makes one pair wait for the other, two attempts tell a retry from giving up, the third
account lets a pair go wrong by getting two, and the second run finds what a failed,
cancelled or terminated first one left; `MaxRuns` is the only bound on a history.

**Fairness.** In the gate, weak fairness on the steps of each trial: the event loop
runs every runnable task, and a trial's attempt ends because each of its phases has a
timeout. Ctrl+C is never required. In `ScenarioTrial`, weak fairness on the steps of a
run that has started: its awaits return, since scripts, builds, waits of CloudFormation
and retries are bounded; nothing obliges an operator to start or cancel anything. In
`AccountReset`, weak fairness on each region's steps and on the account's last one: the
event loop runs every region, and each wait for AWS has a limit. That a region raises is
never required. In `BenchmarkTrial`, weak fairness on the trial's own steps: each phase
has a timeout and commands in the container return; neither a cancellation nor a
refresh is required. In `BaselineCapture`, weak fairness on every thread: each runs, and
each call of AWS ends by boto3's limits on time and retries; no deadline, failure or
signal is required. In `Provisioning`, weak fairness on the command and on each
coroutine: every await is a call, a poll with a deadline or a semaphore; nothing obliges
AWS to grant a quota. `StateStorage` and `AccountCleanup` have safety properties only.

**Deadlock** is checked except in `cleanup`, `cleanup_refused`, `scan`, `provisioning`
and `terminate`, whose commands simply end (the last two after `MaxRuns` runs). A job
that is over stutters explicitly.

## 5. Where the code and its documents disagree

Two disagreements are runs that TLC finds violated:

* `cleanup_refused`: a stack that CloudFormation refuses to delete because its exports
  are in use goes through the recovery as well. If it has a VPC, with interfaces that
  only AWS may remove, the recovery defers it for its networking, and its reason is then
  no longer the one by which `delete_all_stacks` finds the stacks to retry. The stack
  stands, the registry excuses it, and the account is reported clean, although the
  comments say that such a stack is retried and that a stack is deferred only when
  networking is all that blocks it (`RefusedNeverClean`).
* `terminate`: "Detach SCPs and delete the OU if all accounts handled" is what the
  comment says; the policies are detached whether or not all were. After a termination
  of some scenarios, or one that failed for an account, the accounts that stay lose the
  policy that protects the framework's roles, until the next `env init`
  (`ProtectionKept`).

Met while modelling, and part of what the models allow:

* A reset whose `reset.sh` failed still captures the baseline again after a redeploy:
  `_baseline_recapture_allowed` sees the framework's results and not `script_failed`,
  while the comments say that a failed reset must not refresh the baseline.
* The documents say that after a failed `reset.sh` trials are refused until the
  operator's `env reset` or `env cleanup` succeeds. A refused mutating trial runs its
  own post-trial reset, and when that succeeds it clears the flag within the job.
* A reset hands the union of what all regions enumerated in Phase 0 to every later
  scan. A type that this region enumerated before, and cannot list now, is tolerated on
  its own evidence, and a leak of it passes.
* The merge of the regions' captures unions tracked, empty and failed types
  (`snapshot/manager.py:520`). A type that failed in one region and was captured in
  another is compared in none: `find_new_resources` skips it (`verify/comparators.py:242`),
  so a leak of it passes the diagnosis, the census and `env verify`, although
  `verify/manager.py:327` says that skipping a type that mattered at setup would let a
  leak hide forever. Hence the exception for `FailedTypes` in `NoSilentSurvivor`.
* A missing stack ends the drift check and the template check before any other stack
  is looked at; it counts as deleted, so the region is not verified again, and the
  reset succeeds with a sibling's drift in place.
* A stack whose drift was reverted is in UPDATE_COMPLETE. One captured in
  CREATE_COMPLETE is then a status mismatch, and the region fails its own
  verification. The next reset deletes the stack.
* The projection of listers onto types hides a failed lister when another of its type
  found something: the type is then not among the failed ones
  (`fastscan/manager.py:183`, `:196`). Hence the last alternative of `BaselineComplete`,
  and `missed` in `NoSilentSurvivor` and `CleanAttests`, for scans are projected alike.
* What a capture missed in that way is new to the next cleanup, which sweeps it, although
  the sweeps promise that a failed enumeration never turns a baseline resource into one
  to delete (`cleanup/manager.py:563`), and that what was there before deployment is kept
  (`:601`). `OriginalsSurvive` speaks of what the snapshots vouch for.
* A cleanup deletes every stack of the account (`cleanup/stack_deleter.py:917`), those
  included that were there before setup, with what they own: the baseline is not looked at.
* `_sweep_global_leftovers` says that its caller waits for every region to have deleted
  all its stacks; the caller waits for the regions and sweeps all the same
  (`cleanup/manager.py:650`).
* `_maybe_delete_infra` takes an existence check that raised for "does not exist".
* Two accounts of one scenario may both find its region policy missing; the second
  creation is refused, and that pair fails until the next run.
* A pair that is cancelled between the two phases has a START and neither an END nor a
  CANCEL. An account created by a timed-out call may be left in the root, and one whose
  closing failed behind the move to the root is listed by no later termination.
* A flags file that was moved away is written again by the next mark with that account
  alone (`preexisting.py:228`).
* A cancellation that hits a stage while it waits for its refresher abandons the
  refresher's write; the first one that hits post_invoke is taken for its failure, and
  the reset is still reached (`aws_trial.py:158`, `:303`).

None contradicts the properties of section 4, which state what the code does ensure.

## 6. Proofs

The proof modules extend their components and TLAPS, and are checked for every value
of the constants that satisfies the component's assumption. An inductive invariant
strengthens the properties; one lemma takes it through every action.

**`AdmissionGateProofs`** assumes `GateAssumption`: finitely many trials, at least one
slot. `GateInv` joins `TypeOK`, `HoldsAccounted` and `SlotsAccounted` with
`GatesShared` (a trial that has been to the gate remembers the gate on record for its
scenario) and `ExclusivePerGate` (exclusion gate by gate). Exclusion is not inductive
alone: that a writer may enter follows from `readers = 0` only because the count is
exactly the set of holders; and the count is not inductive without exclusion, because a
release clears the writer's flag only if no second writer is inside. `NoLostWakeup` is
shown inductive on top of `GateInv`. The theorems are `GateTypes`,
`WritersExclusive`, `HoldsNeverLeak`, `SlotsNeverLeak`, `NoWakeupLost` and
`GateImplementsAccess`; the last maps each step to an entry, an exit or a stutter.

**`ScenarioTrialProofs`** assumes `ScenarioAssumption`: some account, some of the
optional scripts, at least one redeploy attempt. `ScenarioInv` joins `TypeOK` and
`InitBaselineIntact` with

* `PhaseOfStep`, `AttemptsLeft`, `FreshLocals`: which phase each step belongs to, that
  a redeploy has an attempt left, that no local survives its run;
* `JobHasBaselines`: a job runs nothing but resets, and its accounts have their
  PRE_SETUP baselines, so a task never changes an account that has none;
* `CloudShape`: only a stack drifts, and a hidden change has the scripts that undo it,
  without which no cleanup would ever be clean and none would be judged so;
* `CapturedDeployed`: a POST_SETUP baseline lists the stacks, because it is captured
  only after a deploy succeeded;
* `CleanupJudged`: once a cleanup has been judged passed, every account is empty. This
  is what makes the deletion of the baselines safe.

From it follow `ScenarioTypes`, `InitBaselinesStayPristine` and `FlagsFreezeScenario`:
only recovery phases reach the steps that change the cloud while a flag is up.

`SettlingInv` says on top of it what a reset knows until it has told the flags:

* `ScriptUndone`: unless `reset.sh` failed, no account has a hidden change;
* `ResultsTrue`: a result of the framework is true of its account. An account that
  succeeded holds nothing its baseline does not list, an "ok" one is verified until the
  redeploy of the others, and when the tags are due and no account failed all of them
  are verified, because the baselines were captured again or had still to be right;
* `TagsDue`: the loop over the tags starts with every account ahead of it, and, with a
  skipped framework reset, only because the script failed;
* `TagsTold`: the accounts behind it are flagged, or lost their flag, or are clear, or
  the failed clearing is on record.

`SettledResetAccounted` is not inductive: what it says at the end of the run is decided
several steps before, by results that the redeploy may since have made untrue. The theorems
are `SettlingInvariant`, `SettledResetsAccounted`, `SuccessesAreDone`,
`ContainersAccounted`, `FlagsClearedWhenRestored` and `RecapturesAbsorbNothing`.

`TrialsStartVerified` is what they amount to for a job: provided every flag can be
written, each trial that the contamination gate admits finds all accounts at their
baseline, although they were verified only once, before the first. Its invariant
`JobInv` carries that from the end of one trial's run to the next trial, also past runs
that leave the framework's reset out. The proviso is needed: `_apply_contamination_tags`
only logs that a flag was not written, and the next trial is admitted.

**`AccountResetProofs`** assumes `AccountAssumption`: the baseline's stacks are no
new resources, and a role that a new stack owns serves only that stack. Regions,
resources and stacks are any sets. The argument is per region: `OthersUntouched` and
`OtherStacksUntouched` say that a region's step leaves the findings and stacks of all
others alone, and each invariant then follows the steps of one region.

* `RolesOutliveDependents`: only the pass over globals deletes a global resource, apart
  from the roles a new stack takes along, which serve only that stack.
* `NothingSurvivesSilently`, with the exceptions that section 4 names, rests on
  `ScansFirst` (no region is diagnosed before all were scanned, so the union of Phase 0
  no longer changes), `ScanStillCovers` (a scan of Phase 0 still lists what is left of
  what it did not miss when it is used, because nothing creates resources),
  `DeferredKnown`, `DoneAccounted` and `SuccessMeansDrained`.
* `AbandonmentFails`: from `AbandonmentKnown`, what was abandoned is on record with a
  deleted stack, so the census is the check that is taken, and it asks for it.
* `HealthyStacksStay` and `StacksSettle` follow from `Progress`, which says for each
  step of a region what is known of its stacks: what is still to be deleted or
  reverted is not at its baseline, and what was deleted is missing.
* `SuccessesAreExact` draws the conclusion with `ScansEnumerate` (a scan that ended
  enumerated whatever can always be listed): what survives a success is to be removed by
  AWS later, or is of a type that failed at the capture, or was missed by the last scan or
  may fail to be listed, in each region that could list it; and a success without a
  deletion has every stack at its baseline. Where the capture named no type as failed, every
  lister works and AWS defers nothing, this is what `ResetLeaves` in `ScenarioTrial` says
  that a successful reset leaves of a task.

**`BenchmarkTrialProofs`** assumes `TrialAssumption`, and lets homes, the phases that
share one and the kinds of cancellation be any. `TrialInv` joins `TypeOK` and
`MutationAccounted` with

* `StageInv`: an exception, a refresher or an abandoned command is only where a stage
  or a cancellation put it;
* `FilesInv`: until a command is abandoned, a stage past its writes has its own files
  and no others, and all other homes are empty unless a removal failed. This needs the
  refresher to be joined before the removal, which is `NothingOutlivesItsStage`;
* `PostInv`: post_invoke counts as successful only if it ran to its end on an account
  that nothing has changed since, and only then is the reset told to skip its work.

The theorems are `TrialTypes`, `TrialInvariant`, `StagesSeeOnlyTheirOwn`,
`NothingOutlivesStages`, `MutationsAccounted`, `PostInvokeRunsOnce` and
`SkipsOnlyRestored`, which is what `ScenarioTrial` takes for granted of a
`SelfRestoringTrial`.

**`StateStorageProofs`** assumes that `Absent`, `Unseen` and `Torn` are no contents.
`StorageInv` follows each write: between the check under the lock and the rename, the
lock's holder is the only process in that file, so what it compared is still what is
there (`RegisterSpec` needs exactly this); a file's durable contents were all flushed
before they were renamed; and once a writer has its answer, its content is the only
durable one, until the next rename. The theorems are `StorageTypes`,
`StorageInvariant`, `FilesNeverTorn`, `SavesSurvive`, `MarksSurvive` and
`StorageImplementsRegister`.

**`AccountCleanupProofs`** assumes `StackAssumption` and `CleanupAssumption`, which
besides types say that the snapshot from before setup lists only what was there then.
`SweepInv` says that what is to be kept (`Kept`: what was there before setup, that no
stack owns and the snapshots vouch for) is alive and in no plan of a sweep, and that no
plan of a region holds a global resource, although a plan is older than what it deletes.
`CleanInv` says that results tell the truth about CloudFormation, and that a region
without errors has listed and handled every stack. The theorems are `CleanupTypes`,
`OriginalsStay`, `GlobalsWaitForRegions` and `CleanReportsAttest`.

**`BaselineCaptureProofs`** assumes `CaptureAssumption`. `CaptureInv` joins `TypeOK`,
`RegionInv` for each region (what the engine has on record of a lister, against what the
lister did), `ReadCaptured` (while no failure is known, every region that was read was
captured) and `SavedMerged`. A region's steps leave the others alone
(`OthersUntouched`), and a region that ended is not touched again. The theorems are
`CaptureTypes`, `CaptureInvariant`, `FinishedNeverTimedOut` and `BaselinesHideNothing`.

**`ProvisioningProofs`** assumes `EnvironmentAssumption` and `ProvisioningAssumption`.
`ProvisioningInv` says of each pair, step by step, where its account is and what it has
(`AccountInv`), and what is on record of it (`RecordInv`); `Creations` says that no two
coroutines hold the same untagged account, `TagsApart` that no two accounts have the
same tag. It is inductive because a coroutine only ever adds to accounts, and tags only
the one it created, after it saw that no account had its tag: nobody else uses that
tag. The theorems are `ProvisioningTypes`, `ProvisioningInvariant`,
`PairsNeverDoubled`, `PairsEndOnce` and `SuccessIsHonest`; the last relates what the run
reports to the organization at the step it returns.

Model-checked only: liveness (`EveryTrialSettles`, `EveryRunReturns`,
`EveryResetReports`, `EveryTrialEnds`, `EveryCaptureEnds`, `EveryRunEnds`), which the
prover cannot treat because fairness rests on ENABLED; and the two properties of section
5, which are false.

## 7. What is assumed, and what is left out

* One env command or one job works on a scenario at a time, and a job's mutating
  trials one after the other: that is `AdmissionGate`'s theorem within a process;
  nothing in the code excludes two operators.
* A scenario whose tasks make changes that no scan sees has both `reset.sh` and
  `cleanup.sh`, and they undo such changes when they succeed.
* `skip_framework_reset` is trusted: with it the framework looks at nothing, so
  `SettledResetAccounted` and `SuccessMeansDone` exempt such runs.
* A deploy creates missing stacks only, and a stack created again has new physical
  ids, the worst case for the comparison.
* A killed process leaves what `Cancel` and `StopContainer` leave with the container
  up, between the same two steps.
* `--no-verify-env`, which bypasses the verification and the flag, is not modelled.
* In `ScenarioTrial` captures and scans are complete (no type failed or was captured in
  part, and a cleanup finds no stack from before setup), and the stacks of an account are
  one; what a reset does with several, and with scans that fail, is `AccountReset`.
* `AccountReset` bounds nothing by MAX_WORKERS_HEAVY: more regions at once are more
  interleavings. A cancellation inside a reset is a cancellation in `ScenarioTrial`.
  Which of several failures is raised first, the exclusion of resources that belong to
  a stack or are log groups of a service, the toolkit stack of the CDK and baselines of
  skipped drift checks are left out; a resource that AWS is still removing from a
  baseline's stack counts as a failed deletion. CloudFormation deletes what a stack
  owns in the order of its dependencies.
* `BenchmarkTrial` leaves out the placeholders in instructions and the overlays of the
  environment; its reset is what `ScenarioTrial` may do to an account.
* `StateStorage`: the first local save creates its directory, whose own durability is
  not modelled; neither are S3 requests that time out and are written later, the listing
  and bulk deletion of keys, and the provisioning of the bucket.
* `AccountCleanup` leaves out a cancellation, the cleanup of one stack by name, the cache
  of existence checks (sound as long as a cleanup only deletes), the filters of resources
  that AWS manages, stacks that a task creates, and what each handler does to one
  resource. That a cleanup ends is not checked: its instance is too large for it.
* The snapshots of `AccountCleanup` list whatever the instance says, and name any types as
  failed; only the one from before setup must list nothing that came later. A scan that a
  sweep starts from may miss anything, which is the same as sparing it.
* `BaselineCapture` leaves out the backend that lists through Cloud Control, a listing
  cut off at its page limit, and a KeyboardInterrupt in a pool that no other contains.
* `Provisioning` leaves out preexisting accounts, updates of a policy's content, the
  eventual consistency of listings, accounts of the unit that belong to nobody, and two
  operators at once. An account that AWS creates within seconds counts as reused for
  display only.
* The listers of `fastscan/listers` are tables of calls, some 18,000 lines of the
  repository, and the handlers of `cleanup/handlers` are calls in sequence: neither has
  state of its own, so their lines are not mapped.
* Hooks, logs, files written for display, backoff delays, and the deletion of stale
  changesets before a deploy are left out; the region policy of a deploy is one more
  reason for which the script may fail.
* The components marked `not_modelled` in `PROJECT.json` are listed there with the
  reason; section 2 says which of them come next.
