----------------------------- MODULE ScenarioTrial -----------------------------
(***************************************************************************)
(* One scenario of an environment: its accounts, their baselines and       *)
(* contamination flags, and the runs of ScenarioTrial (scenario/trial.py)  *)
(* that deploy, verify, reset and clean it up, as commands of the operator *)
(* or as the reset that ends a mutating benchmark trial.                   *)
(*                                                                         *)
(* A run is a sequence of awaited steps; a cancellation may land between   *)
(* any two of them.  What a run leaves behind -- cloud, baselines, flags --*)
(* is all that the next run, in this process or another, finds.            *)
(***************************************************************************)
EXTENDS Integers

CONSTANTS Accounts,     \* the values of account_mapping
          Scripts,      \* the optional phase scripts on disk; deploy.sh is required
          MaxRedeploys  \* _REDEPLOY_MAX_ATTEMPTS

(***************************************************************************)
(* What an account holds, beyond the defaults every account has:           *)
(*   "stack"   the scenario's deployed stacks;                             *)
(*   "drift"   a change to a stack's resources, which drift detection sees;*)
(*   "orphan"  a resource created outside the stacks, which a scan lists;  *)
(*   "hidden"  a change neither sees, which only reset.sh and cleanup.sh   *)
(*             undo (a scenario whose tasks make one has both).            *)
(* A snapshot lists the stacks' resources and the orphans, and holds the   *)
(* stacks' drift.  The stacks of an account are taken as one.              *)
(***************************************************************************)
Things == {"stack", "drift", "orphan", "hidden"}
Listed == {"stack", "orphan"}
Compared == Listed \cup {"drift"}
NoBaseline == {"absent"}  \* no snapshot of the stage is stored; no scan returns this
Baselines == {NoBaseline} \cup SUBSET Compared
OptionalScripts == {"VERIFY", "RESET", "CLEANUP"}

ASSUME ScenarioAssumption ==
  /\ Accounts # {}
  /\ Scripts \subseteq OptionalScripts
  /\ MaxRedeploys \in Nat \ {0}

VARIABLES cloud,        \* account -> what it holds
          stale,        \* accounts whose stacks were recreated since their POST_SETUP
          pre, post,    \* account -> PRE_SETUP and POST_SETUP snapshots
          flagged,      \* accounts that carry the contamination flag
          job,          \* a benchmark job, verified at its start, is running
          phase,        \* phase of the current run
          pc,           \* the next step of the run
          skip,         \* skip_framework_reset of the run's config
          scriptFailed, \* script_error is not None
          outcome,      \* account -> result of the framework's reset or cleanup
          attempts,     \* failed attempts of _redeploy_with_retry
          pending,      \* accounts the current loop has not reached
          lost,         \* accounts whose mark_contaminated failed in this run
          clearFailed,  \* clear_error is not None
          error,        \* exception_info of the last run's result, by its source
          cancelled,    \* the run saw a cancellation
          container     \* the container of the last run

cloudVars == <<cloud, stale>>
baselineVars == <<pre, post>>
localVars == <<skip, scriptFailed, outcome, attempts, pending, lost, clearFailed>>
resultVars == <<error, cancelled, container>>
vars == <<cloud, stale, pre, post, flagged, job, phase, pc, skip, scriptFailed,
          outcome, attempts, pending, lost, clearFailed, error, cancelled, container>>

Phases == {"DEPLOY", "VERIFY", "RESET", "CLEANUP"}
Steps == {"sweeping", "script", "managing", "redeploying", "recapturing", "tagging",
          "dropping", "clearing"}
Outcomes == {"none", "ok", "redeploy", "failed"}
Errors == {"none", "script", "manage", "stop", "cancelled"}

Init ==
  /\ cloud = [a \in Accounts |-> {}]
  /\ stale = {}
  /\ pre = [a \in Accounts |-> NoBaseline]
  /\ post = [a \in Accounts |-> NoBaseline]
  /\ flagged = {}
  /\ job = FALSE
  /\ phase = "NONE"
  /\ pc = "idle"
  /\ skip = FALSE
  /\ scriptFailed = FALSE
  /\ outcome = [a \in Accounts |-> "none"]
  /\ attempts = 0
  /\ pending = {}
  /\ lost = {}
  /\ clearFailed = FALSE
  /\ error = "none"
  /\ cancelled = FALSE
  /\ container = "down"

-----------------------------------------------------------------------------
(* Helpers *)

\* What a scan of the account and its drift detection find.
Scan(a) == cloud[a] \cap Compared

\* A stack drifts only while it exists.
WellFormed(held) == "drift" \in held => "stack" \in held

\* verify_account_multiregion succeeds: the scan is the baseline, and the resources
\* are those it names.
Verifies(a) ==
  /\ post[a] # NoBaseline
  /\ Scan(a) = post[a]
  /\ a \notin stale

\* The account is what its POST_SETUP baseline was captured from.
Restored(a) == Verifies(a) /\ "hidden" \notin cloud[a]

\* _validate_init_snapshot: every account has its PRE_SETUP baseline.
InitValidated == \A a \in Accounts : pre[a] # NoBaseline

\* Seeded fault: the deploy's refusal is skipped, as it is for a redeploy.
DeployAdmittedRegardless(checkContamination) == InitValidated

\* The gates that run before deploy.sh; a recovery redeploy skips the first.
DeployAdmitted(checkContamination) ==
  /\ checkContamination => flagged = {}
  /\ InitValidated

\* deploy.sh creates the stacks that do not exist in the accounts of `reached`.
Deploy(reached) ==
  LET created == {a \in reached : "stack" \notin cloud[a]}
  IN /\ cloud' = [a \in Accounts |-> IF a \in created THEN cloud[a] \cup {"stack"} ELSE cloud[a]]
     /\ stale' = stale \cup {a \in created : post[a] # NoBaseline}

\* snapshot_account, POST_SETUP: overwrites the baseline of each captured account.
Capture(captured) ==
  /\ post' = [a \in Accounts |-> IF a \in captured THEN Scan(a) ELSE post[a]]
  /\ stale' = stale \ captured

\* What the phase's resource management was working with.
ManagementOver ==
  /\ scriptFailed' = FALSE
  /\ outcome' = [a \in Accounts |-> "none"]
  /\ attempts' = 0 /\ pending' = {}
  /\ clearFailed' = FALSE

\* The resource management ends; run() raises its error, else the script's.
Finish(failed) ==
  /\ pc' = "stopping"
  /\ ManagementOver
  /\ error' = CASE failed -> "manage"
                [] ~failed /\ scriptFailed -> "script"
                [] OTHER -> "none"

-----------------------------------------------------------------------------
(* Starting a run *)

\* ScenarioTrial.create and the head of run().
Start(ph, skipFramework) ==
  /\ phase' = ph
  /\ pc' = IF ph = "CLEANUP" THEN "sweeping" ELSE "script"
  /\ skip' = skipFramework
  /\ error' = "none"
  /\ cancelled' = FALSE
  /\ container' = "down"
  /\ UNCHANGED <<scriptFailed, outcome, attempts, pending, lost, clearFailed>>

\* env setup, verify, reset or cleanup.
EnvCommand(ph) ==
  /\ pc = "idle" /\ ~job
  /\ Start(ph, FALSE)
  /\ UNCHANGED <<cloudVars, baselineVars, flagged, job>>

\* capture_pre_setup_baseline for one account of `env init`: an existing baseline stays.
CapturePreSetup(a) ==
  /\ pc = "idle" /\ ~job
  /\ pre[a] = NoBaseline
  /\ pre' = [pre EXCEPT ![a] = Scan(a)]
  /\ UNCHANGED <<cloudVars, post, flagged, job, phase, pc, localVars, resultVars>>

\* `aws-bench run` once verify_environment has passed.
StartJob ==
  /\ pc = "idle" /\ ~job
  /\ \A a \in Accounts : Verifies(a)
  /\ job' = TRUE
  /\ error' = "none" /\ cancelled' = FALSE /\ container' = "down"
  /\ UNCHANGED <<cloudVars, baselineVars, flagged, phase, pc, localVars>>

EndJob ==
  /\ pc = "idle" /\ job
  /\ job' = FALSE
  /\ UNCHANGED <<cloudVars, baselineVars, flagged, phase, pc, localVars, resultVars>>

\* What a mutating task may have made of an account.
Mutated(held) ==
  {h \in SUBSET Things :
    /\ WellFormed(h)
    /\ held \ {"stack", "drift"} \subseteq h
    /\ "stack" \in h => "stack" \in held
    /\ "hidden" \in h \ held => {"RESET", "CLEANUP"} \subseteq Scripts}

\* AwsBenchSingleStepTrial._raise_if_contaminated passes.
TrialAdmitted == flagged = {}

\* A mutating task runs against the accounts.
TaskMutates ==
  cloud' \in {c \in [Accounts -> SUBSET Things] : \A a \in Accounts : c[a] \in Mutated(cloud[a])}

\* A mutating trial settles and its run() starts the post-trial reset.
MutatingTrial ==
  /\ pc = "idle" /\ job
  /\ TrialAdmitted
  /\ TaskMutates
  /\ Start("RESET", FALSE)
  /\ UNCHANGED <<stale, baselineVars, flagged, job>>

\* A trial with skip_framework_reset whose post_invoke restored the account itself.
SelfRestoringTrial ==
  /\ pc = "idle" /\ job
  /\ TrialAdmitted
  /\ Start("RESET", TRUE)
  /\ UNCHANGED <<cloudVars, baselineVars, flagged, job>>

\* A refused trial settles with AccountContaminatedError and resets like any other.
RefusedTrial ==
  /\ pc = "idle" /\ job
  /\ ~TrialAdmitted
  /\ Start("RESET", FALSE)
  /\ UNCHANGED <<cloudVars, baselineVars, flagged, job>>

\* A cancelled trial re-raises: no reset runs, and the job shuts down.
CancelledTrial ==
  /\ pc = "idle" /\ job
  /\ TrialAdmitted
  /\ TaskMutates
  /\ job' = FALSE
  /\ UNCHANGED <<stale, baselineVars, flagged, phase, pc, localVars, resultVars>>

-----------------------------------------------------------------------------
(* The steps of run() *)

\* _run_pre_cleanup_residual_sweep: deletes what the POST_SETUP baseline does
\* not list; best-effort, and nothing to compare with without that baseline.
PreCleanupSweep ==
  /\ pc = "sweeping"
  /\ pc' = "script"
  /\ \E swept \in SUBSET {a \in Accounts : post[a] # NoBaseline} :
       cloud' = [a \in Accounts |-> IF a \in swept /\ "orphan" \notin post[a]
                                    THEN cloud[a] \ {"orphan"} ELSE cloud[a]]
  /\ UNCHANGED <<stale, baselineVars, flagged, job, phase, localVars, resultVars>>

\* What <phase>.sh does to the accounts it reaches.
ScriptEffect(reached) ==
  CASE phase = "DEPLOY" -> Deploy(reached)
    [] phase \in {"RESET", "CLEANUP"} ->
         /\ cloud' = [a \in Accounts |-> IF a \in reached THEN cloud[a] \ {"hidden"} ELSE cloud[a]]
         /\ UNCHANGED stale
    [] OTHER -> UNCHANGED cloudVars

HasPhaseScript == phase = "DEPLOY" \/ phase \in Scripts

\* _run_phase_in_container returns: the container is up and the script exited 0.
ScriptSucceeds ==
  /\ pc = "script" /\ HasPhaseScript
  /\ phase = "DEPLOY" => DeployAdmitted(TRUE)
  /\ ScriptEffect(Accounts)
  /\ pc' = "managing" /\ container' = "up"
  /\ pending' = Accounts
  /\ UNCHANGED <<baselineVars, flagged, job, phase, skip, scriptFailed, outcome, attempts,
                 lost, clearFailed, error, cancelled>>

\* It raises: no container, a gate refused the deploy, or the script failed or
\* timed out, perhaps after it reached some accounts.
ScriptFails ==
  /\ pc = "script" /\ HasPhaseScript
  /\ \E reached \in SUBSET Accounts :
       /\ (phase = "DEPLOY" /\ ~DeployAdmitted(TRUE)) => reached = {}
       /\ container' \in IF reached = {} THEN {"down", "up"} ELSE {"up"}
       /\ ScriptEffect(reached)
  /\ pc' = "managing"
  /\ pending' = Accounts
  /\ scriptFailed' = TRUE
  /\ UNCHANGED <<baselineVars, flagged, job, phase, skip, outcome, attempts,
                 lost, clearFailed, error, cancelled>>

NoScript ==
  /\ pc = "script" /\ ~HasPhaseScript
  /\ pc' = "managing"
  /\ pending' = Accounts
  /\ UNCHANGED <<cloudVars, baselineVars, flagged, job, phase, skip, scriptFailed, outcome,
                 attempts, lost, clearFailed, resultVars>>

\* _run_snapshot after a deploy; a failed deploy script skips it.
Snapshot ==
  /\ pc = "managing" /\ phase = "DEPLOY"
  /\ IF scriptFailed
     THEN Finish(FALSE) /\ UNCHANGED <<post, stale>>
     ELSE \E captured \in SUBSET Accounts : Capture(captured) /\ Finish(captured # Accounts)
  /\ UNCHANGED <<cloud, pre, flagged, job, phase, skip, lost, cancelled, container>>

\* _run_verify, whatever the script did.
Verify ==
  /\ pc = "managing" /\ phase = "VERIFY"
  /\ \E passed \in BOOLEAN :
       /\ passed => \A a \in Accounts : Verifies(a)
       /\ Finish(~passed)
  /\ UNCHANGED <<cloudVars, baselineVars, flagged, job, phase, skip, lost, cancelled, container>>

-----------------------------------------------------------------------------
(* RESET *)

\* With skip_framework_reset, a failed reset.sh flags every account and a
\* successful one changes nothing.
SkipFrameworkReset ==
  /\ pc = "managing" /\ phase = "RESET" /\ skip
  /\ IF scriptFailed
     THEN /\ pc' = "tagging"
          /\ UNCHANGED <<scriptFailed, outcome, attempts, pending, clearFailed, error>>
     ELSE Finish(FALSE)
  /\ UNCHANGED <<cloudVars, baselineVars, flagged, job, phase, skip, lost, cancelled, container>>

\* What reset_account leaves of an account whose result is r.  It only removes,
\* never what the baseline lists outside a stack, and a hidden change, or drift of
\* the baseline, only with its stack.  Without a baseline it fails at once.  "ok" is
\* a verified account.  After a stack was deleted, a new one included, only the
\* resources are compared again, and the stack's drift may not have been read.
ResetLeaves(a, r, left) ==
  /\ WellFormed(left)
  /\ (cloud[a] \ left) \cap ({"hidden"} \cup (post[a] \cap {"drift"})) # {} => "stack" \notin left
  /\ IF post[a] = NoBaseline
     THEN r = "failed" /\ left = cloud[a]
     ELSE /\ "orphan" \in cloud[a] \ left => "orphan" \notin post[a]
          /\ r = "ok" => left \cap Compared = post[a] /\ a \notin stale
          /\ r = "redeploy" => /\ left \cap Listed \subseteq post[a]
                               /\ a \in stale => "stack" \notin left

\* The framework's reset of one account ends; accounts are reset concurrently.
FrameworkReset(a) ==
  /\ pc = "managing" /\ phase = "RESET" /\ ~skip
  /\ a \in pending
  /\ \E r \in {"ok", "redeploy", "failed"} : \E left \in SUBSET cloud[a] :
       /\ ResetLeaves(a, r, left)
       /\ cloud' = [cloud EXCEPT ![a] = left]
       /\ outcome' = [outcome EXCEPT ![a] = r]
  /\ pending' = pending \ {a}
  /\ UNCHANGED <<stale, baselineVars, flagged, job, phase, pc, skip, scriptFailed, attempts,
                 lost, clearFailed, resultVars>>

NeedsRedeploy == \E a \in Accounts : outcome[a] = "redeploy"

\* reset_scenarios returns: redeploy if any account needs it, else tag.
ResetReturns ==
  /\ pc = "managing" /\ phase = "RESET" /\ ~skip
  /\ pending = {}
  /\ pc' = IF NeedsRedeploy THEN "redeploying" ELSE "tagging"
  /\ pending' = Accounts
  /\ UNCHANGED <<cloudVars, baselineVars, flagged, job, phase, skip, scriptFailed, outcome,
                 attempts, lost, clearFailed, resultVars>>

\* Every result that needed the redeploy becomes r.
Redeployed(r) ==
  outcome' = [a \in Accounts |-> IF outcome[a] = "redeploy" THEN r ELSE outcome[a]]

\* An attempt of _redeploy_with_retry succeeds.
RedeploySucceeds ==
  /\ pc = "redeploying"
  /\ DeployAdmitted(FALSE)
  /\ Deploy(Accounts)
  /\ pc' = "recapturing" /\ container' = "up"
  /\ attempts' = 0
  /\ UNCHANGED <<baselineVars, flagged, job, phase, skip, scriptFailed, outcome, pending, lost,
                 clearFailed, error, cancelled>>

\* Seeded fault: the attempts are not counted.
AttemptsAfterUncounted == attempts

AttemptsAfter == attempts + 1

LastAttempt == AttemptsAfter >= MaxRedeploys

\* An attempt fails; the last one fails the results that needed it.
RedeployFails ==
  /\ pc = "redeploying"
  /\ \E reached \in SUBSET Accounts :
       /\ ~DeployAdmitted(FALSE) => reached = {}
       /\ container' \in IF reached = {} THEN {container, "up"} ELSE {"up"}
       /\ Deploy(reached)
  /\ IF LastAttempt
     THEN pc' = "tagging" /\ Redeployed("failed") /\ attempts' = 0
     ELSE attempts' = AttemptsAfter /\ UNCHANGED <<pc, outcome>>
  /\ UNCHANGED <<baselineVars, flagged, job, phase, skip, scriptFailed, pending, lost,
                 clearFailed, error, cancelled>>

\* Seeded fault: a redeploy that succeeded is taken to be enough.
RecaptureAllowedAlways == TRUE

\* _baseline_recapture_allowed: every account's result is a success.
RecaptureAllowed == \A a \in Accounts : outcome[a] # "failed"

\* The POST_SETUP baselines are captured again; an account that could not be
\* captured fails the results that needed the redeploy.
Recapture ==
  /\ pc = "recapturing"
  /\ pc' = "tagging"
  /\ IF RecaptureAllowed
     THEN \E captured \in SUBSET Accounts :
            /\ Capture(captured)
            /\ Redeployed(IF captured = Accounts THEN "ok" ELSE "failed")
     ELSE Redeployed("ok") /\ UNCHANGED <<post, stale>>
  /\ UNCHANGED <<cloud, pre, flagged, job, phase, skip, scriptFailed, attempts, pending, lost,
                 clearFailed, resultVars>>

\* Seeded fault: a failed reset.sh is forgotten.
MustMarkIgnoringScript(a) == outcome[a] = "failed"

\* A failed reset.sh is a failed reset for every account.
MustMark(a) == outcome[a] = "failed" \/ scriptFailed

\* The loop of _apply_contamination_tags, and of the skipped framework reset,
\* reaches an account: SET (a failure is logged) or CLEAR (a failure is returned).
Tag(a) ==
  /\ pc = "tagging"
  /\ a \in pending
  /\ pending' = pending \ {a}
  /\ IF MustMark(a)
     THEN /\ \/ flagged' = flagged \cup {a} /\ UNCHANGED lost
             \/ lost' = lost \cup {a} /\ UNCHANGED flagged
          /\ UNCHANGED clearFailed
     ELSE /\ \/ flagged' = flagged \ {a} /\ UNCHANGED clearFailed
             \/ clearFailed' = TRUE /\ UNCHANGED flagged
          /\ UNCHANGED lost
  /\ UNCHANGED <<cloudVars, baselineVars, job, phase, pc, skip, scriptFailed, outcome, attempts,
                 resultVars>>

\* Seeded fault: a CLEAR failure is logged and dropped.
ResetFailedIgnoringClear == \E a \in Accounts : outcome[a] = "failed"

\* _run_reset raises: a failed result, else the CLEAR failure.
ResetFailed == clearFailed \/ \E a \in Accounts : outcome[a] = "failed"

TagsApplied ==
  /\ pc = "tagging"
  /\ pending = {}
  /\ Finish(ResetFailed)
  /\ UNCHANGED <<cloudVars, baselineVars, flagged, job, phase, skip, lost, cancelled, container>>

-----------------------------------------------------------------------------
(* CLEANUP *)

\* Seeded fault: the orphans that were found decide, finished scan or not.
IsCleanIgnoringScan(a, left, scanned) ==
  /\ "stack" \notin left
  /\ scanned => left \cap Listed \subseteq (IF pre[a] = NoBaseline THEN {} ELSE pre[a])

\* CleanupSummary.is_clean: the stacks are gone, the scan finished, and what it
\* lists is in the PRE_SETUP baseline.
IsClean(a, left, scanned) ==
  /\ "stack" \notin left
  /\ scanned
  /\ left \cap Listed \subseteq (IF pre[a] = NoBaseline THEN {} ELSE pre[a])

\* The framework's cleanup of one account: stacks and leftovers are deleted as
\* far as they can be; without a PRE_SETUP baseline nothing is swept.
FrameworkCleanup(a) ==
  /\ pc = "managing" /\ phase = "CLEANUP"
  /\ a \in pending
  /\ \E left \in SUBSET cloud[a], scanned \in BOOLEAN :
       /\ WellFormed(left)
       /\ cloud[a] \ left \subseteq
            {"stack", "drift"} \cup (IF pre[a] = NoBaseline THEN {} ELSE {"orphan"})
       /\ cloud' = [cloud EXCEPT ![a] = left]
       /\ outcome' = [outcome EXCEPT ![a] = IF IsClean(a, left, scanned) THEN "ok" ELSE "failed"]
  /\ pending' = pending \ {a}
  /\ UNCHANGED <<stale, baselineVars, flagged, job, phase, pc, skip, scriptFailed, attempts,
                 lost, clearFailed, resultVars>>

\* Seeded fault: a failed cleanup.sh does not count.
CleanupPassedIgnoringScript == \A a \in Accounts : outcome[a] # "failed"

\* Every account is clean and cleanup.sh did not fail.
CleanupPassed == ~scriptFailed /\ \A a \in Accounts : outcome[a] # "failed"

\* _run_cleanup judges the results; a failure keeps the baselines and the flags.
CleanupReturns ==
  /\ pc = "managing" /\ phase = "CLEANUP"
  /\ pending = {}
  /\ IF CleanupPassed
     THEN /\ pc' = "dropping" /\ pending' = Accounts
          /\ UNCHANGED <<scriptFailed, outcome, attempts, clearFailed, error>>
     ELSE Finish(\E a \in Accounts : outcome[a] = "failed")
  /\ UNCHANGED <<cloudVars, baselineVars, flagged, job, phase, skip, lost, cancelled, container>>

\* _delete_snapshots_after_cleanup, best-effort; it never awaits.
DeleteSnapshots ==
  /\ pc = "dropping"
  /\ pc' = "clearing"
  /\ \E keepPre \in SUBSET Accounts, keepPost \in SUBSET Accounts :
       /\ pre' = [a \in Accounts |-> IF a \in keepPre THEN pre[a] ELSE NoBaseline]
       /\ post' = [a \in Accounts |-> IF a \in keepPost THEN post[a] ELSE NoBaseline]
  /\ UNCHANGED <<cloudVars, flagged, job, phase, localVars, resultVars>>

\* _clear_contamination_after_cleanup reaches an account; best-effort.
ClearAfterCleanup(a) ==
  /\ pc = "clearing"
  /\ a \in pending
  /\ pending' = pending \ {a}
  /\ flagged' \in {flagged, flagged \ {a}}
  /\ UNCHANGED <<cloudVars, baselineVars, job, phase, pc, skip, scriptFailed, outcome, attempts,
                 lost, clearFailed, resultVars>>

FlagsCleared ==
  /\ pc = "clearing"
  /\ pending = {}
  /\ Finish(FALSE)
  /\ UNCHANGED <<cloudVars, baselineVars, flagged, job, phase, skip, lost, cancelled, container>>

-----------------------------------------------------------------------------
(* Cancellation and the end of a run *)

\* An exception in run() leaves none of the run's locals behind.
LocalsGone == ManagementOver /\ skip' = FALSE /\ lost' = {}

\* Ctrl+C at an await unwinds to run(): the error is recorded, and only the finally
\* block runs.
Cancel ==
  /\ pc \in Steps
  /\ pc' = "stopping"
  /\ error' = "cancelled" /\ cancelled' = TRUE
  /\ LocalsGone
  /\ UNCHANGED <<cloudVars, baselineVars, flagged, job, phase, container>>

\* Seeded fault: a failed stop is logged and not recorded.
RecordStopDropped(e) == UNCHANGED error

\* _record_exception of what stopping the container raised: the first one stays.
RecordStop(e) == error' = IF error = "none" THEN e ELSE error

\* _cleanup_container, then END.
StopContainer ==
  /\ pc = "stopping"
  /\ \/ container' = "down" /\ UNCHANGED <<error, cancelled>>
     \/ RecordStop("stop") /\ UNCHANGED <<cancelled, container>>
     \/ /\ RecordStop("cancelled") /\ cancelled' = TRUE
        /\ container' \in {container, "down"}
  /\ pc' = "idle" /\ phase' = "NONE"
  /\ job' = (job /\ ~cancelled')
  /\ LocalsGone
  /\ UNCHANGED <<cloudVars, baselineVars, flagged>>

-----------------------------------------------------------------------------
(* Specification *)

Advance ==
  \/ PreCleanupSweep
  \/ ScriptSucceeds \/ ScriptFails \/ NoScript
  \/ Snapshot \/ Verify
  \/ SkipFrameworkReset \/ ResetReturns
  \/ RedeploySucceeds \/ RedeployFails \/ Recapture
  \/ TagsApplied
  \/ CleanupReturns \/ DeleteSnapshots \/ FlagsCleared
  \/ StopContainer
  \/ \E a \in Accounts : \/ FrameworkReset(a) \/ Tag(a)
                         \/ FrameworkCleanup(a) \/ ClearAfterCleanup(a)

Next ==
  \/ \E ph \in Phases : EnvCommand(ph)
  \/ \E a \in Accounts : CapturePreSetup(a)
  \/ StartJob \/ EndJob
  \/ MutatingTrial \/ SelfRestoringTrial \/ RefusedTrial \/ CancelledTrial
  \/ Cancel
  \/ Advance

Spec == Init /\ [][Next]_vars

\* A run that was started is driven on: every await of it returns.
FairSpec == Spec /\ WF_vars(Advance)

-----------------------------------------------------------------------------
(* Properties *)

\* Every variable holds a value of its kind; in particular the redeploy stops at
\* _REDEPLOY_MAX_ATTEMPTS attempts.
TypeOK ==
  /\ cloud \in [Accounts -> SUBSET Things]
  /\ stale \subseteq Accounts
  /\ pre \in [Accounts -> Baselines] /\ post \in [Accounts -> Baselines]
  /\ flagged \subseteq Accounts
  /\ job \in BOOLEAN
  /\ phase \in Phases \cup {"NONE"}
  /\ pc \in Steps \cup {"idle", "stopping"}
  /\ skip \in BOOLEAN /\ scriptFailed \in BOOLEAN
  /\ outcome \in [Accounts -> Outcomes]
  /\ attempts \in 0..(MaxRedeploys - 1)
  /\ pending \subseteq Accounts /\ lost \subseteq Accounts
  /\ clearFailed \in BOOLEAN
  /\ error \in Errors
  /\ cancelled \in BOOLEAN
  /\ container \in {"down", "up"}

\* A PRE_SETUP baseline never lists what a deploy or a task made, and an account
\* without one holds nothing: otherwise the next `env init` would take a leftover
\* for one of the account's defaults and no cleanup would ever remove it.  This is
\* why a deploy needs the baseline and why only a clean cleanup deletes it.
InitBaselineIntact ==
  \A a \in Accounts : IF pre[a] = NoBaseline THEN cloud[a] = {} ELSE pre[a] = {}

\* Nothing a task made outlives the clearing of a flag: a reset clears the flag of
\* an account only without a new orphan or hidden change, and, when every account's
\* reset succeeded, exactly at its baseline; a cleanup, only if empty.  (Drift may
\* outlive a redeploy: AccountReset's DriftInspected ends at a missing stack.)
ClearedOnlyWhenRestored ==
  [][\A a \in flagged \ flagged' :
       \/ /\ phase = "RESET"
          /\ cloud[a] \cap (Listed \cup {"hidden"}) \subseteq post[a]
          /\ (\A b \in Accounts : outcome[b] # "failed") => Restored(a)
       \/ phase = "CLEANUP" /\ cloud[a] = {}]_vars

\* A framework reset that was not cancelled is accounted for when the run ends:
\* every account is at its baseline, or the scenario's trials are refused because
\* one is flagged, or the flag itself could not be written (which is logged).
SettledResetAccounted ==
  (pc = "stopping" /\ phase = "RESET" /\ ~skip /\ ~cancelled) =>
    \/ \A a \in Accounts : Restored(a)
    \/ flagged \cup lost # {}

\* While an account of the scenario is flagged, only a recovery changes any of
\* them: both the deploy and the mutating trials are refused.
FlaggedScenarioFrozen ==
  [][(flagged # {} /\ cloud' # cloud) => phase \in {"RESET", "CLEANUP"}]_vars

\* The recapture that ends a reset with a redeploy never takes a task's leftover
\* into the baseline, where no later reset would see it.
RecaptureNeverAbsorbs ==
  [][phase = "RESET" => \A a \in Accounts :
       (post'[a] # post[a] /\ "orphan" \in post'[a]) => "orphan" \in post[a]]_vars

\* A result without an error means what the phase promises: ScenarioTrialResult's
\* success looks at nothing but the recorded exception and the exit code.
SuccessMeansDone ==
  (pc = "stopping" /\ error = "none") =>
    \A a \in Accounts :
      CASE phase = "DEPLOY"  -> "stack" \in cloud[a] /\ post[a] = Scan(a) /\ a \notin stale
        [] phase = "VERIFY"  -> Verifies(a)
        [] phase = "RESET"   -> ~skip => Restored(a) /\ a \notin flagged
        [] phase = "CLEANUP" -> cloud[a] = {}
        [] OTHER             -> FALSE

\* A container that outlives its run is reported: the stop's failure, or the
\* cancellation that interrupted it, is in the result, though run() swallows it.
ContainerAccounted == (pc = "idle" /\ container = "up") => error # "none"

\* Every run comes to its end, however its script, its resets, its redeploys and
\* its flag updates fail.
EveryRunReturns == (pc # "idle") ~> (pc = "idle")

=============================================================================
