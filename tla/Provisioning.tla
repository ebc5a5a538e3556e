----------------------------- MODULE Provisioning -----------------------------
(***************************************************************************)
(* env init: provision_scenarios of scenario/provisioning.py over the      *)
(* account manager.  One coroutine for each (scenario, account_tag) pair   *)
(* creates or finds the pair's account, at most CreationSlots at once;     *)
(* when all have ended, one for each created account gives it its region   *)
(* policy, roles, quotas and baseline, at most LifecycleSlots at once;     *)
(* then the run may wait for the quotas.  A failure stays with its pair.   *)
(* Ctrl+C cancels the coroutines at their awaits while the thread that     *)
(* makes a call finishes it.  Runs and terminations follow one another.    *)
(***************************************************************************)
EXTENDS TestEnvironment

CONSTANTS CreationSlots,   \* min(n_concurrent, _ACCOUNT_CREATION_MAX_CONCURRENT)
          LifecycleSlots,  \* n_concurrent
          Attempts,        \* EMAIL_COLLISION_MAX_ATTEMPTS
          MaxRuns          \* bound: runs of env init

ASSUME ProvisioningAssumption ==
  /\ {CreationSlots, LifecycleSlots, Attempts} \subseteq Nat \ {0}
  /\ MaxRuns \in Nat

VARIABLES run,        \* where the command is
          runs,       \* runs of env init so far
          waits,      \* wait_for_quotas
          interrupt,  \* Ctrl+C
          pc,         \* pair -> where its coroutine is
          account,    \* pair -> result.account_id
          failure,    \* pair -> result.error
          attempts,   \* pair -> calls of _create_scenario_account
          known,      \* pairs that found their scenario's region policy
          submitted,  \* pair -> outcome of its quota requests
          snapshot,   \* pair -> result.snapshot_result
          ends,       \* pair -> END events
          unmet       \* pairs with a quota in summary.unmet_quotas
results == <<failure, submitted, snapshot>>
command == <<run, runs, waits, interrupt, unmet>>
vars == <<organization, command, results, pc, account, attempts, known, ends>>

CreatingSteps == {"listing", "creating", "backoff", "moving", "tagging"}
LifecycleSteps == {"baseline", "find", "policy", "attach", "bootstrap", "quotas", "capture"}
Running == {"creating", "lifecycle", "waiting"}
AtStep(steps) == {p \in Pairs : pc[p] \in steps}

TypeOK ==
  /\ OrganizationTypeOK
  /\ run \in Running \cup {"idle", "returned", "raised", "cancelled", "terminating"}
  /\ runs \in 0 .. MaxRuns
  /\ {waits, interrupt} \subseteq BOOLEAN
  /\ pc \in [Pairs -> CreatingSteps \cup LifecycleSteps \cup
                      {"idle", "queued", "made", "ready", "done", "failed", "cancelled"}]
  /\ account \in [Pairs -> Accounts \cup {NoAccount}]
  /\ failure \in [Pairs -> {"none", "limit", "error"}]
  /\ attempts \in [Pairs -> 0 .. Attempts]
  /\ known \subseteq Pairs
  /\ submitted \in [Pairs -> {"none", "met", "requested", "refused", "raised"}]
  /\ snapshot \in [Pairs -> {"none", "ok", "failed"}]
  /\ ends \in [Pairs -> Nat]
  /\ unmet \subseteq Pairs

Go(p, to) == pc' = [pc EXCEPT ![p] = to]
End(p) == ends' = [ends EXCEPT ![p] = @ + 1]
Proceed(p, to) == Go(p, to) /\ UNCHANGED <<failure, ends>>

(* An exception is recorded in the pair's result and ends its coroutine. *)
Fail(p, error) ==
  /\ Go(p, "failed")
  /\ failure' = [failure EXCEPT ![p] = error]
  /\ End(p)

-----------------------------------------------------------------------------
(***************************************************************************)
(* Phase 1: _create_account of a pair.                                     *)
(***************************************************************************)
Enter(p) ==
  /\ \/ /\ pc[p] = "queued" /\ Go(p, "listing")
        /\ Cardinality(AtStep(CreatingSteps)) < CreationSlots
     \/ /\ pc[p] = "ready" /\ Go(p, "baseline")
        /\ Cardinality(AtStep(LifecycleSteps)) < LifecycleSlots
  /\ ~interrupt
  /\ UNCHANGED <<organization, command, results, account, attempts, known, ends>>

\* Seeded fault: the first phase emits END for every pair.
MadeEnding(p) == Go(p, "made") /\ End(p) /\ UNCHANGED failure

(* A pair that has its account leaves END to the second phase. *)
Made(p) == Proceed(p, "made")

(* ensure_scenario_accounts: the unit's accounts are listed with their     *)
(* tags, one of the pair is reused, two are an error.                      *)
EnsureScenarioAccount(p) ==
  /\ pc[p] = "listing"
  /\ \/ Fail(p, "error") /\ UNCHANGED <<account, attempts>>
     \/ /\ Cardinality(TaggedFor(p)) = 1
        /\ \E a \in TaggedFor(p) : account' = [account EXCEPT ![p] = a]
        /\ Made(p) /\ UNCHANGED attempts
     \/ /\ TaggedFor(p) = {}
        /\ attempts' = [attempts EXCEPT ![p] = 1]
        /\ Proceed(p, "creating") /\ UNCHANGED account
  /\ UNCHANGED <<organization, command, submitted, snapshot, known>>

\* Seeded fault: the retry of an email collision retries everything.
RetryableAll(error) == TRUE

Retryable(error) == error = "collision"

\* Seeded fault: a retry is not counted.
AnotherUncounted(p) == attempts[p]

Another(p) == attempts[p] + 1

(* An exception in _create_scenario_account. *)
Raise(p, error) ==
  IF Retryable(error) /\ attempts[p] < Attempts
  THEN attempts' = [attempts EXCEPT ![p] = Another(p)] /\ Proceed(p, "backoff")
  ELSE Fail(p, IF error = "limit" THEN "limit" ELSE "error") /\ UNCHANGED attempts

(* The retry waits, then asks for another address. *)
Backoff(p) ==
  /\ pc[p] = "backoff"
  /\ Proceed(p, "creating")
  /\ UNCHANGED <<organization, command, submitted, snapshot, known, account, attempts>>

(* CreateAccount and the poll of its status.  The address may be taken,    *)
(* the organization full; after a timeout the account may still come.      *)
Open(a) == Put(a, "root") /\ UNCHANGED <<ou, tag, has, policies, leaving>>
CreateAccount(p) ==
  /\ pc[p] = "creating"
  /\ \/ /\ Unborn # {} /\ Open(NextId)
        /\ \/ /\ account' = [account EXCEPT ![p] = NextId]
              /\ Proceed(p, "moving") /\ UNCHANGED attempts
           \/ Raise(p, "timeout") /\ UNCHANGED account
     \/ /\ Unborn = {} /\ Raise(p, "limit")
        /\ UNCHANGED <<organization, account>>
     \/ \E error \in {"collision", "other"} :
          Raise(p, error) /\ UNCHANGED <<organization, account>>
  /\ UNCHANGED <<command, submitted, snapshot, known>>

(* A call of AWS for a pair either answers, or raises with or without      *)
(* having taken effect.                                                    *)
MoveToUnit(p) == Put(account[p], "ou") /\ UNCHANGED <<ou, tag, has, policies, leaving>>
Move(p) ==
  /\ pc[p] = "moving"
  /\ \/ MoveToUnit(p) /\ Proceed(p, "tagging") /\ UNCHANGED attempts
     \/ Raise(p, "other") /\ (MoveToUnit(p) \/ UNCHANGED organization)
  /\ UNCHANGED <<command, submitted, snapshot, known, account>>

(* The scenario tag, then one that nothing reads. *)
TagPair(p) ==
  tag' = [tag EXCEPT ![account[p]] = p] /\ UNCHANGED <<ou, place, has, policies, leaving>>
Tag(p) ==
  /\ pc[p] = "tagging"
  /\ \/ TagPair(p) /\ Made(p) /\ UNCHANGED attempts
     \/ Raise(p, "other") /\ (TagPair(p) \/ UNCHANGED organization)
  /\ UNCHANGED <<command, submitted, snapshot, known, account>>

CreateScenarioAccount(p) ==
  EnsureScenarioAccount(p) \/ CreateAccount(p) \/ Backoff(p) \/ Move(p) \/ Tag(p)

-----------------------------------------------------------------------------
(***************************************************************************)
(* Phase 2: _provision_account_lifecycle of a pair.                        *)
(***************************************************************************)
ScenarioPolicy(p) == ScenarioOf[p]
Grant(p, traits) == Give(account[p], traits) /\ UNCHANGED <<ou, place, tag, policies, leaving>>
StepOf(p, step, next) ==
  /\ pc[p] = step
  /\ \/ Proceed(p, next)
     \/ Fail(p, "error")
  /\ UNCHANGED <<command, submitted, snapshot, account, attempts>>

(* An existing baseline must cover the scenario's regions. *)
CheckBaseline(p) == StepOf(p, "baseline", "find") /\ UNCHANGED <<organization, known>>

(* ensure_region_restriction_scp: the scenario's policy is looked up by    *)
(* name, created if it was not there, and attached.  A name that exists    *)
(* by then is refused, and that is not retried.                            *)
FindPolicy(p) ==
  /\ StepOf(p, "find", "policy")
  /\ known' = IF ScenarioPolicy(p) \in policies THEN known \cup {p} ELSE known
  /\ UNCHANGED organization
EnsurePolicy(p) ==
  /\ StepOf(p, "policy", "attach")
  /\ pc'[p] = "attach" => p \in known \/ ScenarioPolicy(p) \notin policies
  /\ \/ policies' = policies \cup {ScenarioPolicy(p)}
     \/ pc'[p] = "failed" /\ UNCHANGED policies
  /\ UNCHANGED <<ou, place, tag, has, leaving, known>>
AttachPolicy(p) ==
  /\ StepOf(p, "attach", "bootstrap")
  /\ \/ Grant(p, {"fence"})
     \/ pc'[p] = "failed" /\ UNCHANGED organization
  /\ UNCHANGED known

(* The wait for the access role, the opt-in of regions and the role for    *)
(* CloudFormation: each polls up to a deadline, and ends the pair if it    *)
(* fails.                                                                  *)
Bootstrap(p) ==
  /\ StepOf(p, "bootstrap", "quotas")
  /\ \/ Grant(p, {"roles"})
     \/ pc'[p] = "failed" /\ UNCHANGED organization
  /\ UNCHANGED known

(* request_quotas: an increase is met already, requested (or pending), or  *)
(* failed; an exception is kept and the capture comes all the same.        *)
Submit(p, outcome) == submitted' = [submitted EXCEPT ![p] = outcome]
RequestQuotas(p) ==
  /\ pc[p] = "quotas"
  /\ Proceed(p, "capture")
  /\ \/ Submit(p, "met") /\ Grant(p, {"quota"})
     \/ \E outcome \in {"requested", "refused", "raised"} :
          Submit(p, outcome) /\ UNCHANGED organization
  /\ UNCHANGED <<command, snapshot, account, attempts, known>>

(* The PRE_SETUP baseline is captured unless the account has one. *)
Capture(p) ==
  /\ pc[p] = "capture"
  /\ \/ snapshot' = [snapshot EXCEPT ![p] = "ok"] /\ Grant(p, {"baseline"})
     \/ /\ "baseline" \notin has[account[p]]
        /\ snapshot' = [snapshot EXCEPT ![p] = "failed"] /\ UNCHANGED organization
  /\ Go(p, "done") /\ End(p)
  /\ UNCHANGED <<command, failure, submitted, account, attempts, known>>

ProvisionLifecycle(p) ==
  \/ CheckBaseline(p) \/ FindPolicy(p) \/ EnsurePolicy(p) \/ AttachPolicy(p)
  \/ Bootstrap(p) \/ RequestQuotas(p) \/ Capture(p)

(* The coroutine is cancelled at an await.  The thread that made the call  *)
(* finishes it, or the call raises there; nobody hears of it.              *)
Lands(p) ==
  \/ UNCHANGED organization
  \/ pc[p] = "creating" /\ Unborn # {} /\ Open(NextId)
  \/ pc[p] = "moving" /\ MoveToUnit(p)
  \/ pc[p] = "tagging" /\ TagPair(p)
  \/ /\ pc[p] \in {"find", "policy", "attach"}
     /\ policies' = policies \cup {ScenarioPolicy(p)}
     /\ Give(account[p], {"fence"}) /\ UNCHANGED <<ou, place, tag, leaving>>
  \/ pc[p] = "bootstrap" /\ Grant(p, {"roles"})
  \/ pc[p] = "capture" /\ Grant(p, {"baseline"})
Cancel(p) ==
  /\ interrupt
  /\ \/ pc[p] \in CreatingSteps \cup LifecycleSteps /\ Lands(p) /\ End(p)
     \/ pc[p] \in {"queued", "ready"} /\ UNCHANGED <<organization, ends>>
  /\ Go(p, "cancelled")
  /\ UNCHANGED <<command, results, account, attempts, known>>

-----------------------------------------------------------------------------
(***************************************************************************)
(* provision_scenarios.                                                    *)
(***************************************************************************)
(* ProvisionedAccount.provisioned *)
Succeeded(p) == failure[p] = "none" /\ submitted[p] # "raised" /\ snapshot[p] # "failed"

(* ProvisioningSummary.all_succeeded *)
AllSucceeded ==
  /\ \A p \in Pairs : Succeeded(p)
  /\ \A p \in unmet : submitted[p] # "refused"
  /\ ~waits \/ unmet = {}

Init ==
  /\ OrganizationInit
  /\ run = "idle" /\ runs = 0 /\ waits = FALSE /\ interrupt = FALSE /\ unmet = {}
  /\ pc = [p \in Pairs |-> "idle"]
  /\ account = [p \in Pairs |-> NoAccount]
  /\ failure = [p \in Pairs |-> "none"]
  /\ attempts = [p \in Pairs |-> 0]
  /\ known = {}
  /\ submitted = [p \in Pairs |-> "none"]
  /\ snapshot = [p \in Pairs |-> "none"]
  /\ ends = [p \in Pairs |-> 0]

Start ==
  /\ run = "idle" /\ runs < MaxRuns
  /\ runs' = runs + 1
  /\ \/ /\ InitOrganization /\ run' = "creating"
        /\ pc' = [p \in Pairs |-> "queued"]
     \/ /\ InitFails /\ run' = "raised" /\ UNCHANGED pc
  /\ UNCHANGED <<place, tag, has, policies, leaving, waits, interrupt, unmet>>
  /\ UNCHANGED <<results, account, attempts, known, ends>>

MainRuns(to) == run' = to /\ UNCHANGED <<runs, waits, interrupt>>
CoroutinesRest ==
  UNCHANGED <<organization, results, account, attempts, known, ends>>

(* The barrier between the phases, and the convergence of new accounts. *)
StartLifecycles ==
  /\ run = "creating" /\ ~interrupt
  /\ \A p \in Pairs : pc[p] \in {"made", "failed"}
  /\ MainRuns("lifecycle")
  /\ pc' = [p \in Pairs |-> IF pc[p] = "made" THEN "ready" ELSE pc[p]]
  /\ CoroutinesRest /\ UNCHANGED unmet

(* A full organization ends the command; what the requests have not met is *)
(* unmet until the wait finds otherwise.                                   *)
EndLifecycles ==
  /\ run = "lifecycle" /\ ~interrupt
  /\ \A p \in Pairs : pc[p] \in {"done", "failed"}
  /\ \/ /\ \E p \in Pairs : failure[p] = "limit"
        /\ run' = "raised" /\ UNCHANGED <<waits, unmet>>
     \/ /\ \A p \in Pairs : failure[p] # "limit"
        /\ waits' \in BOOLEAN
        /\ run' = IF waits' THEN "waiting" ELSE "returned"
        /\ unmet' = {p \in Pairs : submitted[p] \in {"requested", "refused"}}
  /\ UNCHANGED <<runs, interrupt>>
  /\ CoroutinesRest /\ UNCHANGED pc

\* Seeded fault: only the requests that were filed are polled.
PolledFiled == {p \in Pairs : submitted[p] = "requested"}

(* _build_account_mappings: every account without an error. *)
Polled == {p \in Pairs : account[p] # NoAccount /\ failure[p] = "none"}

(* The wait polls the effective values until all are met or the deadline   *)
(* has passed, when the last answer counts, or is raised if it was an      *)
(* error.                                                                  *)
Short == {p \in Polled : "quota" \notin has[account[p]]}
AwaitQuotas ==
  /\ run = "waiting" /\ ~interrupt
  /\ \/ MainRuns("returned") /\ unmet' = IF Polled = {} THEN unmet ELSE Short
     \/ MainRuns("raised") /\ Polled # {} /\ UNCHANGED unmet
  /\ CoroutinesRest /\ UNCHANGED pc

(* Every coroutine has ended, those cancelled included; one that had made  *)
(* its account before the barrier says nothing more.                       *)
Unwind ==
  /\ run \in Running /\ interrupt
  /\ \A p \in Pairs : pc[p] \in {"made", "done", "failed", "cancelled"}
  /\ MainRuns("cancelled")
  /\ CoroutinesRest /\ UNCHANGED <<pc, unmet>>

Interrupt ==
  /\ run \in Running /\ ~interrupt
  /\ interrupt' = TRUE
  /\ CoroutinesRest /\ UNCHANGED <<run, runs, waits, unmet, pc>>

(* The process ends, and its results with it. *)
Exit ==
  /\ run \in {"returned", "raised", "cancelled"}
  /\ run' = "idle" /\ waits' = FALSE /\ interrupt' = FALSE /\ unmet' = {}
  /\ pc' = [p \in Pairs |-> "idle"]
  /\ account' = [p \in Pairs |-> NoAccount]
  /\ failure' = [p \in Pairs |-> "none"]
  /\ attempts' = [p \in Pairs |-> 0]
  /\ known' = {}
  /\ submitted' = [p \in Pairs |-> "none"]
  /\ snapshot' = [p \in Pairs |-> "none"]
  /\ ends' = [p \in Pairs |-> 0]
  /\ UNCHANGED <<organization, runs>>

(* env terminate, for a choice of the unit's accounts, up to its end or to *)
(* a Ctrl+C.                                                               *)
Terminate ==
  /\ \/ /\ run = "idle" /\ ou # "absent" /\ MainRuns("terminating")
        /\ \E chosen \in SUBSET InUnit : BeginTermination(chosen)
        /\ UNCHANGED <<ou, place, tag, has, policies>>
     \/ /\ run = "terminating"
        /\ \/ UNCHANGED run /\ \E a \in leaving : TerminateAccount(a)
           \/ run' = "idle" /\ FinishTermination
           \/ /\ run' = "idle" /\ leaving' = {}
              /\ UNCHANGED <<ou, place, tag, has, policies>>
        /\ UNCHANGED <<runs, waits, interrupt>>
  /\ UNCHANGED <<results, pc, account, attempts, known, ends, unmet>>

(* AWS grants a requested increase while the run waits; one that is        *)
(* granted later is met when the next run requests it.                     *)
GrantQuota ==
  /\ run = "waiting"
  /\ \E p \in Pairs : submitted[p] = "requested" /\ Grant(p, {"quota"})
  /\ UNCHANGED <<command, results, pc, account, attempts, known, ends>>

Coroutine(p) == Enter(p) \/ CreateScenarioAccount(p) \/ ProvisionLifecycle(p) \/ Cancel(p)
Main == StartLifecycles \/ EndLifecycles \/ AwaitQuotas \/ Unwind

Next ==
  \/ \E p \in Pairs : Coroutine(p)
  \/ Main
  \/ Start \/ Interrupt \/ Exit \/ Terminate \/ GrantQuota

(* Every await ends: AWS calls, polls and the waits of phase 2 have        *)
(* deadlines.                                                              *)
Spec == Init /\ [][Next]_vars /\ WF_vars(Main) /\ \A p \in Pairs : WF_vars(Coroutine(p))

-----------------------------------------------------------------------------
(* A run that reports success for every pair tells the truth about every   *)
(* account: it is in the unit under its own tag, fenced to its regions,    *)
(* with the roles, a baseline and, if the run waited for them, its quotas. *)
Complete(a, p) ==
  /\ place[a] = "ou" /\ tag[a] = p
  /\ {"fence", "roles", "baseline"} \subseteq has[a]
  /\ waits => "quota" \in has[a]
SummaryHonest ==
  [][run' = "returned" /\ AllSucceeded' => \A p \in Pairs : Complete(account[p], p)']_vars

(* Both phases may emit END: a pair gets one, and none is left without     *)
(* when the run returns (_create_account, _provision_account_lifecycle).   *)
OneEndEach ==
  /\ \A p \in Pairs : ends[p] <= 1
  /\ run = "returned" => \A p \in Pairs : ends[p] = 1

(* Whatever fails or is cancelled, every run of env init comes to its end  *)
(* although its pairs wait for slots and the second phase for the first.   *)
EveryRunEnds == run \in Running ~> run \notin Running

=============================================================================
