------------------------------ MODULE AccountReset ------------------------------
(***************************************************************************)
(* ResetManager.reset_account (resource_management/reset/manager.py): one  *)
(* account is taken back to its baseline.  Every region is scanned once;   *)
(* then the regions are diagnosed and reset concurrently, each in its own  *)
(* coroutine; account-global resources go last, after every region.        *)
(*                                                                         *)
(* The account holds *items*, the resources the baseline does not list, a  *)
(* new CloudFormation stack being one, and the baseline's *stacks*.  AWS   *)
(* may refuse any deletion and fail any scan or read the code has to       *)
(* tolerate; each such choice is nondeterministic.  The baseline is the    *)
(* merge of its regions' captures: a type may be one that failed in one    *)
(* region and one that was captured in another.                            *)
(***************************************************************************)
EXTENDS FiniteSets

CONSTANTS
  Regions,       \* snapshot.regions
  Types,         \* the baseline's resource types: those with resources and the empty ones
  Filled,        \* types that had resources at the baseline
  FailedTypes,   \* snapshot.failed_resource_types: types no region, or not every one, captured
  GlobalTypes,   \* GLOBAL_RESOURCE_TYPES
  StackType,     \* CFN_STACK_TYPE
  Unavailable,   \* region -> types that do not exist there; _is_region_unavailable
  Flaky,         \* types whose listing may fail otherwise, in any region and scan
  Items,         \* resources the baseline does not list, such as what the agent created
  Masked,        \* items whose lister may fail beside another of their type that finds something
  TypeOf,        \* item -> its type
  HomeOf,        \* item -> its region; any region for a global one
  RolesOf,       \* item -> the global items its deletion needs, such as an execution role
  ChildrenOf,    \* new stack -> the items it owns
  Studio,        \* new stacks that AWS removes with their owner
  Lingering,     \* items whose deletion AWS may finish only hours later
  Stacks,        \* the baseline's stacks
  RegionOf,      \* stack -> its region
  Updated,       \* stacks whose status at the baseline was UPDATE_COMPLETE
  ReadFailures   \* stack reads that may fail: a subset of Reads

Reads == {"status", "template", "drift", "detect"}
NewStacks == {i \in Items : TypeOf[i] = StackType}
Globals == {i \in Items : TypeOf[i] \in GlobalTypes}

\* A new stack has another name than the baseline's; a role that it owns serves
\* only resources of that stack.
ASSUME AccountAssumption ==
  /\ Filled \subseteq Types /\ GlobalTypes \subseteq Types /\ Flaky \subseteq Types
  /\ StackType \notin GlobalTypes
  /\ Unavailable \in [Regions -> SUBSET Types]
  /\ TypeOf \in [Items -> Types \cup FailedTypes] /\ HomeOf \in [Items -> Regions]
  /\ RolesOf \in [Items -> SUBSET Globals]
  /\ ChildrenOf \in [NewStacks -> SUBSET Items]
  /\ \A n \in NewStacks, i \in Items :
       RolesOf[i] \cap ChildrenOf[n] # {} => i \in ChildrenOf[n]
  /\ \A i \in Items \ Globals : TypeOf[i] \notin Unavailable[HomeOf[i]]
  /\ Studio \subseteq NewStacks /\ Lingering \subseteq Items /\ Masked \subseteq Items
  /\ Stacks \cap Items = {}
  /\ RegionOf \in [Stacks -> Regions] /\ Updated \subseteq Stacks
  /\ ReadFailures \subseteq Reads

VARIABLES
  live,       \* items that exist
  stack,      \* stack -> its condition
  step,       \* region -> what its coroutine does next
  reusable,   \* regions whose Phase-0 scan did not raise
  phase0,     \* region -> types its Phase-0 scan enumerated
  enumerated, \* region -> types its last scan enumerated
  missed,     \* region -> items of those types that its last scan did not list
  found,      \* region -> new_resources; before the diagnosis, what Phase 0 listed
  doomed,     \* stacks diagnosed as unrecoverable in place
  absent,     \* stacks diagnosed as missing
  drifted,    \* stacks with drift_differences
  deleted,    \* region -> deleted_stacks
  deferred,   \* region -> items in its deferred scope
  abandoned,  \* region -> what force-deletes left; a stack stands for its resources
  verdict     \* of the ResetResult

itemVars == <<live, stack>>
scanVars == <<reusable, phase0, enumerated, missed>>
diagnosis == <<found, doomed, absent, drifted>>
remedies == <<deleted, deferred, abandoned>>
vars == <<live, stack, step, reusable, phase0, enumerated, missed, found, doomed, absent,
          drifted, deleted, deferred, abandoned, verdict>>

\* "bad" is a wrong status, "wrecked" one with drift, such as DELETE_FAILED, and
\* "changed" another template; "updated" is a stack without drift in
\* UPDATE_COMPLETE that was captured in CREATE_COMPLETE.
Found == {"baseline", "missing", "bad", "wrecked", "changed", "drifted", "unreadable"}
Conditions == Found \cup {"updated"}
Steps == {"scanning", "diagnosing", "newStacks", "sweeping", "unrecoverable", "restoring",
          "checking", "done", "failed"}

Init ==
  /\ live \in {held \in SUBSET Items : \A i \in held : RolesOf[i] \subseteq held}
  /\ stack \in [Stacks -> Found]
  /\ step = [r \in Regions |-> "scanning"]
  /\ reusable = {}
  /\ phase0 = [r \in Regions |-> {}]
  /\ enumerated = [r \in Regions |-> {}]
  /\ missed = [r \in Regions |-> {}]
  /\ found = [r \in Regions |-> {}]
  /\ doomed = {} /\ absent = {} /\ drifted = {}
  /\ deleted = [r \in Regions |-> {}]
  /\ deferred = [r \in Regions |-> {}]
  /\ abandoned = [r \in Regions |-> {}]
  /\ verdict = "none"

-----------------------------------------------------------------------------
(* Verification: the checks of verify_account_state *)

StacksOf(r) == {s \in Stacks : RegionOf[s] = r}

\* The types a scan of the region may enumerate, and what there is of them.
Scans(r) == {(Types \ Unavailable[r]) \ lost : lost \in SUBSET Flaky}
Listing(r, seen) == {i \in live : TypeOf[i] \in seen /\ (i \in Globals \/ HomeOf[i] = r)}

\* What such a scan may miss.  A type for which any lister found something counts as
\* detected, even if that something is the baseline's or about to go, and another lister
\* of the type failed.
Misses(r, seen) == SUBSET (Listing(r, seen) \cap Masked)

EnumerableElsewhere == UNION {phase0[q] : q \in Regions}

\* Types whose listing failed and which, empty at the baseline, are taken not to
\* exist in the region.
Tolerated(r, seen) ==
  {t \in Types \ (seen \cup Filled) : t \in EnumerableElsewhere \cup Unavailable[r]}

Unenumerable(r, seen) == Types \ (seen \cup Tolerated(r, seen))

\* A failed listing that is not tolerated hides the new resources.  find_new_resources
\* skips the types that failed at the capture, also those that another region captured.
NewResources(r, seen, listed) ==
  IF Unenumerable(r, seen) = {}
  THEN {i \in listed : TypeOf[i] \notin FailedTypes} \ deferred[r]
  ELSE {}

\* _check_new_resources returns None.
NothingNew(r, seen, listed) ==
  Unenumerable(r, seen) = {} /\ NewResources(r, seen, listed) = {}

\* The reads of one check that fail: whole checks, and the drift detection of
\* single stacks.  The last three read stack by stack.
FailingReads(r) ==
  SUBSET IF StacksOf(r) = {} THEN ReadFailures \cap {"status"} ELSE ReadFailures \ {"detect"}
FailingDetections(r) == IF "detect" \in ReadFailures THEN SUBSET StacksOf(r) ELSE {{}}

Missing(r) == {s \in StacksOf(r) : stack[s] = "missing"}

WrongStatus == {"missing", "bad", "wrecked", "updated"}

StatusFailures(r, unread) ==
  IF "status" \in unread THEN {} ELSE {s \in StacksOf(r) : stack[s] \in WrongStatus}

\* get_template of a missing stack raises, which ends the check without a list.
TemplateMismatches(r, unread) ==
  IF "template" \in unread \/ Missing(r) # {} THEN {} ELSE {s \in StacksOf(r) : stack[s] = "changed"}

\* So does describe_stacks before the drift of any stack is detected.
DriftInspected(r, unread, undetected) ==
  IF "drift" \in unread \/ Missing(r) # {} THEN {} ELSE StacksOf(r) \ undetected

DriftDifferences(r, unread, undetected) ==
  {s \in DriftInspected(r, unread, undetected) : stack[s] \in {"drifted", "wrecked"}}

\* Seeded fault: any failed detection is taken for the resource being unreadable.
DriftUndetectableAnyway(r, unread, undetected) ==
  {s \in DriftInspected(r, unread, {}) : stack[s] = "unreadable" \/ s \in undetected}

DriftUndetectable(r, unread, undetected) ==
  {s \in DriftInspected(r, unread, undetected) : stack[s] = "unreadable"}

\* Seeded fault: a check that cannot read passes.
StackChecksPassUnread(r, unread, undetected) ==
  /\ StatusFailures(r, unread) = {}
  /\ TemplateMismatches(r, unread) = {}
  /\ DriftDifferences(r, unread, undetected) = {}
  /\ DriftUndetectable(r, unread, undetected) = {}

StackChecksPass(r, unread, undetected) ==
  unread = {} /\ undetected = {} /\ \A s \in StacksOf(r) : stack[s] = "baseline"

-----------------------------------------------------------------------------
(* One region *)

Goto(r, next) == step' = [step EXCEPT ![r] = next]

\* Phase 0.  A scan that raises contributes nothing and is not reused.
ScanRegion(r) ==
  /\ step[r] = "scanning"
  /\ \/ \E seen \in Scans(r) : \E lost \in Misses(r, seen) :
          /\ reusable' = reusable \cup {r}
          /\ phase0' = [phase0 EXCEPT ![r] = seen]
          /\ missed' = [missed EXCEPT ![r] = lost]
          /\ found' = [found EXCEPT ![r] = Listing(r, seen) \ lost]
     \/ UNCHANGED <<reusable, phase0, missed, found>>
  /\ Goto(r, "diagnosing")
  /\ UNCHANGED <<itemVars, enumerated, doomed, absent, drifted, remedies, verdict>>

\* _reset_region: every check runs and all their findings are kept.
Diagnose(r) ==
  /\ step[r] = "diagnosing"
  /\ \A q \in Regions : step[q] # "scanning"
  /\ \E seen \in IF r \in reusable THEN {phase0[r]} ELSE Scans(r),
        unread \in FailingReads(r), undetected \in FailingDetections(r) :
     \E lost \in IF r \in reusable THEN {missed[r]} ELSE Misses(r, seen) :
       LET listed == IF r \in reusable THEN found[r] ELSE Listing(r, seen) \ lost
       IN /\ enumerated' = [enumerated EXCEPT ![r] = seen]
          /\ missed' = [missed EXCEPT ![r] = lost]
          /\ found' = [found EXCEPT ![r] = NewResources(r, seen, listed)]
          /\ absent' = absent \cup (StatusFailures(r, unread) \cap Missing(r))
          /\ doomed' = doomed \cup (StatusFailures(r, unread) \ Missing(r))
                              \cup DriftUndetectable(r, unread, undetected)
                              \cup TemplateMismatches(r, unread)
          /\ drifted' = drifted \cup DriftDifferences(r, unread, undetected)
          /\ Goto(r, IF NothingNew(r, seen, listed) /\ StackChecksPass(r, unread, undetected)
                     THEN "done" ELSE "newStacks")
  /\ UNCHANGED <<itemVars, reusable, phase0, remedies, verdict>>

\* Another scenario hash, a ResetFailure without further effect, or an exception
\* nothing in the region catches.
RegionRaises(r) ==
  /\ step[r] \notin {"scanning", "done", "failed"}
  /\ \A q \in Regions : step[q] # "scanning"
  /\ Goto(r, "failed")
  /\ UNCHANGED <<itemVars, scanVars, diagnosis, remedies, verdict>>

\* _delete_new_stacks: CloudFormation removes the children in dependency order; a
\* forced delete abandons some and says so, and more may survive unnoticed.
DeleteNewStacks(r) ==
  /\ step[r] = "newStacks"
  /\ LET targets == (found[r] \cap NewStacks) \ Studio
         owned(ns) == UNION {ChildrenOf[n] : n \in ns}
     IN \E ok \in SUBSET targets : \E gone \in SUBSET (owned(targets) \cap live) :
          /\ \A i \in live \ gone : RolesOf[i] \cap gone = {}
          /\ live' = live \ (ok \cup gone)
          /\ \E left \in SUBSET ((owned(ok) \cap live) \ gone) :
               abandoned' = [abandoned EXCEPT ![r] = @ \cup left]
          /\ deleted' = [deleted EXCEPT ![r] = @ \cup ok]
          /\ Goto(r, IF ok = targets THEN "sweeping" ELSE "failed")
  /\ UNCHANGED <<stack, scanVars, diagnosis, deferred, verdict>>

\* Seeded fault: global resources are swept with the region's own.
SweptAll(r) == found[r] \ NewStacks

\* The region's own new resources; global ones are left for the account's pass.
Swept(r) == found[r] \ (NewStacks \cup Globals)

\* _delete_new_resources, best effort.  A handler may defer what AWS will only
\* remove later; the global ones are deferred for this region's own checks.  A
\* studio stack may go with its owner.
SweepRegion(r) ==
  /\ step[r] = "sweeping"
  /\ \E gone \in SUBSET (live \cap Swept(r)),
        late \in SUBSET (Lingering \cap Swept(r)),
        studio \in SUBSET (live \cap found[r] \cap Studio) :
       /\ gone = {} => studio = {}
       /\ live' = live \ (gone \cup studio)
       /\ deferred' = [deferred EXCEPT ![r] = @ \cup late \cup (found[r] \cap Globals)]
  /\ Goto(r, "unrecoverable")
  /\ UNCHANGED <<stack, scanVars, diagnosis, deleted, abandoned, verdict>>

\* _delete_unrecoverable_stacks: a missing stack counts as deleted, a failed
\* deletion fails the region once all were tried.
DeleteUnrecoverable(r) ==
  /\ step[r] = "unrecoverable"
  /\ LET targets == doomed \cap StacksOf(r)
     IN \E ok \in SUBSET targets : \E forced \in SUBSET ok :
          /\ stack' = [s \in Stacks |-> IF s \in ok THEN "missing" ELSE stack[s]]
          /\ deleted' = [deleted EXCEPT ![r] = @ \cup ok \cup (absent \cap StacksOf(r))]
          /\ abandoned' = [abandoned EXCEPT ![r] = @ \cup forced]
          /\ Goto(r, IF ok = targets THEN "restoring" ELSE "failed")
  /\ UNCHANGED <<live, scanVars, diagnosis, deferred, verdict>>

\* What a stack is after its drift was reverted by an update.
Reverted(s) == IF s \in Updated THEN "baseline" ELSE "updated"

\* _restore_drifted_stacks: revert in place, else delete, else fail the region.
\* A stack that needs no update is at its baseline already.
RestoreDrifted(r) ==
  /\ step[r] = "restoring"
  /\ LET todo == (drifted \cap StacksOf(r)) \ deleted[r]
     IN \E out \in SUBSET todo : \E ok \in SUBSET (todo \ out) :
        \E forced \in SUBSET out, idle \in SUBSET ok :
          /\ \A s \in idle : stack[s] # "wrecked"
          /\ stack' = [s \in Stacks |-> CASE s \in out -> "missing"
                                         [] s \in idle -> "baseline"
                                         [] s \in ok \ idle -> Reverted(s)
                                         [] OTHER -> stack[s]]
          /\ deleted' = [deleted EXCEPT ![r] = @ \cup out]
          /\ abandoned' = [abandoned EXCEPT ![r] = @ \cup forced]
          /\ Goto(r, IF out \cup ok = todo THEN "checking" ELSE "failed")
  /\ UNCHANGED <<live, scanVars, diagnosis, deferred, verdict>>

\* Seeded fault: what a forced delete abandoned is not asked for.
CensusCleanIgnoringAbandoned(r, seen, listed) == NothingNew(r, seen, listed)

\* find_orphan_resources finds nothing and no deletion abandoned anything.
CensusClean(r, seen, listed) == NothingNew(r, seen, listed) /\ abandoned[r] = {}

\* After a deletion only the census is taken; otherwise everything is verified.
RegionConverged(r, seen, listed, unread, undetected) ==
  IF deleted[r] # {}
  THEN CensusClean(r, seen, listed)
  ELSE NothingNew(r, seen, listed) /\ StackChecksPass(r, unread, undetected)

\* Seeded fault: a region that did not converge is swept again.
AfterRecheckRetrying(converged) == IF converged THEN "done" ELSE "sweeping"

AfterRecheck(converged) == IF converged THEN "done" ELSE "failed"

\* The end of _reset_region, on a new scan.
Recheck(r) ==
  /\ step[r] = "checking"
  /\ \E seen \in Scans(r), unread \in FailingReads(r), undetected \in FailingDetections(r) :
     \E lost \in Misses(r, seen) :
       /\ enumerated' = [enumerated EXCEPT ![r] = seen]
       /\ missed' = [missed EXCEPT ![r] = lost]
       /\ LET listed == Listing(r, seen) \ lost
          IN Goto(r, AfterRecheck(RegionConverged(r, seen, listed, unread, undetected)))
  /\ UNCHANGED <<itemVars, reusable, phase0, diagnosis, remedies, verdict>>

-----------------------------------------------------------------------------
(* The account *)

Settled == {"done", "failed"}

\* The global resources handed over by the regions, each once.
Handed == UNION {found[r] \cap Globals : r \in Regions}

\* A region failed: the global pass is skipped and the first failure raised.
ReportFailure ==
  /\ verdict = "none"
  /\ \A r \in Regions : step[r] \in Settled
  /\ \E r \in Regions : step[r] = "failed"
  /\ verdict' = "failed"
  /\ UNCHANGED <<itemVars, step, scanVars, diagnosis, remedies>>

\* Seeded fault: the pass trusts the pipeline, which may skip a resource silently.
SurvivorsTrusted(left, unsure) == {}

\* _surviving_globals: a resource that cannot be confirmed gone counts as present.
Survivors(left, unsure) == (Handed \cap left) \cup unsure

\* _delete_global_resources and the result.
GlobalPass ==
  /\ verdict = "none"
  /\ \A r \in Regions : step[r] = "done"
  /\ \E gone \in SUBSET Handed, unsure \in SUBSET Handed :
       /\ live' = live \ gone
       /\ verdict' = IF Survivors(live', unsure) # {} THEN "failed"
                     ELSE IF \E r \in Regions : deleted[r] # {} THEN "redeploy" ELSE "ok"
  /\ UNCHANGED <<stack, step, scanVars, diagnosis, remedies>>

Reported == verdict # "none" /\ UNCHANGED vars

RegionStep(r) ==
  \/ ScanRegion(r) \/ Diagnose(r) \/ DeleteNewStacks(r) \/ SweepRegion(r)
  \/ DeleteUnrecoverable(r) \/ RestoreDrifted(r) \/ Recheck(r)

Next ==
  \/ \E r \in Regions : RegionStep(r) \/ RegionRaises(r)
  \/ ReportFailure \/ GlobalPass
  \/ Reported

Spec == Init /\ [][Next]_vars

\* The event loop runs each region's coroutine, and every wait for AWS is bounded.
FairSpec ==
  Spec /\ (\A r \in Regions : WF_vars(RegionStep(r))) /\ WF_vars(ReportFailure \/ GlobalPass)

-----------------------------------------------------------------------------
(* Properties *)

\* Every variable has its type.
TypeOK ==
  /\ live \subseteq Items
  /\ stack \in [Stacks -> Conditions]
  /\ step \in [Regions -> Steps]
  /\ reusable \subseteq Regions
  /\ phase0 \in [Regions -> SUBSET Types] /\ enumerated \in [Regions -> SUBSET Types]
  /\ missed \in [Regions -> SUBSET Masked] /\ found \in [Regions -> SUBSET Items]
  /\ doomed \subseteq Stacks /\ absent \subseteq Stacks /\ drifted \subseteq Stacks
  /\ deleted \in [Regions -> SUBSET (Stacks \cup Items)]
  /\ deferred \in [Regions -> SUBSET Items]
  /\ abandoned \in [Regions -> SUBSET (Stacks \cup Items)]
  /\ verdict \in {"none", "ok", "redeploy", "failed"}

Success == verdict \in {"ok", "redeploy"}

\* The regions whose scans could list the item.
SeenFrom(i) == IF i \in Globals THEN Regions ELSE {HomeOf[i]}

\* After a successful reset a resource the baseline does not list is left only if its
\* type failed at the capture, in whichever region, or if each region that could list
\* it had deferred its deletion, or missed it in its last scan beside others of its
\* type, or did not enumerate its type in that scan, where the baseline had nothing of
\* the type and the type does not exist in the region or some Phase-0 scan enumerated it.
NoSilentSurvivor ==
  Success => \A i \in live : TypeOf[i] \notin FailedTypes => \A r \in SeenFrom(i) :
    \/ i \in deferred[r] /\ i \in Lingering
    \/ i \in missed[r]
    \/ /\ TypeOf[i] \notin enumerated[r] \cup Filled
       /\ TypeOf[i] \in EnumerableElsewhere \cup Unavailable[r]

\* What a forced delete abandoned belongs to the baseline or to a new stack, and
\* no scan compares it with anything once the stack is gone: a reset that
\* abandoned something is never a success, whatever else it repaired.
AbandonedNeverPasses == Success => \A r \in Regions : abandoned[r] = {}

\* After a successful reset every stack the diagnosis named is repaired or gone,
\* a gone one means a redeploy, and a region that deleted nothing is at its
\* baseline.
SuccessSettlesStacks ==
  Success => \A s \in Stacks :
    /\ s \in doomed \cup absent \cup drifted => stack[s] \in {"baseline", "updated", "missing"}
    /\ stack[s] = "missing" => verdict = "redeploy"
    /\ deleted[RegionOf[s]] = {} => stack[s] = "baseline"

\* While a region works, no other region takes the roles that the deletion of its
\* resources still needs, nor does the account's pass after one of them failed.
DependentsKeepRoles ==
  \A i \in live \ Globals : step[HomeOf[i]] # "done" => RolesOf[i] \subseteq live

\* A stack at its baseline is never deleted or changed, however many reads fail:
\* a stack is remedied only for what was read of it.
HealthyStackKept == [][\A s \in Stacks : stack[s] = "baseline" => stack'[s] = "baseline"]_vars

\* Every reset ends with a result, also when regions fail while others work.
EveryResetReports == <>(verdict # "none")

=============================================================================
