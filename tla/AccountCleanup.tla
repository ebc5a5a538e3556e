---------------------------- MODULE AccountCleanup -----------------------------
(***************************************************************************)
(* Cleaning up one account (CleanupManager of cleanup/manager.py).         *)
(*                                                                         *)
(* Every region goes through three phases at once with the others: sweep   *)
(* what was created after setup, delete the stacks (StackDeletion), sweep  *)
(* what is not in the baseline taken before setup.  Resources of global    *)
(* types show up in every region and are withheld from those sweeps; they  *)
(* are swept when every region has finished.  A last scan for orphans      *)
(* gives the verdict.  A sweep diffs a scan against a snapshot: both may   *)
(* have failed to enumerate a type, or have missed some of a type beside   *)
(* what another lister of it found, and time passes between a scan and the *)
(* deletions it leads to.                                                  *)
(***************************************************************************)
EXTENDS StackDeletion

CONSTANTS Global,         \* resources of GLOBAL_RESOURCE_TYPES
          HomeOf,         \* resource -> the region that lists it, if regional
          Types,
          TypeOf,         \* resource or stack -> its type
          Original,       \* what the account had before setup
          Masked,         \* what a scan may miss without naming its type as failed
          Captures        \* what may have been captured at either stage

(* A snapshot lists what its scan found and names the types that failed: a *)
(* type with one lister that failed and one that found something is not    *)
(* among those.                                                            *)
Snapshots == [found : BOOLEAN, failed : SUBSET Types, listed : SUBSET Resources]

ASSUME CleanupAssumption ==
  /\ Global \subseteq Resources /\ Original \subseteq Resources /\ Masked \subseteq Resources
  /\ HomeOf \in [Resources -> Regions]
  /\ TypeOf \in [Resources \cup Stacks -> Types]
  /\ Captures \subseteq [{"setup", "init"} -> Snapshots]
  /\ \A capture \in Captures : capture["init"].listed \subseteq Original
  /\ Resources \cap Stacks = {}

VARIABLES snapshot,   \* stage -> the snapshot found there
          phase,      \* region -> where _cleanup_region_in_phases is
          plan,       \* region -> what a sweep is about to delete
          errors,     \* regions whose result carries an error
          stage,      \* where the account's cleanup is
          globals,    \* what the global sweep is about to delete
          report      \* what the cleanup says at the end
sweepVars == <<snapshot, phase, plan, errors, stage, globals, report>>
vars == <<stackVars, sweepVars>>

(* The verdict and, if it is clean, the types the last scan failed on and *)
(* what it missed of the others.                                          *)
Reports == [clean : BOOLEAN, unlisted : SUBSET Types, missed : SUBSET Masked]
NoReport == [clean |-> FALSE, unlisted |-> {}, missed |-> {}]

TypeOK ==
  /\ cfn \in [Stacks -> {"standing", "deleting", "forcing", "stuck", "gone"}]
  /\ culprits \in [Stacks -> SUBSET Resources]
  /\ live \subseteq Resources
  /\ round \in [Regions -> {"idle", "environment", "retry", "infra", "done"}]
  /\ step \in [Stacks -> Working \cup {"unlisted", "queued", "settled"}]
  /\ drive \in [Stacks -> {"none", "first", "networking", "ipam", "force"}]
  /\ outcome \in [Stacks -> Failures \cup {"none", "not_found", "success"}]
  /\ deferred \subseteq Stacks \cup Resources
  /\ snapshot \in Captures
  /\ phase \in [Regions -> {"load", "scan_setup", "sweep_setup", "stacks",
                            "scan_init", "sweep_init", "done"}]
  /\ plan \in [Regions -> SUBSET Resources]
  /\ errors \subseteq Regions
  /\ stage \in {"regions", "globals", "sweep_globals", "orphans", "done"}
  /\ globals \subseteq Resources
  /\ report \in Reports

-----------------------------------------------------------------------------
(***************************************************************************)
(* Snapshots, scans and the diff.                                          *)
(***************************************************************************)
Identifiers(which) == snapshot[which].listed

(* A scan lists what a region shows, global resources everywhere, but for  *)
(* the types it could not enumerate and what the run has deferred.  What a *)
(* scan still shows of something gone leads to no deletion: left out.      *)
(* What it misses of a type beside something it finds is spared by a sweep *)
(* (Sweep may spare anything), and only counts in the last scan.           *)
Shown(r) == {x \in live : x \in Global \/ HomeOf[x] = r}
Listed(r, unlisted) == {x \in Shown(r) : TypeOf[x] \notin unlisted} \ deferred

\* Seeded fault: a type the snapshot failed on is taken for one it had nothing of.
NewWhateverFailed(which, listed) == {x \in listed : x \notin Identifiers(which)}

(* find_new_resources: new is what the snapshot does not have, unless the  *)
(* snapshot failed on its type.                                            *)
New(which, listed) ==
  {x \in listed : x \notin Identifiers(which) /\ TypeOf[x] \notin snapshot[which].failed}

\* Seeded fault: global resources are swept with the region's own.
RegionalAll(new) == new

(* partition_by_scope: what a region may sweep. *)
Regional(new) == new \ Global

-----------------------------------------------------------------------------
(***************************************************************************)
(* The phases of a region.                                                 *)
(***************************************************************************)
Running == stage = "regions"
Phase(r, to) == phase' = [phase EXCEPT ![r] = to]
SweepStage == [scan_setup |-> "setup", scan_init |-> "init"]
AfterScan == [scan_setup |-> "sweep_setup", scan_init |-> "sweep_init"]
AfterSweep == [scan_setup |-> "stacks", sweep_setup |-> "stacks",
               scan_init |-> "done", sweep_init |-> "done"]

(* Both snapshots are read first; one that cannot be read, other than for  *)
(* not being there, ends the region.                                       *)
LoadSnapshots(r) ==
  /\ Running /\ phase[r] = "load"
  /\ \/ Phase(r, "scan_setup") /\ UNCHANGED errors
     \/ Phase(r, "done") /\ errors' = errors \cup {r}
  /\ UNCHANGED <<stackVars, snapshot, plan, stage, globals, report>>

(* Without the snapshot to compare with, the sweep is skipped; the first   *)
(* one also when the caller made it.                                       *)
ScanForSweep(r) ==
  /\ Running /\ phase[r] \in DOMAIN SweepStage
  /\ \/ /\ snapshot[SweepStage[phase[r]]].found
        /\ \E unlisted \in SUBSET Types :
             plan' = [plan EXCEPT ![r] =
                        Regional(New(SweepStage[phase[r]], Listed(r, unlisted)))]
        /\ Phase(r, AfterScan[phase[r]])
     \/ /\ ~snapshot[SweepStage[phase[r]]].found \/ phase[r] = "scan_setup"
        /\ Phase(r, AfterSweep[phase[r]])
        /\ UNCHANGED plan
  /\ UNCHANGED <<stackVars, snapshot, errors, stage, globals, report>>

(* A sweep deletes what it can; what it cannot is only logged. *)
Sweep(r) ==
  /\ Running /\ phase[r] \in {"sweep_setup", "sweep_init"}
  /\ \E removed \in SUBSET plan[r] : live' = live \ removed
  /\ plan' = [plan EXCEPT ![r] = {}]
  /\ Phase(r, AfterSweep[phase[r]])
  /\ UNCHANGED <<cfn, culprits, round, step, drive, outcome, deferred,
                 snapshot, errors, stage, globals, report>>

DeleteStacks(r) ==
  /\ Running /\ phase[r] = "stacks"
  /\ \/ DeleteAllStacks(r)
     \/ \E s \in Environment(r) \cup Bootstrap(r) : DeleteStack(s)
  /\ UNCHANGED sweepVars

(* The stacks cannot be listed: the region's result carries the error. *)
ListingFails(r) ==
  /\ Running /\ phase[r] = "stacks" /\ round[r] = "idle"
  /\ errors' = errors \cup {r}
  /\ Phase(r, "scan_init")
  /\ UNCHANGED <<stackVars, snapshot, plan, stage, globals, report>>

StacksHandled(r) ==
  /\ Running /\ phase[r] = "stacks" /\ round[r] = "done"
  /\ Phase(r, "scan_init")
  /\ UNCHANGED <<stackVars, snapshot, plan, errors, stage, globals, report>>

-----------------------------------------------------------------------------
(***************************************************************************)
(* Behind the barrier: the global sweep, the orphan scan, the verdict.     *)
(***************************************************************************)
RegionsDone ==
  /\ Running /\ \A r \in Regions : phase[r] = "done"
  /\ stage' = "globals"
  /\ UNCHANGED <<stackVars, snapshot, phase, plan, errors, globals, report>>

(* Surviving stacks do not hold it back; a missing or unreadable baseline  *)
(* does.                                                                   *)
ScanGlobals ==
  /\ stage = "globals"
  /\ \/ /\ snapshot["init"].found
        /\ \E unlisted \in SUBSET Types :
             globals' = New("init", UNION {Listed(r, unlisted) : r \in Regions}) \cap Global
        /\ stage' = "sweep_globals"
     \/ stage' = "orphans" /\ UNCHANGED globals
  /\ UNCHANGED <<stackVars, snapshot, phase, plan, errors, report>>

SweepGlobals ==
  /\ stage = "sweep_globals"
  /\ \E removed \in SUBSET globals : live' = live \ removed
  /\ globals' = {}
  /\ stage' = "orphans"
  /\ UNCHANGED <<cfn, culprits, round, step, drive, outcome, deferred,
                 snapshot, phase, plan, errors, report>>

(* The scan leaves out the bootstrap, what the baseline has and what is    *)
(* deferred.  A region that fails as a whole makes it incomplete; a type   *)
(* that cannot be enumerated, or a lister of it that failed, does not.     *)
Known == IF snapshot["init"].found THEN Identifiers("init") ELSE {}
Orphans(scanned, unlisted, lost) ==
  {s \in Stacks \ Infra : /\ cfn[s] # "gone" /\ s \notin deferred
                          /\ RegionOf[s] \in scanned /\ TypeOf[s] \notin unlisted}
  \cup ((UNION {Listed(r, unlisted) : r \in scanned}) \ (Known \cup lost))

FailedStacks == {s \in Stacks : outcome[s] \in {"failed", "blocked"}}

\* Seeded fault: a scan that left regions out counts as finished.
AttestedPartly(scanned) == FailedStacks = {} /\ errors = {}

(* CleanupSummary.all_stacks_succeeded *)
Attested(scanned) == FailedStacks = {} /\ errors = {} /\ scanned = Regions

ScanOrphans ==
  /\ stage = "orphans"
  /\ \E scanned \in SUBSET Regions, unlisted \in SUBSET Types, lost \in SUBSET Masked :
       report' = IF Attested(scanned) /\ Orphans(scanned, unlisted, lost) = {}
                 THEN [clean |-> TRUE, unlisted |-> unlisted, missed |-> lost]
                 ELSE NoReport
  /\ stage' = "done"
  /\ UNCHANGED <<stackVars, snapshot, phase, plan, errors, globals>>

-----------------------------------------------------------------------------
Init ==
  /\ StacksInit
  /\ live = Resources
  /\ snapshot \in Captures
  /\ phase = [r \in Regions |-> "load"]
  /\ plan = [r \in Regions |-> {}]
  /\ errors = {}
  /\ stage = "regions"
  /\ globals = {}
  /\ report = NoReport

CleanupRegion(r) ==
  \/ LoadSnapshots(r) \/ ScanForSweep(r) \/ Sweep(r)
  \/ DeleteStacks(r) \/ ListingFails(r) \/ StacksHandled(r)
CleanupAccount == RegionsDone \/ ScanGlobals \/ SweepGlobals \/ ScanOrphans
CloudActs == \E s \in Stacks : CloudFormation(s) /\ UNCHANGED sweepVars

Next == \/ \E r \in Regions : CleanupRegion(r)
        \/ CleanupAccount
        \/ CloudActs

Spec == Init /\ [][Next]_vars

-----------------------------------------------------------------------------
(* What no stack owns: every stack is deleted with what it owns, also one  *)
(* that was there before setup.                                            *)
Stackless(x) == \A s \in Stacks : x \notin Owned[s]

(* What each snapshot that was found lists, or names the type of as failed. *)
Vouched(x) ==
  \A which \in {"setup", "init"} : snapshot[which].found =>
    x \in Identifiers(which) \/ TypeOf[x] \in snapshot[which].failed

(* What the account had before setup outlives every cleanup, if no stack   *)
(* owns it and the snapshots vouch for it: whichever snapshot is missing   *)
(* or failed on its type, whatever the scans fail on, and in whichever     *)
(* phase, region or global sweep it comes up.                              *)
OriginalsSurvive == \A x \in Original : Stackless(x) /\ Vouched(x) => x \in live

(* A global resource that no stack owns goes only when every region has    *)
(* finished (_sweep_global_leftovers): another region's stack may need it. *)
GlobalsBehindBarrier ==
  [][\A x \in Global : x \in live \ live' /\ Stackless(x) =>
        \A r \in Regions : phase[r] = "done"]_vars

(* A clean report says that every stack is gone or deferred, with the      *)
(* bootstrap kept only for a deferred stack of its region, and that what   *)
(* is left was there before, is deferred, is of a type that the last scan  *)
(* could not enumerate, or was missed by it beside others of its type      *)
(* (CleanupSummary.is_clean).                                              *)
Excused(s) ==
  \/ s \in deferred
  \/ s \in Infra /\ Environment(RegionOf[s]) \cap deferred # {}
CleanAttests ==
  report.clean =>
    /\ \A s \in Stacks : cfn[s] = "gone" \/ Excused(s)
    /\ \A x \in live : \/ x \in Original \cup deferred \cup report.missed
                       \/ TypeOf[x] \in report.unlisted

(* A clean report leaves no stack that CloudFormation only refused to      *)
(* delete: one is deferred only when networking is all that blocks it      *)
(* (_cleanup_all_stacks_impl), and one whose exports were in use is        *)
(* retried (_poll_deletion).                                               *)
RefusedNeverClean ==
  report.clean => \A s \in Stacks \ Infra : cfn[s] # "standing"

=============================================================================
