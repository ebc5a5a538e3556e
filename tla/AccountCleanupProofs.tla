------------------------- MODULE AccountCleanupProofs --------------------------
(***************************************************************************)
(* Proofs about AccountCleanup for any regions, stacks, resources and      *)
(* types, and for any two snapshots of which the one taken before setup    *)
(* lists nothing that came later.                                          *)
(***************************************************************************)
EXTENDS AccountCleanup, TLAPS

-----------------------------------------------------------------------------
(* Type correctness. *)

LEMMA InitTypes == Init => TypeOK
BY CleanupAssumption DEF Init, StacksInit, TypeOK, Reports, NoReport, Working, Failures

\* The steps of CloudFormation and of one stack's deletion, which touch no sweep.
LEMMA CloudTypes ==
  ASSUME TypeOK, NEW s \in Stacks, CloudFormation(s), UNCHANGED sweepVars
  PROVE  TypeOK'
BY DEF CloudFormation, CfnDeletes, CfnSticks, TypeOK, sweepVars, Working, Failures

LEMMA AcceptsTypes ==
  ASSUME TypeOK, NEW s \in Stacks, NEW how \in {"deleting", "forcing"}, Accepts(s, how)
  PROVE  /\ cfn' \in [Stacks -> {"standing", "deleting", "forcing", "stuck", "gone"}]
         /\ culprits' \in [Stacks -> SUBSET Resources]
BY DEF Accepts, Refuses, TypeOK

LEMMA RecoverySteps ==
  \A s, after : Recovery(s, after) \in Working \cup {"settled"}
BY DEF Recovery, Working

LEMMA StackTypes ==
  ASSUME TypeOK, NEW s \in Stacks, DeleteStack(s), UNCHANGED sweepVars
  PROVE  TypeOK'
<1>. USE DEF sweepVars, Moves, Ends, Awaits, Working, Failures
<1>1. CASE Begin(s) \/ Crash(s)
  BY <1>1 DEF Begin, Crash, TypeOK
<1>2. CASE Request(s)
  BY <1>2, AcceptsTypes, RecoverySteps DEF Request, TypeOK
<1>3. CASE PollDeleted(s) \/ PollFailed(s)
  BY <1>3, RecoverySteps DEF PollDeleted, PollFailed, Result, TypeOK
<1>4. CASE ReapNetworking(s)
  <2>1. CASE Redrive(s, "networking") /\ UNCHANGED <<outcome, deferred, live, round>>
    BY <2>1, AcceptsTypes, RecoverySteps DEF Redrive, TypeOK
  <2>2. CASE Defer(s) /\ UNCHANGED <<cfn, culprits, drive, live, round>>
    BY <2>2, StackAssumption DEF Defer, TypeOK
  <2>3. CASE /\ Moves(s, Recovery(s, "networking"))
             /\ UNCHANGED <<cfn, culprits, drive, outcome, deferred, live, round>>
    BY <2>3, RecoverySteps DEF TypeOK
  <2>. QED  BY <1>4, <2>1, <2>2, <2>3 DEF ReapNetworking
<1>5. CASE ReapPools(s)
  BY <1>5, AcceptsTypes, RecoverySteps DEF ReapPools, Redrive, TypeOK
<1>6. CASE ForceDelete(s)
  BY <1>6, AcceptsTypes DEF ForceDelete, TypeOK
<1>7. CASE SweepAbandoned(s)
  BY <1>7 DEF SweepAbandoned, TypeOK
<1>. QED  BY <1>1, <1>2, <1>3, <1>4, <1>5, <1>6, <1>7 DEF DeleteStack

LEMMA RoundTypes ==
  ASSUME TypeOK, NEW r \in Regions, DeleteAllStacks(r), UNCHANGED sweepVars
  PROVE  TypeOK'
<1>. USE DEF sweepVars, Queue, Round, Working, Failures
<1>1. CASE ListStacks(r)
  BY <1>1 DEF ListStacks, TypeOK
<1>2. CASE RetryRefused(r)
  BY <1>2 DEF RetryRefused, TypeOK
<1>3. CASE DeleteInfra(r)
  BY <1>3 DEF DeleteInfra, TypeOK
<1>4. CASE FinishStacks(r)
  BY <1>4 DEF FinishStacks, TypeOK
<1>. QED  BY <1>1, <1>2, <1>3, <1>4 DEF DeleteAllStacks

LEMMA NextTypes == TypeOK /\ [Next]_vars => TypeOK'
<1> SUFFICES ASSUME TypeOK, [Next]_vars PROVE TypeOK'
  OBVIOUS
<1>. USE DEF Phase, stackVars
<1>1. ASSUME NEW r \in Regions, LoadSnapshots(r) \/ ListingFails(r) \/ StacksHandled(r)
      PROVE  TypeOK'
  BY <1>1 DEF LoadSnapshots, ListingFails, StacksHandled, TypeOK
<1>2. ASSUME NEW r \in Regions, ScanForSweep(r) PROVE TypeOK'
  <2>1. phase' \in [Regions -> {"load", "scan_setup", "sweep_setup", "stacks",
                                "scan_init", "sweep_init", "done"}]
    BY <1>2 DEF ScanForSweep, SweepStage, AfterScan, AfterSweep, TypeOK
  <2>2. plan' \in [Regions -> SUBSET Resources]
    BY <1>2 DEF ScanForSweep, Regional, New, Listed, Shown, TypeOK
  <2>. QED  BY <1>2, <2>1, <2>2 DEF ScanForSweep, TypeOK
<1>3. ASSUME NEW r \in Regions, Sweep(r) PROVE TypeOK'
  BY <1>3 DEF Sweep, AfterSweep, TypeOK
<1>4. ASSUME NEW r \in Regions, DeleteStacks(r) PROVE TypeOK'
  BY <1>4, StackTypes, RoundTypes, StackAssumption DEF DeleteStacks, Environment, Bootstrap
<1>5. CASE RegionsDone
  BY <1>5 DEF RegionsDone, TypeOK
<1>6. CASE ScanGlobals
  BY <1>6 DEF ScanGlobals, New, Listed, Shown, TypeOK
<1>7. CASE SweepGlobals
  BY <1>7 DEF SweepGlobals, TypeOK
<1>8. CASE ScanOrphans
  BY <1>8 DEF ScanOrphans, Reports, NoReport, TypeOK
<1>9. CASE CloudActs
  BY <1>9, CloudTypes DEF CloudActs
<1>10. CASE UNCHANGED vars
  BY <1>10 DEF vars, sweepVars, TypeOK
<1>. QED  BY <1>1, <1>2, <1>3, <1>4, <1>5, <1>6, <1>7, <1>8, <1>9, <1>10
          DEF Next, CleanupRegion, CleanupAccount

\* Every variable of the cleanup keeps its type.
THEOREM CleanupTypes == Spec => []TypeOK
BY InitTypes, NextTypes, PTL DEF Spec

-----------------------------------------------------------------------------
(* What the sweeps may delete. *)

\* Stack deletions and CloudFormation remove only what stacks own, and bring nothing back.
LEMMA StackEffects ==
  ASSUME TypeOK, NEW s \in Stacks, DeleteStack(s) \/ CloudFormation(s)
  PROVE  /\ live' \subseteq live /\ live \ Owned[s] \subseteq live'
         /\ deferred \subseteq deferred'
         /\ \A t \in Stacks : cfn[t] = "gone" => cfn'[t] = "gone"
         /\ round' = round
<1>1. CASE DeleteStack(s)
  BY <1>1 DEF DeleteStack, Begin, Crash, Request, PollDeleted, PollFailed, ReapNetworking,
    ReapPools, ForceDelete, SweepAbandoned, Redrive, Defer, Accepts, Refuses, TypeOK
<1>2. CASE CloudFormation(s)
  BY <1>2 DEF CloudFormation, CfnDeletes, CfnSticks, TypeOK
<1>. QED  BY <1>1, <1>2

LEMMA RoundEffects ==
  ASSUME NEW r \in Regions, DeleteAllStacks(r)
  PROVE  UNCHANGED <<live, cfn, culprits, drive, deferred>>
BY DEF DeleteAllStacks, ListStacks, RetryRefused, DeleteInfra, FinishStacks

\* What was there before setup, that no stack owns and the snapshots vouch for.
Kept == {x \in Original : Stackless(x) /\ Vouched(x)}

\* It is never new, whichever snapshot a scan is compared with.
LEMMA KeptNotNew ==
  ASSUME NEW which \in {"setup", "init"}, snapshot[which].found, NEW listed
  PROVE  New(which, listed) \cap Kept = {}
BY DEF New, Kept, Vouched

\* What a sweep is about to delete: nothing to be kept, and nothing global in a region; and
\* the regions have finished when the account goes on.
SweepInv ==
  /\ TypeOK /\ Kept \subseteq live
  /\ \A r \in Regions : plan[r] \cap (Kept \cup Global) = {}
  /\ globals \cap Kept = {}
  /\ stage # "regions" => \A r \in Regions : phase[r] = "done"

LEMMA InitSweepInv == Init => SweepInv
BY InitTypes, CleanupAssumption DEF Init, SweepInv, Kept

LEMMA NextSweepInv == SweepInv /\ [Next]_vars => SweepInv'
<1> SUFFICES ASSUME SweepInv, [Next]_vars PROVE SweepInv'
  OBVIOUS
<1>. USE DEF SweepInv, stackVars
<1>0. TypeOK' /\ Kept' = Kept
  <2>1. snapshot' = snapshot
    BY DEF Next, CleanupRegion, CleanupAccount, CloudActs, LoadSnapshots, ScanForSweep, Sweep,
           DeleteStacks, ListingFails, StacksHandled, RegionsDone, ScanGlobals, SweepGlobals,
           ScanOrphans, vars, sweepVars
  <2>. QED  BY <2>1, NextTypes DEF Kept, Vouched, Stackless, Identifiers
<1>1. ASSUME NEW s \in Stacks, DeleteStack(s) \/ CloudFormation(s)
      PROVE  Kept \subseteq live'
  BY <1>1, StackEffects DEF Kept, Stackless
<1>2. ASSUME NEW r \in Regions, LoadSnapshots(r) \/ ListingFails(r) \/ StacksHandled(r)
      PROVE  SweepInv'
  BY <1>0, <1>2 DEF LoadSnapshots, ListingFails, StacksHandled, Running
<1>3. ASSUME NEW r \in Regions, ScanForSweep(r) PROVE SweepInv'
  <2>1. SweepStage[phase[r]] \in {"setup", "init"}
    BY <1>3 DEF ScanForSweep, SweepStage
  <2>2. ASSUME snapshot[SweepStage[phase[r]]].found, NEW listed
        PROVE  Regional(New(SweepStage[phase[r]], listed)) \cap (Kept \cup Global) = {}
    BY <2>1, <2>2, KeptNotNew DEF Regional
  <2>3. \A q \in Regions : plan'[q] \cap (Kept \cup Global) = {}
    BY <1>3, <2>2 DEF ScanForSweep, TypeOK
  <2>. QED  BY <1>0, <1>3, <2>3 DEF ScanForSweep, Running
<1>4. ASSUME NEW r \in Regions, Sweep(r) PROVE SweepInv'
  <2>1. PICK removed \in SUBSET plan[r] : live' = live \ removed
    BY <1>4 DEF Sweep
  <2>2. Kept \subseteq live'
    BY <2>1
  <2>3. \A q \in Regions : plan'[q] \cap (Kept \cup Global) = {}
    BY <1>4 DEF Sweep, TypeOK
  <2>. QED  BY <1>0, <1>4, <2>2, <2>3 DEF Sweep, Running
<1>5. ASSUME NEW r \in Regions, DeleteStacks(r) PROVE SweepInv'
  <2>1. DeleteAllStacks(r) => Kept \subseteq live'
    BY RoundEffects
  <2>2. Kept \subseteq live' /\ UNCHANGED sweepVars
    BY <1>1, <1>5, <2>1, StackAssumption DEF DeleteStacks, Environment, Bootstrap
  <2>. QED  BY <1>0, <2>2 DEF sweepVars
<1>6. CASE RegionsDone \/ ScanOrphans
  BY <1>0, <1>6 DEF RegionsDone, ScanOrphans
<1>7. CASE ScanGlobals
  <2>1. globals' \cap Kept = {}
    BY <1>7, KeptNotNew DEF ScanGlobals
  <2>. QED  BY <1>0, <1>7, <2>1 DEF ScanGlobals
<1>8. CASE SweepGlobals
  BY <1>0, <1>8 DEF SweepGlobals
<1>9. CASE CloudActs
  BY <1>0, <1>1, <1>9 DEF CloudActs, sweepVars
<1>10. CASE UNCHANGED vars
  BY <1>0, <1>10 DEF vars, sweepVars
<1>. QED  BY <1>2, <1>3, <1>4, <1>5, <1>6, <1>7, <1>8, <1>9, <1>10
          DEF Next, CleanupRegion, CleanupAccount

\* What the account had before setup outlives every cleanup, if no stack owns it and each
\* snapshot that was found lists it or names its type as failed.
THEOREM OriginalsStay == Spec => []OriginalsSurvive
<1>1. SweepInv => OriginalsSurvive
  BY DEF SweepInv, Kept, OriginalsSurvive
<1>. QED  BY <1>1, InitSweepInv, NextSweepInv, PTL DEF Spec

\* One step: a global resource that no stack owns goes behind the barrier only.
LEMMA BarrierStep ==
  ASSUME SweepInv, [Next]_vars, NEW x \in Global, x \in live \ live', Stackless(x)
  PROVE  \A r \in Regions : phase[r] = "done"
<1>. USE DEF SweepInv, stackVars
<1>1. ASSUME NEW r \in Regions, CleanupRegion(r) PROVE FALSE
  <2>1. ASSUME Sweep(r) PROVE FALSE
    BY <2>1 DEF Sweep
  <2>2. ASSUME DeleteStacks(r) PROVE FALSE
    <3>1. ~DeleteAllStacks(r)
      BY RoundEffects
    <3>2. PICK s \in Stacks : DeleteStack(s)
      BY <2>2, <3>1, StackAssumption DEF DeleteStacks, Environment, Bootstrap
    <3>. QED  BY <3>2, StackEffects DEF Stackless
  <2>. QED  BY <1>1, <2>1, <2>2 DEF CleanupRegion, LoadSnapshots, ScanForSweep,
              ListingFails, StacksHandled
<1>2. CASE CleanupAccount
  BY <1>2 DEF CleanupAccount, RegionsDone, ScanGlobals, SweepGlobals, ScanOrphans
<1>3. CASE CloudActs
  BY <1>3, StackEffects DEF CloudActs, Stackless
<1>4. CASE UNCHANGED vars
  BY <1>4 DEF vars
<1>. QED  BY <1>1, <1>2, <1>3, <1>4 DEF Next

\* A global resource that no stack owns goes only when every region has finished.
THEOREM GlobalsWaitForRegions == Spec => GlobalsBehindBarrier
<1>1. SweepInv /\ [Next]_vars =>
        [\A x \in Global : x \in live \ live' /\ Stackless(x) =>
           \A r \in Regions : phase[r] = "done"]_vars
  BY BarrierStep
<1>. QED  BY <1>1, InitSweepInv, NextSweepInv, PTL DEF Spec, GlobalsBehindBarrier

-----------------------------------------------------------------------------
(* What a clean report attests. *)

\* A deletion past its first DeleteStack has a result.
Resulted(s) ==
  /\ step[s] \in {"networking", "ipam", "force", "sweep", "settled"} => outcome[s] # "none"
  /\ step[s] = "poll" => drive[s] # "none" /\ (drive[s] # "first" => outcome[s] # "none")

\* What a result says of its stack.
Truthful(s) ==
  /\ outcome[s] \in {"success", "not_found"} => cfn[s] = "gone"
  /\ outcome[s] = "deferred" => s \in deferred

\* A listed stack is worked on; the bootstrap is listed last, or kept for a failure.
Listing(r) ==
  /\ round[r] # "idle" => \A s \in Environment(r) : cfn[s] = "gone" \/ step[s] # "unlisted"
  /\ round[r] \in {"infra", "done"} =>
       /\ Settled(Environment(r))
       /\ \/ \A s \in Bootstrap(r) : cfn[s] = "gone" \/ step[s] # "unlisted"
          \/ \E s \in Environment(r) : outcome[s] \in Failures
  /\ round[r] = "done" => Settled(Bootstrap(r))

StackInv ==
  /\ \A s \in Stacks : Resulted(s) /\ Truthful(s)
  /\ \A r \in Regions : Listing(r)

CleanInv ==
  /\ SweepInv /\ StackInv
  /\ \A r \in Regions : phase[r] \in {"scan_init", "sweep_init", "done"} =>
       r \in errors \/ round[r] = "done"
  /\ report.clean => stage = "done"
  /\ CleanAttests

LEMMA InitCleanInv == Init => CleanInv
<1> SUFFICES ASSUME Init PROVE CleanInv
  OBVIOUS
<1>1. SweepInv
  BY InitSweepInv
<1>2. StackInv
  BY DEF Init, StacksInit, StackInv, Resulted, Truthful, Listing, Environment
<1>3. \A r \in Regions : phase[r] = "load"
  BY DEF Init
<1>4. ~report.clean
  BY DEF Init, NoReport
<1>. QED  BY <1>1, <1>2, <1>3, <1>4 DEF CleanInv, CleanAttests

\* A region has its own stacks.
LEMMA OwnStacks ==
  ASSUME NEW r \in Regions, NEW q \in Regions, q # r
  PROVE  /\ Environment(r) \cap Environment(q) = {} /\ Bootstrap(r) \cap Bootstrap(q) = {}
         /\ Environment(r) \cap Bootstrap(q) = {} /\ Bootstrap(r) \cap Environment(q) = {}
         /\ Environment(r) \cap Bootstrap(r) = {}
         /\ Environment(r) \subseteq Stacks /\ Bootstrap(r) \subseteq Stacks
BY StackAssumption DEF Environment, Bootstrap

LEMMA RecoveryFrom ==
  \A s, after : Recovery(s, after) \in {"networking", "ipam", "force", "settled"}
BY DEF Recovery

\* One stack's deletion concerns that stack alone, and only while it is not settled.
LEMMA StackStep ==
  ASSUME TypeOK, StackInv, NEW s \in Stacks, DeleteStack(s)
  PROVE  /\ step[s] \notin {"unlisted", "settled"} /\ step'[s] # "unlisted"
         /\ \A t \in Stacks \ {s} : step'[t] = step[t] /\ outcome'[t] = outcome[t]
                                    /\ drive'[t] = drive[t]
         /\ Resulted(s)' /\ Truthful(s)'
<1>. USE DEF Moves, Ends, Awaits, TypeOK
<1>1. Resulted(s) /\ Truthful(s)
  BY DEF StackInv
<1>2. CASE Begin(s) \/ Crash(s)
  BY <1>1, <1>2 DEF Begin, Crash, Resulted, Truthful
<1>3. CASE Request(s)
  BY <1>1, <1>3, RecoveryFrom DEF Request, Accepts, Refuses, Resulted, Truthful
<1>4. CASE PollDeleted(s)
  BY <1>1, <1>4 DEF PollDeleted, Resulted, Truthful
<1>5. CASE PollFailed(s)
  BY <1>1, <1>5, RecoveryFrom DEF PollFailed, Result, Resulted, Truthful
<1>6. CASE ReapNetworking(s)
  BY <1>1, <1>6, RecoveryFrom DEF ReapNetworking, Redrive, Defer, Accepts, Refuses, Resulted, Truthful
<1>7. CASE ReapPools(s)
  BY <1>1, <1>7, RecoveryFrom DEF ReapPools, Redrive, Accepts, Refuses, Resulted, Truthful
<1>8. CASE ForceDelete(s)
  BY <1>1, <1>8 DEF ForceDelete, Accepts, Refuses, Resulted, Truthful
<1>9. CASE SweepAbandoned(s)
  BY <1>1, <1>9 DEF SweepAbandoned, Resulted, Truthful
<1>. QED  BY <1>2, <1>3, <1>4, <1>5, <1>6, <1>7, <1>8, <1>9 DEF DeleteStack

LEMMA StackKeeps ==
  ASSUME TypeOK, StackInv, NEW s \in Stacks, DeleteStack(s)
  PROVE  StackInv'
<1>1. /\ \A t \in Stacks : cfn[t] = "gone" => cfn'[t] = "gone"
      /\ round' = round /\ deferred \subseteq deferred'
  BY StackEffects
<1>2. ASSUME NEW t \in Stacks PROVE (Resulted(t) /\ Truthful(t))'
  <2>1. CASE t = s
    BY <2>1, StackStep
  <2>2. CASE t # s
    BY <1>1, <2>2, StackStep DEF StackInv, Resulted, Truthful
  <2>. QED  BY <2>1, <2>2
<1>3. ASSUME NEW r \in Regions PROVE Listing(r)'
  <2>1. Listing(r) /\ Environment(r) \subseteq Stacks /\ Bootstrap(r) \subseteq Stacks
    BY StackAssumption DEF StackInv, Environment, Bootstrap
  <2>2. \A S \in SUBSET Stacks : Settled(S) => s \notin S /\ Settled(S)'
    BY StackStep DEF Settled
  <2>3. \A t \in Stacks : step[t] # "unlisted" => step'[t] # "unlisted"
    BY StackStep
  <2>4. Settled(Environment(r)) => \A t \in Environment(r) : outcome'[t] = outcome[t]
    BY <2>1, <2>2, StackStep
  <2>. QED  BY <1>1, <2>1, <2>2, <2>3, <2>4 DEF Listing
<1>. QED  BY <1>2, <1>3 DEF StackInv

LEMMA CloudKeeps ==
  ASSUME TypeOK, StackInv, NEW s \in Stacks, CloudFormation(s)
  PROVE  StackInv'
<1>1. /\ \A t \in Stacks : cfn[t] = "gone" => cfn'[t] = "gone"
      /\ UNCHANGED <<round, step, drive, outcome, deferred>>
  BY StackEffects DEF CloudFormation, CfnDeletes, CfnSticks
<1>2. \A S : Settled(S) => Settled(S)'
  BY <1>1 DEF Settled
<1>. QED  BY <1>1, <1>2, StackAssumption
          DEF StackInv, Resulted, Truthful, Listing, Environment, Bootstrap

\* A queued set of stacks starts over; the others stay as they are.
LEMMA QueueKeeps ==
  ASSUME TypeOK, StackInv, NEW S \in SUBSET Stacks, Queue(S),
         UNCHANGED <<cfn, culprits, drive, deferred>>
  PROVE  /\ \A s \in Stacks : (Resulted(s) /\ Truthful(s))'
         /\ \A s \in Stacks : IF s \in S THEN step'[s] = "queued"
                              ELSE step'[s] = step[s] /\ outcome'[s] = outcome[s]
BY DEF StackInv, Queue, Resulted, Truthful, TypeOK

LEMMA RoundKeeps ==
  ASSUME TypeOK, StackInv, NEW r \in Regions, DeleteAllStacks(r)
  PROVE  StackInv'
<1>. USE DEF Round
<1>0. UNCHANGED <<cfn, culprits, drive, deferred>> /\ Listing(r)
      /\ Environment(r) \subseteq Stacks /\ Bootstrap(r) \subseteq Stacks
  BY RoundEffects, StackAssumption DEF StackInv, Environment, Bootstrap
<1>1. ASSUME NEW S \in SUBSET Stacks, Queue(S), NEW q \in Regions,
             S \cap (Environment(q) \cup Bootstrap(q)) = {}, round'[q] = round[q]
      PROVE  Listing(q)'
  BY <1>0, <1>1, QueueKeeps, StackAssumption
     DEF StackInv, Listing, Settled, Environment, Bootstrap
<1>2. CASE ListStacks(r)
  <2> DEFINE S == {s \in Environment(r) : cfn[s] # "gone"}
  <2>1. S \in SUBSET Stacks /\ Queue(S) /\ round' = [round EXCEPT ![r] = "environment"]
    BY <1>0, <1>2 DEF ListStacks
  <2>2. \A q \in Regions \ {r} : Listing(q)'
    BY <1>1, <2>1, OwnStacks DEF TypeOK
  <2>3. Listing(r)'
    BY <1>0, <2>1, QueueKeeps DEF Listing, TypeOK
  <2>. QED  BY <1>0, <2>1, <2>2, <2>3, QueueKeeps DEF StackInv
<1>3. CASE RetryRefused(r)
  <2> DEFINE S == Refused(r)
  <2>1. S \in SUBSET Environment(r) /\ Queue(S) /\ round' = [round EXCEPT ![r] = "retry"]
        /\ round[r] = "environment"
    BY <1>0, <1>3 DEF RetryRefused, Refused
  <2>. HIDE DEF S
  <2>2. \A q \in Regions \ {r} : Listing(q)'
    BY <1>0, <1>1, <2>1, OwnStacks DEF TypeOK
  <2>3. Listing(r)'
    BY <1>0, <2>1, QueueKeeps DEF Listing, TypeOK
  <2>. QED  BY <1>0, <2>1, <2>2, <2>3, QueueKeeps DEF StackInv
<1>4. CASE DeleteInfra(r)
  <2>1. PICK seen \in SUBSET {s \in Environment(r) : outcome[s] \in Failures /\ cfn[s] # "gone"} :
          IF seen = {} THEN Queue({s \in Bootstrap(r) : cfn[s] # "gone"})
                       ELSE UNCHANGED <<step, outcome>>
    BY <1>4 DEF DeleteInfra
  <2>2. /\ round' = [round EXCEPT ![r] = "infra"] /\ Settled(Environment(r))
        /\ round[r] # "idle"
    BY <1>4 DEF DeleteInfra
  <2>3. CASE seen = {}
    <3> DEFINE S == {s \in Bootstrap(r) : cfn[s] # "gone"}
    <3>1. S \in SUBSET Bootstrap(r) /\ Queue(S) /\ \A s \in Bootstrap(r) \ S : cfn[s] = "gone"
      BY <2>1, <2>3
    <3>. HIDE DEF S
    <3>2. \A q \in Regions \ {r} : Listing(q)'
      BY <1>0, <1>1, <2>2, <3>1, OwnStacks DEF TypeOK
    <3>3. \A s \in Environment(r) : step'[s] = step[s] /\ outcome'[s] = outcome[s]
      BY <1>0, <3>1, QueueKeeps DEF Environment, Bootstrap
    <3>4. \A s \in Bootstrap(r) : cfn'[s] = "gone" \/ step'[s] # "unlisted"
      BY <1>0, <3>1, QueueKeeps
    <3>5. round'[r] = "infra"
      BY <2>2 DEF TypeOK
    <3>6. Listing(r)'
      BY <1>0, <2>2, <3>3, <3>4, <3>5 DEF Listing, Settled
    <3>. QED  BY <1>0, <3>1, <3>2, <3>6, QueueKeeps DEF StackInv
  <2>4. CASE seen # {}
    <3>1. UNCHANGED <<step, outcome>> /\ \E s \in Environment(r) : outcome[s] \in Failures
      BY <2>1, <2>4
    <3>2. \A q \in Regions \ {r} : Listing(q)'
      BY <1>0, <2>2, <3>1 DEF StackInv, Listing, Settled, TypeOK
    <3>3. Listing(r)'
      BY <1>0, <2>2, <3>1 DEF Listing, Settled, TypeOK
    <3>. QED  BY <1>0, <3>1, <3>2, <3>3 DEF StackInv, Resulted, Truthful
  <2>. QED  BY <2>3, <2>4
<1>5. CASE FinishStacks(r)
  <2>1. /\ UNCHANGED <<step, outcome>> /\ round' = [round EXCEPT ![r] = "done"]
        /\ Settled(Bootstrap(r)) /\ round[r] = "infra"
    BY <1>5 DEF FinishStacks
  <2>2. \A q \in Regions : Listing(q)'
    BY <1>0, <2>1 DEF StackInv, Listing, Settled, TypeOK
  <2>. QED  BY <1>0, <2>1, <2>2 DEF StackInv, Resulted, Truthful
<1>. QED  BY <1>2, <1>3, <1>4, <1>5 DEF DeleteAllStacks

LEMMA NothingOutside == \A A, B, C : A \cup (B \ C) = {} => B \subseteq C
OBVIOUS

\* The verdict: with every region finished and nothing failed, what is not gone is excused.
LEMMA VerdictAttests ==
  ASSUME CleanInv, ScanOrphans
  PROVE  CleanInv'
<1>. USE DEF CleanInv
<1>1. SweepInv'
  BY NextSweepInv DEF Next, CleanupAccount
<1>2. UNCHANGED <<stackVars, snapshot, phase, plan, errors, globals>> /\ stage' = "done"
      /\ stage = "orphans"
  BY DEF ScanOrphans
<1>3. StackInv'
  BY <1>2 DEF StackInv, Resulted, Truthful, Listing, Settled, stackVars
<1>4. ASSUME report'.clean PROVE CleanAttests'
  <2>1. PICK scanned \in SUBSET Regions, unlisted \in SUBSET Types, lost \in SUBSET Masked :
          report' = IF Attested(scanned) /\ Orphans(scanned, unlisted, lost) = {}
                    THEN [clean |-> TRUE, unlisted |-> unlisted, missed |-> lost]
                    ELSE NoReport
    BY DEF ScanOrphans
  <2>2. /\ Attested(scanned) /\ Orphans(scanned, unlisted, lost) = {}
        /\ report' = [clean |-> TRUE, unlisted |-> unlisted, missed |-> lost]
    BY <1>4, <2>1 DEF NoReport
  <2>3. \A r \in Regions : round[r] = "done" /\ Listing(r)
    BY <1>2, <2>2 DEF Attested, SweepInv, StackInv
  <2>4. \A s \in Stacks : step[s] = "settled" => cfn[s] = "gone" \/ s \in deferred
    BY <2>2 DEF Attested, FailedStacks, StackInv, Resulted, Truthful, SweepInv, TypeOK, Failures
  <2>5. \A s \in Stacks \ Infra : cfn[s] = "gone" \/ s \in deferred
    BY <2>3, <2>4, StackAssumption DEF Listing, Settled, Environment
  <2>6. ASSUME NEW s \in Infra
        PROVE  \/ cfn[s] = "gone" \/ s \in deferred
               \/ Environment(RegionOf[s]) \cap deferred # {}
    <3>1. s \in Stacks /\ RegionOf[s] \in Regions /\ s \in Bootstrap(RegionOf[s])
      BY StackAssumption DEF Bootstrap
    <3>2. CASE step[s] # "unlisted"
      BY <2>3, <2>4, <3>1, <3>2 DEF Listing, Settled
    <3>3. CASE \E t \in Environment(RegionOf[s]) : outcome[t] \in Failures
      <4>1. PICK t \in Environment(RegionOf[s]) : outcome[t] \in Failures
        BY <3>3
      <4>2. t \in Stacks /\ outcome[t] = "deferred"
        BY <2>2, <4>1 DEF Attested, FailedStacks, Environment, Failures
      <4>. QED  BY <4>1, <4>2 DEF StackInv, Truthful
    <3>. QED  BY <2>3, <3>1, <3>2, <3>3 DEF Listing
  <2>7. ASSUME NEW x \in live
        PROVE  x \in Original \cup deferred \cup lost \/ TypeOf[x] \in unlisted
    <3>1. x \in Resources /\ HomeOf[x] \in Regions /\ scanned = Regions
      BY <2>2, CleanupAssumption DEF Attested, SweepInv, TypeOK
    <3>2. ASSUME x \in Listed(HomeOf[x], unlisted) PROVE x \in Identifiers("init") \cup lost
      <4>1. x \in UNION {Listed(r, unlisted) : r \in scanned}
        BY <3>1, <3>2
      <4>2. UNION {Listed(r, unlisted) : r \in scanned} \subseteq Known \cup lost
        BY <2>2, NothingOutside DEF Orphans
      <4>. QED  BY <4>1, <4>2 DEF Known
    <3>3. Identifiers("init") \subseteq Original
      BY CleanupAssumption DEF Identifiers, SweepInv, TypeOK
    <3>4. x \in Shown(HomeOf[x])
      BY DEF Shown
    <3>. QED  BY <3>1, <3>2, <3>3, <3>4 DEF Listed
  <2>. QED  BY <1>2, <2>2, <2>5, <2>6, <2>7
            DEF CleanAttests, Excused, Environment, stackVars
<1>5. ~report'.clean => CleanAttests'
  BY DEF CleanAttests
<1>. QED  BY <1>1, <1>2, <1>3, <1>4, <1>5 DEF stackVars

LEMMA NextCleanInv == CleanInv /\ [Next]_vars => CleanInv'
<1> SUFFICES ASSUME CleanInv, [Next]_vars PROVE CleanInv'
  OBVIOUS
<1>. USE DEF CleanInv
<1>1. SweepInv' /\ TypeOK
  BY NextSweepInv DEF SweepInv
<1>2. ASSUME NEW r \in Regions, CleanupRegion(r) PROVE CleanInv'
  <2>1. stage = "regions" /\ UNCHANGED <<stage, report>>
    BY <1>2 DEF CleanupRegion, LoadSnapshots, ScanForSweep, Sweep, DeleteStacks, ListingFails,
                StacksHandled, Running, sweepVars
  <2>2. ~report.clean /\ ~report'.clean
    BY <2>1
  <2>3. CASE DeleteStacks(r)
    <3>1. StackInv'
      <4>1. DeleteAllStacks(r) => StackInv'
        BY <1>1, RoundKeeps
      <4>2. \A s \in Stacks : DeleteStack(s) => StackInv'
        BY <1>1, StackKeeps
      <4>. QED  BY <2>3, <4>1, <4>2, StackAssumption DEF DeleteStacks, Environment, Bootstrap
    <3>2. UNCHANGED sweepVars /\ phase[r] = "stacks"
      BY <2>3 DEF DeleteStacks
    <3>3. \A q \in Regions \ {r} : round'[q] = round[q]
      <4>1. DeleteAllStacks(r) => \A q \in Regions \ {r} : round'[q] = round[q]
        BY <1>1 DEF DeleteAllStacks, ListStacks, RetryRefused, DeleteInfra, FinishStacks, Round, TypeOK
      <4>2. \A s \in Stacks : DeleteStack(s) => round' = round
        BY <1>1, StackEffects
      <4>. QED  BY <2>3, <4>1, <4>2, StackAssumption DEF DeleteStacks, Environment, Bootstrap
    <3>. QED  BY <1>1, <2>2, <3>1, <3>2, <3>3 DEF sweepVars, CleanAttests
  <2>4. CASE ~DeleteStacks(r)
    <3>1. UNCHANGED <<cfn, culprits, round, step, drive, outcome, deferred>>
      BY <1>2, <2>4 DEF CleanupRegion, LoadSnapshots, ScanForSweep, Sweep, ListingFails,
                        StacksHandled, stackVars
    <3>2. StackInv'
      BY <3>1 DEF StackInv, Resulted, Truthful, Listing, Settled
    <3>3. errors \subseteq errors'
      BY <1>2, <2>4 DEF CleanupRegion, LoadSnapshots, ScanForSweep, Sweep, ListingFails,
                        StacksHandled
    <3>4. \A q \in Regions \ {r} : phase'[q] = phase[q]
      BY <1>1, <1>2, <2>4 DEF CleanupRegion, LoadSnapshots, ScanForSweep, Sweep, ListingFails,
                        StacksHandled, Phase, TypeOK
    <3>5. phase'[r] \in {"scan_init", "sweep_init", "done"} => r \in errors' \/ round[r] = "done"
      <4>1. CASE LoadSnapshots(r) \/ ListingFails(r) \/ StacksHandled(r)
        BY <1>1, <4>1 DEF LoadSnapshots, ListingFails, StacksHandled, Phase, TypeOK
      <4>2. CASE ScanForSweep(r) \/ Sweep(r)
        BY <1>1, <4>2, <3>3 DEF ScanForSweep, Sweep, SweepStage, AfterScan, AfterSweep, Phase, TypeOK
      <4>. QED  BY <1>2, <2>4, <4>1, <4>2 DEF CleanupRegion
    <3>. QED  BY <1>1, <2>2, <3>1, <3>2, <3>3, <3>4, <3>5 DEF CleanAttests
  <2>. QED  BY <2>3, <2>4
<1>3. CASE RegionsDone \/ ScanGlobals \/ SweepGlobals
  <2>1. UNCHANGED <<cfn, culprits, round, step, drive, outcome, deferred, phase, errors, report>>
        /\ stage # "done"
    BY <1>3 DEF RegionsDone, ScanGlobals, SweepGlobals, stackVars, Running
  <2>2. StackInv'
    BY <2>1 DEF StackInv, Resulted, Truthful, Listing, Settled
  <2>. QED  BY <1>1, <2>1, <2>2 DEF CleanAttests
<1>4. CASE ScanOrphans
  BY <1>4, VerdictAttests
<1>5. CASE CloudActs
  <2>1. PICK s \in Stacks : CloudFormation(s) /\ UNCHANGED sweepVars
    BY <1>5 DEF CloudActs
  <2>2. StackInv'
    BY <1>1, <2>1, CloudKeeps
  <2>3. /\ live' \subseteq live /\ deferred \subseteq deferred' /\ round' = round
        /\ \A t \in Stacks : cfn[t] = "gone" => cfn'[t] = "gone"
    BY <1>1, <2>1, StackEffects
  <2>. QED  BY <1>1, <2>1, <2>2, <2>3, StackAssumption DEF sweepVars, CleanAttests, Excused, Environment
<1>6. CASE UNCHANGED vars
  BY <1>1, <1>6 DEF vars, stackVars, sweepVars, StackInv, Resulted, Truthful, Listing, Settled,
                    CleanAttests, Excused
<1>. QED  BY <1>2, <1>3, <1>4, <1>5, <1>6 DEF Next, CleanupAccount

\* A clean report: every stack is gone or excused, and so is every resource.
THEOREM CleanReportsAttest == Spec => []CleanAttests
<1>1. CleanInv => CleanAttests
  BY DEF CleanInv
<1>. QED  BY <1>1, InitCleanInv, NextCleanInv, PTL DEF Spec

=============================================================================
