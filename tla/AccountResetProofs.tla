--------------------------- MODULE AccountResetProofs ---------------------------
(***************************************************************************)
(* Proofs about AccountReset, for any regions, resources and stacks.  Each *)
(* part of the inductive invariant is a lemma that uses the earlier ones.  *)
(***************************************************************************)
EXTENDS AccountReset, TLAPS

-----------------------------------------------------------------------------
(* Types *)

\* A region's coroutine is at one of its steps afterwards, and no other region's moves.
LEMMA GotoMoves ==
  ASSUME TypeOK, NEW r \in Regions, NEW next \in Steps, Goto(r, next)
  PROVE  /\ step' \in [Regions -> Steps]
         /\ step'[r] = next
         /\ \A q \in Regions \ {r} : step'[q] = step[q]
  BY DEF TypeOK, Goto

LEMMA TypesKept == TypeOK /\ [Next]_vars => TypeOK'
<1> SUFFICES ASSUME TypeOK, [Next]_vars PROVE TypeOK'  OBVIOUS
<1> USE AccountAssumption
<1>1. ASSUME NEW r \in Regions, ScanRegion(r) PROVE TypeOK'
  <2>1. step' \in [Regions -> Steps]
    BY <1>1, GotoMoves DEF ScanRegion, Steps
  <2>2. /\ reusable' \subseteq Regions
        /\ phase0' \in [Regions -> SUBSET Types] /\ found' \in [Regions -> SUBSET Items]
        /\ missed' \in [Regions -> SUBSET Masked]
    <3>1. CASE UNCHANGED <<reusable, phase0, missed, found>>
      BY <3>1 DEF TypeOK
    <3>2. ASSUME NEW seen \in Scans(r), NEW lost \in Misses(r, seen),
                 reusable' = reusable \cup {r},
                 phase0' = [phase0 EXCEPT ![r] = seen],
                 missed' = [missed EXCEPT ![r] = lost],
                 found' = [found EXCEPT ![r] = Listing(r, seen) \ lost]
          PROVE  /\ reusable' \subseteq Regions
                 /\ phase0' \in [Regions -> SUBSET Types] /\ found' \in [Regions -> SUBSET Items]
                 /\ missed' \in [Regions -> SUBSET Masked]
      <4>1. /\ seen \in SUBSET Types /\ lost \in SUBSET Masked
            /\ Listing(r, seen) \ lost \in SUBSET Items
        BY DEF TypeOK, Scans, Listing, Misses
      <4> QED  BY <3>2, <4>1 DEF TypeOK
    <3> QED  BY <1>1, <3>1, <3>2 DEF ScanRegion
  <2> QED  BY <1>1, <2>1, <2>2 DEF ScanRegion, TypeOK, itemVars, remedies
<1>2. ASSUME NEW r \in Regions, Diagnose(r) PROVE TypeOK'
  <2>1. PICK seen \in IF r \in reusable THEN {phase0[r]} ELSE Scans(r),
             unread \in FailingReads(r), undetected \in FailingDetections(r) :
        \E lost \in IF r \in reusable THEN {missed[r]} ELSE Misses(r, seen) :
          LET listed == IF r \in reusable THEN found[r] ELSE Listing(r, seen) \ lost
          IN /\ enumerated' = [enumerated EXCEPT ![r] = seen]
             /\ missed' = [missed EXCEPT ![r] = lost]
             /\ found' = [found EXCEPT ![r] = NewResources(r, seen, listed)]
             /\ absent' = absent \cup (StatusFailures(r, unread) \cap Missing(r))
             /\ doomed' = doomed \cup (StatusFailures(r, unread) \ Missing(r))
                                 \cup DriftUndetectable(r, unread, undetected)
                                 \cup TemplateMismatches(r, unread)
             /\ drifted' = drifted \cup DriftDifferences(r, unread, undetected)
             /\ \E next \in {"done", "newStacks"} : Goto(r, next)
    BY <1>2 DEF Diagnose
  <2>0. PICK lost \in IF r \in reusable THEN {missed[r]} ELSE Misses(r, seen) :
          /\ missed' = [missed EXCEPT ![r] = lost]
          /\ found' = [found EXCEPT ![r] = NewResources(r, seen, IF r \in reusable THEN found[r]
                                                               ELSE Listing(r, seen) \ lost)]
    BY <2>1
  <2> DEFINE listed == IF r \in reusable THEN found[r] ELSE Listing(r, seen) \ lost
  <2>a. seen \in SUBSET Types /\ listed \in SUBSET Items /\ lost \in SUBSET Masked
    BY <2>1 DEF TypeOK, Scans, Listing, Misses
  <2>b. NewResources(r, seen, listed) \in SUBSET Items
    BY <2>a DEF NewResources
  <2>2. step' \in [Regions -> Steps]
    BY <2>1, GotoMoves DEF Steps
  <2>3. /\ enumerated' \in [Regions -> SUBSET Types] /\ found' \in [Regions -> SUBSET Items]
        /\ missed' \in [Regions -> SUBSET Masked]
        /\ absent' \subseteq Stacks /\ doomed' \subseteq Stacks /\ drifted' \subseteq Stacks
    <3>1. enumerated' \in [Regions -> SUBSET Types] /\ found' \in [Regions -> SUBSET Items]
      <4>1. enumerated' = [enumerated EXCEPT ![r] = seen]
        BY <2>1
      <4>2. found' = [found EXCEPT ![r] = NewResources(r, seen, listed)]
        BY <2>0
      <4> HIDE DEF listed
      <4> QED  BY <4>1, <4>2, <2>a, <2>b DEF TypeOK
    <3>3. missed' \in [Regions -> SUBSET Masked]
      BY <2>0, <2>a DEF TypeOK
    <3>2. absent' \subseteq Stacks /\ doomed' \subseteq Stacks /\ drifted' \subseteq Stacks
      BY <2>1 DEF TypeOK, StatusFailures, Missing, DriftUndetectable, TemplateMismatches,
                  DriftDifferences, DriftInspected, StacksOf
    <3> QED  BY <3>1, <3>2, <3>3
  <2> QED  BY <1>2, <2>2, <2>3 DEF Diagnose, TypeOK, itemVars, remedies
<1>3. ASSUME NEW r \in Regions, RegionRaises(r) PROVE TypeOK'
  <2>1. step' \in [Regions -> Steps]
    BY <1>3, GotoMoves DEF RegionRaises, Steps
  <2> QED  BY <1>3, <2>1 DEF RegionRaises, TypeOK, itemVars, scanVars, diagnosis, remedies
<1>4. ASSUME NEW r \in Regions, DeleteNewStacks(r) PROVE TypeOK'
  <2>1. /\ live' \subseteq live
        /\ \E ok \in SUBSET Items : deleted' = [deleted EXCEPT ![r] = @ \cup ok]
        /\ \E left \in SUBSET Items : abandoned' = [abandoned EXCEPT ![r] = @ \cup left]
        /\ \E next \in {"sweeping", "failed"} : Goto(r, next)
    BY <1>4 DEF DeleteNewStacks, TypeOK
  <2>2. step' \in [Regions -> Steps]
    BY <2>1, GotoMoves DEF Steps
  <2>3. /\ deleted' \in [Regions -> SUBSET (Stacks \cup Items)]
        /\ abandoned' \in [Regions -> SUBSET (Stacks \cup Items)]
    BY <2>1 DEF TypeOK
  <2> QED  BY <1>4, <2>1, <2>2, <2>3 DEF DeleteNewStacks, TypeOK, scanVars, diagnosis
<1>5. ASSUME NEW r \in Regions, SweepRegion(r) PROVE TypeOK'
  <2>1. PICK late \in SUBSET Items :
          deferred' = [deferred EXCEPT ![r] = @ \cup late \cup (found[r] \cap Globals)]
    BY <1>5 DEF SweepRegion, Swept, TypeOK
  <2>2. live' \subseteq live /\ step' \in [Regions -> Steps]
    BY <1>5, GotoMoves DEF SweepRegion, Steps
  <2>3. deferred' \in [Regions -> SUBSET Items]
    BY <2>1 DEF TypeOK
  <2> QED  BY <1>5, <2>2, <2>3 DEF SweepRegion, TypeOK, scanVars, diagnosis
<1>6. ASSUME NEW r \in Regions, DeleteUnrecoverable(r) PROVE TypeOK'
  <2>1. PICK ok \in SUBSET (doomed \cap StacksOf(r)) : \E forced \in SUBSET ok :
          /\ stack' = [s \in Stacks |-> IF s \in ok THEN "missing" ELSE stack[s]]
          /\ deleted' = [deleted EXCEPT ![r] = @ \cup ok \cup (absent \cap StacksOf(r))]
          /\ abandoned' = [abandoned EXCEPT ![r] = @ \cup forced]
          /\ \E next \in {"restoring", "failed"} : Goto(r, next)
    BY <1>6 DEF DeleteUnrecoverable
  <2>a. stack' \in [Stacks -> Conditions]
    BY <2>1 DEF TypeOK, Conditions, Found
  <2>2. step' \in [Regions -> Steps]
    BY <2>1, GotoMoves DEF Steps
  <2>3. /\ deleted' \in [Regions -> SUBSET (Stacks \cup Items)]
        /\ abandoned' \in [Regions -> SUBSET (Stacks \cup Items)]
    BY <2>1 DEF TypeOK
  <2> QED  BY <1>6, <2>a, <2>2, <2>3 DEF DeleteUnrecoverable, TypeOK, scanVars, diagnosis
<1>7. ASSUME NEW r \in Regions, RestoreDrifted(r) PROVE TypeOK'
  <2> DEFINE todo == (drifted \cap StacksOf(r)) \ deleted[r]
  <2>1. PICK out \in SUBSET todo : \E ok \in SUBSET (todo \ out) :
          \E forced \in SUBSET out, idle \in SUBSET ok :
          /\ \A s \in idle : stack[s] # "wrecked"
          /\ stack' = [s \in Stacks |-> CASE s \in out -> "missing"
                                          [] s \in idle -> "baseline"
                                          [] s \in ok \ idle -> Reverted(s)
                                          [] OTHER -> stack[s]]
          /\ deleted' = [deleted EXCEPT ![r] = @ \cup out]
          /\ abandoned' = [abandoned EXCEPT ![r] = @ \cup forced]
          /\ Goto(r, IF out \cup ok = todo THEN "checking" ELSE "failed")
    BY <1>7 DEF RestoreDrifted
  <2>a. stack' \in [Stacks -> Conditions]
    BY <2>1 DEF TypeOK, Conditions, Found, Reverted
  <2>2. step' \in [Regions -> Steps]
    BY <2>1, GotoMoves DEF Steps
  <2>3. /\ deleted' \in [Regions -> SUBSET (Stacks \cup Items)]
        /\ abandoned' \in [Regions -> SUBSET (Stacks \cup Items)]
    BY <2>1 DEF TypeOK
  <2> QED  BY <1>7, <2>a, <2>2, <2>3 DEF RestoreDrifted, TypeOK, scanVars, diagnosis
<1>8. ASSUME NEW r \in Regions, Recheck(r) PROVE TypeOK'
  <2>1. /\ \E seen \in SUBSET Types : enumerated' = [enumerated EXCEPT ![r] = seen]
        /\ \E lost \in SUBSET Masked : missed' = [missed EXCEPT ![r] = lost]
        /\ \E next \in {"done", "failed"} : Goto(r, next)
    BY <1>8 DEF Recheck, AfterRecheck, Scans, Misses
  <2>2. step' \in [Regions -> Steps]
    BY <2>1, GotoMoves DEF Steps
  <2>3. enumerated' \in [Regions -> SUBSET Types] /\ missed' \in [Regions -> SUBSET Masked]
    BY <2>1 DEF TypeOK
  <2> QED  BY <1>8, <2>2, <2>3 DEF Recheck, TypeOK, itemVars, diagnosis, remedies
<1>9. CASE ReportFailure
  BY <1>9 DEF ReportFailure, TypeOK, itemVars, scanVars, diagnosis, remedies
<1>10. CASE GlobalPass
  BY <1>10 DEF GlobalPass, TypeOK, scanVars, diagnosis, remedies
<1>11. CASE UNCHANGED vars
  BY <1>11 DEF vars, TypeOK
<1> QED
  BY <1>1, <1>2, <1>3, <1>4, <1>5, <1>6, <1>7, <1>8, <1>9, <1>10, <1>11
  DEF Next, RegionStep, Reported

\* Every variable of the reset keeps its type, for any number of regions.
THEOREM ResetTypes == Spec => []TypeOK
<1>1. Init => TypeOK
  BY DEF Init, TypeOK, Found, Conditions, Steps
<1> QED  BY <1>1, TypesKept, PTL DEF Spec

-----------------------------------------------------------------------------
(* What a step of one region leaves alone *)

RegionAct(r) == RegionStep(r) \/ RegionRaises(r)

\* A step of a region, a step of the account, or none.
LEMMA NextCases ==
  ASSUME [Next]_vars
  PROVE  (\E r \in Regions : RegionAct(r)) \/ ReportFailure \/ GlobalPass \/ UNCHANGED vars
  BY DEF Next, RegionAct, Reported

\* No region touches what another one has found, done or deferred.
LEMMA OthersUntouched ==
  ASSUME TypeOK, NEW r \in Regions, RegionAct(r), NEW q \in Regions \ {r}
  PROVE  /\ step'[q] = step[q]
         /\ phase0'[q] = phase0[q]
         /\ q \in reusable' <=> q \in reusable
         /\ enumerated'[q] = enumerated[q]
         /\ missed'[q] = missed[q]
         /\ found'[q] = found[q]
         /\ deleted'[q] = deleted[q]
         /\ deferred'[q] = deferred[q]
         /\ abandoned'[q] = abandoned[q]
<1>1. CASE ScanRegion(r)
  BY <1>1 DEF ScanRegion, Goto, TypeOK, itemVars, remedies
<1>2. CASE Diagnose(r)
  BY <1>2 DEF Diagnose, Goto, TypeOK, itemVars, remedies
<1>3. CASE RegionRaises(r)
  BY <1>3 DEF RegionRaises, Goto, TypeOK, itemVars, scanVars, diagnosis, remedies
<1>4. CASE DeleteNewStacks(r)
  BY <1>4 DEF DeleteNewStacks, Goto, TypeOK, scanVars, diagnosis
<1>5. CASE SweepRegion(r)
  BY <1>5 DEF SweepRegion, Goto, TypeOK, scanVars, diagnosis
<1>6. CASE DeleteUnrecoverable(r)
  BY <1>6 DEF DeleteUnrecoverable, Goto, TypeOK, scanVars, diagnosis
<1>7. CASE RestoreDrifted(r)
  BY <1>7 DEF RestoreDrifted, Goto, TypeOK, scanVars, diagnosis
<1>8. CASE Recheck(r)
  BY <1>8 DEF Recheck, Goto, TypeOK, itemVars, diagnosis, remedies
<1> QED
  BY <1>1, <1>2, <1>3, <1>4, <1>5, <1>6, <1>7, <1>8 DEF RegionAct, RegionStep

\* Nor its stacks, nor what was diagnosed of them.
LEMMA OtherStacksUntouched ==
  ASSUME TypeOK, NEW r \in Regions, RegionAct(r), NEW q \in Regions \ {r}, NEW s \in StacksOf(q)
  PROVE  /\ stack'[s] = stack[s]
         /\ s \in doomed' <=> s \in doomed
         /\ s \in absent' <=> s \in absent
         /\ s \in drifted' <=> s \in drifted
<1>0. s \in Stacks /\ s \notin StacksOf(r)
  BY DEF StacksOf
<1>1. CASE ScanRegion(r)
  BY <1>1 DEF ScanRegion, itemVars
<1>2. CASE Diagnose(r)
  <2>1. PICK unread \in FailingReads(r), undetected \in FailingDetections(r) :
          /\ absent' = absent \cup (StatusFailures(r, unread) \cap Missing(r))
          /\ doomed' = doomed \cup (StatusFailures(r, unread) \ Missing(r))
                              \cup DriftUndetectable(r, unread, undetected)
                              \cup TemplateMismatches(r, unread)
          /\ drifted' = drifted \cup DriftDifferences(r, unread, undetected)
    BY <1>2 DEF Diagnose
  <2>2. s \notin StatusFailures(r, unread) /\ s \notin TemplateMismatches(r, unread)
    BY <1>0 DEF StatusFailures, TemplateMismatches
  <2>3. /\ s \notin DriftUndetectable(r, unread, undetected)
        /\ s \notin DriftDifferences(r, unread, undetected)
    BY <1>0 DEF DriftUndetectable, DriftDifferences, DriftInspected
  <2> QED  BY <1>2, <2>1, <2>2, <2>3 DEF Diagnose, itemVars
<1>3. CASE RegionRaises(r)
  BY <1>0, <1>3 DEF RegionRaises, itemVars, diagnosis
<1>4. CASE DeleteNewStacks(r)
  BY <1>0, <1>4 DEF DeleteNewStacks, diagnosis
<1>5. CASE SweepRegion(r)
  BY <1>0, <1>5 DEF SweepRegion, diagnosis
<1>6. CASE DeleteUnrecoverable(r)
  BY <1>0, <1>6 DEF DeleteUnrecoverable, TypeOK, diagnosis
<1>7. CASE RestoreDrifted(r)
  BY <1>0, <1>7 DEF RestoreDrifted, TypeOK, diagnosis
<1>8. CASE Recheck(r)
  BY <1>0, <1>8 DEF Recheck, itemVars, diagnosis
<1> QED
  BY <1>1, <1>2, <1>3, <1>4, <1>5, <1>6, <1>7, <1>8 DEF RegionAct, RegionStep

\* A reset creates nothing.
LEMMA LiveShrinks == TypeOK /\ [Next]_vars => live' \subseteq live
  BY DEF Next, RegionStep, ScanRegion, Diagnose, RegionRaises, DeleteNewStacks, SweepRegion,
         DeleteUnrecoverable, RestoreDrifted, Recheck, ReportFailure, GlobalPass, Reported,
         itemVars, vars

-----------------------------------------------------------------------------
(* Roles *)

\* For any regions, however their steps interleave and whichever of them fails, the
\* roles that the deletion of a resource needs outlive it: only the account's pass
\* deletes global resources, and it starts when every region is done.
THEOREM RolesOutliveDependents == Spec => []DependentsKeepRoles
<1> USE AccountAssumption
<1>1. Init => DependentsKeepRoles
  BY DEF Init, DependentsKeepRoles
<1>2. TypeOK /\ DependentsKeepRoles /\ [Next]_vars => DependentsKeepRoles'
  <2> SUFFICES ASSUME TypeOK, DependentsKeepRoles, [Next]_vars,
                      NEW i \in live' \ Globals, step'[HomeOf[i]] # "done"
               PROVE  RolesOf[i] \subseteq live'
    BY DEF DependentsKeepRoles
  <2>0. /\ live' \subseteq live /\ i \in Items /\ HomeOf[i] \in Regions
        /\ RolesOf[i] \subseteq Globals
    BY LiveShrinks DEF TypeOK, Globals
  <2>1. ASSUME NEW r \in Regions, RegionAct(r) PROVE RolesOf[i] \subseteq live'
    <3>1. step[HomeOf[i]] # "done"
      <4>1. CASE HomeOf[i] = r
        BY <2>1, <4>1 DEF RegionAct, RegionStep, ScanRegion, Diagnose, RegionRaises,
               DeleteNewStacks, SweepRegion, DeleteUnrecoverable, RestoreDrifted, Recheck
      <4>2. CASE HomeOf[i] # r
        BY <2>0, <2>1, <4>2, OthersUntouched
      <4> QED  BY <4>1, <4>2
    <3>2. RolesOf[i] \subseteq live
      BY <2>0, <3>1 DEF DependentsKeepRoles
    <3>3. CASE DeleteNewStacks(r)
      <4>1. PICK ok \in SUBSET NewStacks, gone \in SUBSET live :
              /\ \A x \in live \ gone : RolesOf[x] \cap gone = {}
              /\ live' = live \ (ok \cup gone)
        BY <3>3 DEF DeleteNewStacks, TypeOK
      <4>2. NewStacks \cap Globals = {}
        BY DEF NewStacks, Globals
      <4> QED  BY <2>0, <3>2, <4>1, <4>2
    <3>4. CASE SweepRegion(r)
      <4>1. PICK gone \in SUBSET (live \cap Swept(r)), studio \in SUBSET Studio :
              live' = live \ (gone \cup studio)
        BY <3>4 DEF SweepRegion
      <4>2. (Swept(r) \cup Studio) \cap Globals = {}
        BY DEF Swept, NewStacks, Globals
      <4> QED  BY <2>0, <3>2, <4>1, <4>2
    <3>5. CASE ~DeleteNewStacks(r) /\ ~SweepRegion(r)
      <4>1. live' = live
        BY <2>1, <3>5 DEF RegionAct, RegionStep, ScanRegion, Diagnose, RegionRaises,
               DeleteUnrecoverable, RestoreDrifted, Recheck, itemVars
      <4> QED  BY <3>2, <4>1
    <3> QED  BY <3>3, <3>4, <3>5
  <2>2. CASE GlobalPass
    BY <2>0, <2>2 DEF GlobalPass
  <2>3. CASE ReportFailure \/ UNCHANGED vars
    BY <2>0, <2>3 DEF ReportFailure, DependentsKeepRoles, itemVars, vars
  <2> QED  BY <2>1, <2>2, <2>3, NextCases
<1> QED  BY <1>1, <1>2, ResetTypes, PTL DEF Spec

-----------------------------------------------------------------------------
(* Survivors *)

Early == {"scanning", "diagnosing"}

\* No region is diagnosed before every region was scanned.
ScansFirst ==
  \A r \in Regions, q \in Regions : step[r] \notin Early => step[q] # "scanning"

\* Until a region is diagnosed nothing was done to it.
NothingDoneEarly ==
  \A r \in Regions : step[r] \in Early =>
    deleted[r] = {} /\ deferred[r] = {} /\ abandoned[r] = {}

\* A Phase-0 scan still lists all that is left when it is used, but for what it missed.
ScanStillCovers ==
  \A r \in reusable :
    /\ step[r] # "scanning"
    /\ step[r] = "diagnosing" => Listing(r, phase0[r]) \ missed[r] \subseteq found[r]

\* A deferred scope holds what AWS removes later, and the region's global finds.
DeferredKnown ==
  \A r \in Regions : deferred[r] \subseteq Lingering \cup (found[r] \cap Globals)

\* What may be left of a type that did not fail at the capture: what is deferred, was
\* missed or is of a type that was tolerated in the scan.
Excused(i, r, seen, lost) ==
  \/ i \in deferred[r]
  \/ i \in lost
  \/ /\ TypeOf[i] \notin seen \cup Filled
     /\ TypeOf[i] \in EnumerableElsewhere \cup Unavailable[r]

\* What a region that is done could list is excused by its last scan.
DoneAccounted ==
  \A r \in Regions : step[r] = "done" =>
    \A i \in live : TypeOf[i] \notin FailedTypes /\ r \in SeenFrom(i) =>
      Excused(i, r, enumerated[r], missed[r])

\* A success follows every region and leaves no global resource that a region had
\* handed over; without a redeploy it means that no region deleted anything.
SuccessMeansDrained ==
  Success => /\ \A r \in Regions : step[r] = "done"
             /\ live \cap Handed = {}
             /\ verdict = "ok" => \A r \in Regions : deleted[r] = {}

LEMMA EarlyInvariants == Spec => [](ScansFirst /\ NothingDoneEarly)
<1>1. Init => ScansFirst /\ NothingDoneEarly
  BY DEF Init, ScansFirst, NothingDoneEarly, Early
<1>2. TypeOK /\ ScansFirst /\ NothingDoneEarly /\ [Next]_vars
      => ScansFirst' /\ NothingDoneEarly'
  <2> SUFFICES ASSUME TypeOK, ScansFirst, NothingDoneEarly, [Next]_vars
               PROVE  ScansFirst' /\ NothingDoneEarly'
    OBVIOUS
  <2>1. ASSUME NEW r \in Regions, RegionAct(r) PROVE ScansFirst' /\ NothingDoneEarly'
    <3>1. /\ step'[r] \in Early => /\ step[r] = "scanning" /\ step'[r] = "diagnosing"
                                   /\ UNCHANGED remedies
          /\ step'[r] \notin Early => \A q \in Regions : step[q] # "scanning"
          /\ step'[r] # "scanning"
      <4>1. CASE ScanRegion(r)
        BY <4>1 DEF ScanRegion, Goto, TypeOK, Early
      <4>2. CASE Diagnose(r)
        BY <4>2 DEF Diagnose, Goto, TypeOK, Early
      <4>3. CASE RegionRaises(r)
        BY <4>3 DEF RegionRaises, Goto, TypeOK, Early
      <4>4. CASE DeleteNewStacks(r) \/ SweepRegion(r)
        BY <4>4 DEF DeleteNewStacks, SweepRegion, Goto, TypeOK, ScansFirst, Early
      <4>5. CASE DeleteUnrecoverable(r) \/ RestoreDrifted(r)
        BY <4>5 DEF DeleteUnrecoverable, RestoreDrifted, Goto, TypeOK, ScansFirst, Early
      <4>6. CASE Recheck(r)
        BY <4>6 DEF Recheck, AfterRecheck, Goto, TypeOK, ScansFirst, Early
      <4> QED  BY <2>1, <4>1, <4>2, <4>3, <4>4, <4>5, <4>6 DEF RegionAct, RegionStep
    <3>2. ScansFirst'
      BY <2>1, <3>1, OthersUntouched DEF ScansFirst, Early
    <3>3. NothingDoneEarly'
      BY <2>1, <3>1, OthersUntouched DEF NothingDoneEarly, Early, remedies
    <3> QED  BY <3>2, <3>3
  <2>2. CASE ReportFailure \/ GlobalPass \/ UNCHANGED vars
    BY <2>2 DEF ReportFailure, GlobalPass, ScansFirst, NothingDoneEarly, remedies, vars
  <2> QED  BY <2>1, <2>2, NextCases
<1> QED  BY <1>1, <1>2, ResetTypes, PTL DEF Spec

LEMMA ScanCovers == Spec => []ScanStillCovers
<1>1. Init => ScanStillCovers
  BY DEF Init, ScanStillCovers
<1>2. TypeOK /\ ScanStillCovers /\ [Next]_vars => ScanStillCovers'
  <2> SUFFICES ASSUME TypeOK, ScanStillCovers, [Next]_vars, NEW q \in reusable'
               PROVE  /\ step'[q] # "scanning"
                      /\ step'[q] = "diagnosing" => Listing(q, phase0[q])' \ missed'[q] \subseteq found'[q]
    BY DEF ScanStillCovers
  <2>0. q \in Regions /\ live' \subseteq live
    BY TypesKept, LiveShrinks DEF TypeOK
  <2>1. ASSUME NEW r \in Regions, RegionAct(r)
        PROVE  /\ step'[q] # "scanning"
               /\ step'[q] = "diagnosing" => Listing(q, phase0[q])' \ missed'[q] \subseteq found'[q]
    <3>1. CASE q = r /\ ScanRegion(r)
      <4>1. /\ step'[r] = "diagnosing" /\ r \notin reusable /\ live' = live
        BY <3>1 DEF ScanRegion, Goto, TypeOK, ScanStillCovers, itemVars
      <4>2. PICK seen \in Scans(r), lost \in SUBSET Items :
              /\ phase0' = [phase0 EXCEPT ![r] = seen]
              /\ missed' = [missed EXCEPT ![r] = lost]
              /\ found' = [found EXCEPT ![r] = Listing(r, seen) \ lost]
        BY <3>1, <4>1 DEF ScanRegion, Misses, Listing, TypeOK
      <4>3. phase0'[r] = seen /\ missed'[r] = lost /\ found'[r] = Listing(r, seen) \ lost
        BY <4>2 DEF TypeOK
      <4> QED  BY <3>1, <4>1, <4>3 DEF Listing
    <3>2. CASE q = r /\ ~ScanRegion(r)
      BY <2>1, <3>2 DEF RegionAct, RegionStep, Diagnose, RegionRaises, DeleteNewStacks,
             SweepRegion, DeleteUnrecoverable, RestoreDrifted, Recheck, AfterRecheck, Goto, TypeOK
    <3>3. CASE q # r
      <4>1. /\ q \in reusable /\ step'[q] = step[q]
            /\ phase0'[q] = phase0[q] /\ missed'[q] = missed[q] /\ found'[q] = found[q]
        BY <2>0, <2>1, <3>3, OthersUntouched
      <4> QED  BY <2>0, <4>1 DEF ScanStillCovers, Listing
    <3> QED  BY <3>1, <3>2, <3>3
  <2>2. CASE ReportFailure \/ GlobalPass \/ UNCHANGED vars
    <3>1. UNCHANGED <<step, reusable, phase0, missed, found>>
      BY <2>2 DEF ReportFailure, GlobalPass, scanVars, diagnosis, vars
    <3> QED  BY <2>0, <3>1 DEF ScanStillCovers, Listing
  <2> QED  BY <2>1, <2>2, NextCases
<1> QED  BY <1>1, <1>2, ResetTypes, PTL DEF Spec

LEMMA Deferrals == Spec => []DeferredKnown
<1>1. Init => DeferredKnown
  BY DEF Init, DeferredKnown
<1>2. TypeOK /\ NothingDoneEarly /\ DeferredKnown /\ [Next]_vars => DeferredKnown'
  <2> SUFFICES ASSUME TypeOK, NothingDoneEarly, DeferredKnown, [Next]_vars, NEW q \in Regions
               PROVE  deferred'[q] \subseteq Lingering \cup (found'[q] \cap Globals)
    BY DEF DeferredKnown
  <2>1. ASSUME NEW r \in Regions, RegionAct(r)
        PROVE  deferred'[q] \subseteq Lingering \cup (found'[q] \cap Globals)
    <3>1. CASE q = r /\ (ScanRegion(r) \/ Diagnose(r))
      BY <2>1, <3>1 DEF ScanRegion, Diagnose, NothingDoneEarly, Early, remedies
    <3>2. CASE q = r /\ SweepRegion(r)
      <4>1. PICK late \in SUBSET Lingering :
              deferred' = [deferred EXCEPT ![r] = @ \cup late \cup (found[r] \cap Globals)]
        BY <3>2 DEF SweepRegion
      <4>2. deferred'[r] = deferred[r] \cup late \cup (found[r] \cap Globals) /\ found' = found
        BY <3>2, <4>1 DEF SweepRegion, TypeOK, diagnosis
      <4> QED  BY <3>2, <4>2 DEF DeferredKnown
    <3>3. CASE q = r /\ ~(ScanRegion(r) \/ Diagnose(r) \/ SweepRegion(r))
      BY <2>1, <3>3 DEF RegionAct, RegionStep, RegionRaises, DeleteNewStacks, DeleteUnrecoverable,
             RestoreDrifted, Recheck, DeferredKnown, diagnosis, remedies
    <3>4. CASE q # r
      BY <2>1, <3>4, OthersUntouched DEF DeferredKnown
    <3> QED  BY <3>1, <3>2, <3>3, <3>4
  <2>2. CASE ReportFailure \/ GlobalPass \/ UNCHANGED vars
    BY <2>2 DEF ReportFailure, GlobalPass, DeferredKnown, diagnosis, remedies, vars
  <2> QED  BY <2>1, <2>2, NextCases
<1> QED  BY <1>1, <1>2, EarlyInvariants, ResetTypes, PTL DEF Spec

\* Where nothing new was found, a resource that the region's scan could list is excused.
LEMMA NothingNewExcuses ==
  ASSUME TypeOK, NEW r \in Regions, NEW seen \in SUBSET Types, NEW listed, NEW lost,
         NothingNew(r, seen, listed), Listing(r, seen) \ lost \subseteq listed,
         NEW i \in live, TypeOf[i] \notin FailedTypes, r \in SeenFrom(i)
  PROVE  Excused(i, r, seen, lost)
<1>0. TypeOf[i] \in Types /\ (i \in Globals \/ HomeOf[i] = r)
  BY AccountAssumption DEF TypeOK, SeenFrom
<1>1. Unenumerable(r, seen) = {} /\ (i \in listed => i \in deferred[r])
  BY DEF NothingNew, NewResources
<1>2. CASE TypeOf[i] \in seen
  BY <1>0, <1>1, <1>2 DEF Listing, Excused
<1>3. CASE TypeOf[i] \notin seen
  BY <1>0, <1>1, <1>3 DEF Unenumerable, Tolerated, Excused
<1> QED  BY <1>2, <1>3

LEMMA DoneAccounts == Spec => []DoneAccounted
<1> USE AccountAssumption
<1>1. Init => DoneAccounted
  BY DEF Init, DoneAccounted
<1>2. TypeOK /\ ScansFirst /\ ScanStillCovers /\ DoneAccounted /\ [Next]_vars => DoneAccounted'
  <2> SUFFICES ASSUME TypeOK, ScansFirst, ScanStillCovers, DoneAccounted, [Next]_vars,
                      NEW q \in Regions, step'[q] = "done",
                      NEW i \in live', TypeOf[i] \notin FailedTypes, q \in SeenFrom(i)
               PROVE  Excused(i, q, enumerated[q], missed[q])'
    BY DEF DoneAccounted, Excused, SeenFrom
  <2>0. i \in live
    BY LiveShrinks
  <2>1. ASSUME NEW r \in Regions, RegionAct(r) PROVE Excused(i, q, enumerated[q], missed[q])'
    <3>1. CASE q = r /\ Diagnose(r)
      <4>1. PICK seen \in IF r \in reusable THEN {phase0[r]} ELSE Scans(r),
                 unread \in FailingReads(r), undetected \in FailingDetections(r) :
            \E lost \in IF r \in reusable THEN {missed[r]} ELSE Misses(r, seen) :
              LET listed == IF r \in reusable THEN found[r] ELSE Listing(r, seen) \ lost
              IN /\ enumerated' = [enumerated EXCEPT ![r] = seen]
                 /\ missed' = [missed EXCEPT ![r] = lost]
                 /\ found' = [found EXCEPT ![r] = NewResources(r, seen, listed)]
                 /\ absent' = absent \cup (StatusFailures(r, unread) \cap Missing(r))
                 /\ doomed' = doomed \cup (StatusFailures(r, unread) \ Missing(r))
                                     \cup DriftUndetectable(r, unread, undetected)
                                     \cup TemplateMismatches(r, unread)
                 /\ drifted' = drifted \cup DriftDifferences(r, unread, undetected)
                 /\ Goto(r, IF /\ NothingNew(r, seen, listed)
                               /\ StackChecksPass(r, unread, undetected)
                            THEN "done" ELSE "newStacks")
        BY <3>1 DEF Diagnose
      <4>a. PICK lost \in IF r \in reusable THEN {missed[r]} ELSE Misses(r, seen) :
              LET listed == IF r \in reusable THEN found[r] ELSE Listing(r, seen) \ lost
              IN /\ enumerated' = [enumerated EXCEPT ![r] = seen]
                 /\ missed' = [missed EXCEPT ![r] = lost]
                 /\ Goto(r, IF /\ NothingNew(r, seen, listed)
                               /\ StackChecksPass(r, unread, undetected)
                            THEN "done" ELSE "newStacks")
        BY <4>1
      <4> DEFINE listed == IF r \in reusable THEN found[r] ELSE Listing(r, seen) \ lost
      <4>2. enumerated'[r] = seen /\ missed'[r] = lost /\ seen \in SUBSET Types
        BY <4>1, <4>a DEF TypeOK, Scans
      <4>3. NothingNew(r, seen, listed)
        BY <3>1, <4>a DEF Goto, TypeOK
      <4>4. Listing(r, seen) \ lost \subseteq listed
        BY <3>1, <4>1, <4>a DEF ScanStillCovers, Diagnose
      <4>5. Excused(i, r, seen, lost)
        BY <2>0, <3>1, <4>2, <4>3, <4>4, NothingNewExcuses
      <4> QED  BY <3>1, <4>2, <4>5 DEF Excused, Diagnose, EnumerableElsewhere, remedies
    <3>2. CASE q = r /\ Recheck(r)
      <4>a. PICK seen \in Scans(r), unread \in FailingReads(r), undetected \in FailingDetections(r) :
            \E lost \in Misses(r, seen) :
              /\ enumerated' = [enumerated EXCEPT ![r] = seen]
              /\ missed' = [missed EXCEPT ![r] = lost]
              /\ Goto(r, AfterRecheck(
                          RegionConverged(r, seen, Listing(r, seen) \ lost, unread, undetected)))
        BY <3>2 DEF Recheck
      <4>1. PICK lost \in Misses(r, seen) :
              /\ enumerated' = [enumerated EXCEPT ![r] = seen]
              /\ missed' = [missed EXCEPT ![r] = lost]
              /\ Goto(r, AfterRecheck(
                          RegionConverged(r, seen, Listing(r, seen) \ lost, unread, undetected)))
        BY <4>a
      <4>2. enumerated'[r] = seen /\ missed'[r] = lost /\ seen \in SUBSET Types
        BY <4>1 DEF TypeOK, Scans
      <4>3. RegionConverged(r, seen, Listing(r, seen) \ lost, unread, undetected)
        BY <3>2, <4>1 DEF Goto, TypeOK, AfterRecheck
      <4>4. NothingNew(r, seen, Listing(r, seen) \ lost)
        BY <4>3 DEF RegionConverged, CensusClean
      <4>5. Excused(i, r, seen, lost)
        BY <2>0, <3>2, <4>2, <4>4, NothingNewExcuses
      <4> QED  BY <3>2, <4>2, <4>5 DEF Excused, Recheck, EnumerableElsewhere, remedies
    <3>3. CASE q = r /\ ~Diagnose(r) /\ ~Recheck(r)
      BY <2>1, <3>3 DEF RegionAct, RegionStep, ScanRegion, RegionRaises, DeleteNewStacks,
             SweepRegion, DeleteUnrecoverable, RestoreDrifted, Goto, TypeOK
    <3>4. CASE q # r
      <4>1. /\ step[q] = "done" /\ enumerated'[q] = enumerated[q]
            /\ missed'[q] = missed[q] /\ deferred'[q] = deferred[q]
        BY <2>1, <3>4, OthersUntouched
      <4>2. Excused(i, q, enumerated[q], missed[q])
        BY <2>0, <4>1 DEF DoneAccounted, Excused
      <4>3. step[r] # "scanning"
        BY <4>1 DEF ScansFirst, Early
      <4>4. phase0' = phase0
        BY <2>1, <4>3 DEF RegionAct, RegionStep, ScanRegion, Diagnose, RegionRaises,
               DeleteNewStacks, SweepRegion, DeleteUnrecoverable, RestoreDrifted, Recheck, scanVars
      <4> QED  BY <4>1, <4>2, <4>4 DEF Excused, EnumerableElsewhere
    <3> QED  BY <3>1, <3>2, <3>3, <3>4
  <2>2. CASE ReportFailure \/ GlobalPass \/ UNCHANGED vars
    <3>1. UNCHANGED <<step, phase0, enumerated, missed, deferred>>
      BY <2>2 DEF ReportFailure, GlobalPass, scanVars, remedies, vars
    <3> QED  BY <2>0, <3>1 DEF DoneAccounted, Excused, EnumerableElsewhere
  <2> QED  BY <2>1, <2>2, NextCases
<1> QED  BY <1>1, <1>2, EarlyInvariants, ScanCovers, ResetTypes, PTL DEF Spec

LEMMA SuccessDrains == Spec => []SuccessMeansDrained
<1>1. Init => SuccessMeansDrained
  BY DEF Init, SuccessMeansDrained, Success
<1>2. TypeOK /\ SuccessMeansDrained /\ [Next]_vars => SuccessMeansDrained'
  <2> SUFFICES ASSUME TypeOK, SuccessMeansDrained, [Next]_vars, Success'
               PROVE  /\ \A r \in Regions : step'[r] = "done"
                      /\ live' \cap Handed' = {}
                      /\ verdict' = "ok" => \A r \in Regions : deleted'[r] = {}
    BY DEF SuccessMeansDrained
  <2>1. ASSUME NEW r \in Regions, RegionAct(r) PROVE FALSE
    <3>1. Success /\ step[r] # "done"
      BY <2>1 DEF RegionAct, RegionStep, ScanRegion, Diagnose, RegionRaises, DeleteNewStacks,
             SweepRegion, DeleteUnrecoverable, RestoreDrifted, Recheck, Success
    <3> QED  BY <3>1 DEF SuccessMeansDrained
  <2>2. CASE GlobalPass
    <3>1. PICK gone \in SUBSET Handed, unsure \in SUBSET Handed :
            verdict' = IF Survivors(live', unsure) # {} THEN "failed"
                       ELSE IF \E r \in Regions : deleted[r] # {} THEN "redeploy" ELSE "ok"
      BY <2>2 DEF GlobalPass
    <3>2. live' \cap Handed = {}
      BY <3>1 DEF Success, Survivors
    <3>3. verdict' = "ok" => \A r \in Regions : deleted[r] = {}
      BY <3>1
    <3> QED  BY <2>2, <3>2, <3>3 DEF GlobalPass, Handed, diagnosis, remedies
  <2>3. CASE ReportFailure
    BY <2>3 DEF ReportFailure, Success
  <2>4. CASE UNCHANGED vars
    BY <2>4 DEF SuccessMeansDrained, Success, Handed, vars
  <2> QED  BY <2>1, <2>2, <2>3, <2>4, NextCases
<1> QED  BY <1>1, <1>2, ResetTypes, PTL DEF Spec

\* For any resources, however the regions interleave and whichever scans fail: of the
\* types that did not fail at the capture, a successful reset leaves only what every
\* region that could list it had deferred, missed beside others of its type, or was
\* allowed not to enumerate.
THEOREM NothingSurvivesSilently == Spec => []NoSilentSurvivor
<1>1. TypeOK /\ SuccessMeansDrained /\ DoneAccounted /\ DeferredKnown => NoSilentSurvivor
  <2> SUFFICES ASSUME TypeOK, SuccessMeansDrained, DoneAccounted, DeferredKnown, Success,
                      NEW i \in live, TypeOf[i] \notin FailedTypes, NEW r \in SeenFrom(i)
               PROVE  \/ i \in deferred[r] /\ i \in Lingering
                      \/ i \in missed[r]
                      \/ /\ TypeOf[i] \notin enumerated[r] \cup Filled
                         /\ TypeOf[i] \in EnumerableElsewhere \cup Unavailable[r]
    BY DEF NoSilentSurvivor
  <2>1. r \in Regions
    BY AccountAssumption DEF TypeOK, SeenFrom
  <2>2. i \notin found[r] \cap Globals
    BY <2>1 DEF SuccessMeansDrained, Handed
  <2>3. i \in deferred[r] => i \in Lingering
    BY <2>1, <2>2 DEF DeferredKnown
  <2>4. Excused(i, r, enumerated[r], missed[r])
    BY <2>1 DEF SuccessMeansDrained, DoneAccounted
  <2> QED  BY <2>3, <2>4 DEF Excused
<1> QED  BY <1>1, ResetTypes, SuccessDrains, DoneAccounts, Deferrals, PTL

-----------------------------------------------------------------------------
(* Abandoned resources *)

\* A deletion that abandoned something is on record, and no region is done with it.
AbandonmentKnown ==
  \A r \in Regions : abandoned[r] # {} => deleted[r] # {} /\ step[r] # "done"

LEMMA Abandonments == Spec => []AbandonmentKnown
<1>1. Init => AbandonmentKnown
  BY DEF Init, AbandonmentKnown
<1>2. TypeOK /\ NothingDoneEarly /\ AbandonmentKnown /\ [Next]_vars => AbandonmentKnown'
  <2> SUFFICES ASSUME TypeOK, NothingDoneEarly, AbandonmentKnown, [Next]_vars,
                      NEW q \in Regions, abandoned'[q] # {}
               PROVE  deleted'[q] # {} /\ step'[q] # "done"
    BY DEF AbandonmentKnown
  <2>1. ASSUME NEW r \in Regions, RegionAct(r) PROVE deleted'[q] # {} /\ step'[q] # "done"
    <3>1. CASE q = r /\ (ScanRegion(r) \/ Diagnose(r))
      BY <3>1 DEF ScanRegion, Diagnose, NothingDoneEarly, Early, remedies
    <3>2. CASE q = r /\ (RegionRaises(r) \/ SweepRegion(r))
      BY <3>2 DEF RegionRaises, SweepRegion, AbandonmentKnown, Goto, TypeOK, remedies
    <3>3. CASE q = r /\ DeleteNewStacks(r)
      <4> DEFINE owned(ns) == UNION {ChildrenOf[n] : n \in ns}
      <4>a. PICK ok \in SUBSET NewStacks :
              /\ \E left \in SUBSET owned(ok) :
                   abandoned' = [abandoned EXCEPT ![r] = @ \cup left]
              /\ deleted' = [deleted EXCEPT ![r] = @ \cup ok]
              /\ \E next \in {"sweeping", "failed"} : Goto(r, next)
        BY <3>3 DEF DeleteNewStacks
      <4>b. PICK left \in SUBSET owned(ok) : abandoned' = [abandoned EXCEPT ![r] = @ \cup left]
        BY <4>a
      <4>c. left # {} => ok # {}
        OBVIOUS
      <4>1. /\ abandoned' = [abandoned EXCEPT ![r] = @ \cup left]
            /\ deleted' = [deleted EXCEPT ![r] = @ \cup ok]
            /\ \E next \in {"sweeping", "failed"} : Goto(r, next)
        BY <4>a, <4>b
      <4>2. abandoned'[r] = abandoned[r] \cup left /\ deleted'[r] = deleted[r] \cup ok
        BY <4>1 DEF TypeOK
      <4>3. step'[r] # "done"
        BY <4>1 DEF Goto, TypeOK
      <4> QED  BY <3>3, <4>c, <4>2, <4>3 DEF AbandonmentKnown
    <3>4. CASE q = r /\ DeleteUnrecoverable(r)
      <4>a. PICK ok \in SUBSET (doomed \cap StacksOf(r)) :
              \E forced \in SUBSET ok :
                /\ deleted' = [deleted EXCEPT ![r] = @ \cup ok \cup (absent \cap StacksOf(r))]
                /\ abandoned' = [abandoned EXCEPT ![r] = @ \cup forced]
                /\ step'[r] \in {"restoring", "failed"}
        BY <3>4 DEF DeleteUnrecoverable, Goto, TypeOK
      <4>1. PICK forced \in SUBSET ok :
              /\ deleted' = [deleted EXCEPT ![r] = @ \cup ok \cup (absent \cap StacksOf(r))]
              /\ abandoned' = [abandoned EXCEPT ![r] = @ \cup forced]
              /\ step'[r] \in {"restoring", "failed"}
        BY <4>a
      <4>2. ok \subseteq deleted'[r] /\ deleted[r] \subseteq deleted'[r]
        BY <4>1 DEF TypeOK
      <4>3. abandoned'[r] = abandoned[r] \cup forced
        BY <4>1 DEF TypeOK
      <4>4. step'[r] # "done"
        BY <4>1
      <4> QED  BY <3>4, <4>1, <4>2, <4>3, <4>4 DEF AbandonmentKnown
    <3>5. CASE q = r /\ RestoreDrifted(r)
      <4>a. PICK out \in SUBSET ((drifted \cap StacksOf(r)) \ deleted[r]) :
              \E forced \in SUBSET out :
                /\ deleted' = [deleted EXCEPT ![r] = @ \cup out]
                /\ abandoned' = [abandoned EXCEPT ![r] = @ \cup forced]
                /\ step'[r] \in {"checking", "failed"}
        BY <3>5 DEF RestoreDrifted, Goto, TypeOK
      <4>1. PICK forced \in SUBSET out :
              /\ deleted' = [deleted EXCEPT ![r] = @ \cup out]
              /\ abandoned' = [abandoned EXCEPT ![r] = @ \cup forced]
              /\ step'[r] \in {"checking", "failed"}
        BY <4>a
      <4>2. deleted'[r] = deleted[r] \cup out /\ abandoned'[r] = abandoned[r] \cup forced
        BY <4>1 DEF TypeOK
      <4>3. step'[r] # "done"
        BY <4>1
      <4> QED  BY <3>5, <4>1, <4>2, <4>3 DEF AbandonmentKnown
    <3>6. CASE q = r /\ Recheck(r)
      <4>1. abandoned[r] # {} /\ deleted[r] # {} /\ deleted'[r] = deleted[r]
        BY <3>6 DEF Recheck, AbandonmentKnown, remedies
      <4>2. \A seen, listed, unread, undetected :
              ~RegionConverged(r, seen, listed, unread, undetected)
        BY <4>1 DEF RegionConverged, CensusClean
      <4> QED  BY <3>6, <4>1, <4>2 DEF Recheck, AfterRecheck, Goto, TypeOK
    <3>7. CASE q # r
      BY <2>1, <3>7, OthersUntouched DEF AbandonmentKnown
    <3> QED  BY <2>1, <3>1, <3>2, <3>3, <3>4, <3>5, <3>6, <3>7 DEF RegionAct, RegionStep
  <2>2. CASE ReportFailure \/ GlobalPass \/ UNCHANGED vars
    BY <2>2 DEF ReportFailure, GlobalPass, AbandonmentKnown, remedies, vars
  <2> QED  BY <2>1, <2>2, NextCases
<1> QED  BY <1>1, <1>2, EarlyInvariants, ResetTypes, PTL DEF Spec

\* For any stacks and whatever their deletions force: a reset that abandoned a
\* resource anywhere is never a success.
THEOREM AbandonmentFails == Spec => []AbandonedNeverPasses
<1>1. AbandonmentKnown /\ SuccessMeansDrained => AbandonedNeverPasses
  BY DEF AbandonmentKnown, SuccessMeansDrained, AbandonedNeverPasses
<1> QED  BY <1>1, Abandonments, SuccessDrains, PTL

-----------------------------------------------------------------------------
(* Stacks *)

Named(s) == s \in doomed \cup absent \cup drifted

\* How far a stack is on its way, by the step of its region: what is still to be
\* deleted or reverted is not at its baseline.
Progress(s, r) ==
  /\ step[r] \in Early => ~Named(s)
  /\ step[r] \in {"newStacks", "sweeping", "unrecoverable"} =>
       /\ s \in doomed \cup drifted => stack[s] # "baseline"
       /\ s \in absent => stack[s] = "missing"
       /\ s \notin deleted[r]
  /\ step[r] = "restoring" =>
       /\ s \in drifted \ deleted[r] => stack[s] # "baseline"
       /\ s \in doomed \cup absent \cup deleted[r] => stack[s] = "missing"
  /\ step[r] \in {"checking", "done"} =>
       (Named(s) => stack[s] \in {"baseline", "updated", "missing"})
  /\ step[r] = "done" /\ deleted[r] = {} => stack[s] = "baseline"

StackProgress == \A r \in Regions : \A s \in StacksOf(r) : Progress(s, r)

\* What a diagnosis says of a stack of the region.
LEMMA DiagnosisNames ==
  ASSUME TypeOK, NothingDoneEarly, NEW r \in Regions, Diagnose(r), NEW s \in StacksOf(r),
         ~Named(s)
  PROVE  Progress(s, r)'
<1>1. PICK seen \in IF r \in reusable THEN {phase0[r]} ELSE Scans(r),
           unread \in FailingReads(r), undetected \in FailingDetections(r) :
      \E lost \in IF r \in reusable THEN {missed[r]} ELSE Misses(r, seen) :
        LET listed == IF r \in reusable THEN found[r] ELSE Listing(r, seen) \ lost
        IN /\ absent' = absent \cup (StatusFailures(r, unread) \cap Missing(r))
           /\ doomed' = doomed \cup (StatusFailures(r, unread) \ Missing(r))
                               \cup DriftUndetectable(r, unread, undetected)
                               \cup TemplateMismatches(r, unread)
           /\ drifted' = drifted \cup DriftDifferences(r, unread, undetected)
           /\ Goto(r, IF /\ NothingNew(r, seen, listed)
                         /\ StackChecksPass(r, unread, undetected)
                      THEN "done" ELSE "newStacks")
  BY DEF Diagnose
<1>2. stack' = stack /\ deleted' = deleted /\ deleted[r] = {} /\ s \in Stacks
  BY DEF Diagnose, NothingDoneEarly, Early, itemVars, remedies, StacksOf
<1>3. s \in doomed' \cup drifted' => stack[s] # "baseline"
  BY <1>1 DEF Named, StatusFailures, WrongStatus, TemplateMismatches, DriftInspected,
         DriftUndetectable, DriftDifferences
<1>4. s \in absent' => stack[s] = "missing"
  BY <1>1 DEF Named, Missing
<1>5. step'[r] = "newStacks" \/ (step'[r] = "done" /\ stack[s] = "baseline")
  BY <1>1 DEF Goto, TypeOK, StackChecksPass
<1> QED  BY <1>2, <1>3, <1>4, <1>5 DEF Progress, Named, Early

\* A step of its own region takes a stack to the next stage, and harms no healthy one.
LEMMA RegionProgress ==
  ASSUME TypeOK, NothingDoneEarly, StackProgress,
         NEW r \in Regions, RegionAct(r), NEW s \in StacksOf(r)
  PROVE  /\ Progress(s, r)'
         /\ stack[s] = "baseline" => stack'[s] = "baseline"
<1> USE AccountAssumption
<1>0. Progress(s, r) /\ s \in Stacks /\ stack[s] \in Conditions
  BY DEF StackProgress, StacksOf, TypeOK
<1>1. CASE ScanRegion(r)
  <2>1. step[r] = "scanning" /\ step'[r] = "diagnosing"
    BY <1>1 DEF ScanRegion, Goto, TypeOK
  <2> QED  BY <1>0, <1>1, <2>1 DEF ScanRegion, Progress, Named, Early, itemVars
<1>2. CASE Diagnose(r)
  <2>1. ~Named(s)
    BY <1>0, <1>2 DEF Diagnose, Progress, Early
  <2> QED  BY <1>2, <2>1, DiagnosisNames DEF Diagnose, itemVars
<1>3. CASE RegionRaises(r)
  <2>1. step'[r] = "failed" /\ stack' = stack
    BY <1>3 DEF RegionRaises, Goto, TypeOK, itemVars
  <2> QED  BY <2>1 DEF Progress, Early
<1>4. CASE DeleteNewStacks(r)
  <2>1. /\ step[r] = "newStacks" /\ step'[r] \in {"sweeping", "failed"}
        /\ UNCHANGED <<stack, doomed, absent, drifted>>
    BY <1>4 DEF DeleteNewStacks, Goto, TypeOK, diagnosis
  <2>2. PICK ok \in SUBSET Items : deleted' = [deleted EXCEPT ![r] = @ \cup ok]
    BY <1>4 DEF DeleteNewStacks, TypeOK
  <2>3. s \in deleted'[r] <=> s \in deleted[r]
    BY <1>0, <2>2 DEF TypeOK
  <2> QED  BY <1>0, <2>1, <2>3 DEF Progress, Named, Early
<1>5. CASE SweepRegion(r)
  <2>1. /\ step[r] = "sweeping" /\ step'[r] = "unrecoverable"
        /\ UNCHANGED <<stack, doomed, absent, drifted, deleted>>
    BY <1>5 DEF SweepRegion, Goto, TypeOK, diagnosis
  <2> QED  BY <1>0, <2>1 DEF Progress, Named, Early
<1>6. CASE DeleteUnrecoverable(r)
  <2>1. PICK ok \in SUBSET (doomed \cap StacksOf(r)) :
          /\ stack' = [x \in Stacks |-> IF x \in ok THEN "missing" ELSE stack[x]]
          /\ deleted' = [deleted EXCEPT ![r] = @ \cup ok \cup (absent \cap StacksOf(r))]
          /\ Goto(r, IF ok = doomed \cap StacksOf(r) THEN "restoring" ELSE "failed")
    BY <1>6 DEF DeleteUnrecoverable
  <2>2. step[r] = "unrecoverable" /\ UNCHANGED <<doomed, absent, drifted>>
    BY <1>6 DEF DeleteUnrecoverable, diagnosis
  <2>3. deleted'[r] = deleted[r] \cup ok \cup (absent \cap StacksOf(r))
    BY <2>1 DEF TypeOK
  <2>4. stack'[s] = IF s \in ok THEN "missing" ELSE stack[s]
    BY <1>0, <2>1
  <2>5. stack[s] = "baseline" => stack'[s] = "baseline"
    BY <1>0, <2>2, <2>4 DEF Progress
  <2>6. CASE ok = doomed \cap StacksOf(r)
    <3>1. step'[r] = "restoring"
      BY <2>1, <2>6 DEF Goto, TypeOK
    <3>2. s \in drifted \ deleted'[r] => stack'[s] # "baseline"
      BY <1>0, <2>2, <2>4 DEF Progress
    <3>3. s \in doomed \cup absent \cup deleted'[r] => stack'[s] = "missing"
      BY <1>0, <2>2, <2>3, <2>4, <2>6 DEF Progress
    <3> QED  BY <2>2, <2>5, <3>1, <3>2, <3>3 DEF Progress, Early
  <2>7. CASE ok # doomed \cap StacksOf(r)
    <3>1. step'[r] = "failed"
      BY <2>1, <2>7 DEF Goto, TypeOK
    <3> QED  BY <2>5, <3>1 DEF Progress, Early
  <2> QED  BY <2>6, <2>7
<1>7. CASE RestoreDrifted(r)
  <2> DEFINE todo == (drifted \cap StacksOf(r)) \ deleted[r]
  <2>1. PICK out \in SUBSET todo : \E ok \in SUBSET (todo \ out) : \E idle \in SUBSET ok :
          /\ stack' = [x \in Stacks |-> CASE x \in out -> "missing"
                                          [] x \in idle -> "baseline"
                                          [] x \in ok \ idle -> Reverted(x)
                                          [] OTHER -> stack[x]]
          /\ Goto(r, IF out \cup ok = todo THEN "checking" ELSE "failed")
    BY <1>7 DEF RestoreDrifted
  <2>2. PICK ok \in SUBSET (todo \ out), idle \in SUBSET Stacks :
          /\ idle \subseteq ok
          /\ stack' = [x \in Stacks |-> CASE x \in out -> "missing"
                                          [] x \in idle -> "baseline"
                                          [] x \in ok \ idle -> Reverted(x)
                                          [] OTHER -> stack[x]]
          /\ Goto(r, IF out \cup ok = todo THEN "checking" ELSE "failed")
    BY <2>1 DEF TypeOK
  <2>3. step[r] = "restoring" /\ UNCHANGED <<doomed, absent, drifted>>
    BY <1>7 DEF RestoreDrifted, diagnosis
  <2>4. /\ s \in out \cup ok => stack'[s] \in {"missing", "baseline", "updated"}
        /\ s \notin out \cup ok => stack'[s] = stack[s]
    BY <1>0, <2>2 DEF Reverted
  <2>5. stack[s] = "baseline" => stack'[s] = "baseline"
    BY <1>0, <2>3, <2>4 DEF Progress
  <2>6. CASE out \cup ok = todo
    <3>1. step'[r] = "checking"
      BY <2>2, <2>6 DEF Goto, TypeOK
    <3>2. Named(s) => stack'[s] \in {"baseline", "updated", "missing"}
      BY <1>0, <2>3, <2>4, <2>6 DEF Progress, Named
    <3> QED  BY <2>3, <2>5, <3>1, <3>2 DEF Progress, Named, Early
  <2>7. CASE out \cup ok # todo
    <3>1. step'[r] = "failed"
      BY <2>2, <2>7 DEF Goto, TypeOK
    <3> QED  BY <2>5, <3>1 DEF Progress, Early
  <2> QED  BY <2>6, <2>7
<1>8. CASE Recheck(r)
  <2>1. /\ step[r] = "checking"
        /\ UNCHANGED <<stack, doomed, absent, drifted, deleted>>
    BY <1>8 DEF Recheck, itemVars, diagnosis, remedies
  <2>2. /\ step'[r] \in {"done", "failed"}
        /\ step'[r] = "done" /\ deleted[r] = {} => stack[s] = "baseline"
    BY <1>8 DEF Recheck, AfterRecheck, RegionConverged, StackChecksPass, Goto, TypeOK
  <2> QED  BY <1>0, <2>1, <2>2 DEF Progress, Named, Early
<1> QED
  BY <1>1, <1>2, <1>3, <1>4, <1>5, <1>6, <1>7, <1>8 DEF RegionAct, RegionStep

LEMMA StacksProgress == Spec => []StackProgress
<1>1. Init => StackProgress
  BY DEF Init, StackProgress, Progress, Named
<1>2. TypeOK /\ NothingDoneEarly /\ StackProgress /\ [Next]_vars => StackProgress'
  <2> SUFFICES ASSUME TypeOK, NothingDoneEarly, StackProgress, [Next]_vars,
                      NEW q \in Regions, NEW s \in StacksOf(q)
               PROVE  Progress(s, q)'
    BY DEF StackProgress, StacksOf
  <2>0. Progress(s, q)
    BY DEF StackProgress
  <2>1. ASSUME NEW r \in Regions, RegionAct(r) PROVE Progress(s, q)'
    <3>1. CASE q = r
      BY <2>1, <3>1, RegionProgress
    <3>2. CASE q # r
      <4>1. step'[q] = step[q] /\ deleted'[q] = deleted[q]
        BY <2>1, <3>2, OthersUntouched
      <4>2. /\ stack'[s] = stack[s]
            /\ s \in doomed' <=> s \in doomed
            /\ s \in absent' <=> s \in absent
            /\ s \in drifted' <=> s \in drifted
        BY <2>1, <3>2, OtherStacksUntouched
      <4> QED  BY <2>0, <4>1, <4>2 DEF Progress, Named
    <3> QED  BY <3>1, <3>2
  <2>2. CASE ReportFailure \/ GlobalPass \/ UNCHANGED vars
    <3>1. UNCHANGED <<stack, step, doomed, absent, drifted, deleted>>
      BY <2>2 DEF ReportFailure, GlobalPass, itemVars, diagnosis, remedies, vars
    <3> QED  BY <2>0, <3>1 DEF Progress, Named
  <2> QED  BY <2>1, <2>2, NextCases
<1> QED  BY <1>1, <1>2, EarlyInvariants, ResetTypes, PTL DEF Spec

\* For any stacks and whichever reads fail: no step deletes or changes a stack that
\* is at its baseline.
THEOREM HealthyStacksStay == Spec => HealthyStackKept
<1>1. TypeOK /\ NothingDoneEarly /\ StackProgress /\ [Next]_vars
      => [\A s \in Stacks : stack[s] = "baseline" => stack'[s] = "baseline"]_vars
  <2> SUFFICES ASSUME TypeOK, NothingDoneEarly, StackProgress, [Next]_vars,
                      NEW s \in Stacks, stack[s] = "baseline"
               PROVE  stack'[s] = "baseline"
    OBVIOUS
  <2>0. RegionOf[s] \in Regions /\ s \in StacksOf(RegionOf[s])
    BY AccountAssumption DEF StacksOf
  <2>1. ASSUME NEW r \in Regions, RegionAct(r) PROVE stack'[s] = "baseline"
    <3>1. CASE r = RegionOf[s]
      BY <2>0, <2>1, <3>1, RegionProgress
    <3>2. CASE r # RegionOf[s]
      BY <2>0, <2>1, <3>2, OtherStacksUntouched
    <3> QED  BY <3>1, <3>2
  <2>2. CASE ReportFailure \/ GlobalPass \/ UNCHANGED vars
    BY <2>2 DEF ReportFailure, GlobalPass, itemVars, vars
  <2> QED  BY <2>1, <2>2, NextCases
<1> QED  BY <1>1, ResetTypes, EarlyInvariants, StacksProgress, PTL DEF Spec, HealthyStackKept

\* For any stacks: after a successful reset every stack that was diagnosed is
\* repaired or gone, and where nothing was deleted each is at its baseline.
THEOREM StacksSettle == Spec => []SuccessSettlesStacks
<1>1. TypeOK /\ StackProgress /\ SuccessMeansDrained => SuccessSettlesStacks
  <2> SUFFICES ASSUME TypeOK, StackProgress, SuccessMeansDrained, Success, NEW s \in Stacks
               PROVE  /\ Named(s) => stack[s] \in {"baseline", "updated", "missing"}
                      /\ stack[s] = "missing" => verdict = "redeploy"
                      /\ deleted[RegionOf[s]] = {} => stack[s] = "baseline"
    BY DEF SuccessSettlesStacks, Named
  <2>1. RegionOf[s] \in Regions /\ s \in StacksOf(RegionOf[s])
    BY AccountAssumption DEF StacksOf
  <2>2. Progress(s, RegionOf[s]) /\ step[RegionOf[s]] = "done"
    BY <2>1 DEF StackProgress, SuccessMeansDrained
  <2>3. verdict = "ok" => deleted[RegionOf[s]] = {}
    BY <2>1 DEF SuccessMeansDrained
  <2> QED  BY <2>2, <2>3 DEF Progress, Success
<1> QED  BY <1>1, ResetTypes, StacksProgress, SuccessDrains, PTL

-----------------------------------------------------------------------------
(* What a success amounts to when every listing works *)

\* What the scans of a region enumerate whatever fails.
Listable(r) == (Types \ Unavailable[r]) \ Flaky

\* A scan that did not raise enumerated the listable types, and so did the last scan of a
\* region whose diagnosis is behind it.
ScansEnumerate ==
  \A r \in Regions :
    /\ r \in reusable => Listable(r) \subseteq phase0[r]
    /\ step[r] \notin Early \cup {"failed"} => Listable(r) \subseteq enumerated[r]

LEMMA ScansListable == \A r \in Regions : \A seen \in Scans(r) : Listable(r) \subseteq seen
  BY DEF Scans, Listable

LEMMA ScansAreFull == Spec => []ScansEnumerate
<1>1. Init => ScansEnumerate
  BY DEF Init, ScansEnumerate, Early
<1>2. TypeOK /\ ScansEnumerate /\ [Next]_vars => ScansEnumerate'
  <2> SUFFICES ASSUME TypeOK, ScansEnumerate, [Next]_vars, NEW q \in Regions
               PROVE  /\ q \in reusable' => Listable(q) \subseteq phase0'[q]
                      /\ step'[q] \notin Early \cup {"failed"} => Listable(q) \subseteq enumerated'[q]
    BY DEF ScansEnumerate, Listable
  <2>1. ASSUME NEW r \in Regions, RegionAct(r)
        PROVE  /\ q \in reusable' => Listable(q) \subseteq phase0'[q]
               /\ step'[q] \notin Early \cup {"failed"} => Listable(q) \subseteq enumerated'[q]
    <3>1. CASE q = r /\ ScanRegion(r)
      <4>1. step'[r] = "diagnosing"
        BY <3>1 DEF ScanRegion, Goto, TypeOK
      <4>2. CASE UNCHANGED <<reusable, phase0>>
        BY <3>1, <4>1, <4>2 DEF ScansEnumerate, Early
      <4>3. ASSUME NEW seen \in Scans(r), phase0' = [phase0 EXCEPT ![r] = seen]
            PROVE  Listable(r) \subseteq phase0'[r]
        BY <4>3, ScansListable DEF TypeOK
      <4> QED  BY <3>1, <4>1, <4>2, <4>3 DEF ScanRegion, Early
    <3>2. CASE q = r /\ Diagnose(r)
      <4>1. PICK seen \in IF r \in reusable THEN {phase0[r]} ELSE Scans(r) :
              enumerated' = [enumerated EXCEPT ![r] = seen]
        BY <3>2 DEF Diagnose
      <4>2. Listable(r) \subseteq seen
        BY <4>1, ScansListable DEF ScansEnumerate
      <4>3. enumerated'[r] = seen
        BY <4>1 DEF TypeOK
      <4> QED  BY <3>2, <4>2, <4>3 DEF Diagnose, ScansEnumerate
    <3>3. CASE q = r /\ Recheck(r)
      <4>1. PICK seen \in Scans(r) : enumerated' = [enumerated EXCEPT ![r] = seen]
        BY <3>3 DEF Recheck
      <4>2. Listable(r) \subseteq enumerated'[r]
        BY <4>1, ScansListable DEF TypeOK
      <4> QED  BY <3>3, <4>2 DEF Recheck, ScansEnumerate
    <3>4. CASE q = r /\ ~(ScanRegion(r) \/ Diagnose(r) \/ Recheck(r))
      <4>1. UNCHANGED scanVars /\ (step'[r] = "failed" \/ step[r] \notin Early \cup {"failed"})
        BY <2>1, <3>4 DEF RegionAct, RegionStep, RegionRaises, DeleteNewStacks, SweepRegion,
               DeleteUnrecoverable, RestoreDrifted, Goto, TypeOK, Early
      <4> QED  BY <3>4, <4>1 DEF ScansEnumerate, scanVars
    <3>5. CASE q # r
      BY <2>1, <3>5, OthersUntouched DEF ScansEnumerate
    <3> QED  BY <3>1, <3>2, <3>3, <3>4, <3>5
  <2>2. CASE ReportFailure \/ GlobalPass \/ UNCHANGED vars
    BY <2>2 DEF ReportFailure, GlobalPass, ScansEnumerate, scanVars, vars
  <2> QED  BY <2>1, <2>2, NextCases
<1> QED  BY <1>1, <1>2, ResetTypes, PTL DEF Spec

\* Of the types that did not fail at the capture a success leaves, besides what AWS is still
\* to delete, only what each region that could list it missed beside others of its type, or
\* may have failed to list, the baseline having had nothing of the type; an "ok" leaves no
\* stack off its baseline.  Where no type failed at the capture, no deletion lingers and
\* every lister works, this is what ScenarioTrial takes an "ok" for.
SuccessIsExact ==
  Success =>
    /\ \A i \in live \ Lingering : TypeOf[i] \notin FailedTypes => \A r \in SeenFrom(i) :
         i \in missed[r] \/ TypeOf[i] \in (Flaky \cup Unavailable[r]) \ Filled
    /\ verdict = "ok" => \A s \in Stacks : stack[s] = "baseline"

\* For any regions, resources and stacks: what survives a success was in no last scan,
\* unless its deletion lingers or its type failed at the capture, and without a deletion
\* every stack is as it was captured.
THEOREM SuccessesAreExact == Spec => []SuccessIsExact
<1>1. /\ TypeOK /\ ScansEnumerate /\ SuccessMeansDrained
      /\ NoSilentSurvivor /\ SuccessSettlesStacks
      => SuccessIsExact
  <2> SUFFICES ASSUME TypeOK, ScansEnumerate, SuccessMeansDrained, NoSilentSurvivor,
                      SuccessSettlesStacks, Success
               PROVE  /\ \A i \in live \ Lingering : TypeOf[i] \notin FailedTypes =>
                           \A r \in SeenFrom(i) :
                             \/ i \in missed[r]
                             \/ TypeOf[i] \in (Flaky \cup Unavailable[r]) \ Filled
                      /\ verdict = "ok" => \A s \in Stacks : stack[s] = "baseline"
    BY DEF SuccessIsExact
  <2>1. ASSUME NEW i \in live \ Lingering, TypeOf[i] \notin FailedTypes, NEW r \in SeenFrom(i),
               i \notin missed[r]
        PROVE  TypeOf[i] \in (Flaky \cup Unavailable[r]) \ Filled
    <3>1. r \in Regions /\ TypeOf[i] \in Types
      BY <2>1, AccountAssumption DEF TypeOK, SeenFrom
    <3>2. TypeOf[i] \notin enumerated[r] \cup Filled
      BY <2>1 DEF NoSilentSurvivor
    <3>3. Listable(r) \subseteq enumerated[r]
      BY <3>1 DEF ScansEnumerate, SuccessMeansDrained, Early
    <3> QED  BY <3>1, <3>2, <3>3 DEF Listable
  <2>2. ASSUME verdict = "ok", NEW s \in Stacks PROVE stack[s] = "baseline"
    <3>1. RegionOf[s] \in Regions
      BY AccountAssumption
    <3> QED  BY <2>2, <3>1 DEF SuccessMeansDrained, SuccessSettlesStacks
  <2> QED  BY <2>1, <2>2
<1> QED
  BY <1>1, ResetTypes, ScansAreFull, SuccessDrains, NothingSurvivesSilently, StacksSettle, PTL

===============================================================================
