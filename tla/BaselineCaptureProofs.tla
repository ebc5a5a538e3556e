------------------------- MODULE BaselineCaptureProofs -------------------------
(***************************************************************************)
(* Proofs about BaselineCapture, for any regions, listers and kinds.  A    *)
(* region that was captured has heard of each of its listers, and nothing  *)
(* touches what it heard any more; the baseline is merged from captured    *)
(* regions only.                                                           *)
(***************************************************************************)
EXTENDS BaselineCapture, TLAPS

(* Nothing was recorded of a scan that has not begun; once it has begun, a *)
(* lister is left out only where it has no result; a region has heard of   *)
(* every lister before it waits for its workers; a captured region has no  *)
(* kind that failed with a transient error alone; and what was timed out   *)
(* was not done.                                                           *)
Begun == {"collect", "expired", "exit", "unwind", "captured"}
Ended == {"captured", "failed", "cancelled"}

RegionInv(r) ==
  /\ region[r] \in {"queued", "stacks"} => \A l \in Listers : note[r][l] = "none"
  /\ region[r] \in Begun => \A l \in Listers : job[r][l] = "skipped" => l \in Skipped[r]
  /\ region[r] \in {"exit", "captured"} =>
       \A l \in Listers : job[r][l] = "skipped" \/ note[r][l] # "none"
  /\ region[r] = "captured" => MayPass(r)
  /\ \A l \in Listers :
       note[r][l] = "timeout" => job[r][l] \in {"dropped", "abandoned", "drained"}

(* As long as no failure is known, every region that was read is captured. *)
ReadCaptured ==
  /\ main \in {"collect", "join"} /\ verdict = "none" =>
       \A r \in seen : region[r] = "captured"
  /\ main \in {"start", "collect"} => verdict = "none"
  /\ main = "start" => seen = {}
  /\ main = "join" /\ verdict = "none" => seen = Regions
  /\ main = "save" => \A r \in Regions : region[r] = "captured"

(* What was saved is the merge of all the regions, as they still are.      *)
SavedMerged ==
  baseline.saved =>
    /\ main = "done"
    /\ baseline = Merged
    /\ \A r \in Regions : region[r] = "captured"

CaptureInv ==
  /\ TypeOK
  /\ \A r \in Regions : RegionInv(r)
  /\ ReadCaptured /\ SavedMerged

(* A step of one region, or of a lister in it, and what it leaves alone.   *)
StepIn(r) == ScanRegion(r) \/ Expire(r) \/ InvokeFails(r) \/ \E l \in Listers : Worker(r, l)

-----------------------------------------------------------------------------
(* Every step keeps the types.                                             *)
LEMMA TypesInit == Init => TypeOK
  <1>1. 0 \in 0 .. Invokes
    BY CaptureAssumption
  <1>2. Nothing \in [saved : BOOLEAN, found : SUBSET Resources, failed : SUBSET Kinds]
    BY DEF Nothing
  <1>. SUFFICES ASSUME Init PROVE TypeOK
    OBVIOUS
  <1>3. /\ region \in [Regions -> {"queued"}] /\ job \in [Regions -> [Listers -> {"skipped"}]]
        /\ note \in [Regions -> [Listers -> {"none"}]] /\ invokes \in [Regions -> {0}]
    BY DEF Init
  <1>4. /\ backend \in {"host", "lambda"} /\ shutdown \in BOOLEAN /\ main = "start"
        /\ seen \subseteq Regions /\ verdict = "none" /\ baseline = Nothing
    BY DEF Init
  <1>. QED  BY <1>1, <1>2, <1>3, <1>4 DEF TypeOK

LEMMA FreshTyped ==
  ASSUME NEW r \in Regions
  PROVE  Fresh(r) \in [Listers -> {"skipped", "queued"}]
  BY DEF Fresh

LEMMA InvokesBounded ==
  ASSUME TypeOK, NEW r \in Regions, CaptureStacks(r) \/ InvokeFails(r)
  PROVE  invokes' \in [Regions -> 0 .. Invokes]
  <1>1. Invokes \in Nat /\ Invokes # 0 /\ invokes \in [Regions -> 0 .. Invokes]
    BY CaptureAssumption DEF TypeOK
  <1>2. invokes[r] \in 0 .. Invokes
    BY <1>1
  <1>3. CASE CaptureStacks(r)
    BY <1>1, <1>3 DEF CaptureStacks
  <1>4. CASE InvokeFails(r)
    BY <1>1, <1>2, <1>4 DEF InvokeFails, Another
  <1>. QED  BY <1>3, <1>4

LEMMA FoundTyped ==
  ASSUME TypeOK, NEW r \in Regions, NEW k \in Kinds
  PROVE  Found(r, k) \subseteq Resources
  BY CaptureAssumption DEF Found, TypeOK

Notes == Returned \cup {"none", "timeout"}
Jobs == Done \cup Active \cup {"skipped", "queued", "dropped", "drained"}

LEMMA NoteTyped ==
  ASSUME TypeOK, NEW r \in Regions, NEW l \in Listers, NEW what \in Notes, Note(r, l, what)
  PROVE  note' \in [Regions -> [Listers -> Notes]]
  <1>. DEFINE f == [note[r] EXCEPT ![l] = what]
  <1>1. note \in [Regions -> [Listers -> Notes]]
    BY DEF TypeOK, Notes
  <1>2. f \in [Listers -> Notes]
    BY <1>1
  <1>3. note' = [note EXCEPT ![r] = f]
    BY <1>1 DEF Note
  <1>. QED  BY <1>1, <1>2, <1>3

LEMMA JobTyped ==
  ASSUME TypeOK, NEW r \in Regions, NEW l \in Listers, NEW to \in Jobs, Job(r, l, to)
  PROVE  job' \in [Regions -> [Listers -> Jobs]]
  <1>. DEFINE f == [job[r] EXCEPT ![l] = to]
  <1>1. job \in [Regions -> [Listers -> Jobs]]
    BY DEF TypeOK, Jobs
  <1>2. f \in [Listers -> Jobs]
    BY <1>1
  <1>3. job' = [job EXCEPT ![r] = f]
    BY <1>1 DEF Job
  <1>. QED  BY <1>1, <1>2, <1>3

LEMMA TypesNext == TypeOK /\ [Next]_vars => TypeOK'
  <1>. SUFFICES ASSUME TypeOK, [Next]_vars PROVE TypeOK'
    OBVIOUS
  <1>1. ASSUME NEW r \in Regions, NEW l \in Listers, Worker(r, l) PROVE TypeOK'
    <2>1. \E to \in Jobs : Job(r, l, to)
      BY <1>1 DEF Worker, StartLister, FinishLister, Jobs, Done, Active
    <2>2. UNCHANGED <<backend, shutdown, region, note, invokes, main, seen, verdict, baseline>>
      BY <1>1 DEF Worker, StartLister, FinishLister
    <2>. QED  BY <2>1, <2>2, JobTyped DEF TypeOK, Jobs
  <1>2. ASSUME NEW r \in Regions, StartRegion(r) \/ LeavePool(r) \/ EndScan(r) \/ Expire(r) PROVE TypeOK'
    <2>1. \E to \in {"stacks", "expired", "exit", "captured", "failed", "cancelled"} : Region(r, to)
      BY <1>2 DEF StartRegion, LeavePool, EndScan, Expire
    <2>2. UNCHANGED <<backend, shutdown, job, note, invokes, main, seen, verdict, baseline>>
      BY <1>2 DEF StartRegion, LeavePool, EndScan, Expire
    <2>. QED  BY <2>1, <2>2 DEF Region, TypeOK
  <1>3. ASSUME NEW r \in Regions, CaptureStacks(r) PROVE TypeOK'
    <2>1. job' \in [Regions -> [Listers -> Jobs]]
      BY <1>3, FreshTyped DEF CaptureStacks, TypeOK, Jobs
    <2>2. invokes' \in [Regions -> 0 .. Invokes]
      BY <1>3, InvokesBounded
    <2>. QED  BY <1>3, <2>1, <2>2 DEF CaptureStacks, Region, TypeOK, Jobs
  <1>4. ASSUME NEW r \in Regions, NEW l \in Listers, Collect(r, l) PROVE TypeOK'
    <2>1. CASE job[r][l] \in Returned /\ Note(r, l, job[r][l]) /\ UNCHANGED <<region, job>>
      BY <1>4, <2>1, NoteTyped DEF Collect, TypeOK, Notes
    <2>2. CASE Region(r, "unwind") /\ UNCHANGED <<job, note>>
      BY <1>4, <2>2 DEF Collect, Region, TypeOK
    <2>. QED  BY <1>4, <2>1, <2>2 DEF Collect, ReadFuture
  <1>5. ASSUME NEW r \in Regions, NEW l \in Listers, AfterDeadline(r, l) PROVE TypeOK'
    <2>1. CASE Overdue(r, l)
      <3>1. AfterCancel(job[r][l]) \in Active \cup {"dropped", "drained"}
        BY <2>1 DEF Overdue, Pending, AfterCancel, TypeOK, Active
      <3>2. Job(r, l, AfterCancel(job[r][l])) /\ Note(r, l, "timeout") /\ UNCHANGED region
        BY <1>5, <2>1 DEF AfterDeadline
      <3>. QED  BY <1>5, <3>1, <3>2, NoteTyped, JobTyped DEF AfterDeadline, TypeOK, Notes, Jobs
    <2>2. CASE job[r][l] \in Returned /\ Note(r, l, job[r][l]) /\ UNCHANGED <<region, job>>
      BY <1>5, <2>2, NoteTyped DEF AfterDeadline, TypeOK, Notes
    <2>3. CASE Region(r, "unwind") /\ UNCHANGED <<job, note>>
      BY <1>5, <2>3 DEF AfterDeadline, Region, TypeOK
    <2>. QED  BY <1>5, <2>1, <2>2, <2>3 DEF AfterDeadline, ReadFuture
  <1>6. ASSUME NEW r \in Regions, InvokeFails(r) PROVE TypeOK'
    <2>1. invokes' \in [Regions -> 0 .. Invokes]
      BY <1>6, InvokesBounded
    <2>2. region' \in [Regions -> {"queued", "stacks", "collect", "expired", "exit",
                                   "unwind", "captured", "failed", "cancelled"}]
      BY <1>6 DEF InvokeFails, Region, TypeOK
    <2>3. job' \in [Regions -> [Listers -> Done \cup Active \cup
                                           {"skipped", "queued", "dropped", "drained"}]]
      BY <1>6, FreshTyped DEF InvokeFails, TypeOK
    <2>4. note' \in [Regions -> [Listers -> Returned \cup {"none", "timeout"}]]
      BY <1>6 DEF InvokeFails, TypeOK
    <2>. QED  BY <1>6, <2>1, <2>2, <2>3, <2>4 DEF InvokeFails, TypeOK
  <1>7. ASSUME Start \/ Join \/ Signal PROVE TypeOK'
    BY <1>7 DEF Start, Join, Signal, Verdict, Main, TypeOK
  <1>8. ASSUME NEW r \in Regions, ReadRegion(r) PROVE TypeOK'
    BY <1>8 DEF ReadRegion, Raises, Verdict, Main, TypeOK
  <1>9. ASSUME Save PROVE TypeOK'
    <2>1. Merged \in [saved : BOOLEAN, found : SUBSET Resources, failed : SUBSET Kinds]
      BY FoundTyped DEF Merged, FailedKinds
    <2>. QED  BY <1>9, <2>1 DEF Save, Verdict, Main, TypeOK
  <1>10. CASE UNCHANGED vars
    BY <1>10 DEF vars, TypeOK
  <1>. QED
    BY <1>1, <1>2, <1>3, <1>4, <1>5, <1>6, <1>7, <1>8, <1>9, <1>10
    DEF Next, ScanRegion, SnapshotAccount

(* For any regions, listers and limits of the pools, every variable of a   *)
(* capture keeps its type; in particular the Lambda of a region is never   *)
(* invoked more often than its limit.                                      *)
THEOREM CaptureTypes == Spec => []TypeOK
  <1>. QED  BY TypesInit, TypesNext, PTL DEF Spec

-----------------------------------------------------------------------------
(* A step of one region leaves the others, and what was decided, alone.    *)
LEMMA OthersUntouched ==
  ASSUME TypeOK, NEW r \in Regions, StepIn(r)
  PROVE  /\ \A q \in Regions \ {r} :
              region'[q] = region[q] /\ job'[q] = job[q] /\ note'[q] = note[q]
         /\ UNCHANGED <<main, seen, verdict, baseline>>
  <1>1. CASE StartRegion(r) \/ LeavePool(r) \/ EndScan(r) \/ Expire(r)
    BY <1>1 DEF StartRegion, LeavePool, EndScan, Expire, Region, TypeOK
  <1>2. CASE CaptureStacks(r) \/ InvokeFails(r)
    BY <1>2 DEF CaptureStacks, InvokeFails, Region, TypeOK
  <1>3. CASE \E l \in Listers : Collect(r, l) \/ AfterDeadline(r, l)
    BY <1>3 DEF Collect, AfterDeadline, ReadFuture, Job, Note, Region, TypeOK
  <1>4. CASE \E l \in Listers : Worker(r, l)
    BY <1>4 DEF Worker, StartLister, FinishLister, Job, TypeOK
  <1>. QED  BY <1>1, <1>2, <1>3, <1>4 DEF StepIn, ScanRegion

(* What a region that has ended its capture was told stays as it is.       *)
LEMMA EndedUntouched ==
  ASSUME TypeOK, NEW r \in Regions, region[r] \in Ended, StepIn(r)
  PROVE  note'[r] = note[r] /\ region'[r] = region[r]
  <1>1. CASE StartRegion(r) \/ LeavePool(r) \/ EndScan(r) \/ Expire(r)
    BY <1>1 DEF StartRegion, LeavePool, EndScan, Expire, Ended
  <1>2. CASE CaptureStacks(r) \/ InvokeFails(r)
    BY <1>2 DEF CaptureStacks, InvokeFails, Scanning, Ended
  <1>3. CASE \E l \in Listers : Collect(r, l) \/ AfterDeadline(r, l)
    BY <1>3 DEF Collect, AfterDeadline, Ended
  <1>4. CASE \E l \in Listers : Worker(r, l)
    BY <1>4 DEF Worker, StartLister, FinishLister
  <1>. QED  BY <1>1, <1>2, <1>3, <1>4 DEF StepIn, ScanRegion

-----------------------------------------------------------------------------
(* The steps of a region and of its listers keep its invariant.            *)

(* A lister moves on; what the region has heard of it does not change.     *)
LEMMA WorkersKeep ==
  ASSUME TypeOK, NEW r \in Regions, RegionInv(r), NEW m \in Listers, Worker(r, m)
  PROVE  RegionInv(r)'
  <1>1. UNCHANGED <<region, note>>
    BY DEF Worker, StartLister, FinishLister
  <1>2. \A l \in Listers :
          /\ job'[r][l] = "skipped" => job[r][l] = "skipped"
          /\ job[r][l] = "skipped" => job'[r][l] = "skipped"
          /\ job[r][l] \in {"dropped", "abandoned", "drained"} =>
               job'[r][l] \in {"dropped", "abandoned", "drained"}
    <2>1. PICK to : Job(r, m, to) /\ to # "skipped" /\ job[r][m] # "skipped"
                    /\ (job[r][m] \in {"dropped", "abandoned", "drained"} => to = "drained")
      BY DEF Worker, StartLister, FinishLister, Returned
    <2>. QED  BY <2>1 DEF Job, TypeOK
  <1>3. MayPass(r) => MayPass(r)'
    BY <1>1 DEF MayPass, FailedKinds, FailedListers, Found
  <1>. QED  BY <1>1, <1>2, <1>3 DEF RegionInv

(* A region moves on without touching its listers or what it heard.        *)
LEMMA RegionMoves ==
  ASSUME TypeOK, NEW r \in Regions, RegionInv(r),
         StartRegion(r) \/ LeavePool(r) \/ EndScan(r) \/ Expire(r)
  PROVE  RegionInv(r)'
  <1>1. UNCHANGED <<job, note>>
    BY DEF StartRegion, LeavePool, EndScan, Expire
  <1>2. MayPass(r) => MayPass(r)'
    BY <1>1 DEF MayPass, FailedKinds, FailedListers, Found
  <1>3. CASE StartRegion(r)
    BY <1>1, <1>3 DEF StartRegion, Region, RegionInv, TypeOK, Begun
  <1>4. CASE LeavePool(r)
    BY <1>1, <1>4 DEF LeavePool, Pending, Region, RegionInv, TypeOK, Begun
  <1>5. CASE EndScan(r)
    <2>1. /\ region[r] \in {"exit", "unwind"}
          /\ region'[r] \in {"cancelled", "captured", "failed"}
          /\ region'[r] = "captured" => region[r] = "exit" /\ MayPass(r)
      BY <1>5 DEF EndScan, Region, TypeOK
    <2>. QED  BY <1>1, <1>2, <2>1 DEF RegionInv, Begun
  <1>6. CASE Expire(r)
    BY <1>1, <1>6 DEF Expire, Region, RegionInv, TypeOK, Begun
  <1>. QED  BY <1>3, <1>4, <1>5, <1>6

(* A scan begins, once more if the Lambda failed.                          *)
LEMMA ScanBegins ==
  ASSUME TypeOK, NEW r \in Regions, RegionInv(r), CaptureStacks(r) \/ InvokeFails(r)
  PROVE  RegionInv(r)'
  <1>1. \A l \in Listers : note'[r][l] = "none"
    BY DEF CaptureStacks, InvokeFails, RegionInv, TypeOK
  <1>2. region'[r] \in {"collect", "failed", "cancelled"}
    BY DEF CaptureStacks, InvokeFails, Region, TypeOK
  <1>3. region'[r] = "collect" => job'[r] = Fresh(r)
    BY DEF CaptureStacks, InvokeFails, Region, TypeOK
  <1>4. \A l \in Listers : Fresh(r)[l] = "skipped" => l \in Skipped[r]
    BY DEF Fresh
  <1>. QED  BY <1>1, <1>2, <1>3, <1>4 DEF RegionInv, Begun

(* A region hears of a lister, in time or behind the deadline.             *)
LEMMA RegionHears ==
  ASSUME TypeOK, NEW r \in Regions, RegionInv(r), NEW m \in Listers,
         Collect(r, m) \/ AfterDeadline(r, m)
  PROVE  RegionInv(r)'
  <1>1. region[r] \in {"collect", "expired"} /\ region'[r] \in {"collect", "expired", "unwind"}
    BY DEF Collect, AfterDeadline, ReadFuture, Region, TypeOK
  <1>2. CASE Overdue(r, m) /\ AfterDeadline(r, m)
    <2>1. /\ job[r][m] \notin Done \cup {"skipped"}
          /\ Job(r, m, AfterCancel(job[r][m])) /\ Note(r, m, "timeout")
      BY <1>2 DEF AfterDeadline, Overdue, Pending
    <2>2. AfterCancel(job[r][m]) \in {"dropped", "abandoned", "drained"}
      BY <2>1 DEF AfterCancel, TypeOK, Active
    <2>3. \A l \in Listers : job'[r][l] = IF l = m THEN AfterCancel(job[r][m]) ELSE job[r][l]
      BY <2>1 DEF Job, TypeOK
    <2>4. \A l \in Listers : note'[r][l] = IF l = m THEN "timeout" ELSE note[r][l]
      BY <2>1 DEF Note, TypeOK
    <2>. QED  BY <1>1, <2>2, <2>3, <2>4 DEF RegionInv, Begun
  <1>3. CASE ReadFuture(r, m)
    <2>1. job' = job
      BY <1>3 DEF Collect, AfterDeadline, ReadFuture
    <2>2. \A l \in Listers : note'[r][l] = "timeout" => note[r][l] = "timeout"
      BY <1>3 DEF ReadFuture, Note, TypeOK, Returned
    <2>. QED  BY <1>1, <2>1, <2>2 DEF RegionInv, Begun
  <1>. QED  BY <1>2, <1>3 DEF Collect, AfterDeadline

LEMMA StepKeeps ==
  ASSUME TypeOK, NEW r \in Regions, RegionInv(r), StepIn(r)
  PROVE  RegionInv(r)'
  BY WorkersKeep, RegionMoves, ScanBegins, RegionHears DEF StepIn, ScanRegion

(* A region that takes no step keeps its invariant.                        *)
LEMMA RestKeeps ==
  ASSUME NEW r \in Regions, RegionInv(r),
         region'[r] = region[r], job'[r] = job[r], note'[r] = note[r]
  PROVE  RegionInv(r)'
  <1>1. MayPass(r) => MayPass(r)'
    BY DEF MayPass, FailedKinds, FailedListers, Found
  <1>. QED  BY <1>1 DEF RegionInv

-----------------------------------------------------------------------------
(* The invariant of the whole capture.                                     *)
LEMMA InvInit == Init => CaptureInv
  <1>. SUFFICES ASSUME Init PROVE CaptureInv
    OBVIOUS
  <1>1. \A r \in Regions : RegionInv(r)
    BY DEF Init, RegionInv, Begun
  <1>2. ReadCaptured /\ SavedMerged
    BY DEF Init, Nothing, ReadCaptured, SavedMerged
  <1>. QED  BY <1>1, <1>2, TypesInit DEF CaptureInv

(* While one region moves, the ended ones, and so what was merged from     *)
(* them, stay as they are.                                                 *)
LEMMA RegionSteps ==
  ASSUME CaptureInv, NEW r \in Regions, StepIn(r), TypeOK'
  PROVE  CaptureInv'
  <1>1. \A q \in Regions : RegionInv(q)'
    BY OthersUntouched, StepKeeps, RestKeeps DEF CaptureInv
  <1>2. \A q \in Regions : region[q] \in Ended => note'[q] = note[q] /\ region'[q] = region[q]
    BY OthersUntouched, EndedUntouched DEF CaptureInv
  <1>3. ReadCaptured'
    BY <1>2, OthersUntouched DEF ReadCaptured, CaptureInv, TypeOK, Ended
  <1>4. SavedMerged'
    <2>1. UNCHANGED <<main, baseline>>
      BY OthersUntouched DEF CaptureInv
    <2>2. SUFFICES ASSUME baseline.saved, \A q \in Regions : region[q] = "captured"
                   PROVE  Merged' = Merged /\ \A q \in Regions : region'[q] = "captured"
      BY <2>1, <2>2 DEF SavedMerged, CaptureInv
    <2>3. \A q \in Regions : note'[q] = note[q] /\ region'[q] = "captured"
      BY <1>2, <2>2 DEF Ended
    <2>4. note' = note
      BY <2>3 DEF CaptureInv, TypeOK
    <2>5. Merged' = Merged
      BY <2>4 DEF Merged, FailedKinds, FailedListers, Found
    <2>. QED  BY <2>3, <2>5
  <1>. QED  BY <1>1, <1>3, <1>4 DEF CaptureInv

(* snapshot_account and the signal leave the regions alone.                *)
LEMMA MainSteps ==
  ASSUME CaptureInv, SnapshotAccount \/ Signal \/ UNCHANGED vars, TypeOK'
  PROVE  CaptureInv'
  <1>1. UNCHANGED <<region, job, note>>
    BY DEF SnapshotAccount, Start, ReadRegion, Join, Save, Signal, vars
  <1>2. \A r \in Regions : RegionInv(r)'
    BY <1>1, RestKeeps DEF CaptureInv
  <1>3. Merged' = Merged
    BY <1>1 DEF Merged, FailedKinds, FailedListers, Found
  <1>4. ReadCaptured' /\ SavedMerged'
    <2>. USE DEF CaptureInv, ReadCaptured, SavedMerged, Verdict, Main
    <2>1. CASE Start
      BY <1>1, <2>1, <1>3 DEF Start
    <2>2. CASE \E r \in Regions : ReadRegion(r)
      <3>1. PICK r \in Regions : ReadRegion(r)
        BY <2>2
      <3>2. CASE region[r] \in Raises
        BY <1>1, <1>3, <3>1, <3>2 DEF ReadRegion, Raises
      <3>3. CASE region[r] \notin Raises
        <4>1. region[r] = "captured" /\ verdict' = verdict /\ seen' = seen \cup {r}
          BY <3>1, <3>3 DEF ReadRegion, Raises
        <4>2. main' = IF seen' = Regions THEN "join" ELSE "collect"
          BY <3>1, <3>3 DEF ReadRegion
        <4>3. main = "collect" /\ baseline' = baseline
          BY <3>1 DEF ReadRegion
        <4>4. ~baseline.saved /\ verdict = "none" /\ \A q \in seen : region[q] = "captured"
          BY <4>3
        <4>5. ReadCaptured'
          BY <1>1, <4>1, <4>2, <4>4
        <4>. QED  BY <4>3, <4>4, <4>5
      <3>. QED  BY <3>2, <3>3
    <2>3. CASE Join
      BY <1>1, <2>3, <1>3 DEF Join
    <2>4. CASE Save
      <3>1. main = "save" /\ main' = "done" /\ (baseline' = Merged \/ baseline' = baseline)
        BY <2>4 DEF Save
      <3>2. ~baseline.saved /\ \A q \in Regions : region'[q] = "captured"
        BY <1>1, <3>1
      <3>. QED  BY <1>3, <3>1, <3>2
    <2>5. CASE Signal \/ UNCHANGED vars
      BY <1>1, <2>5, <1>3 DEF Signal, vars
    <2>. QED  BY <2>1, <2>2, <2>3, <2>4, <2>5 DEF SnapshotAccount
  <1>. QED  BY <1>2, <1>4 DEF CaptureInv

(* CaptureInv is an invariant of every capture.                            *)
THEOREM CaptureInvariant == Spec => []CaptureInv
  <1>1. CaptureInv /\ [Next]_vars => CaptureInv'
    <2>. SUFFICES ASSUME CaptureInv, [Next]_vars PROVE CaptureInv'
      OBVIOUS
    <2>1. TypeOK'
      BY TypesNext DEF CaptureInv
    <2>2. (\E r \in Regions : StepIn(r)) \/ SnapshotAccount \/ Signal \/ UNCHANGED vars
      BY DEF Next, StepIn
    <2>. QED  BY <2>1, <2>2, RegionSteps, MainSteps
  <1>. QED  BY InvInit, <1>1, PTL DEF Spec

-----------------------------------------------------------------------------
(* What the invariant says of a capture.                                   *)

(* However the deadline and the workers race, a lister is recorded as      *)
(* timed out only if it was not done (engine.scan).                        *)
THEOREM FinishedNeverTimedOut == Spec => []NoFalseTimeout
  <1>1. CaptureInv => NoFalseTimeout
    BY DEF CaptureInv, RegionInv, NoFalseTimeout
  <1>. QED  BY <1>1, CaptureInvariant, PTL

(* Whichever listers, regions and invocations fail, a saved baseline hides *)
(* no resource silently (snapshot_account): what it does not list is of a  *)
(* kind it names as failed, or of one found in part.                       *)
THEOREM BaselinesHideNothing == Spec => []BaselineComplete
  <1>1. CaptureInv => BaselineComplete
    <2>. SUFFICES ASSUME CaptureInv, baseline.saved,
                         NEW r \in Regions, NEW l \in Listers, NEW x \in Shows[r][l],
                         Found(r, KindOf[l]) = {}
                  PROVE  x \in baseline.found \/ Explained(r, KindOf[l])
      BY DEF BaselineComplete
    <2>. DEFINE k == KindOf[l]
    <2>1. region[r] = "captured" /\ baseline = Merged /\ RegionInv(r) /\ k \in Kinds
      BY CaptureAssumption DEF CaptureInv, SavedMerged
    <2>2. job[r][l] # "skipped"
      BY <2>1, CaptureAssumption DEF RegionInv, Begun
    <2>3. note[r][l] \in {"transient", "refused", "timeout", "listed"}
      BY <2>1, <2>2 DEF RegionInv, CaptureInv, TypeOK, Returned
    <2>4. note[r][l] # "listed"
      BY DEF Found
    <2>5. k \in FailedKinds(r)
      BY <2>1, <2>3, <2>4 DEF FailedKinds, FailedListers
    <2>6. k \in baseline.failed
      BY <2>1, <2>5 DEF Merged
    <2>7. \E m \in FailedListers(r, k) : note[r][m] \in {"refused", "timeout"}
      BY <2>1, <2>5 DEF RegionInv, MayPass, FailedListers
    <2>. QED  BY <2>6, <2>7 DEF Explained
  <1>. QED  BY <1>1, CaptureInvariant, PTL

=============================================================================
