---------------------------- MODULE BaselineCapture ----------------------------
(***************************************************************************)
(* Capturing an account's baseline: snapshot_account of                    *)
(* snapshot/manager.py on top of the fast scan (fastscan/engine.py,        *)
(* fastscan/manager.py, fastscan/lambda_scanner.py) and the executors of   *)
(* utils/concurrent.py.                                                    *)
(*                                                                         *)
(* A pool of threads captures the regions; each region's scan is a pool of *)
(* its own that runs the listers under one deadline, on the host or in a   *)
(* Lambda that the region's thread waits for.  A signal sets a flag that   *)
(* threads only see at their checkpoints.  What the listers returned is    *)
(* projected onto resource kinds, checked for transient errors, merged     *)
(* over the regions and saved.                                             *)
(***************************************************************************)
EXTENDS Naturals, FiniteSets

CONSTANTS Regions,
          Listers,
          Kinds,           \* CloudFormation types and per-service buckets
          KindOf,          \* lister -> the kind its results are filed under
          Skipped,         \* region -> listers without a result there
          Resources,
          Shows,           \* region -> lister -> what it lists
          RegionWorkers,   \* MAX_WORKERS_HEAVY
          ListerWorkers,   \* MAX_LISTER_WORKERS
          Invokes,         \* _INVOKE_RETRY_ATTEMPTS
          Forbidden        \* SnapshotContext.forbidden_identifiers

ASSUME CaptureAssumption ==
  /\ KindOf \in [Listers -> Kinds]
  /\ Skipped \in [Regions -> SUBSET Listers]
  /\ Shows \in [Regions -> [Listers -> SUBSET Resources]]
  /\ \A r \in Regions : \A l \in Skipped[r] : Shows[r][l] = {}
  /\ {RegionWorkers, ListerWorkers, Invokes} \subseteq Nat \ {0}
  /\ IsFiniteSet(Regions) /\ IsFiniteSet(Listers)

VARIABLES backend,   \* the scan runs on the "host" or in the "lambda"
          shutdown,  \* the flag of request_shutdown
          region,    \* region -> where its capture is
          job,       \* region -> lister -> its future
          note,      \* region -> lister -> what the scan recorded of it
          invokes,   \* region -> invocations of the Lambda so far
          main,      \* where snapshot_account is
          seen,      \* regions whose future it has read
          verdict,   \* how the capture ends
          baseline   \* what it saved
vars == <<backend, shutdown, region, job, note, invokes, main, seen, verdict, baseline>>

Nothing == [saved |-> FALSE, found |-> {}, failed |-> {}]
Returned == {"listed", "transient", "refused"}     \* a future with a result
Done == Returned \cup {"cancelled"}
Active == {"running", "abandoned"}

TypeOK ==
  /\ backend \in {"host", "lambda"}
  /\ shutdown \in BOOLEAN
  /\ region \in [Regions -> {"queued", "stacks", "collect", "expired", "exit",
                             "unwind", "captured", "failed", "cancelled"}]
  /\ job \in [Regions -> [Listers -> Done \cup Active \cup
                                     {"skipped", "queued", "dropped", "drained"}]]
  /\ note \in [Regions -> [Listers -> Returned \cup {"none", "timeout"}]]
  /\ invokes \in [Regions -> 0 .. Invokes]
  /\ main \in {"start", "collect", "join", "save", "done"}
  /\ seen \subseteq Regions
  /\ verdict \in {"none", "success", "failed", "cancelled"}
  /\ baseline \in [saved : BOOLEAN, found : SUBSET Resources, failed : SUBSET Kinds]

-----------------------------------------------------------------------------
(***************************************************************************)
(* The workers of a region's scan.                                         *)
(***************************************************************************)
Job(r, l, to) == job' = [job EXCEPT ![r][l] = to]
Note(r, l, what) == note' = [note EXCEPT ![r][l] = what]
Region(r, to) == region' = [region EXCEPT ![r] = to]
Busy(r) == {l \in Listers : job[r][l] \in Active}
Scanning(r) == region[r] \in {"collect", "expired", "exit", "unwind"}

(* A queued lister that sees the flag raises instead of calling AWS.  In   *)
(* the Lambda nobody sets it.                                              *)
StartLister(r, l) ==
  /\ Scanning(r)
  /\ job[r][l] = "queued"
  /\ Cardinality(Busy(r)) < ListerWorkers
  /\ Job(r, l, IF shutdown /\ backend = "host" THEN "cancelled" ELSE "running")
  /\ UNCHANGED <<backend, shutdown, region, note, invokes, main, seen, verdict, baseline>>

(* Its calls, retried, end in identifiers, in a transient error that       *)
(* outlasted the retries, or in another one.                               *)
FinishLister(r, l) ==
  /\ \/ job[r][l] = "running" /\ \E result \in Returned : Job(r, l, result)
     \/ job[r][l] = "abandoned" /\ Job(r, l, "drained")
  /\ UNCHANGED <<backend, shutdown, region, note, invokes, main, seen, verdict, baseline>>

-----------------------------------------------------------------------------
(***************************************************************************)
(* The scan of a region.                                                   *)
(***************************************************************************)
Pending(r) == {l \in Listers : job[r][l] # "skipped" /\ note[r][l] = "none"}
Fresh(r) == [l \in Listers |-> IF l \in Skipped[r] THEN "skipped" ELSE "queued"]

(* Regions start as workers get free, and check the flag first. *)
InProgress == {r \in Regions : region[r] \notin {"queued", "captured", "failed", "cancelled"}}
StartRegion(r) ==
  /\ main \in {"collect", "join"}
  /\ region[r] = "queued"
  /\ Cardinality(InProgress) < RegionWorkers
  /\ Region(r, IF shutdown THEN "cancelled" ELSE "stacks")
  /\ UNCHANGED <<backend, shutdown, job, note, invokes, main, seen, verdict, baseline>>

(* Listing the stacks, their drift and metadata come before the scan. *)
CaptureStacks(r) ==
  /\ region[r] = "stacks"
  /\ \/ /\ Region(r, "collect")
        /\ job' = [job EXCEPT ![r] = Fresh(r)]
        /\ invokes' = [invokes EXCEPT ![r] = 1]
     \/ Region(r, "failed") /\ UNCHANGED <<job, invokes>>
     \/ shutdown /\ Region(r, "cancelled") /\ UNCHANGED <<job, invokes>>
  /\ UNCHANGED <<backend, shutdown, note, main, seen, verdict, baseline>>

(* Reading a finished future; one that raised OperationCancelled raises it *)
(* here, past every handler of Exception.                                  *)
ReadFuture(r, l) ==
  \/ job[r][l] \in Returned /\ Note(r, l, job[r][l]) /\ UNCHANGED <<region, job>>
  \/ job[r][l] = "cancelled" /\ Region(r, "unwind") /\ UNCHANGED <<job, note>>
Collect(r, l) ==
  /\ region[r] = "collect"
  /\ l \in Pending(r)
  /\ ReadFuture(r, l)
  /\ UNCHANGED <<backend, shutdown, invokes, main, seen, verdict, baseline>>

(* The deadline passes while futures are pending, finished ones among them *)
(* perhaps.                                                                *)
Expire(r) ==
  /\ region[r] = "collect"
  /\ Pending(r) # {}
  /\ Region(r, "expired")
  /\ UNCHANGED <<backend, shutdown, job, note, invokes, main, seen, verdict, baseline>>

\* Seeded fault: whatever is pending at the deadline counts as timed out.
OverdueAll(r, l) == l \in Pending(r)

Overdue(r, l) == l \in Pending(r) /\ job[r][l] \notin Done

(* Future.cancel: what runs goes on unheard, what is done stays so. *)
AfterCancel(state) == CASE state = "queued" -> "dropped"
                        [] state = "running" -> "abandoned"
                        [] OTHER -> state

(* After it, a future that is done is still read; the others are cancelled *)
(* if they have not started, and recorded as failed in any case.           *)
AfterDeadline(r, l) ==
  /\ region[r] = "expired"
  /\ l \in Pending(r)
  /\ IF Overdue(r, l)
     THEN /\ Job(r, l, AfterCancel(job[r][l]))
          /\ Note(r, l, "timeout")
          /\ UNCHANGED region
     ELSE ReadFuture(r, l)
  /\ UNCHANGED <<backend, shutdown, invokes, main, seen, verdict, baseline>>

LeavePool(r) ==
  /\ region[r] \in {"collect", "expired"}
  /\ Pending(r) = {}
  /\ Region(r, "exit")
  /\ UNCHANGED <<backend, shutdown, job, note, invokes, main, seen, verdict, baseline>>

-----------------------------------------------------------------------------
(***************************************************************************)
(* The projection and the snapshot of a region.                            *)
(***************************************************************************)
Found(r, k) == UNION {Shows[r][l] : l \in {m \in Listers : KindOf[m] = k /\ note[r][m] = "listed"}}
FailedListers(r, k) ==
  {l \in Listers : KindOf[l] = k /\ note[r][l] \in {"transient", "refused", "timeout"}}

\* Seeded fault: a failed lister is dropped and its kind looks empty.
FailedKindsHidden(r) == {}

(* A kind of which something was found is not failed, whichever of its     *)
(* listers were.                                                           *)
FailedKinds(r) == {k \in Kinds : FailedListers(r, k) # {} /\ Found(r, k) = {}}

(* The error of a failed kind is that of one of its listers. *)
Aborts(r) ==
  \E k \in FailedKinds(r) : \E l \in FailedListers(r, k) : note[r][l] = "transient"
MayPass(r) ==
  \A k \in FailedKinds(r) : \E l \in FailedListers(r, k) : note[r][l] # "transient"

(* The pool waits for every worker; then the host looks at the flag.  A    *)
(* kind whose error is transient fails the region.                         *)
EndScan(r) ==
  /\ region[r] \in {"exit", "unwind"}
  /\ \A l \in Listers : job[r][l] \notin Active \cup {"queued"}
  /\ \/ region[r] = "unwind" /\ Region(r, "cancelled")
     \/ region[r] = "exit" /\ shutdown /\ backend = "host" /\ Region(r, "cancelled")
     \/ /\ region[r] = "exit" /\ ~(shutdown /\ backend = "host")
        /\ \/ MayPass(r) /\ Region(r, "captured")
           \/ Aborts(r) /\ Region(r, "failed")
  /\ UNCHANGED <<backend, shutdown, job, note, invokes, main, seen, verdict, baseline>>

\* Seeded fault: an invocation that fails is repeated without being counted.
AnotherUncounted(r) == invokes[r]

Another(r) == invokes[r] + 1

(* The Lambda, or the call of it, fails: killed by its runtime, the region *)
(* fails at once; otherwise it is invoked again a few times.               *)
InvokeFails(r) ==
  /\ backend = "lambda" /\ Scanning(r)
  /\ \/ Region(r, "failed") /\ UNCHANGED invokes
     \/ /\ invokes[r] < Invokes
        /\ invokes' = [invokes EXCEPT ![r] = Another(r)]
        /\ Region(r, "collect")
  /\ job' = [job EXCEPT ![r] = Fresh(r)]
  /\ note' = [note EXCEPT ![r] = [l \in Listers |-> "none"]]
  /\ UNCHANGED <<backend, shutdown, main, seen, verdict, baseline>>

-----------------------------------------------------------------------------
(***************************************************************************)
(* snapshot_account.                                                       *)
(***************************************************************************)
Verdict(v) == verdict' = v
Main(to) == main' = to

(* Nothing is captured before setup where a baseline exists, and nothing   *)
(* is started after the flag is up.                                        *)
Start ==
  /\ main = "start"
  /\ \/ shutdown /\ Verdict("cancelled") /\ Main("done")
     \/ ~shutdown /\ Verdict("success") /\ Main("done")
     \/ ~shutdown /\ Main("collect") /\ UNCHANGED verdict
  /\ UNCHANGED <<backend, shutdown, region, job, note, invokes, seen, baseline>>

(* A region's exception ends the collection at once. *)
Raises == {"failed", "cancelled"}
ReadRegion(r) ==
  /\ main = "collect"
  /\ r \notin seen /\ region[r] \in {"captured", "failed", "cancelled"}
  /\ seen' = seen \cup {r}
  /\ IF region[r] \in Raises
     THEN Verdict(region[r]) /\ Main("join")
     ELSE /\ UNCHANGED verdict
          /\ IF seen' = Regions THEN Main("join") ELSE UNCHANGED main
  /\ UNCHANGED <<backend, shutdown, region, job, note, invokes, baseline>>

(* Leaving the pool waits for every region, those still queued included;   *)
(* only then is the exception seen further up.                             *)
Join ==
  /\ main = "join"
  /\ \A r \in Regions : region[r] \in {"captured", "failed", "cancelled"}
  /\ Main(IF verdict = "none" THEN "save" ELSE "done")
  /\ UNCHANGED <<backend, shutdown, region, job, note, invokes, seen, verdict, baseline>>

(* The merge of the regions is saved unless it lists what must not become  *)
(* part of a baseline.                                                     *)
Merged == [saved |-> TRUE,
           found |-> UNION {Found(r, k) : r \in Regions, k \in Kinds},
           failed |-> UNION {FailedKinds(r) : r \in Regions}]
Save ==
  /\ main = "save"
  /\ \/ /\ Merged.found \cap Forbidden = {}
        /\ baseline' = Merged
        /\ Verdict("success")
     \/ Verdict("failed") /\ UNCHANGED baseline
  /\ Main("done")
  /\ UNCHANGED <<backend, shutdown, region, job, note, invokes, seen>>

(* Ctrl+C or SIGTERM. *)
Signal ==
  /\ ~shutdown
  /\ shutdown' = TRUE
  /\ UNCHANGED <<backend, region, job, note, invokes, main, seen, verdict, baseline>>

-----------------------------------------------------------------------------
Init ==
  /\ backend \in {"host", "lambda"}
  /\ shutdown = FALSE
  /\ region = [r \in Regions |-> "queued"]
  /\ job = [r \in Regions |-> [l \in Listers |-> "skipped"]]
  /\ note = [r \in Regions |-> [l \in Listers |-> "none"]]
  /\ invokes = [r \in Regions |-> 0]
  /\ main = "start"
  /\ seen = {}
  /\ verdict = "none"
  /\ baseline = Nothing

Worker(r, l) == StartLister(r, l) \/ FinishLister(r, l)
ScanRegion(r) ==
  \/ StartRegion(r) \/ CaptureStacks(r) \/ LeavePool(r) \/ EndScan(r)
  \/ \E l \in Listers : Collect(r, l) \/ AfterDeadline(r, l)
SnapshotAccount == Start \/ (\E r \in Regions : ReadRegion(r)) \/ Join \/ Save

Next ==
  \/ \E r \in Regions : ScanRegion(r) \/ Expire(r) \/ InvokeFails(r)
  \/ \E r \in Regions, l \in Listers : Worker(r, l)
  \/ SnapshotAccount
  \/ Signal

(* Threads run, and every call of AWS ends: connections, reads, pages and  *)
(* retries are bounded.  Neither deadlines nor failures nor signals need   *)
(* to happen.                                                              *)
Spec == /\ Init /\ [][Next]_vars
        /\ WF_vars(SnapshotAccount)
        /\ \A r \in Regions : /\ WF_vars(ScanRegion(r))
                              /\ \A l \in Listers : WF_vars(Worker(r, l))

-----------------------------------------------------------------------------
(* A saved baseline leaves nothing out silently: a resource is listed, or  *)
(* its kind is among the failed ones for a reason other than a transient   *)
(* error, or another lister of the kind found something in that region.    *)
(* Later sweeps delete what a baseline does not list.                      *)
Explained(r, k) ==
  /\ k \in baseline.failed
  /\ \E l \in FailedListers(r, k) : note[r][l] \in {"refused", "timeout"}
BaselineComplete ==
  baseline.saved =>
    \A r \in Regions : \A l \in Listers : \A x \in Shows[r][l] :
      x \in baseline.found \/ Explained(r, KindOf[l]) \/ Found(r, KindOf[l]) # {}

(* A lister is recorded as timed out only if its future was not done when  *)
(* the deadline's handler came to it (scan): its kind would pass for one   *)
(* that could not be enumerated although it was.                           *)
NoFalseTimeout ==
  \A r \in Regions : \A l \in Listers :
    note[r][l] = "timeout" => job[r][l] \in {"dropped", "abandoned", "drained"}

(* Whatever times out, fails or is interrupted, the capture ends, with no  *)
(* thread of it left behind (interruptible_executor).                      *)
EveryCaptureEnds ==
  <>[](main = "done" /\ \A r \in Regions : Busy(r) = {} /\ ~Scanning(r))

=============================================================================
