----------------------------- MODULE AdmissionGate -----------------------------
(***************************************************************************)
(* The run-side trial queue (aws_bench/task/queue.py): the readers-writer  *)
(* gate of each scenario's account, the global concurrency semaphore taken *)
(* after it, and the retry loop that runs while both are held.             *)
(*                                                                         *)
(* The process is one asyncio event loop.  Nothing yields while the lock   *)
(* of the gate's Condition is held, so the lock is never contended and a   *)
(* test of the gate, with the update that follows it, is one step.  What   *)
(* interleaves is everything between those steps: a release only makes the *)
(* parked trials runnable, and trials that arrive before they run again    *)
(* may enter first.                                                        *)
(***************************************************************************)
EXTENDS Integers, FiniteSets

CONSTANTS Trials,      \* the trial configs submitted to the queue
          ScenarioOf,  \* trial -> scenario_id
          Mutating,    \* the trials whose concurrency_mode is not READ_ONLY
          NConcurrent, \* n_concurrent
          MaxRetries,  \* retry_config.max_retries
          NoGate       \* a scenario, or a trial, without a gate yet

ASSUME GateAssumption ==
  /\ IsFiniteSet(Trials)
  /\ Mutating \subseteq Trials
  /\ DOMAIN ScenarioOf = Trials
  /\ NConcurrent \in Nat \ {0}
  /\ MaxRetries \in Nat
  /\ NoGate \notin Trials

Scenarios == {ScenarioOf[t] : t \in Trials}

\* A gate object is named by the trial whose setdefault created it.
Gates == Trials

VARIABLES pc,        \* where each trial's _run_trial coroutine is
          gates,     \* scenario_id -> gate object (AwsBenchTrialQueue._gates)
          gateOf,    \* the local variable `gate` of each _run_trial
          readers,   \* gate -> _readers
          writer,    \* gate -> _writer_held
          free,      \* free slots of the global semaphore
          attempt,   \* attempt counter of the retry loop
          shutdown   \* the job has been cancelled (Ctrl+C)

gateVars == <<gates, gateOf, readers, writer>>
vars == <<pc, gates, gateOf, readers, writer, free, attempt, shutdown>>

Phases == {"submitted", "parked", "woken", "admitted", "running", "done",
           "raised", "cancelled"}

Settled == {"done", "raised", "cancelled"}
Holding == {"admitted", "running"}

Init ==
  /\ pc = [t \in Trials |-> "submitted"]
  /\ gates = [s \in Scenarios |-> NoGate]
  /\ gateOf = [t \in Trials |-> NoGate]
  /\ readers = [g \in Gates |-> 0]
  /\ writer = [g \in Gates |-> FALSE]
  /\ free = NConcurrent
  /\ attempt = [t \in Trials |-> 0]
  /\ shutdown = FALSE

-----------------------------------------------------------------------------
(* _ScenarioAdmissionGate *)

\* Seeded fault: a writer only looks for another writer.
MayEnterIgnoringReaders(t, g) == ~writer[g]

\* The predicate _acquire waits for: no writer holds and, for a writer, no reader.
MayEnter(t, g) == ~writer[g] /\ (t \in Mutating => readers[g] = 0)

\* What _acquire records once the predicate holds.
Admit(t, g) ==
  /\ pc' = [pc EXCEPT ![t] = "admitted"]
  /\ IF t \in Mutating
     THEN writer' = [writer EXCEPT ![g] = TRUE] /\ UNCHANGED readers
     ELSE readers' = [readers EXCEPT ![g] = @ + 1] /\ UNCHANGED writer

\* Seeded fault: notify() in place of notify_all().
NotifiedOne(g) ==
  LET parked == {t \in Trials : pc[t] = "parked" /\ gateOf[t] = g} IN
  IF parked = {} THEN {} ELSE {CHOOSE t \in parked : TRUE}

\* Seeded fault: a release that wakes nobody.
NotifiedNobody(g) == {}

\* The trials notify_all makes runnable: everyone parked on the gate.
Notified(g) == {t \in Trials : pc[t] = "parked" /\ gateOf[t] = g}

\* _release: drop the hold, wake everyone parked; the trial itself settles as `end`.
Release(t, end) ==
  LET g == gateOf[t] IN
  /\ IF t \in Mutating
     THEN writer' = [writer EXCEPT ![g] = FALSE] /\ UNCHANGED readers
     ELSE readers' = [readers EXCEPT ![g] = @ - 1] /\ UNCHANGED writer
  /\ pc' = [u \in Trials |-> IF u = t THEN end
                             ELSE IF u \in Notified(g) THEN "woken" ELSE pc[u]]

-----------------------------------------------------------------------------
(* AwsBenchTrialQueue *)

\* Seeded fault: check-then-set, which hands two trials of a scenario two gates.
GateForRaced(t) == t

\* The gate setdefault returns: the one on record, else the one just built.
GateFor(t) == IF gates[ScenarioOf[t]] = NoGate THEN t ELSE gates[ScenarioOf[t]]

\* A trial reaches the queue, gets its scenario's gate and tests it for the first time.
Arrive(t) ==
  /\ pc[t] = "submitted"
  /\ ~shutdown
  /\ LET g == GateFor(t) IN
     /\ gates' = [gates EXCEPT ![ScenarioOf[t]] = g]
     /\ gateOf' = [gateOf EXCEPT ![t] = g]
     /\ \/ MayEnter(t, g) /\ Admit(t, g)
        \/ /\ ~MayEnter(t, g)
           /\ pc' = [pc EXCEPT ![t] = "parked"]
           /\ UNCHANGED <<readers, writer>>
  /\ UNCHANGED <<free, attempt, shutdown>>

\* A notified trial runs again and re-tests the predicate of wait_for.
Recheck(t) ==
  /\ pc[t] = "woken"
  /\ \/ MayEnter(t, gateOf[t]) /\ Admit(t, gateOf[t])
     \/ /\ ~MayEnter(t, gateOf[t])
        /\ pc' = [pc EXCEPT ![t] = "parked"]
        /\ UNCHANGED <<readers, writer>>
  /\ UNCHANGED <<gates, gateOf, free, attempt, shutdown>>

\* Holding its scenario, the trial takes a slot of the global semaphore.
TakeSlot(t) ==
  /\ pc[t] = "admitted"
  /\ free > 0
  /\ pc' = [pc EXCEPT ![t] = "running"]
  /\ free' = free - 1
  /\ UNCHANGED <<gateVars, attempt, shutdown>>

\* A failed attempt is retried inside the gate and the slot.
Retry(t) ==
  /\ pc[t] = "running"
  /\ attempt[t] < MaxRetries
  /\ attempt' = [attempt EXCEPT ![t] = @ + 1]
  /\ UNCHANGED <<pc, gateVars, free, shutdown>>

\* Seeded fault: the slot comes back only when the trial returns a result.
FinishKeepingSlot(t, end) ==
  /\ pc[t] = "running"
  /\ end \in {"done", "raised"}
  /\ Release(t, end)
  /\ free' = IF end = "done" THEN free + 1 ELSE free
  /\ UNCHANGED <<gates, gateOf, attempt, shutdown>>

\* The retry loop returns a result, or building the trial raises out of it.
Finish(t, end) ==
  /\ pc[t] = "running"
  /\ end \in {"done", "raised"}
  /\ Release(t, end)
  /\ free' = free + 1
  /\ UNCHANGED <<gates, gateOf, attempt, shutdown>>

\* Ctrl+C cancels the job's tasks; each unwinds at the await it is suspended on.
Interrupt ==
  /\ ~shutdown
  /\ shutdown' = TRUE
  /\ UNCHANGED <<pc, gateVars, free, attempt>>

\* Cancelled before holding anything.
CancelWaiting(t) ==
  /\ shutdown
  /\ pc[t] \in {"submitted", "parked", "woken"}
  /\ pc' = [pc EXCEPT ![t] = "cancelled"]
  /\ UNCHANGED <<gateVars, free, attempt, shutdown>>

\* Seeded fault: _release not in a finally, so a cancelled trial keeps its hold.
CancelHoldingLeaky(t) ==
  /\ shutdown
  /\ pc[t] \in Holding
  /\ pc' = [pc EXCEPT ![t] = "cancelled"]
  /\ free' = IF pc[t] = "running" THEN free + 1 ELSE free
  /\ UNCHANGED <<gateVars, attempt, shutdown>>

\* Cancelled while holding the gate and waiting for, or holding, a slot.
CancelHolding(t) ==
  /\ shutdown
  /\ pc[t] \in Holding
  /\ Release(t, "cancelled")
  /\ free' = IF pc[t] = "running" THEN free + 1 ELSE free
  /\ UNCHANGED <<gates, gateOf, attempt, shutdown>>

Step(t) ==
  \/ Arrive(t)
  \/ Recheck(t)
  \/ TakeSlot(t)
  \/ Retry(t)
  \/ \E end \in {"done", "raised"} : Finish(t, end)
  \/ CancelWaiting(t)
  \/ CancelHolding(t)

\* The job is over: every coroutine has returned, raised or been cancelled.
Over == (\A t \in Trials : pc[t] \in Settled) /\ UNCHANGED vars

Next == Interrupt \/ Over \/ \E t \in Trials : Step(t)

Spec == Init /\ [][Next]_vars

(***************************************************************************)
(* The event loop runs every runnable task; an attempt ends because every  *)
(* phase of a trial runs under a timeout.  Ctrl+C need never come.         *)
(***************************************************************************)
Fairness == \A t \in Trials : WF_vars(Step(t))
FairSpec == Spec /\ Fairness

-----------------------------------------------------------------------------
(* Properties *)

\* The values every variable keeps.
TypeOK ==
  /\ pc \in [Trials -> Phases]
  /\ gates \in [Scenarios -> Gates \cup {NoGate}]
  /\ gateOf \in [Trials -> Gates \cup {NoGate}]
  /\ readers \in [Gates -> Nat]
  /\ writer \in [Gates -> BOOLEAN]
  /\ free \in 0..NConcurrent
  /\ attempt \in [Trials -> 0..MaxRetries]
  /\ shutdown \in BOOLEAN

Holds(t) == pc[t] \in Holding

\* A mutating trial never shares its scenario's account with any other trial,
\* however the trials got hold of a gate.
ExclusiveWriter ==
  \A t, u \in Trials :
    (t # u /\ ScenarioOf[t] = ScenarioOf[u] /\ Holds(t) /\ Holds(u)) => t \notin Mutating

\* The read-only trials that hold the gate g.
ReaderHolders(g) == {t \in Trials \ Mutating : Holds(t) /\ gateOf[t] = g}

\* A hold can never leak: what a gate counts is exactly the trials that hold it.
HoldsAccounted ==
  \A g \in Gates :
    /\ readers[g] = Cardinality(ReaderHolders(g))
    /\ writer[g] <=> \E t \in Mutating : Holds(t) /\ gateOf[t] = g

Running == {t \in Trials : pc[t] = "running"}

\* The global semaphore counts exactly the trials that run, and only those: a trial
\* parked on its scenario takes no slot from trials of other scenarios.
SlotsAccounted == free = NConcurrent - Cardinality(Running)

\* No wakeup is lost: a trial still parked could not enter its gate now.
NoLostWakeup == \A t \in Trials : pc[t] = "parked" => ~MayEnter(t, gateOf[t])

\* The gates implement the access each account is promised.
Access == INSTANCE AccountAccess WITH
  holders <- [s \in Scenarios |-> {t \in Trials : Holds(t) /\ ScenarioOf[t] = s}]
AccessSpec == Access!Spec

\* Gates never starve a run: every trial settles, whatever the order of admission.
EveryTrialSettles == \A t \in Trials : <>(pc[t] \in Settled)
=============================================================================
