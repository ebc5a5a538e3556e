----------------------------- MODULE StackDeletion -----------------------------
(***************************************************************************)
(* How a cleanup deletes the CloudFormation stacks of a region             *)
(* (StackDeleter of cleanup/stack_deleter.py).  delete_all_stacks deletes  *)
(* the environment's stacks concurrently under a semaphore, then once more *)
(* those whose exports were in use, and the CDK bootstrap stacks last.     *)
(* Each deletion drives DeleteStack and, when that fails, removes what     *)
(* stands in the way and drives it again: leftover interfaces and leaked   *)
(* address pools, then a forced delete that abandons what cannot be        *)
(* deleted.  A stack held only by interfaces AWS releases later is         *)
(* deferred.  CloudFormation works on its own: it refuses to delete a      *)
(* stack whose exports are in use, and finishes, fails or goes on.         *)
(***************************************************************************)
EXTENDS Naturals, FiniteSets

CONSTANTS Regions,
          Stacks,
          RegionOf,      \* stack -> its region
          Infra,         \* stacks with a CDK bootstrap name
          Importers,     \* stack -> the stacks that import what it exports
          Resources,     \* what stacks and tasks leave in the account
          Owned,         \* stack -> the resources it owns
          Networking,    \* resources of the types a lingering interface pins
          Networked,     \* stacks with a VPC
          Pooled,        \* stacks with an IPAM pool
          Concurrency    \* STACK_DELETE_CONCURRENCY

ASSUME StackAssumption ==
  /\ RegionOf \in [Stacks -> Regions]
  /\ Infra \subseteq Stacks /\ Networked \subseteq Stacks /\ Pooled \subseteq Stacks
  /\ Importers \in [Stacks -> SUBSET Stacks]
  /\ Owned \in [Stacks -> SUBSET Resources]
  /\ Networking \subseteq Resources
  /\ Concurrency \in Nat \ {0}

VARIABLES cfn,        \* stack -> what CloudFormation says of it
          culprits,   \* stack -> its resources whose last event is a failed delete
          live,       \* the resources that exist
          round,      \* region -> where delete_all_stacks is
          step,       \* stack -> where its delete_stack is
          drive,      \* stack -> which DeleteStack it waits for
          outcome,    \* stack -> the StackDeletionResult, or "none"
          deferred    \* the run's registry of deferred deletions
stackVars == <<cfn, culprits, live, round, step, drive, outcome, deferred>>

(* A result that delete_all_stacks counts as FAILED, deferred or not. *)
Failures == {"failed", "blocked", "deferred"}
Environment(r) == {s \in Stacks \ Infra : RegionOf[s] = r}
Bootstrap(r) == {s \in Infra : RegionOf[s] = r}
Working == {"request", "poll", "networking", "ipam", "force", "sweep"}
Settled(S) == \A s \in S : step[s] \in {"unlisted", "settled"}

-----------------------------------------------------------------------------
(***************************************************************************)
(* CloudFormation (external), seen through describe_stacks and             *)
(* describe_stack_events.                                                  *)
(***************************************************************************)

(* A delete that completes takes the stack's resources with it; a forced   *)
(* one leaves any of them.                                                 *)
CfnDeletes(s) ==
  /\ cfn[s] \in {"deleting", "forcing"}
  /\ cfn' = [cfn EXCEPT ![s] = "gone"]
  /\ IF cfn[s] = "forcing"
     THEN \E left \in SUBSET (Owned[s] \cap live) : live' = (live \ Owned[s]) \cup left
     ELSE live' = live \ Owned[s]
  /\ UNCHANGED <<culprits, round, step, drive, outcome, deferred>>

(* A delete that fails keeps some resources, those it failed on and those  *)
(* behind them; with none left, the stack's state lags.                    *)
CfnSticks(s) ==
  /\ cfn[s] \in {"deleting", "forcing"}
  /\ cfn' = [cfn EXCEPT ![s] = "stuck"]
  /\ \E kept \in SUBSET (Owned[s] \cap live) :
       \E failed \in SUBSET kept :
         /\ kept # {} => failed # {}
         /\ live' = (live \ Owned[s]) \cup kept
         /\ culprits' = [culprits EXCEPT ![s] = failed]
  /\ UNCHANGED <<round, step, drive, outcome, deferred>>

(* DeleteStack answers 200 and does nothing while an importer exists.  A   *)
(* delete that starts again is what the resources' last events then say.   *)
Refuses(s) == \/ cfn[s] \in {"gone", "deleting", "forcing"}
              \/ \E i \in Importers[s] : cfn[i] # "gone"
Accepts(s, how) ==
  IF Refuses(s) THEN UNCHANGED <<cfn, culprits>>
  ELSE /\ cfn' = [cfn EXCEPT ![s] = how]
       /\ culprits' = IF how = "deleting" THEN [culprits EXCEPT ![s] = {}] ELSE culprits

-----------------------------------------------------------------------------
(***************************************************************************)
(* delete_stack, one stack.                                                *)
(***************************************************************************)
Moves(s, to) == step' = [step EXCEPT ![s] = to]
Ends(s, result) == /\ Moves(s, "settled")
                   /\ outcome' = [outcome EXCEPT ![s] = result]
Awaits(s, which) == /\ Moves(s, "poll")
                    /\ drive' = [drive EXCEPT ![s] = which]

(* _build_result: what a delete that did not complete says. *)
Result(s) == IF cfn[s] = "standing" THEN "blocked" ELSE "failed"

(* What is tried next: reaping interfaces if the stack has a VPC, leaked   *)
(* pools if it has an address pool, then the forced delete.                *)
Recovery(s, after) ==
  IF after = "first" /\ s \in Networked THEN "networking"
  ELSE IF after \in {"first", "networking"} /\ s \in Pooled THEN "ipam"
  ELSE IF after # "force" THEN "force"
  ELSE "settled"

(* Under the semaphore: a stack that is gone is skipped; else its          *)
(* resources are listed, its termination protection is lifted and its      *)
(* resources are prepared.                                                 *)
Begin(s) ==
  /\ step[s] = "queued"
  /\ Cardinality({t \in Stacks : RegionOf[t] = RegionOf[s] /\ step[t] \in Working})
       < Concurrency
  /\ \/ cfn[s] = "gone" /\ Ends(s, "not_found")
     \/ cfn[s] # "gone" /\ Moves(s, "request") /\ UNCHANGED outcome
     \/ Ends(s, "failed")
  /\ UNCHANGED <<cfn, culprits, live, round, drive, deferred>>

(* An error that is not caught inside becomes a failed result of its own. *)
Crash(s) ==
  /\ step[s] \in {"request", "networking", "ipam"}
  /\ Ends(s, "failed")
  /\ UNCHANGED <<cfn, culprits, live, round, drive, deferred>>

Request(s) ==
  /\ step[s] = "request"
  /\ \/ /\ Accepts(s, "deleting")
        /\ Awaits(s, "first")
        /\ UNCHANGED outcome
     \/ /\ Moves(s, Recovery(s, "first"))
        /\ outcome' = [outcome EXCEPT ![s] = "failed"]
        /\ UNCHANGED <<cfn, culprits, drive>>
  /\ UNCHANGED <<live, round, deferred>>

(* A poll ends on a terminal state, and otherwise at its deadline or on an *)
(* error, which count as a failed delete.                                  *)
PollDeleted(s) ==
  /\ step[s] = "poll"
  /\ cfn[s] = "gone"
  /\ outcome' = [outcome EXCEPT ![s] = "success"]
  /\ Moves(s, IF drive[s] = "force" /\ culprits[s] # {} THEN "sweep" ELSE "settled")
  /\ drive' = [drive EXCEPT ![s] = "none"]
  /\ UNCHANGED <<cfn, culprits, live, round, deferred>>
PollFailed(s) ==
  /\ step[s] = "poll"
  /\ cfn[s] # "gone"
  /\ outcome' = [outcome EXCEPT ![s] = IF drive[s] = "first" THEN Result(s) ELSE @]
  /\ Moves(s, Recovery(s, drive[s]))
  /\ drive' = [drive EXCEPT ![s] = "none"]
  /\ UNCHANGED <<cfn, culprits, live, round, deferred>>

(* Driving the delete again after something was removed. *)
Redrive(s, which) ==
  \/ Accepts(s, "deleting") /\ Awaits(s, which)
  \/ Moves(s, Recovery(s, which)) /\ UNCHANGED <<cfn, culprits, drive>>

(* Nothing was removed and interfaces are left: the stack is deferred when *)
(* networking is all that failed, with what it left behind.                *)
Defer(s) ==
  /\ culprits[s] \subseteq Networking
  /\ Ends(s, "deferred")
  /\ deferred' = deferred \cup {s} \cup (Owned[s] \cap Networking)
ReapNetworking(s) ==
  /\ step[s] = "networking"
  /\ \/ Redrive(s, "networking") /\ UNCHANGED <<outcome, deferred>>
     \/ Defer(s) /\ UNCHANGED <<cfn, culprits, drive>>
     \/ /\ Moves(s, Recovery(s, "networking"))
        /\ UNCHANGED <<cfn, culprits, drive, outcome, deferred>>
  /\ UNCHANGED <<live, round>>

ReapPools(s) ==
  /\ step[s] = "ipam"
  /\ \/ Redrive(s, "ipam")
     \/ Moves(s, "force") /\ UNCHANGED <<cfn, culprits, drive>>
  /\ UNCHANGED <<live, round, outcome, deferred>>

(* Only a stack that is DELETE_FAILED is forced. *)
ForceDelete(s) ==
  /\ step[s] = "force"
  /\ \/ cfn[s] = "stuck" /\ Accepts(s, "forcing") /\ Awaits(s, "force")
     \/ Moves(s, "settled") /\ UNCHANGED <<cfn, culprits, drive>>
  /\ UNCHANGED <<live, round, outcome, deferred>>

(* What the forced delete abandoned is swept as far as that works. *)
SweepAbandoned(s) ==
  /\ step[s] = "sweep"
  /\ \E removed \in SUBSET (Owned[s] \cap live) : live' = live \ removed
  /\ Moves(s, "settled")
  /\ UNCHANGED <<cfn, culprits, round, drive, outcome, deferred>>

-----------------------------------------------------------------------------
(***************************************************************************)
(* delete_all_stacks, one region.                                          *)
(***************************************************************************)
Queue(S) == /\ step' = [s \in Stacks |-> IF s \in S THEN "queued" ELSE step[s]]
            /\ outcome' = [s \in Stacks |-> IF s \in S THEN "none" ELSE outcome[s]]
Round(r, to) == round' = [round EXCEPT ![r] = to]

ListStacks(r) ==
  /\ round[r] = "idle"
  /\ Queue({s \in Environment(r) : cfn[s] # "gone"})
  /\ Round(r, "environment")
  /\ UNCHANGED <<cfn, culprits, live, drive, deferred>>

(* The stacks that were refused are deleted once more, after a wait for    *)
(* the failed ones to disappear that ends after five minutes anyway.       *)
Refused(r) == {s \in Environment(r) : outcome[s] = "blocked"}
RetryRefused(r) ==
  /\ round[r] = "environment"
  /\ Settled(Environment(r))
  /\ Refused(r) # {}
  /\ Queue(Refused(r))
  /\ Round(r, "retry")
  /\ UNCHANGED <<cfn, culprits, live, drive, deferred>>

(* The bootstrap goes last, unless a failed or deferred stack is seen to   *)
(* exist; a check that fails does not count as existing.                   *)
DeleteInfra(r) ==
  /\ \/ round[r] = "environment" /\ Refused(r) = {}
     \/ round[r] = "retry"
  /\ Settled(Environment(r))
  /\ \E seen \in SUBSET {s \in Environment(r) : outcome[s] \in Failures /\ cfn[s] # "gone"} :
       IF seen = {} THEN Queue({s \in Bootstrap(r) : cfn[s] # "gone"})
                    ELSE UNCHANGED <<step, outcome>>
  /\ Round(r, "infra")
  /\ UNCHANGED <<cfn, culprits, live, drive, deferred>>

FinishStacks(r) ==
  /\ round[r] = "infra"
  /\ Settled(Bootstrap(r))
  /\ Round(r, "done")
  /\ UNCHANGED <<cfn, culprits, live, step, drive, outcome, deferred>>

-----------------------------------------------------------------------------
StacksInit ==
  /\ cfn = [s \in Stacks |-> "standing"]
  /\ culprits = [s \in Stacks |-> {}]
  /\ round = [r \in Regions |-> "idle"]
  /\ step = [s \in Stacks |-> "unlisted"]
  /\ drive = [s \in Stacks |-> "none"]
  /\ outcome = [s \in Stacks |-> "none"]
  /\ deferred = {}

DeleteStack(s) ==
  \/ Begin(s) \/ Crash(s) \/ Request(s) \/ PollDeleted(s) \/ PollFailed(s)
  \/ ReapNetworking(s) \/ ReapPools(s) \/ ForceDelete(s) \/ SweepAbandoned(s)
DeleteAllStacks(r) ==
  ListStacks(r) \/ RetryRefused(r) \/ DeleteInfra(r) \/ FinishStacks(r)
CloudFormation(s) == CfnDeletes(s) \/ CfnSticks(s)

=============================================================================
