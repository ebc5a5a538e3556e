-------------------------- MODULE ProvisioningProofs ---------------------------
(***************************************************************************)
(* Proofs about Provisioning, for any pairs, scenarios, organization and   *)
(* limits.  Each pair's coroutine is followed by an invariant of its own;  *)
(* what it needs of the others is that they add to accounts, tag only the  *)
(* account they have created, and never take one away.                     *)
(***************************************************************************)
EXTENDS Provisioning, FiniteSetTheorems, TLAPS

(* The steps in which a pair has no account yet, and those in which it has *)
(* one that is complete up to some step.                                   *)
Wanting == {"creating", "backoff", "moving", "tagging"}
Holding == {"made", "ready", "done"} \cup LifecycleSteps
Fenced == {"bootstrap", "quotas", "capture", "done"}
Admitted == {"quotas", "capture", "done"}

(* The account a coroutine works on.                                       *)
AccountInv(p) ==
  /\ pc[p] \in Wanting => \A a \in Accounts : tag[a] # p
  /\ pc[p] \in {"moving", "tagging"} =>
       account[p] \in Accounts /\ place[account[p]] # "unborn" /\ tag[account[p]] = NoPair
  /\ pc[p] = "tagging" => place[account[p]] = "ou"
  /\ pc[p] \in Holding =>
       account[p] \in Accounts /\ place[account[p]] = "ou" /\ tag[account[p]] = p

(* What it has given to the account, and what it has put on record.        *)
RecordInv(p) ==
  /\ pc[p] \in Fenced => "fence" \in has[account[p]]
  /\ pc[p] \in Admitted => "roles" \in has[account[p]]
  /\ pc[p] = "done" => snapshot[p] = "failed" \/ "baseline" \in has[account[p]]
  /\ pc[p] = "failed" => failure[p] # "none"
  /\ ends[p] <= 1
  /\ pc[p] \in {"idle", "queued", "made", "ready"} \cup CreatingSteps \cup LifecycleSteps =>
       ends[p] = 0
  /\ pc[p] \in {"done", "failed"} => ends[p] = 1

(* Tags: on accounts of the unit only, each pair's on one account.         *)
TagsInUnit == \A a \in Accounts : tag[a] # NoPair => place[a] = "ou"
TagsApart == \A a, b \in Accounts : tag[a] # NoPair /\ tag[a] = tag[b] => a = b

(* No two coroutines have created the same account.                        *)
Creations ==
  \A p, q \in Pairs :
    p # q /\ {pc[p], pc[q]} \subseteq {"moving", "tagging"} => account[p] # account[q]

(* Where the command is, and where its coroutines are.                     *)
CommandInv ==
  /\ run \in {"idle", "terminating"} => \A p \in Pairs : pc[p] = "idle"
  /\ run \in {"waiting", "returned"} => \A p \in Pairs : pc[p] \in {"done", "failed"}

ProvisioningInv ==
  /\ TypeOK /\ TagsInUnit /\ TagsApart /\ Creations /\ CommandInv
  /\ \A p \in Pairs : AccountInv(p) /\ RecordInv(p)

-----------------------------------------------------------------------------
(* Type correctness.                                                       *)
LEMMA InitTypes == Init => TypeOK
  <1>. SUFFICES ASSUME Init PROVE TypeOK
    OBVIOUS
  <1>1. OrganizationTypeOK
    BY DEF Init, OrganizationInit, OrganizationTypeOK
  <1>2. 0 \in 0 .. MaxRuns /\ 0 \in 0 .. Attempts
    BY ProvisioningAssumption
  <1>3. /\ run = "idle" /\ runs = 0 /\ {waits, interrupt} \subseteq BOOLEAN
        /\ pc \in [Pairs -> {"idle"}] /\ account \in [Pairs -> {NoAccount}]
        /\ failure \in [Pairs -> {"none"}] /\ attempts \in [Pairs -> {0}]
        /\ known = {} /\ submitted \in [Pairs -> {"none"}] /\ snapshot \in [Pairs -> {"none"}]
        /\ ends \in [Pairs -> {0}] /\ unmet = {}
    BY DEF Init
  <1>. QED  BY <1>1, <1>2, <1>3 DEF TypeOK

(* What the calls for one account make of the organization.                *)
LEMMA CallTypes ==
  ASSUME OrganizationTypeOK, NEW p \in Pairs
  PROVE  /\ \A a \in Accounts : Open(a) => OrganizationTypeOK'
         /\ MoveToUnit(p) => OrganizationTypeOK'
         /\ TagPair(p) => OrganizationTypeOK'
         /\ \A traits \in SUBSET Traits : Grant(p, traits) => OrganizationTypeOK'
         /\ UNCHANGED organization => OrganizationTypeOK'
  BY DEF Open, Put, MoveToUnit, TagPair, Grant, Give, OrganizationTypeOK, organization

LEMMA NextIdUnborn == Unborn # {} => NextId \in Unborn /\ NextId \in Accounts
  BY DEF NextId, Unborn

(* What a raise leaves: another attempt, or the end of the coroutine.      *)
LEMMA RaiseTypes ==
  ASSUME TypeOK, NEW p \in Pairs, NEW error, Raise(p, error)
  PROVE  /\ attempts' \in [Pairs -> 0 .. Attempts]
         /\ \/ Proceed(p, "backoff")
            \/ \E e \in {"limit", "error"} : Fail(p, e)
  <1>1. Attempts \in Nat /\ attempts[p] \in 0 .. Attempts
    BY ProvisioningAssumption DEF TypeOK
  <1>2. attempts[p] < Attempts => attempts[p] + 1 \in 0 .. Attempts
    BY <1>1
  <1>. QED  BY <1>2 DEF Raise, Another, TypeOK

(* The two ways a coroutine goes on.                                       *)
LEMMA GoTypes ==
  ASSUME TypeOK, NEW p \in Pairs
  PROVE  /\ \A to \in Wanting \cup Holding \cup {"listing", "cancelled"} : Proceed(p, to) =>
              /\ pc' \in [Pairs -> CreatingSteps \cup LifecycleSteps \cup
                     {"idle", "queued", "made", "ready", "done", "failed", "cancelled"}]
              /\ failure' \in [Pairs -> {"none", "limit", "error"}]
              /\ ends' \in [Pairs -> Nat]
         /\ \A e \in {"limit", "error"} : Fail(p, e) =>
              /\ pc' \in [Pairs -> CreatingSteps \cup LifecycleSteps \cup
                     {"idle", "queued", "made", "ready", "done", "failed", "cancelled"}]
              /\ failure' \in [Pairs -> {"none", "limit", "error"}]
              /\ ends' \in [Pairs -> Nat]
  BY DEF Proceed, Fail, Go, End, TypeOK, Wanting, Holding, CreatingSteps, LifecycleSteps

LEMMA CreateTypes ==
  ASSUME TypeOK, NEW p \in Pairs, CreateScenarioAccount(p)
  PROVE  TypeOK'
  <1>. USE GoTypes, CallTypes, RaiseTypes DEF TypeOK, Wanting, Holding, command
  <1>1. CASE EnsureScenarioAccount(p)
    <2>1. 1 \in 0 .. Attempts
      BY ProvisioningAssumption
    <2>2. OrganizationTypeOK'
      BY <1>1 DEF EnsureScenarioAccount, organization, OrganizationTypeOK
    <2>. QED  BY <1>1, <2>1, <2>2 DEF EnsureScenarioAccount, Made, TaggedFor, InUnit
  <1>2. CASE CreateAccount(p)
    <2>1. OrganizationTypeOK'
      BY <1>2, NextIdUnborn DEF CreateAccount, organization, OrganizationTypeOK, Open, Put
    <2>2. account' \in [Pairs -> Accounts \cup {NoAccount}]
      BY <1>2, NextIdUnborn DEF CreateAccount
    <2>3. (\E error : Raise(p, error)) \/ (Proceed(p, "moving") /\ UNCHANGED attempts)
      BY <1>2 DEF CreateAccount
    <2>. QED  BY <1>2, <2>1, <2>2, <2>3 DEF CreateAccount
  <1>3. CASE Backoff(p)
    BY <1>3 DEF Backoff, organization, OrganizationTypeOK
  <1>4. CASE Move(p)
    <2>1. OrganizationTypeOK'
      BY <1>4 DEF Move, organization, OrganizationTypeOK, MoveToUnit, Put
    <2>. QED  BY <1>4, <2>1 DEF Move
  <1>5. CASE Tag(p)
    <2>1. OrganizationTypeOK'
      BY <1>5 DEF Tag, organization, OrganizationTypeOK, TagPair
    <2>. QED  BY <1>5, <2>1 DEF Tag, Made
  <1>. QED  BY <1>1, <1>2, <1>3, <1>4, <1>5 DEF CreateScenarioAccount

LEMMA LifecycleTypes ==
  ASSUME TypeOK, NEW p \in Pairs, ProvisionLifecycle(p)
  PROVE  TypeOK'
  <1>1. \A to \in Holding : Go(p, to) =>
          pc' \in [Pairs -> CreatingSteps \cup LifecycleSteps \cup
                   {"idle", "queued", "made", "ready", "done", "failed", "cancelled"}]
    BY DEF Go, Holding, TypeOK
  <1>2. \A step, next : next \in Holding /\ StepOf(p, step, next) =>
          /\ pc' \in [Pairs -> CreatingSteps \cup LifecycleSteps \cup
                   {"idle", "queued", "made", "ready", "done", "failed", "cancelled"}]
          /\ failure' \in [Pairs -> {"none", "limit", "error"}]
          /\ ends' \in [Pairs -> Nat]
          /\ UNCHANGED <<command, submitted, snapshot, account, attempts>>
    BY GoTypes DEF StepOf
  <1>3. UNCHANGED organization => OrganizationTypeOK'
    BY DEF organization, OrganizationTypeOK, TypeOK
  <1>4. \A traits \in SUBSET Traits : Grant(p, traits) => OrganizationTypeOK'
    BY DEF Grant, Give, OrganizationTypeOK, TypeOK
  <1>. USE DEF command
  <1>5. CASE CheckBaseline(p) \/ FindPolicy(p)
    BY <1>5, <1>2, <1>3 DEF CheckBaseline, FindPolicy, TypeOK, Holding, LifecycleSteps
  <1>6. CASE EnsurePolicy(p)
    <2>1. ScenarioPolicy(p) \in Scenarios
      BY DEF ScenarioPolicy, Scenarios
    <2>2. OrganizationTypeOK'
      BY <1>6, <2>1 DEF EnsurePolicy, OrganizationTypeOK, TypeOK
    <2>. QED  BY <1>6, <1>2, <2>2 DEF EnsurePolicy, TypeOK, Holding, LifecycleSteps
  <1>7. CASE AttachPolicy(p) \/ Bootstrap(p)
    <2>1. OrganizationTypeOK'
      BY <1>7, <1>3, <1>4 DEF AttachPolicy, Bootstrap, Traits
    <2>. QED  BY <1>7, <1>2, <2>1 DEF AttachPolicy, Bootstrap, TypeOK, Holding, LifecycleSteps
  <1>8. CASE RequestQuotas(p)
    <2>1. OrganizationTypeOK'
      BY <1>8, <1>3, <1>4 DEF RequestQuotas, Traits
    <2>2. submitted' \in [Pairs -> {"none", "met", "requested", "refused", "raised"}]
      BY <1>8 DEF RequestQuotas, Submit, TypeOK
    <2>. QED  BY <1>8, <2>1, <2>2, GoTypes DEF RequestQuotas, TypeOK, Holding, LifecycleSteps
  <1>9. CASE Capture(p)
    <2>1. OrganizationTypeOK'
      BY <1>9, <1>3, <1>4 DEF Capture, Traits
    <2>2. snapshot' \in [Pairs -> {"none", "ok", "failed"}] /\ ends' \in [Pairs -> Nat]
      BY <1>9 DEF Capture, End, TypeOK
    <2>. QED  BY <1>9, <1>1, <2>1, <2>2 DEF Capture, TypeOK, Holding
  <1>. QED  BY <1>5, <1>6, <1>7, <1>8, <1>9 DEF ProvisionLifecycle

LEMMA CancelTypes ==
  ASSUME TypeOK, NEW p \in Pairs, Cancel(p) \/ Enter(p)
  PROVE  TypeOK'
  <1>1. OrganizationTypeOK'
    <2>1. Lands(p) => OrganizationTypeOK'
      <3>1. OrganizationTypeOK /\ ScenarioPolicy(p) \in Scenarios
        BY DEF TypeOK, ScenarioPolicy, Scenarios
      <3>2. ASSUME policies' = policies \cup {ScenarioPolicy(p)}, Give(account[p], {"fence"}),
                   UNCHANGED <<ou, place, tag, leaving>>
            PROVE  OrganizationTypeOK'
        BY <3>1, <3>2 DEF Give, OrganizationTypeOK, Traits
      <3>. QED  BY <3>1, <3>2, CallTypes, NextIdUnborn DEF Lands, Traits
    <2>2. UNCHANGED organization => OrganizationTypeOK'
      BY DEF organization, OrganizationTypeOK, TypeOK
    <2>. QED  BY <2>1, <2>2 DEF Cancel, Enter
  <1>2. /\ pc' \in [Pairs -> CreatingSteps \cup LifecycleSteps \cup
                   {"idle", "queued", "made", "ready", "done", "failed", "cancelled"}]
        /\ ends' \in [Pairs -> Nat]
    BY DEF Cancel, Enter, Go, End, TypeOK, CreatingSteps, LifecycleSteps
  <1>3. UNCHANGED <<command, results, account, attempts, known>>
    BY DEF Cancel, Enter
  <1>. QED  BY <1>1, <1>2, <1>3 DEF TypeOK, command, results

LEMMA CommandTypes ==
  ASSUME TypeOK, Main \/ Start \/ Interrupt \/ Exit \/ Terminate \/ GrantQuota
  PROVE  TypeOK'
  <1>. USE DEF command, results, organization, CoroutinesRest, MainRuns, Running
  <1>1. CASE Main
    BY <1>1 DEF Main, StartLifecycles, EndLifecycles, AwaitQuotas, Unwind, Short, Polled, TypeOK,
                OrganizationTypeOK
  <1>2. CASE Start
    BY <1>2, ProvisioningAssumption DEF Start, InitOrganization, InitFails, TypeOK, OrganizationTypeOK
  <1>3. CASE Interrupt
    BY <1>3 DEF Interrupt, TypeOK, OrganizationTypeOK
  <1>4. CASE Exit
    <2>1. 0 \in 0 .. Attempts
      BY ProvisioningAssumption
    <2>. QED  BY <1>4, <2>1 DEF Exit, TypeOK, OrganizationTypeOK
  <1>5. CASE Terminate
    BY <1>5 DEF Terminate, BeginTermination, InUnit, TerminateAccount, FinishTermination, Put, TypeOK,
                OrganizationTypeOK
  <1>6. CASE GrantQuota
    <2>1. PICK p \in Pairs : Grant(p, {"quota"})
      BY <1>6 DEF GrantQuota
    <2>2. OrganizationTypeOK'
      BY <2>1, CallTypes DEF Traits, TypeOK
    <2>. QED  BY <1>6, <2>2 DEF GrantQuota, TypeOK
  <1>. QED  BY <1>1, <1>2, <1>3, <1>4, <1>5, <1>6

LEMMA TypesNext == TypeOK /\ [Next]_vars => TypeOK'
  <1>1. UNCHANGED vars /\ TypeOK => TypeOK'
    BY DEF vars, organization, command, results, TypeOK, OrganizationTypeOK
  <1>. QED
    BY <1>1, CreateTypes, LifecycleTypes, CancelTypes, CommandTypes DEF Next, Coroutine

(* For any organization, pairs and limits, every variable of a run keeps   *)
(* its type; in particular no pair makes more attempts than it may.        *)
THEOREM ProvisioningTypes == Spec => []TypeOK
  <1>. QED  BY InitTypes, TypesNext, PTL DEF Spec

-----------------------------------------------------------------------------
(* A coroutine's step, seen from the other pairs and from the accounts.    *)

LEMMA OthersUntouched ==
  ASSUME TypeOK, NEW q \in Pairs, Coroutine(q)
  PROVE  /\ \A p \in Pairs \ {q} :
              /\ pc'[p] = pc[p] /\ account'[p] = account[p] /\ ends'[p] = ends[p]
              /\ failure'[p] = failure[p] /\ submitted'[p] = submitted[p]
              /\ snapshot'[p] = snapshot[p]
         /\ UNCHANGED command
  <1>. USE DEF TypeOK, Go, End, Proceed, Fail, Made
  <1>1. CASE Enter(q) \/ Cancel(q)
    BY <1>1 DEF Enter, Cancel, results
  <1>2. CASE EnsureScenarioAccount(q) \/ Backoff(q)
    BY <1>2 DEF EnsureScenarioAccount, Backoff
  <1>3. CASE CreateAccount(q) \/ Move(q) \/ Tag(q)
    <2>1. (\E error : Raise(q, error)) \/ \E to : Proceed(q, to)
      BY <1>3 DEF CreateAccount, Move, Tag
    <2>2. \A p \in Pairs \ {q} : pc'[p] = pc[p] /\ ends'[p] = ends[p] /\ failure'[p] = failure[p]
      BY <2>1 DEF Raise
    <2>. QED  BY <1>3, <2>2 DEF CreateAccount, Move, Tag
  <1>4. CASE CheckBaseline(q) \/ FindPolicy(q) \/ EnsurePolicy(q) \/ AttachPolicy(q) \/ Bootstrap(q)
    <2>1. \E step, next : StepOf(q, step, next)
      BY <1>4 DEF CheckBaseline, FindPolicy, EnsurePolicy, AttachPolicy, Bootstrap
    <2>. QED  BY <2>1 DEF StepOf
  <1>5. CASE RequestQuotas(q) \/ Capture(q)
    BY <1>5 DEF RequestQuotas, Capture, Submit
  <1>. QED
    BY <1>1, <1>2, <1>3, <1>4, <1>5 DEF Coroutine, CreateScenarioAccount, ProvisionLifecycle

(* What one call of AWS may change.                                        *)
OneCall(q) ==
  \/ UNCHANGED <<place, tag, has>>
  \/ pc[q] = "creating" /\ Unborn # {} /\ Open(NextId)
  \/ pc[q] = "moving" /\ MoveToUnit(q)
  \/ pc[q] = "tagging" /\ TagPair(q)
  \/ \E traits : Give(account[q], traits) /\ UNCHANGED <<place, tag>>

LEMMA CoroutineCalls ==
  ASSUME NEW q \in Pairs, Coroutine(q)
  PROVE  OneCall(q)
  <1>. USE DEF OneCall, organization
  <1>1. CASE Enter(q) \/ Cancel(q)
    BY <1>1 DEF Enter, Cancel, Lands, Grant
  <1>2. CASE CreateScenarioAccount(q)
    BY <1>2 DEF CreateScenarioAccount, EnsureScenarioAccount, Backoff, CreateAccount, Move, Tag
  <1>3. CASE ProvisionLifecycle(q)
    BY <1>3 DEF ProvisionLifecycle, CheckBaseline, FindPolicy, EnsurePolicy, AttachPolicy, Bootstrap,
                RequestQuotas, Capture, Grant
  <1>. QED  BY <1>1, <1>2, <1>3 DEF Coroutine

(* A call adds to accounts: none leaves the unit, loses a tag to a pair    *)
(* that is not tagging, or anything it was given.                          *)
Grows(q) ==
  \A a \in Accounts :
    /\ \/ place'[a] = place[a] \/ place'[a] = "ou"
       \/ place[a] = "unborn" /\ place'[a] = "root"
    /\ \/ tag'[a] = tag[a]
       \/ pc[q] = "tagging" /\ a = account[q] /\ tag'[a] = q
    /\ has[a] \subseteq has'[a]

LEMMA CallsGrow ==
  ASSUME TypeOK, NEW q \in Pairs, OneCall(q)
  PROVE  Grows(q)
  <1>. USE DEF Grows, TypeOK, OrganizationTypeOK
  <1>1. CASE UNCHANGED <<place, tag, has>>
    BY <1>1
  <1>2. CASE Unborn # {} /\ Open(NextId)
    BY <1>2, NextIdUnborn DEF Open, Put, Unborn
  <1>3. CASE MoveToUnit(q)
    BY <1>3 DEF MoveToUnit, Put
  <1>4. CASE pc[q] = "tagging" /\ TagPair(q)
    BY <1>4 DEF TagPair
  <1>5. CASE \E traits : Give(account[q], traits) /\ UNCHANGED <<place, tag>>
    BY <1>5 DEF Give
  <1>. QED  BY <1>1, <1>2, <1>3, <1>4, <1>5 DEF OneCall

-----------------------------------------------------------------------------
(* A coroutine's step keeps the invariant of every pair.                   *)

LEMMA OthersKeep ==
  ASSUME ProvisioningInv, NEW q \in Pairs, Coroutine(q), NEW p \in Pairs \ {q}
  PROVE  AccountInv(p)' /\ RecordInv(p)'
  <1>1. /\ pc'[p] = pc[p] /\ account'[p] = account[p] /\ ends'[p] = ends[p]
        /\ failure'[p] = failure[p] /\ snapshot'[p] = snapshot[p]
    BY OthersUntouched DEF ProvisioningInv
  <1>2. Grows(q)
    BY CoroutineCalls, CallsGrow DEF ProvisioningInv
  <1>3. pc[q] = "tagging" => account[q] \in Accounts /\ tag[account[q]] = NoPair
    BY DEF ProvisioningInv, AccountInv
  <1>4. pc[q] = "tagging" /\ pc[p] \in {"moving", "tagging"} => account[q] # account[p]
    BY DEF ProvisioningInv, Creations
  <1>5. AccountInv(p) /\ RecordInv(p) /\ p # NoPair
    BY EnvironmentAssumption DEF ProvisioningInv
  <1>6. AccountInv(p)'
    BY <1>1, <1>2, <1>3, <1>4, <1>5 DEF AccountInv, Grows
  <1>7. RecordInv(p)'
    <2>1. pc[p] \in Holding => account[p] \in Accounts
      BY <1>5 DEF AccountInv
    <2>. QED  BY <1>1, <1>2, <1>5, <2>1
              DEF RecordInv, Grows, Holding, Fenced, Admitted, LifecycleSteps
  <1>. QED  BY <1>6, <1>7

(* The pair's own account.                                                 *)
LEMMA OwnAccount ==
  ASSUME ProvisioningInv, NEW q \in Pairs, Coroutine(q)
  PROVE  AccountInv(q)'
  <1>. USE DEF Wanting, Holding, CreatingSteps, LifecycleSteps
  <1>1. TypeOK /\ AccountInv(q) /\ Grows(q) /\ q # NoPair
    BY CoroutineCalls, CallsGrow, EnvironmentAssumption DEF ProvisioningInv
  <1>2. CASE pc'[q] \in {"cancelled", "failed", "listing"}
    BY <1>2 DEF AccountInv
  <1>3. CASE Enter(q) /\ pc'[q] = "baseline"
    BY <1>1, <1>3 DEF Enter, Go, AccountInv, organization, TypeOK
  <1>4. CASE EnsureScenarioAccount(q) /\ pc'[q] = "made"
    <2>1. \E a \in TaggedFor(q) : account' = [account EXCEPT ![q] = a]
      BY <1>1, <1>4 DEF EnsureScenarioAccount, Fail, Made, Proceed, Go, TypeOK
    <2>. QED  BY <1>1, <1>4, <2>1 DEF EnsureScenarioAccount, TaggedFor, InUnit, AccountInv,
                                     organization, TypeOK
  <1>5. CASE EnsureScenarioAccount(q) /\ pc'[q] = "creating"
    <2>1. TaggedFor(q) = {}
      BY <1>1, <1>5 DEF EnsureScenarioAccount, Fail, Made, Proceed, Go, TypeOK
    <2>2. \A a \in Accounts : tag[a] # q
      BY <1>1, <2>1 DEF TaggedFor, InUnit, ProvisioningInv, TagsInUnit
    <2>. QED  BY <1>5, <2>2 DEF EnsureScenarioAccount, AccountInv, organization
  <1>6. CASE pc[q] \in {"creating", "backoff", "moving"} /\ pc'[q] \in {"creating", "backoff"}
    BY <1>1, <1>6 DEF AccountInv, Grows
  <1>7. CASE CreateAccount(q) /\ pc'[q] = "moving"
    <2>1. /\ Unborn # {} /\ Open(NextId) /\ account'[q] = NextId
      BY <1>1, <1>7 DEF CreateAccount, Raise, Fail, Proceed, Go, TypeOK
    <2>2. NextId \in Accounts /\ place[NextId] = "unborn" /\ place'[NextId] = "root" /\ tag' = tag
      BY <1>1, <2>1, NextIdUnborn DEF Open, Put, Unborn, TypeOK, OrganizationTypeOK
    <2>3. tag[NextId] = NoPair
      BY <2>2 DEF ProvisioningInv, TagsInUnit
    <2>4. pc[q] = "creating"
      BY <1>7 DEF CreateAccount
    <2>. QED  BY <1>1, <1>7, <2>1, <2>2, <2>3, <2>4 DEF AccountInv
  <1>8. CASE Move(q) /\ pc'[q] = "tagging"
    <2>1. pc[q] = "moving" /\ MoveToUnit(q) /\ account' = account
      BY <1>1, <1>8 DEF Move, Raise, Fail, Proceed, Go, TypeOK
    <2>. QED  BY <1>1, <1>8, <2>1 DEF MoveToUnit, Put, AccountInv, TypeOK, OrganizationTypeOK
  <1>9. CASE Tag(q) /\ pc'[q] = "made"
    <2>1. pc[q] = "tagging" /\ TagPair(q) /\ account' = account
      BY <1>1, <1>9 DEF Tag, Raise, Fail, Proceed, Made, Go, TypeOK
    <2>. QED  BY <1>1, <1>9, <2>1 DEF TagPair, AccountInv, TypeOK, OrganizationTypeOK
  <1>10. CASE ProvisionLifecycle(q) /\ pc'[q] \in Holding
    <2>1. pc[q] \in LifecycleSteps /\ account' = account
      BY <1>10 DEF ProvisionLifecycle, CheckBaseline, FindPolicy, EnsurePolicy, AttachPolicy, Bootstrap,
                  RequestQuotas, Capture, StepOf
    <2>. QED  BY <1>1, <1>10, <2>1 DEF AccountInv, Grows
  <1>11. CASE Enter(q)
    <2>1. pc'[q] \in {"listing", "baseline"}
      BY <1>1, <1>11 DEF Enter, Go, TypeOK
    <2>. QED  BY <1>2, <1>3, <1>11, <2>1
  <1>12. CASE EnsureScenarioAccount(q)
    <2>1. pc'[q] \in {"failed", "made", "creating"}
      BY <1>1, <1>12 DEF EnsureScenarioAccount, Fail, Made, Proceed, Go, TypeOK
    <2>. QED  BY <1>2, <1>4, <1>5, <1>12, <2>1
  <1>13. CASE CreateAccount(q) \/ Backoff(q)
    <2>1. pc[q] \in {"creating", "backoff"} /\ pc'[q] \in {"failed", "moving", "creating", "backoff"}
      BY <1>1, <1>13 DEF CreateAccount, Backoff, Raise, Fail, Proceed, Go, TypeOK
    <2>2. pc'[q] = "moving" => CreateAccount(q)
      BY <1>1, <1>13 DEF Backoff, Proceed, Go, TypeOK
    <2>. QED  BY <1>2, <1>6, <1>7, <2>1, <2>2
  <1>14. CASE Move(q) \/ Tag(q)
    <2>1. \/ pc'[q] = "failed"
          \/ Move(q) /\ pc'[q] = "tagging"
          \/ Tag(q) /\ pc'[q] = "made"
      BY <1>1, <1>14 DEF Move, Tag, Raise, Retryable, Fail, Made, Proceed, Go, TypeOK
    <2>. QED  BY <1>2, <1>8, <1>9, <2>1
  <1>15. CASE ProvisionLifecycle(q)
    <2>1. pc'[q] \in Holding \cup {"failed"}
      BY <1>1, <1>15 DEF ProvisionLifecycle, CheckBaseline, FindPolicy, EnsurePolicy, AttachPolicy,
              Bootstrap, RequestQuotas, Capture, StepOf, Proceed, Fail, Go, TypeOK
    <2>. QED  BY <1>2, <1>10, <1>15, <2>1
  <1>16. CASE Cancel(q)
    BY <1>1, <1>2, <1>16 DEF Cancel, Go, TypeOK
  <1>. QED
    BY <1>11, <1>12, <1>13, <1>14, <1>15, <1>16 DEF Coroutine, CreateScenarioAccount

(* What the pair has given to its account and put on record.               *)
LEMMA OwnRecord ==
  ASSUME ProvisioningInv, NEW q \in Pairs, Coroutine(q)
  PROVE  RecordInv(q)'
  <1>. USE DEF Fenced, Admitted, CreatingSteps, LifecycleSteps
  <1>1. /\ TypeOK /\ AccountInv(q) /\ RecordInv(q) /\ Grows(q) /\ ends[q] \in Nat
    BY CoroutineCalls, CallsGrow DEF ProvisioningInv, TypeOK
  <1>2. CASE Enter(q)
    BY <1>1, <1>2 DEF Enter, Go, RecordInv, TypeOK
  <1>3. CASE Cancel(q)
    <2>1. pc'[q] = "cancelled" /\ ends'[q] \in {ends[q], ends[q] + 1} /\ (ends'[q] # ends[q] => ends[q] = 0)
      BY <1>1, <1>3 DEF Cancel, Go, End, RecordInv, TypeOK
    <2>. QED  BY <1>1, <2>1 DEF RecordInv
  <1>4. ASSUME NEW e \in {"limit", "error"}, Fail(q, e), ends[q] = 0
        PROVE  RecordInv(q)'
    BY <1>1, <1>4 DEF Fail, Go, End, RecordInv, TypeOK
  <1>5. ASSUME NEW to \in CreatingSteps \cup {"made"}, Proceed(q, to), ends[q] = 0
        PROVE  RecordInv(q)'
    BY <1>1, <1>5 DEF Proceed, Go, RecordInv, TypeOK
  <1>6. CASE CreateScenarioAccount(q)
    <2>1. ends[q] = 0
      BY <1>1, <1>6 DEF RecordInv, CreateScenarioAccount, EnsureScenarioAccount, Backoff, CreateAccount,
                        Move, Tag
    <2>2. \/ \E e \in {"limit", "error"} : Fail(q, e)
          \/ \E to \in CreatingSteps \cup {"made"} : Proceed(q, to)
      BY <1>6, <1>1, RaiseTypes DEF CreateScenarioAccount, EnsureScenarioAccount, Backoff, CreateAccount,
                               Move, Tag, Made
    <2>. QED  BY <1>4, <1>5, <2>1, <2>2
  <1>7. CASE CheckBaseline(q) \/ FindPolicy(q) \/ EnsurePolicy(q)
    <2>1. pc[q] \in {"baseline", "find", "policy"}
      BY <1>7 DEF CheckBaseline, FindPolicy, EnsurePolicy, StepOf
    <2>2. Fail(q, "error") \/ \E to \in {"find", "policy", "attach"} : Proceed(q, to)
      BY <1>7 DEF CheckBaseline, FindPolicy, EnsurePolicy, StepOf
    <2>3. ends[q] = 0
      BY <1>1, <2>1 DEF RecordInv
    <2>. QED  BY <1>1, <1>4, <2>2, <2>3 DEF Proceed, Go, RecordInv, TypeOK
  <1>8. CASE AttachPolicy(q) \/ Bootstrap(q)
    <2>1. /\ pc[q] \in {"attach", "bootstrap"} /\ account' = account
          /\ account[q] \in Accounts /\ ends[q] = 0
      BY <1>1, <1>8 DEF AttachPolicy, Bootstrap, StepOf, AccountInv, RecordInv, Holding
    <2>2. CASE Fail(q, "error")
      BY <1>4, <2>1, <2>2
    <2>3. CASE AttachPolicy(q) /\ Proceed(q, "bootstrap")
      <3>1. Give(account[q], {"fence"})
        BY <1>1, <2>3 DEF AttachPolicy, Grant, Proceed, Go, TypeOK
      <3>2. "fence" \in has'[account[q]]
        BY <1>1, <2>1, <3>1 DEF Give, TypeOK, OrganizationTypeOK
      <3>. QED  BY <1>1, <2>1, <2>3, <3>2 DEF Proceed, Go, RecordInv, TypeOK
    <2>4. CASE Bootstrap(q) /\ Proceed(q, "quotas")
      <3>1. Give(account[q], {"roles"}) /\ "fence" \in has[account[q]]
        BY <1>1, <2>4 DEF Bootstrap, StepOf, Grant, Proceed, Go, RecordInv, TypeOK
      <3>2. {"fence", "roles"} \subseteq has'[account[q]]
        BY <1>1, <2>1, <3>1 DEF Give, TypeOK, OrganizationTypeOK
      <3>. QED  BY <1>1, <2>1, <2>4, <3>2 DEF Proceed, Go, RecordInv, TypeOK
    <2>. QED  BY <1>8, <2>2, <2>3, <2>4 DEF AttachPolicy, Bootstrap, StepOf
  <1>9. CASE RequestQuotas(q) \/ Capture(q)
    <2>1. /\ pc[q] \in {"quotas", "capture"} /\ account' = account
          /\ account[q] \in Accounts /\ ends[q] = 0
          /\ {"fence", "roles"} \subseteq has[account[q]]
      BY <1>1, <1>9 DEF RequestQuotas, Capture, AccountInv, RecordInv, Holding
    <2>2. {"fence", "roles"} \subseteq has'[account[q]]
      BY <1>1, <2>1 DEF Grows
    <2>3. CASE RequestQuotas(q)
      BY <1>1, <2>1, <2>2, <2>3 DEF RequestQuotas, Proceed, Go, RecordInv, TypeOK
    <2>4. CASE Capture(q)
      <3>1. snapshot'[q] = "failed" \/ Give(account[q], {"baseline"})
        BY <1>1, <2>4 DEF Capture, Grant, TypeOK
      <3>2. snapshot'[q] = "failed" \/ "baseline" \in has'[account[q]]
        BY <1>1, <2>1, <3>1 DEF Give, TypeOK, OrganizationTypeOK
      <3>3. pc'[q] = "done" /\ ends'[q] = 1
        BY <1>1, <2>1, <2>4 DEF Capture, Go, End, TypeOK
      <3>. QED  BY <2>1, <2>2, <3>2, <3>3 DEF RecordInv
    <2>. QED  BY <1>9, <2>3, <2>4
  <1>. QED  BY <1>2, <1>3, <1>6, <1>7, <1>8, <1>9 DEF Coroutine, ProvisionLifecycle

-----------------------------------------------------------------------------
(* The invariant of the whole run.                                         *)

LEMMA InvInit == Init => ProvisioningInv
  <1>. SUFFICES ASSUME Init PROVE ProvisioningInv
    OBVIOUS
  <1>1. TagsInUnit /\ TagsApart /\ Creations /\ CommandInv
    BY DEF Init, OrganizationInit, TagsInUnit, TagsApart, Creations, CommandInv
  <1>2. \A p \in Pairs : AccountInv(p) /\ RecordInv(p)
    BY DEF Init, AccountInv, RecordInv, Wanting, Holding, Fenced, Admitted, LifecycleSteps
  <1>. QED  BY <1>1, <1>2, InitTypes DEF ProvisioningInv

LEMMA CoroutineKeeps ==
  ASSUME ProvisioningInv, NEW q \in Pairs, Coroutine(q)
  PROVE  ProvisioningInv'
  <1>1. Grows(q) /\ TypeOK /\ AccountInv(q) /\ TypeOK' /\ AccountInv(q)' /\ q # NoPair
    BY CoroutineCalls, CallsGrow, TypesNext, OwnAccount, EnvironmentAssumption DEF ProvisioningInv, Next
  <1>2. TagsInUnit'
    BY <1>1 DEF ProvisioningInv, TagsInUnit, Grows, AccountInv
  <1>3. TagsApart'
    <2>1. pc[q] = "tagging" => \A a \in Accounts : tag[a] # q
      BY <1>1 DEF AccountInv, Wanting
    <2>. QED  BY <1>1, <2>1 DEF ProvisioningInv, TagsApart, Grows
  <1>4. Creations'
    <2>1. ASSUME pc'[q] \in {"moving", "tagging"}
          PROVE  \/ pc[q] \in {"moving", "tagging"} /\ account'[q] = account[q]
                 \/ NextId \in Unborn /\ account'[q] = NextId
      <3>. USE DEF Wanting, Holding, CreatingSteps, LifecycleSteps
      <3>1. CASE CreateScenarioAccount(q)
        BY <1>1, <2>1, <3>1, NextIdUnborn DEF CreateScenarioAccount, EnsureScenarioAccount, CreateAccount,
             Backoff, Move, Tag, Raise, Fail, Made, Proceed, Go, TypeOK
      <3>2. CASE Enter(q) \/ Cancel(q)
        BY <1>1, <2>1, <3>2 DEF Enter, Cancel, Go, TypeOK
      <3>3. CASE ProvisionLifecycle(q)
        BY <1>1, <2>1, <3>3 DEF ProvisionLifecycle, CheckBaseline, FindPolicy, EnsurePolicy, AttachPolicy,
              Bootstrap, RequestQuotas, Capture, StepOf, Proceed, Fail, Go, TypeOK
      <3>. QED  BY <3>1, <3>2, <3>3 DEF Coroutine
    <2>2. ASSUME NEW p \in Pairs \ {q}, {pc'[p], pc'[q]} \subseteq {"moving", "tagging"}
          PROVE  account'[p] # account'[q]
      <3>1. pc[p] \in {"moving", "tagging"} /\ account'[p] = account[p]
        BY <1>1, <2>2, OthersUntouched
      <3>2. account[p] \in Accounts /\ place[account[p]] # "unborn"
        BY <3>1 DEF ProvisioningInv, AccountInv
      <3>. QED  BY <2>1, <2>2, <3>1, <3>2 DEF ProvisioningInv, Creations, Unborn
    <2>3. ASSUME NEW p \in Pairs \ {q}, NEW r \in Pairs \ {q}, p # r,
                 {pc'[p], pc'[r]} \subseteq {"moving", "tagging"}
          PROVE  account'[p] # account'[r]
      BY <1>1, <2>3, OthersUntouched DEF ProvisioningInv, Creations
    <2>. QED  BY <2>2, <2>3 DEF Creations
  <1>5. CommandInv'
    <2>1. pc[q] \notin {"idle", "done", "failed"}
      BY DEF Coroutine, Enter, Cancel, CreateScenarioAccount, EnsureScenarioAccount, CreateAccount, Backoff,
             Move, Tag, ProvisionLifecycle, CheckBaseline, FindPolicy, EnsurePolicy, AttachPolicy, Bootstrap,
             RequestQuotas, Capture, StepOf, CreatingSteps, LifecycleSteps
    <2>2. run \notin {"idle", "terminating", "waiting", "returned"}
      BY <2>1 DEF ProvisioningInv, CommandInv
    <2>. QED  BY <1>1, <2>2, OthersUntouched DEF command, CommandInv
  <1>. QED  BY <1>1, <1>2, <1>3, <1>4, <1>5, OthersKeep, OwnAccount, OwnRecord DEF ProvisioningInv

(* The command's own steps, which leave the accounts alone.                *)
LEMMA MainKeeps ==
  ASSUME ProvisioningInv, Main \/ Interrupt \/ Exit \/ Start, TypeOK'
  PROVE  ProvisioningInv'
  <1>1. UNCHANGED <<place, tag, has>>
    BY DEF Main, Interrupt, Exit, Start, StartLifecycles, EndLifecycles, AwaitQuotas, Unwind, CoroutinesRest,
           organization
  <1>2. TagsInUnit' /\ TagsApart'
    BY <1>1 DEF ProvisioningInv, TagsInUnit, TagsApart
  <1>3. CASE StartLifecycles
    <2>1. /\ UNCHANGED <<account, failure, snapshot, ends>> /\ run' = "lifecycle"
          /\ \A p \in Pairs : pc'[p] = IF pc[p] = "made" THEN "ready" ELSE pc[p]
      BY <1>3 DEF StartLifecycles, MainRuns, CoroutinesRest, results
    <2>2. \A p \in Pairs : AccountInv(p)' /\ RecordInv(p)'
      BY <1>1, <2>1 DEF ProvisioningInv, AccountInv, RecordInv, Wanting, Holding, Fenced, Admitted,
             CreatingSteps, LifecycleSteps
    <2>3. Creations' /\ CommandInv'
      BY <2>1 DEF ProvisioningInv, Creations, CommandInv
    <2>. QED  BY <1>2, <2>2, <2>3 DEF ProvisioningInv
  <1>4. CASE EndLifecycles \/ AwaitQuotas \/ Unwind \/ Interrupt
    <2>1. UNCHANGED <<pc, account, failure, snapshot, ends>>
      BY <1>4 DEF EndLifecycles, AwaitQuotas, Unwind, Interrupt, CoroutinesRest, results
    <2>2. \A p \in Pairs : AccountInv(p)' /\ RecordInv(p)'
      BY <1>1, <2>1 DEF ProvisioningInv, AccountInv, RecordInv
    <2>3. Creations' /\ CommandInv'
      BY <1>4, <2>1 DEF EndLifecycles, AwaitQuotas, Unwind, Interrupt, MainRuns, Running, ProvisioningInv,
             Creations, CommandInv
    <2>. QED  BY <1>2, <2>2, <2>3 DEF ProvisioningInv
  <1>5. CASE Exit \/ Start
    <2>1. \A p \in Pairs : pc'[p] \in {"idle", "queued"} /\ ends'[p] = 0
      BY <1>5 DEF Exit, Start, ProvisioningInv, CommandInv, RecordInv
    <2>2. run' \in {"creating", "raised"} \/ \A p \in Pairs : pc'[p] = "idle"
      BY <1>5 DEF Exit, Start
    <2>3. run' \in {"creating", "raised", "idle"}
      BY <1>5 DEF Exit, Start
    <2>4. \A p \in Pairs : AccountInv(p)' /\ RecordInv(p)'
      BY <2>1 DEF AccountInv, RecordInv, Wanting, Holding, Fenced, Admitted, LifecycleSteps
    <2>5. Creations' /\ CommandInv'
      BY <2>1, <2>2, <2>3 DEF Creations, CommandInv
    <2>. QED  BY <1>2, <2>4, <2>5 DEF ProvisioningInv
  <1>. QED  BY <1>3, <1>4, <1>5 DEF Main

(* Nothing but the command works on the accounts while it terminates them; *)
(* a grant adds to an account.                                             *)
LEMMA OutsideKeeps ==
  ASSUME ProvisioningInv, Terminate \/ GrantQuota \/ UNCHANGED vars, TypeOK'
  PROVE  ProvisioningInv'
  <1>1. UNCHANGED <<pc, account, failure, snapshot, ends>>
    BY DEF Terminate, GrantQuota, vars, results
  <1>2. CASE Terminate
    <2>1. (\A p \in Pairs : pc[p] = "idle") /\ run' \in {"idle", "terminating"}
      BY <1>2 DEF Terminate, MainRuns, ProvisioningInv, CommandInv
    <2>2. UNCHANGED <<place, tag>> \/ \E a \in Accounts : Put(a, "root") /\ tag' = [tag EXCEPT ![a] = NoPair]
      BY <1>2 DEF Terminate, TerminateAccount, FinishTermination, ProvisioningInv, TypeOK, OrganizationTypeOK
    <2>3. TagsInUnit' /\ TagsApart'
      BY <2>2 DEF Put, ProvisioningInv, TypeOK, OrganizationTypeOK, TagsInUnit, TagsApart
    <2>4. \A p \in Pairs : AccountInv(p)' /\ RecordInv(p)'
      BY <1>1, <2>1 DEF ProvisioningInv, AccountInv, RecordInv, Wanting, Holding, Fenced, Admitted,
             LifecycleSteps
    <2>5. Creations' /\ CommandInv'
      BY <1>1, <2>1 DEF ProvisioningInv, Creations, CommandInv
    <2>. QED  BY <2>3, <2>4, <2>5 DEF ProvisioningInv
  <1>3. CASE GrantQuota \/ UNCHANGED vars
    <2>1. UNCHANGED <<place, tag, run>>
      BY <1>3 DEF GrantQuota, Grant, vars, organization, command
    <2>2. \A a \in Accounts : has[a] \subseteq has'[a]
      BY <1>3 DEF GrantQuota, Grant, Give, vars, organization, ProvisioningInv, TypeOK, OrganizationTypeOK
    <2>3. \A p \in Pairs : AccountInv(p)' /\ RecordInv(p)'
      BY <1>1, <2>1, <2>2 DEF ProvisioningInv, AccountInv, RecordInv, Holding, Fenced, Admitted, LifecycleSteps
    <2>4. TagsInUnit' /\ TagsApart' /\ Creations' /\ CommandInv'
      BY <1>1, <2>1 DEF ProvisioningInv, TagsInUnit, TagsApart, Creations, CommandInv
    <2>. QED  BY <2>3, <2>4 DEF ProvisioningInv
  <1>. QED  BY <1>2, <1>3

LEMMA InvNext == ProvisioningInv /\ [Next]_vars => ProvisioningInv'
  <1>. SUFFICES ASSUME ProvisioningInv, [Next]_vars PROVE ProvisioningInv'
    OBVIOUS
  <1>1. TypeOK'
    BY TypesNext DEF ProvisioningInv
  <1>. QED  BY <1>1, CoroutineKeeps, MainKeeps, OutsideKeeps DEF Next

(* ProvisioningInv is an invariant of every sequence of runs and           *)
(* terminations.                                                           *)
THEOREM ProvisioningInvariant == Spec => []ProvisioningInv
  <1>. QED  BY InvInit, InvNext, PTL DEF Spec

-----------------------------------------------------------------------------
(* What the invariant says of env init.                                    *)

(* Whatever fails behind its effect, is cut off or is run again, no pair   *)
(* gets a second account (ensure_scenario_accounts).                       *)
THEOREM PairsNeverDoubled == Spec => []UniquePair
  <1>1. ProvisioningInv => UniquePair
    <2>. SUFFICES ASSUME ProvisioningInv, NEW p \in Pairs PROVE Cardinality(TaggedFor(p)) <= 1
      BY DEF UniquePair
    <2>1. \A a, b \in TaggedFor(p) : a = b
      BY EnvironmentAssumption DEF ProvisioningInv, TagsApart, TaggedFor, InUnit
    <2>2. CASE TaggedFor(p) = {}
      BY <2>2, FS_EmptySet
    <2>3. CASE \E a : TaggedFor(p) = {a}
      BY <2>3, FS_Singleton
    <2>. QED  BY <2>1, <2>2, <2>3
  <1>. QED  BY <1>1, ProvisioningInvariant, PTL

(* Both phases may end a pair, and each pair gets one END                  *)
(* (_create_account, _provision_account_lifecycle).                        *)
THEOREM PairsEndOnce == Spec => []OneEndEach
  <1>1. ProvisioningInv => OneEndEach
    BY DEF ProvisioningInv, RecordInv, CommandInv, OneEndEach
  <1>. QED  BY <1>1, ProvisioningInvariant, PTL

(* Only the end of the second phase and the wait for quotas return: a run  *)
(* that has returned does nothing more before it exits.                    *)
LEMMA ReturnSteps ==
  ASSUME ProvisioningInv, Next, run' = "returned"
  PROVE  EndLifecycles \/ AwaitQuotas
  <1>1. ASSUME NEW p \in Pairs, Coroutine(p) PROVE FALSE
    <2>1. UNCHANGED run
      BY <1>1 DEF Coroutine, CreateScenarioAccount, ProvisionLifecycle, Enter, EnsureScenarioAccount,
             CreateAccount, Backoff, Move, Tag, CheckBaseline, FindPolicy, EnsurePolicy, AttachPolicy,
             Bootstrap, RequestQuotas, Capture, StepOf, Cancel, command
    <2>2. pc[p] \in {"done", "failed"}
      BY <2>1 DEF ProvisioningInv, CommandInv
    <2>. QED
      BY <1>1, <2>2 DEF Coroutine, CreateScenarioAccount, ProvisionLifecycle, Enter,
             EnsureScenarioAccount, CreateAccount, Backoff, Move, Tag, CheckBaseline, FindPolicy,
             EnsurePolicy, AttachPolicy, Bootstrap, RequestQuotas, Capture, StepOf, Cancel,
             CreatingSteps, LifecycleSteps
  <1>2. ~StartLifecycles /\ ~Unwind
    BY DEF StartLifecycles, Unwind, MainRuns
  <1>3. ~Start /\ ~Exit
    BY DEF Start, Exit
  <1>4. ~Interrupt
    BY DEF Interrupt, Running
  <1>5. ~GrantQuota
    BY DEF GrantQuota, command
  <1>6. ~Terminate
    BY DEF Terminate, MainRuns
  <1>. QED  BY <1>1, <1>2, <1>3, <1>4, <1>5, <1>6 DEF Next, Main

(* A run that reports success for every pair tells the truth about every   *)
(* account, quotas included if it waited for them (provision_scenarios).   *)
THEOREM SuccessIsHonest == Spec => SummaryHonest
  <1>1. ASSUME ProvisioningInv, ProvisioningInv', Next, run' = "returned", AllSucceeded',
               NEW p \in Pairs
        PROVE  Complete(account[p], p)'
    <2>1. failure'[p] = "none" /\ snapshot'[p] # "failed" /\ pc'[p] \in {"done", "failed"}
      BY <1>1 DEF AllSucceeded, Succeeded, ProvisioningInv, CommandInv
    <2>2. pc'[p] = "done"
      BY <1>1, <2>1 DEF ProvisioningInv, RecordInv
    <2>3. /\ account'[p] \in Accounts /\ place'[account'[p]] = "ou" /\ tag'[account'[p]] = p
          /\ {"fence", "roles", "baseline"} \subseteq has'[account'[p]]
      BY <1>1, <2>1, <2>2 DEF ProvisioningInv, AccountInv, RecordInv, Holding, Fenced, Admitted
    <2>4. ASSUME waits' PROVE "quota" \in has'[account'[p]]
      <3>1. AwaitQuotas
        BY <1>1, <2>4, ReturnSteps DEF EndLifecycles
      <3>2. UNCHANGED <<has, account, failure>>
        BY <3>1 DEF AwaitQuotas, CoroutinesRest, organization, results
      <3>3. p \in Polled
        BY <2>1, <2>3, <3>2, EnvironmentAssumption DEF Polled
      <3>4. unmet' = Short
        BY <1>1, <3>1, <3>3 DEF AwaitQuotas, MainRuns
      <3>5. unmet' = {}
        BY <1>1, <2>4 DEF AllSucceeded
      <3>. QED  BY <3>2, <3>3, <3>4, <3>5 DEF Short
    <2>. QED  BY <2>3, <2>4 DEF Complete
  <1>2. ProvisioningInv /\ ProvisioningInv' /\ [Next]_vars =>
          [run' = "returned" /\ AllSucceeded' => \A p \in Pairs : Complete(account[p], p)']_vars
    BY <1>1
  <1>. QED  BY <1>2, ProvisioningInvariant, PTL DEF Spec, SummaryHonest

=============================================================================
