-------------------------- MODULE ScenarioTrialProofs --------------------------
(***************************************************************************)
(* Theorems about ScenarioTrial, for any accounts, scripts and number of   *)
(* redeploy attempts.                                                      *)
(***************************************************************************)
EXTENDS ScenarioTrial, TLAPS

\* Where a run is tells which phase it is of.
PhaseOfStep ==
  /\ pc = "idle" <=> phase = "NONE"
  /\ pc \in {"sweeping", "dropping", "clearing"} => phase = "CLEANUP"
  /\ pc \in {"redeploying", "recapturing", "tagging"} => phase = "RESET"

\* Attempts are counted from zero, and the loop is left with the last one.
AttemptsLeft == pc # "redeploying" => attempts = 0

\* Before its script a run has done nothing.
FreshLocals ==
  pc \in {"idle", "sweeping", "script"} =>
    ~scriptFailed /\ pending = {} /\ \A a \in Accounts : outcome[a] = "none"

\* A job has nothing but resets in it, and its accounts have their PRE_SETUP.
JobHasBaselines ==
  job => phase \in {"NONE", "RESET"} /\ \A a \in Accounts : pre[a] # NoBaseline

\* Only deployed stacks drift; a hidden change has scripts that undo it.
CloudShape ==
  \A a \in Accounts :
    /\ WellFormed(cloud[a])
    /\ "hidden" \in cloud[a] => {"RESET", "CLEANUP"} \subseteq Scripts

Deployed == \A a \in Accounts : "stack" \in cloud[a]

\* A POST_SETUP baseline is captured only after a deploy succeeded.
CapturedDeployed ==
  /\ \A a \in Accounts : post[a] # NoBaseline => "stack" \in post[a]
  /\ pc = "recapturing" => Deployed
  /\ (pc = "managing" /\ phase = "DEPLOY" /\ ~scriptFailed) => Deployed

\* What a cleanup knows of the accounts it has judged.
CleanupJudged ==
  /\ (pc = "managing" /\ phase = "CLEANUP") => \A a \in Accounts :
       /\ ~scriptFailed => "hidden" \notin cloud[a]
       /\ a \notin pending => outcome[a] # "none"
       /\ outcome[a] # "redeploy"
       /\ outcome[a] = "ok" => Scan(a) = {}
  /\ pc \in {"dropping", "clearing"} => \A a \in Accounts : cloud[a] = {}

ScenarioInv ==
  /\ TypeOK
  /\ PhaseOfStep
  /\ AttemptsLeft
  /\ FreshLocals
  /\ JobHasBaselines
  /\ CloudShape
  /\ CapturedDeployed
  /\ CleanupJudged
  /\ InitBaselineIntact

-----------------------------------------------------------------------------
(* What the operators do to an account *)

\* deploy.sh creates missing stacks and touches nothing else.
LEMMA DeployEffect ==
  ASSUME TypeOK, NEW reached \in SUBSET Accounts, Deploy(reached)
  PROVE  /\ cloud' \in [Accounts -> SUBSET Things]
         /\ stale' \subseteq Accounts
         /\ \A a \in Accounts : cloud'[a] \in {cloud[a], cloud[a] \cup {"stack"}}
         /\ \A a \in reached : cloud'[a] = cloud[a] \cup {"stack"}
         /\ \A a \in Accounts \ reached : cloud'[a] = cloud[a]
<1>1. \A a \in Accounts : cloud[a] \subseteq Things  BY DEF TypeOK
<1>2. /\ cloud' = [a \in Accounts |-> IF a \in {b \in reached : "stack" \notin cloud[b]}
                                      THEN cloud[a] \cup {"stack"} ELSE cloud[a]]
      /\ stale' = stale \cup {a \in {b \in reached : "stack" \notin cloud[b]} : post[a] # NoBaseline}
  BY DEF Deploy
<1>3. ASSUME NEW a \in Accounts
      PROVE  /\ cloud'[a] \in {cloud[a], cloud[a] \cup {"stack"}}
             /\ a \in reached => cloud'[a] = cloud[a] \cup {"stack"}
             /\ a \notin reached => cloud'[a] = cloud[a]
             /\ cloud'[a] \in SUBSET Things
  <2>1. CASE a \in reached /\ "stack" \notin cloud[a]  BY <1>1, <1>2, <2>1 DEF Things
  <2>2. CASE ~(a \in reached /\ "stack" \notin cloud[a])  BY <1>1, <1>2, <2>2 DEF Things
  <2> QED  BY <2>1, <2>2
<1>4. cloud' \in [Accounts -> SUBSET Things]  BY <1>2, <1>3
<1>5. stale' \subseteq Accounts  BY <1>2 DEF TypeOK
<1> QED  BY <1>3, <1>4, <1>5

\* A capture stores scans.
LEMMA CaptureEffect ==
  ASSUME TypeOK, NEW captured \in SUBSET Accounts, Capture(captured)
  PROVE  /\ post' \in [Accounts -> Baselines]
         /\ stale' \subseteq Accounts
         /\ \A a \in Accounts : post'[a] \in {post[a], Scan(a)}
<1>1. \A a \in Accounts : post[a] \in Baselines /\ Scan(a) \in Baselines
  BY DEF TypeOK, Scan, Baselines
<1>2. post' = [a \in Accounts |-> IF a \in captured THEN Scan(a) ELSE post[a]]
  BY DEF Capture
<1>3. ASSUME NEW a \in Accounts PROVE post'[a] \in {post[a], Scan(a)}  BY <1>2
<1>4. \A a \in Accounts : post'[a] \in Baselines  BY <1>1, <1>3
<1>5. post' \in [Accounts -> Baselines]  BY <1>2, <1>4
<1>6. stale' \subseteq Accounts  BY DEF Capture, TypeOK
<1> QED  BY <1>3, <1>5, <1>6

\* When the resource management is over, its locals are back at their start.
LEMMA ManagementOverEffect ==
  ASSUME ManagementOver
  PROVE  /\ scriptFailed' = FALSE /\ pending' = {} /\ clearFailed' = FALSE
         /\ attempts' = 0 /\ attempts' \in 0..(MaxRedeploys - 1)
         /\ outcome' \in [Accounts -> Outcomes]
         /\ \A a \in Accounts : outcome'[a] = "none"
  BY ScenarioAssumption DEF ManagementOver, Outcomes

-----------------------------------------------------------------------------
(* The invariant is inductive *)

\* Starting a run, a job or a trial keeps the invariant.
LEMMA StartKeepsInv ==
  ASSUME ScenarioInv,
         \/ \E x \in Phases : EnvCommand(x)
         \/ \E x \in Accounts : CapturePreSetup(x)
         \/ StartJob
         \/ EndJob
         \/ MutatingTrial
         \/ SelfRestoringTrial
         \/ RefusedTrial
         \/ CancelledTrial
  PROVE  ScenarioInv'
<1>0. TypeOK /\ PhaseOfStep /\ AttemptsLeft /\ FreshLocals /\ JobHasBaselines
      /\ CloudShape /\ CapturedDeployed /\ CleanupJudged /\ InitBaselineIntact
  BY DEF ScenarioInv
<1>1. ASSUME NEW x \in Phases, EnvCommand(x)
      PROVE  ScenarioInv'
  <2>1. TypeOK'
    BY <1>0, <1>1 DEF EnvCommand, TypeOK, Start, cloudVars, baselineVars, Things, Baselines,
        Phases, Steps, Outcomes, Errors, NoBaseline, Listed, Compared
  <2>2. PhaseOfStep' /\ AttemptsLeft' /\ FreshLocals'
    BY <1>0, <1>1 DEF EnvCommand, TypeOK, PhaseOfStep, AttemptsLeft, FreshLocals, Start,
        cloudVars, baselineVars, Things, Baselines, Phases, Steps, Outcomes, Errors, NoBaseline,
        Listed, Compared
  <2>3. JobHasBaselines' /\ CloudShape' /\ CapturedDeployed'
    BY <1>0, <1>1 DEF EnvCommand, JobHasBaselines, CloudShape, CapturedDeployed, Start,
        cloudVars, baselineVars, NoBaseline, WellFormed, Deployed
  <2>4. CleanupJudged' /\ InitBaselineIntact'
    BY <1>0, <1>1 DEF EnvCommand, CleanupJudged, InitBaselineIntact, Start, cloudVars,
        baselineVars, Scan, NoBaseline, Listed, Compared
  <2> QED  BY <2>1, <2>2, <2>3, <2>4 DEF ScenarioInv
<1>2. ASSUME NEW x \in Accounts, CapturePreSetup(x)
      PROVE  ScenarioInv'
  <2>1. TypeOK'
    BY <1>0, <1>2 DEF CapturePreSetup, TypeOK, NoBaseline, Scan, cloudVars, localVars,
        resultVars, Things, Baselines, Phases, Steps, Outcomes, Errors, Listed, Compared
  <2>2. PhaseOfStep' /\ AttemptsLeft' /\ FreshLocals'
    BY <1>0, <1>2 DEF CapturePreSetup, PhaseOfStep, AttemptsLeft, FreshLocals, NoBaseline, Scan,
        cloudVars, localVars, resultVars, Listed, Compared
  <2>3. JobHasBaselines' /\ CloudShape' /\ CapturedDeployed'
    BY <1>0, <1>2 DEF CapturePreSetup, JobHasBaselines, CloudShape, CapturedDeployed,
        NoBaseline, Scan, cloudVars, localVars, resultVars, WellFormed, Deployed, Listed, Compared
  <2>4. CleanupJudged' /\ InitBaselineIntact'
    BY <1>0, <1>2 DEF CapturePreSetup, CleanupJudged, InitBaselineIntact, NoBaseline, Scan,
        cloudVars, localVars, resultVars, Listed, Compared
  <2> QED  BY <2>1, <2>2, <2>3, <2>4 DEF ScenarioInv
<1>3. ASSUME StartJob
      PROVE  ScenarioInv'
  <2>1. TypeOK'
    BY <1>0, <1>3 DEF StartJob, TypeOK, Verifies, cloudVars, baselineVars, localVars, Things,
        Baselines, Phases, Steps, Outcomes, Errors, NoBaseline, Scan, Listed, Compared
  <2>2. PhaseOfStep' /\ AttemptsLeft' /\ FreshLocals'
    BY <1>0, <1>3 DEF StartJob, PhaseOfStep, AttemptsLeft, FreshLocals, Verifies, cloudVars,
        baselineVars, localVars, NoBaseline, Scan, Listed, Compared
  <2>3. JobHasBaselines' /\ CloudShape' /\ CapturedDeployed'
    BY <1>0, <1>3 DEF StartJob, TypeOK, PhaseOfStep, JobHasBaselines, CloudShape,
        CapturedDeployed, InitBaselineIntact, Verifies, cloudVars, baselineVars, localVars,
        Things, Baselines, Phases, Steps, Outcomes, Errors, NoBaseline, WellFormed, Deployed,
        Scan, Listed, Compared
  <2>4. CleanupJudged' /\ InitBaselineIntact'
    BY <1>0, <1>3 DEF StartJob, CleanupJudged, InitBaselineIntact, Verifies, cloudVars,
        baselineVars, localVars, Scan, NoBaseline, Listed, Compared
  <2> QED  BY <2>1, <2>2, <2>3, <2>4 DEF ScenarioInv
<1>4. ASSUME EndJob
      PROVE  ScenarioInv'
  <2>1. TypeOK'
    BY <1>0, <1>4 DEF EndJob, TypeOK, cloudVars, baselineVars, localVars, resultVars
  <2>2. PhaseOfStep' /\ AttemptsLeft' /\ FreshLocals'
    BY <1>0, <1>4 DEF EndJob, PhaseOfStep, AttemptsLeft, FreshLocals, cloudVars, baselineVars,
        localVars, resultVars
  <2>3. JobHasBaselines' /\ CloudShape' /\ CapturedDeployed'
    BY <1>0, <1>4 DEF EndJob, JobHasBaselines, CloudShape, CapturedDeployed, cloudVars,
        baselineVars, localVars, resultVars, NoBaseline, WellFormed, Deployed
  <2>4. CleanupJudged' /\ InitBaselineIntact'
    BY <1>0, <1>4 DEF EndJob, CleanupJudged, InitBaselineIntact, cloudVars, baselineVars,
        localVars, resultVars, Scan, NoBaseline, Listed, Compared
  <2> QED  BY <2>1, <2>2, <2>3, <2>4 DEF ScenarioInv
<1>5. ASSUME MutatingTrial
      PROVE  ScenarioInv'
  <2>1. TypeOK'
    BY <1>0, <1>5 DEF MutatingTrial, TypeOK, TrialAdmitted, TaskMutates, Start, baselineVars,
        Things, Baselines, Phases, Steps, Outcomes, Errors, Mutated, NoBaseline, Listed, Compared,
        WellFormed
  <2>2. PhaseOfStep' /\ AttemptsLeft' /\ FreshLocals'
    BY <1>0, <1>5 DEF MutatingTrial, PhaseOfStep, AttemptsLeft, FreshLocals, TrialAdmitted,
        TaskMutates, Start, baselineVars, Things, Mutated, WellFormed
  <2>3. JobHasBaselines' /\ CloudShape' /\ CapturedDeployed'
    BY <1>0, <1>5 DEF MutatingTrial, JobHasBaselines, CloudShape, CapturedDeployed,
        TrialAdmitted, TaskMutates, Start, baselineVars, NoBaseline, WellFormed, Deployed,
        Things, Mutated
  <2>4. CleanupJudged' /\ InitBaselineIntact'
    BY <1>0, <1>5 DEF MutatingTrial, TypeOK, PhaseOfStep, JobHasBaselines, CloudShape,
        CapturedDeployed, CleanupJudged, InitBaselineIntact, TrialAdmitted, TaskMutates, Start,
        baselineVars, Things, Baselines, Phases, Steps, Outcomes, Errors, NoBaseline,
        WellFormed, Deployed, Scan, Mutated, Listed, Compared
  <2> QED  BY <2>1, <2>2, <2>3, <2>4 DEF ScenarioInv
<1>6. ASSUME SelfRestoringTrial
      PROVE  ScenarioInv'
  <2>1. TypeOK'
    BY <1>0, <1>6 DEF SelfRestoringTrial, TypeOK, TrialAdmitted, Start, cloudVars, baselineVars,
        Things, Baselines, Phases, Steps, Outcomes, Errors, NoBaseline, Listed, Compared
  <2>2. PhaseOfStep' /\ AttemptsLeft' /\ FreshLocals'
    BY <1>0, <1>6 DEF SelfRestoringTrial, PhaseOfStep, AttemptsLeft, FreshLocals, TrialAdmitted,
        Start, cloudVars, baselineVars
  <2>3. JobHasBaselines' /\ CloudShape' /\ CapturedDeployed'
    BY <1>0, <1>6 DEF SelfRestoringTrial, JobHasBaselines, CloudShape, CapturedDeployed,
        TrialAdmitted, Start, cloudVars, baselineVars, NoBaseline, WellFormed, Deployed
  <2>4. CleanupJudged' /\ InitBaselineIntact'
    BY <1>0, <1>6 DEF SelfRestoringTrial, CleanupJudged, InitBaselineIntact, TrialAdmitted,
        Start, cloudVars, baselineVars, Scan, NoBaseline, Listed, Compared
  <2> QED  BY <2>1, <2>2, <2>3, <2>4 DEF ScenarioInv
<1>7. ASSUME RefusedTrial
      PROVE  ScenarioInv'
  <2>1. TypeOK'
    BY <1>0, <1>7 DEF RefusedTrial, TypeOK, TrialAdmitted, Start, cloudVars, baselineVars,
        Things, Baselines, Phases, Steps, Outcomes, Errors, NoBaseline, Listed, Compared
  <2>2. PhaseOfStep' /\ AttemptsLeft' /\ FreshLocals'
    BY <1>0, <1>7 DEF RefusedTrial, PhaseOfStep, AttemptsLeft, FreshLocals, TrialAdmitted,
        Start, cloudVars, baselineVars
  <2>3. JobHasBaselines' /\ CloudShape' /\ CapturedDeployed'
    BY <1>0, <1>7 DEF RefusedTrial, JobHasBaselines, CloudShape, CapturedDeployed,
        TrialAdmitted, Start, cloudVars, baselineVars, NoBaseline, WellFormed, Deployed
  <2>4. CleanupJudged' /\ InitBaselineIntact'
    BY <1>0, <1>7 DEF RefusedTrial, CleanupJudged, InitBaselineIntact, TrialAdmitted, Start,
        cloudVars, baselineVars, Scan, NoBaseline, Listed, Compared
  <2> QED  BY <2>1, <2>2, <2>3, <2>4 DEF ScenarioInv
<1>8. ASSUME CancelledTrial
      PROVE  ScenarioInv'
  <2>1. TypeOK'
    BY <1>0, <1>8 DEF CancelledTrial, TypeOK, TaskMutates, baselineVars, localVars, resultVars
  <2>2. PhaseOfStep' /\ AttemptsLeft' /\ FreshLocals'
    BY <1>0, <1>8 DEF CancelledTrial, PhaseOfStep, AttemptsLeft, FreshLocals, TrialAdmitted,
        TaskMutates, baselineVars, localVars, resultVars, Things, Mutated, WellFormed
  <2>3. JobHasBaselines' /\ CloudShape' /\ CapturedDeployed'
    BY <1>0, <1>8 DEF CancelledTrial, JobHasBaselines, CloudShape, CapturedDeployed,
        TrialAdmitted, TaskMutates, baselineVars, localVars, resultVars, NoBaseline, WellFormed,
        Deployed, Things, Mutated
  <2>4. CleanupJudged' /\ InitBaselineIntact'
    BY <1>0, <1>8 DEF CancelledTrial, TypeOK, PhaseOfStep, JobHasBaselines, CloudShape,
        CapturedDeployed, CleanupJudged, InitBaselineIntact, TrialAdmitted, TaskMutates,
        baselineVars, localVars, resultVars, Things, Baselines, Phases, Steps, Outcomes, Errors,
        NoBaseline, WellFormed, Deployed, Scan, Mutated, Listed, Compared
  <2> QED  BY <2>1, <2>2, <2>3, <2>4 DEF ScenarioInv
<1> QED  BY <1>1, <1>2, <1>3, <1>4, <1>5, <1>6, <1>7, <1>8

\* So do the script, the deploy's and the verification's steps, and the run's end.
LEMMA PhaseKeepsInv ==
  ASSUME ScenarioInv,
         \/ PreCleanupSweep
         \/ ScriptSucceeds
         \/ ScriptFails
         \/ NoScript
         \/ Snapshot
         \/ Verify
         \/ Cancel
         \/ StopContainer
  PROVE  ScenarioInv'
<1>0. TypeOK /\ PhaseOfStep /\ AttemptsLeft /\ FreshLocals /\ JobHasBaselines
      /\ CloudShape /\ CapturedDeployed /\ CleanupJudged /\ InitBaselineIntact
  BY DEF ScenarioInv
<1>1. ASSUME PreCleanupSweep
      PROVE  ScenarioInv'
  <2>1. TypeOK'
    BY <1>0, <1>1 DEF PreCleanupSweep, TypeOK, NoBaseline, baselineVars, localVars, resultVars,
        Things, Baselines, Phases, Steps, Outcomes, Errors, Listed, Compared
  <2>2. PhaseOfStep' /\ AttemptsLeft' /\ FreshLocals'
    BY <1>0, <1>1 DEF PreCleanupSweep, PhaseOfStep, AttemptsLeft, FreshLocals, NoBaseline,
        baselineVars, localVars, resultVars
  <2>3. JobHasBaselines' /\ CloudShape' /\ CapturedDeployed'
    BY <1>0, <1>1 DEF PreCleanupSweep, JobHasBaselines, CloudShape, CapturedDeployed,
        NoBaseline, baselineVars, localVars, resultVars, WellFormed, Deployed
  <2>4. CleanupJudged' /\ InitBaselineIntact'
    BY <1>0, <1>1 DEF PreCleanupSweep, CleanupJudged, InitBaselineIntact, NoBaseline,
        baselineVars, localVars, resultVars, Scan, Listed, Compared
  <2> QED  BY <2>1, <2>2, <2>3, <2>4 DEF ScenarioInv
<1>2. ASSUME ScriptSucceeds
      PROVE  ScenarioInv'
  <2>1. TypeOK'
    BY <1>0, <1>2 DEF ScriptSucceeds, TypeOK, HasPhaseScript, DeployAdmitted, ScriptEffect,
        baselineVars, Things, Baselines, Phases, Steps, Outcomes, Errors, InitValidated, Deploy,
        cloudVars, NoBaseline, Listed, Compared
  <2>2. PhaseOfStep' /\ AttemptsLeft' /\ FreshLocals'
    BY <1>0, <1>2 DEF ScriptSucceeds, PhaseOfStep, AttemptsLeft, FreshLocals, HasPhaseScript,
        DeployAdmitted, ScriptEffect, baselineVars, InitValidated, Deploy, cloudVars, NoBaseline
  <2>3. JobHasBaselines' /\ CloudShape' /\ CapturedDeployed'
    BY <1>0, <1>2 DEF ScriptSucceeds, JobHasBaselines, CloudShape, CapturedDeployed,
        HasPhaseScript, DeployAdmitted, ScriptEffect, baselineVars, NoBaseline, WellFormed,
        Deployed, InitValidated, Deploy, cloudVars
  <2>4. CleanupJudged' /\ InitBaselineIntact'
    BY <1>0, <1>2 DEF ScriptSucceeds, TypeOK, PhaseOfStep, AttemptsLeft, FreshLocals,
        JobHasBaselines, CloudShape, CapturedDeployed, CleanupJudged, InitBaselineIntact,
        HasPhaseScript, DeployAdmitted, ScriptEffect, baselineVars, Things, Baselines, Phases,
        Steps, Outcomes, Errors, NoBaseline, WellFormed, Deployed, Scan, InitValidated, Deploy,
        cloudVars, Listed, Compared
  <2> QED  BY <2>1, <2>2, <2>3, <2>4 DEF ScenarioInv
<1>3. ASSUME ScriptFails
      PROVE  ScenarioInv'
  <2>1. TypeOK'
    BY <1>0, <1>3 DEF ScriptFails, TypeOK, HasPhaseScript, DeployAdmitted, ScriptEffect,
        baselineVars, Things, Baselines, Phases, Steps, Outcomes, Errors, InitValidated, Deploy,
        cloudVars, NoBaseline, Listed, Compared
  <2>2. PhaseOfStep' /\ AttemptsLeft' /\ FreshLocals'
    BY <1>0, <1>3 DEF ScriptFails, PhaseOfStep, AttemptsLeft, FreshLocals, HasPhaseScript,
        DeployAdmitted, ScriptEffect, baselineVars, InitValidated, Deploy, cloudVars, NoBaseline
  <2>3. JobHasBaselines' /\ CloudShape' /\ CapturedDeployed'
    BY <1>0, <1>3 DEF ScriptFails, JobHasBaselines, CloudShape, CapturedDeployed,
        HasPhaseScript, DeployAdmitted, ScriptEffect, baselineVars, NoBaseline, WellFormed,
        Deployed, InitValidated, Deploy, cloudVars
  <2>4. CleanupJudged' /\ InitBaselineIntact'
    BY <1>0, <1>3 DEF ScriptFails, TypeOK, PhaseOfStep, AttemptsLeft, FreshLocals,
        JobHasBaselines, CloudShape, CapturedDeployed, CleanupJudged, InitBaselineIntact,
        HasPhaseScript, DeployAdmitted, ScriptEffect, baselineVars, Things, Baselines, Phases,
        Steps, Outcomes, Errors, NoBaseline, WellFormed, Deployed, Scan, InitValidated, Deploy,
        cloudVars, Listed, Compared
  <2> QED  BY <2>1, <2>2, <2>3, <2>4 DEF ScenarioInv
<1>4. ASSUME NoScript
      PROVE  ScenarioInv'
  <2>1. TypeOK'
    BY <1>0, <1>4 DEF NoScript, TypeOK, HasPhaseScript, cloudVars, baselineVars, resultVars,
        Things, Baselines, Phases, Steps, Outcomes, Errors, NoBaseline, Listed, Compared
  <2>2. PhaseOfStep' /\ AttemptsLeft' /\ FreshLocals'
    BY <1>0, <1>4 DEF NoScript, PhaseOfStep, AttemptsLeft, FreshLocals, HasPhaseScript,
        cloudVars, baselineVars, resultVars
  <2>3. JobHasBaselines' /\ CloudShape' /\ CapturedDeployed'
    BY <1>0, <1>4 DEF NoScript, JobHasBaselines, CloudShape, CapturedDeployed, HasPhaseScript,
        cloudVars, baselineVars, resultVars, NoBaseline, WellFormed, Deployed
  <2>4. CleanupJudged' /\ InitBaselineIntact'
    BY <1>0, <1>4 DEF NoScript, TypeOK, PhaseOfStep, AttemptsLeft, FreshLocals, JobHasBaselines,
        CloudShape, CapturedDeployed, CleanupJudged, InitBaselineIntact, HasPhaseScript,
        cloudVars, baselineVars, resultVars, Things, Baselines, Phases, Steps, Outcomes, Errors,
        NoBaseline, WellFormed, Deployed, Scan, Listed, Compared
  <2> QED  BY <2>1, <2>2, <2>3, <2>4 DEF ScenarioInv
<1>5. ASSUME Snapshot
      PROVE  ScenarioInv'
  <2>1. TypeOK'
    <3>1. post' \in [Accounts -> Baselines] /\ stale' \subseteq Accounts
      BY <1>0, <1>5, CaptureEffect DEF Snapshot, TypeOK
    <3>2. pc' = "stopping" /\ error' \in Errors /\ ManagementOver
      BY <1>5 DEF Snapshot, Finish, Errors
    <3> QED  BY <1>0, <1>5, <3>1, <3>2, ManagementOverEffect DEF Snapshot, TypeOK
  <2>2. PhaseOfStep' /\ AttemptsLeft' /\ FreshLocals'
    BY <1>0, <1>5, ManagementOverEffect DEF Snapshot, PhaseOfStep, AttemptsLeft, FreshLocals,
        Finish, Capture, Scan, Listed, Compared
  <2>3. JobHasBaselines' /\ CloudShape' /\ CapturedDeployed'
    BY <1>0, <1>5, ManagementOverEffect DEF Snapshot, JobHasBaselines, CloudShape,
        CapturedDeployed, Finish, Capture, NoBaseline, WellFormed, Deployed, Scan, Listed, Compared
  <2>4. CleanupJudged' /\ InitBaselineIntact'
    BY <1>0, <1>5, ManagementOverEffect DEF Snapshot, CleanupJudged, InitBaselineIntact, Finish,
        Capture, Scan, NoBaseline, Listed, Compared
  <2> QED  BY <2>1, <2>2, <2>3, <2>4 DEF ScenarioInv
<1>6. ASSUME Verify
      PROVE  ScenarioInv'
  <2>1. TypeOK'
    BY <1>0, <1>6, ManagementOverEffect DEF Verify, TypeOK, Verifies, Finish, cloudVars,
        baselineVars, Things, Baselines, Phases, Steps, Outcomes, Errors, NoBaseline, Scan, Listed,
        Compared
  <2>2. PhaseOfStep' /\ AttemptsLeft' /\ FreshLocals'
    BY <1>0, <1>6, ManagementOverEffect DEF Verify, PhaseOfStep, AttemptsLeft, FreshLocals,
        Verifies, Finish, cloudVars, baselineVars, NoBaseline, Scan, Listed, Compared
  <2>3. JobHasBaselines' /\ CloudShape' /\ CapturedDeployed'
    BY <1>0, <1>6, ManagementOverEffect DEF Verify, JobHasBaselines, CloudShape, CapturedDeployed,
        Verifies, Finish, cloudVars, baselineVars, NoBaseline, WellFormed, Deployed, Scan, Listed,
        Compared
  <2>4. CleanupJudged' /\ InitBaselineIntact'
    BY <1>0, <1>6, ManagementOverEffect DEF Verify, CleanupJudged, InitBaselineIntact, Verifies,
        Finish, cloudVars, baselineVars, Scan, NoBaseline, Listed, Compared
  <2> QED  BY <2>1, <2>2, <2>3, <2>4 DEF ScenarioInv
<1>7. ASSUME Cancel
      PROVE  ScenarioInv'
  <2>1. TypeOK'
    BY <1>0, <1>7, ScenarioAssumption, ManagementOverEffect DEF Cancel, LocalsGone, TypeOK,
        cloudVars, baselineVars, Outcomes, Errors
  <2>2. PhaseOfStep' /\ AttemptsLeft' /\ FreshLocals'
    BY <1>0, <1>7, ManagementOverEffect DEF Cancel, LocalsGone, PhaseOfStep, AttemptsLeft,
        FreshLocals, Steps, cloudVars, baselineVars
  <2>3. JobHasBaselines' /\ CloudShape' /\ CapturedDeployed'
    BY <1>0, <1>7, ManagementOverEffect DEF Cancel, LocalsGone, JobHasBaselines, CloudShape,
        CapturedDeployed, Steps, cloudVars, baselineVars, NoBaseline, WellFormed, Deployed
  <2>4. CleanupJudged' /\ InitBaselineIntact'
    BY <1>0, <1>7, ManagementOverEffect DEF Cancel, LocalsGone, CleanupJudged, InitBaselineIntact,
        Steps, cloudVars, baselineVars, Scan, NoBaseline, Listed, Compared
  <2> QED  BY <2>1, <2>2, <2>3, <2>4 DEF ScenarioInv
<1>8. ASSUME StopContainer
      PROVE  ScenarioInv'
  <2>1. TypeOK'
    <3>1. /\ error' \in Errors /\ cancelled' \in BOOLEAN /\ container' \in {"down", "up"}
      BY <1>0, <1>8, ManagementOverEffect DEF StopContainer, LocalsGone, RecordStop, TypeOK, Errors
    <3>2. job' \in BOOLEAN
      BY <1>8, ManagementOverEffect DEF StopContainer, LocalsGone
    <3>3. /\ outcome' \in [Accounts -> Outcomes] /\ attempts' \in 0..(MaxRedeploys - 1)
          /\ phase' = "NONE" /\ pc' = "idle" /\ pending' = {} /\ lost' = {}
          /\ skip' = FALSE /\ scriptFailed' = FALSE /\ clearFailed' = FALSE
      BY <1>8, ScenarioAssumption, ManagementOverEffect DEF StopContainer, LocalsGone, Outcomes
    <3>4. UNCHANGED <<cloud, stale, pre, post, flagged>>
      BY <1>8, ManagementOverEffect DEF StopContainer, LocalsGone, cloudVars, baselineVars
    <3> QED  BY <1>0, <3>1, <3>2, <3>3, <3>4 DEF TypeOK
  <2>2. PhaseOfStep' /\ AttemptsLeft' /\ FreshLocals'
    BY <1>0, <1>8, ManagementOverEffect DEF StopContainer, LocalsGone, PhaseOfStep, AttemptsLeft,
        FreshLocals, RecordStop, cloudVars, baselineVars
  <2>3. JobHasBaselines' /\ CloudShape' /\ CapturedDeployed'
    BY <1>0, <1>8, ManagementOverEffect DEF StopContainer, LocalsGone, JobHasBaselines, CloudShape,
        CapturedDeployed, RecordStop, cloudVars, baselineVars, NoBaseline, WellFormed, Deployed
  <2>4. CleanupJudged' /\ InitBaselineIntact'
    BY <1>0, <1>8, ManagementOverEffect DEF StopContainer, LocalsGone, CleanupJudged,
        InitBaselineIntact, RecordStop, cloudVars, baselineVars, Scan, NoBaseline, Listed, Compared
  <2> QED  BY <2>1, <2>2, <2>3, <2>4 DEF ScenarioInv
<1> QED  BY <1>1, <1>2, <1>3, <1>4, <1>5, <1>6, <1>7, <1>8

\* So do the steps of a reset.
LEMMA ResetKeepsInv ==
  ASSUME ScenarioInv,
         \/ SkipFrameworkReset
         \/ \E x \in Accounts : FrameworkReset(x)
         \/ ResetReturns
         \/ RedeploySucceeds
         \/ RedeployFails
         \/ Recapture
         \/ \E x \in Accounts : Tag(x)
         \/ TagsApplied
  PROVE  ScenarioInv'
<1>0. TypeOK /\ PhaseOfStep /\ AttemptsLeft /\ FreshLocals /\ JobHasBaselines
      /\ CloudShape /\ CapturedDeployed /\ CleanupJudged /\ InitBaselineIntact
  BY DEF ScenarioInv
<1>1. ASSUME SkipFrameworkReset
      PROVE  ScenarioInv'
  <2>1. TypeOK'
    BY <1>0, <1>1, ManagementOverEffect DEF SkipFrameworkReset, TypeOK, Finish, cloudVars,
        baselineVars, Things, Baselines, Phases, Steps, Outcomes, Errors, NoBaseline, Listed,
        Compared
  <2>2. PhaseOfStep' /\ AttemptsLeft' /\ FreshLocals'
    BY <1>0, <1>1, ManagementOverEffect DEF SkipFrameworkReset, PhaseOfStep, AttemptsLeft,
        FreshLocals, Finish, cloudVars, baselineVars
  <2>3. JobHasBaselines' /\ CloudShape' /\ CapturedDeployed'
    BY <1>0, <1>1, ManagementOverEffect DEF SkipFrameworkReset, JobHasBaselines, CloudShape,
        CapturedDeployed, Finish, cloudVars, baselineVars, NoBaseline, WellFormed, Deployed
  <2>4. CleanupJudged' /\ InitBaselineIntact'
    BY <1>0, <1>1, ManagementOverEffect DEF SkipFrameworkReset, CleanupJudged, InitBaselineIntact,
        Finish, cloudVars, baselineVars, Scan, NoBaseline, Listed, Compared
  <2> QED  BY <2>1, <2>2, <2>3, <2>4 DEF ScenarioInv
<1>2. ASSUME NEW x \in Accounts, FrameworkReset(x)
      PROVE  ScenarioInv'
  <2>1. TypeOK'
    BY <1>0, <1>2 DEF FrameworkReset, TypeOK, ResetLeaves, baselineVars, resultVars, Things,
        Baselines, Phases, Steps, Outcomes, Errors, WellFormed, NoBaseline, Listed, Compared
  <2>2. PhaseOfStep' /\ AttemptsLeft' /\ FreshLocals'
    BY <1>0, <1>2 DEF FrameworkReset, PhaseOfStep, AttemptsLeft, FreshLocals, ResetLeaves,
        baselineVars, resultVars, WellFormed, NoBaseline, Listed, Compared
  <2>3. JobHasBaselines' /\ CloudShape' /\ CapturedDeployed'
    BY <1>0, <1>2 DEF FrameworkReset, JobHasBaselines, CloudShape, CapturedDeployed,
        ResetLeaves, baselineVars, resultVars, NoBaseline, WellFormed, Deployed, Listed, Compared
  <2>4. CleanupJudged' /\ InitBaselineIntact'
    <3>1. pc = "managing" /\ phase = "RESET" /\ UNCHANGED <<pc, phase, pre>>
      BY <1>2 DEF FrameworkReset, baselineVars
    <3>2. PICK r \in {"ok", "redeploy", "failed"}, left \in SUBSET cloud[x] :
            cloud' = [cloud EXCEPT ![x] = left]
      BY <1>2 DEF FrameworkReset
    <3>3. \A a \in Accounts : cloud'[a] \subseteq cloud[a]
      BY <1>0, <3>2 DEF TypeOK
    <3> QED  BY <1>0, <3>1, <3>3 DEF CleanupJudged, InitBaselineIntact
  <2> QED  BY <2>1, <2>2, <2>3, <2>4 DEF ScenarioInv
<1>3. ASSUME ResetReturns
      PROVE  ScenarioInv'
  <2>1. TypeOK'
    BY <1>0, <1>3 DEF ResetReturns, TypeOK, NeedsRedeploy, cloudVars, baselineVars, resultVars,
        Things, Baselines, Phases, Steps, Outcomes, Errors, NoBaseline, Listed, Compared
  <2>2. PhaseOfStep' /\ AttemptsLeft' /\ FreshLocals'
    BY <1>0, <1>3, ScenarioAssumption DEF ResetReturns, PhaseOfStep, AttemptsLeft, FreshLocals,
        NeedsRedeploy, cloudVars, baselineVars, resultVars
  <2>3. JobHasBaselines' /\ CloudShape' /\ CapturedDeployed'
    BY <1>0, <1>3 DEF ResetReturns, JobHasBaselines, CloudShape, CapturedDeployed,
        NeedsRedeploy, cloudVars, baselineVars, resultVars, NoBaseline, WellFormed, Deployed
  <2>4. CleanupJudged' /\ InitBaselineIntact'
    BY <1>0, <1>3 DEF ResetReturns, CleanupJudged, InitBaselineIntact, NeedsRedeploy, cloudVars,
        baselineVars, resultVars, Scan, NoBaseline, Listed, Compared
  <2> QED  BY <2>1, <2>2, <2>3, <2>4 DEF ScenarioInv
<1>4. ASSUME RedeploySucceeds
      PROVE  ScenarioInv'
  <2>1. TypeOK'
    <3>1. cloud' \in [Accounts -> SUBSET Things] /\ stale' \subseteq Accounts
      BY <1>0, <1>4 DEF RedeploySucceeds, Deploy, TypeOK, Things
    <3>2. attempts' \in 0..(MaxRedeploys - 1) /\ pc' \in Steps /\ container' = "up"
      BY <1>4, ScenarioAssumption DEF RedeploySucceeds, Steps
    <3> QED  BY <1>0, <1>4, <3>1, <3>2 DEF RedeploySucceeds, TypeOK, baselineVars
  <2>2. PhaseOfStep' /\ AttemptsLeft' /\ FreshLocals'
    BY <1>0, <1>4 DEF RedeploySucceeds, PhaseOfStep, AttemptsLeft, FreshLocals, DeployAdmitted,
        Deploy, baselineVars, localVars, InitValidated, NoBaseline
  <2>3. JobHasBaselines' /\ CloudShape' /\ CapturedDeployed'
    BY <1>0, <1>4 DEF RedeploySucceeds, JobHasBaselines, CloudShape, CapturedDeployed,
        DeployAdmitted, Deploy, baselineVars, localVars, NoBaseline, WellFormed, Deployed,
        InitValidated
  <2>4. CleanupJudged' /\ InitBaselineIntact'
    BY <1>0, <1>4 DEF RedeploySucceeds, CleanupJudged, InitBaselineIntact, DeployAdmitted,
        Deploy, baselineVars, localVars, Scan, NoBaseline, InitValidated, Listed, Compared
  <2> QED  BY <2>1, <2>2, <2>3, <2>4 DEF ScenarioInv
<1>5. ASSUME RedeployFails
      PROVE  ScenarioInv'
  <2>1. TypeOK'
    BY <1>0, <1>5, ScenarioAssumption DEF RedeployFails, TypeOK, PhaseOfStep, AttemptsLeft,
        FreshLocals, JobHasBaselines, CloudShape, CapturedDeployed, CleanupJudged,
        InitBaselineIntact, DeployAdmitted, Deploy, AttemptsAfter, LastAttempt, Redeployed,
        baselineVars, Things, Baselines, Phases, Steps, Outcomes, Errors, NoBaseline,
        WellFormed, Deployed, Scan, InitValidated, Listed, Compared
  <2>2. PhaseOfStep' /\ AttemptsLeft' /\ FreshLocals'
    BY <1>0, <1>5, ScenarioAssumption DEF RedeployFails, TypeOK, PhaseOfStep, AttemptsLeft,
        FreshLocals, DeployAdmitted, Deploy, AttemptsAfter, LastAttempt, Redeployed,
        baselineVars, Things, Baselines, Phases, Steps, Outcomes, Errors, InitValidated,
        NoBaseline, Listed, Compared
  <2>3. JobHasBaselines' /\ CloudShape' /\ CapturedDeployed'
    BY <1>0, <1>5 DEF RedeployFails, JobHasBaselines, CloudShape, CapturedDeployed,
        DeployAdmitted, Deploy, AttemptsAfter, LastAttempt, Redeployed, baselineVars,
        NoBaseline, WellFormed, Deployed, InitValidated
  <2>4. CleanupJudged' /\ InitBaselineIntact'
    BY <1>0, <1>5 DEF RedeployFails, CleanupJudged, InitBaselineIntact, DeployAdmitted, Deploy,
        AttemptsAfter, LastAttempt, Redeployed, baselineVars, Scan, NoBaseline, InitValidated,
        Listed, Compared
  <2> QED  BY <2>1, <2>2, <2>3, <2>4 DEF ScenarioInv
<1>6. ASSUME Recapture
      PROVE  ScenarioInv'
  <2>1. TypeOK'
    BY <1>0, <1>6 DEF Recapture, TypeOK, RecaptureAllowed, Capture, Redeployed, resultVars,
        Things, Baselines, Phases, Steps, Outcomes, Errors, Scan, NoBaseline, Listed, Compared
  <2>2. PhaseOfStep' /\ AttemptsLeft' /\ FreshLocals'
    BY <1>0, <1>6 DEF Recapture, PhaseOfStep, AttemptsLeft, FreshLocals, RecaptureAllowed,
        Capture, Redeployed, resultVars, Scan, Listed, Compared
  <2>3. JobHasBaselines' /\ CloudShape' /\ CapturedDeployed'
    BY <1>0, <1>6 DEF Recapture, JobHasBaselines, CloudShape, CapturedDeployed,
        RecaptureAllowed, Capture, Redeployed, resultVars, NoBaseline, WellFormed, Deployed,
        Scan, Listed, Compared
  <2>4. CleanupJudged' /\ InitBaselineIntact'
    BY <1>0, <1>6 DEF Recapture, CleanupJudged, InitBaselineIntact, RecaptureAllowed, Capture,
        Redeployed, resultVars, Scan, NoBaseline, Listed, Compared
  <2> QED  BY <2>1, <2>2, <2>3, <2>4 DEF ScenarioInv
<1>7. ASSUME NEW x \in Accounts, Tag(x)
      PROVE  ScenarioInv'
  <2>1. TypeOK'
    <3>1. UNCHANGED <<cloud, stale, pre, post, job, phase, pc, skip, scriptFailed, outcome, attempts,
                      error, cancelled, container>>
      BY <1>7 DEF Tag, cloudVars, baselineVars, resultVars
    <3>2. flagged' \subseteq Accounts /\ lost' \subseteq Accounts /\ pending' \subseteq Accounts
      BY <1>0, <1>7 DEF Tag, TypeOK
    <3>3. clearFailed' \in BOOLEAN
      BY <1>0, <1>7 DEF Tag, TypeOK
    <3> QED  BY <1>0, <3>1, <3>2, <3>3 DEF TypeOK
  <2>2. PhaseOfStep' /\ AttemptsLeft' /\ FreshLocals'
    BY <1>0, <1>7 DEF Tag, PhaseOfStep, AttemptsLeft, FreshLocals, MustMark, cloudVars,
        baselineVars, resultVars
  <2>3. JobHasBaselines' /\ CloudShape' /\ CapturedDeployed'
    BY <1>0, <1>7 DEF Tag, JobHasBaselines, CloudShape, CapturedDeployed, MustMark, cloudVars,
        baselineVars, resultVars, NoBaseline, WellFormed, Deployed
  <2>4. CleanupJudged' /\ InitBaselineIntact'
    BY <1>0, <1>7 DEF Tag, CleanupJudged, InitBaselineIntact, MustMark, cloudVars, baselineVars,
        resultVars, Scan, NoBaseline, Listed, Compared
  <2> QED  BY <2>1, <2>2, <2>3, <2>4 DEF ScenarioInv
<1>8. ASSUME TagsApplied
      PROVE  ScenarioInv'
  <2>1. TypeOK'
    BY <1>0, <1>8, ManagementOverEffect DEF TagsApplied, TypeOK, Finish, ResetFailed, cloudVars,
        baselineVars, localVars, Things, Baselines, Phases, Steps, Outcomes, Errors, NoBaseline,
        Listed, Compared
  <2>2. PhaseOfStep' /\ AttemptsLeft' /\ FreshLocals'
    BY <1>0, <1>8, ManagementOverEffect DEF TagsApplied, PhaseOfStep, AttemptsLeft, FreshLocals,
        Finish, ResetFailed, cloudVars, baselineVars, localVars
  <2>3. JobHasBaselines' /\ CloudShape' /\ CapturedDeployed'
    BY <1>0, <1>8, ManagementOverEffect DEF TagsApplied, JobHasBaselines, CloudShape,
        CapturedDeployed, Finish, ResetFailed, cloudVars, baselineVars, localVars, NoBaseline,
        WellFormed, Deployed
  <2>4. CleanupJudged' /\ InitBaselineIntact'
    BY <1>0, <1>8, ManagementOverEffect DEF TagsApplied, CleanupJudged, InitBaselineIntact, Finish,
        ResetFailed, cloudVars, baselineVars, localVars, Scan, NoBaseline, Listed, Compared
  <2> QED  BY <2>1, <2>2, <2>3, <2>4 DEF ScenarioInv
<1> QED  BY <1>1, <1>2, <1>3, <1>4, <1>5, <1>6, <1>7, <1>8

\* So do the steps of a cleanup.
LEMMA CleanupKeepsInv ==
  ASSUME ScenarioInv,
         \/ \E x \in Accounts : FrameworkCleanup(x)
         \/ CleanupReturns
         \/ DeleteSnapshots
         \/ \E x \in Accounts : ClearAfterCleanup(x)
         \/ FlagsCleared
  PROVE  ScenarioInv'
<1>0. TypeOK /\ PhaseOfStep /\ AttemptsLeft /\ FreshLocals /\ JobHasBaselines
      /\ CloudShape /\ CapturedDeployed /\ CleanupJudged /\ InitBaselineIntact
  BY DEF ScenarioInv
<1>1. ASSUME NEW x \in Accounts, FrameworkCleanup(x)
      PROVE  ScenarioInv'
  <2>1. TypeOK'
    BY <1>0, <1>1 DEF FrameworkCleanup, TypeOK, WellFormed, NoBaseline, IsClean, baselineVars,
        resultVars, Things, Baselines, Phases, Steps, Outcomes, Errors, Listed, Compared
  <2>2. PhaseOfStep' /\ AttemptsLeft' /\ FreshLocals'
    BY <1>0, <1>1 DEF FrameworkCleanup, PhaseOfStep, AttemptsLeft, FreshLocals, WellFormed,
        NoBaseline, IsClean, baselineVars, resultVars, Listed, Compared
  <2>3. JobHasBaselines' /\ CloudShape' /\ CapturedDeployed'
    BY <1>0, <1>1 DEF FrameworkCleanup, JobHasBaselines, CloudShape, CapturedDeployed,
        WellFormed, NoBaseline, IsClean, baselineVars, resultVars, Deployed, Listed, Compared
  <2>4. CleanupJudged' /\ InitBaselineIntact'
    <3>1. pc = "managing" /\ phase = "CLEANUP" /\ pending' = pending \ {x}
          /\ UNCHANGED <<pc, phase, pre, scriptFailed>>
      BY <1>1 DEF FrameworkCleanup, baselineVars
    <3>2. PICK left \in SUBSET cloud[x], scanned \in BOOLEAN :
            /\ WellFormed(left)
            /\ cloud' = [cloud EXCEPT ![x] = left]
            /\ outcome' = [outcome EXCEPT ![x] = IF IsClean(x, left, scanned) THEN "ok" ELSE "failed"]
      BY <1>1 DEF FrameworkCleanup
    <3>3. /\ \A a \in Accounts : cloud'[a] \subseteq cloud[a]
          /\ \A a \in Accounts \ {x} : cloud'[a] = cloud[a] /\ outcome'[a] = outcome[a]
          /\ cloud'[x] = left /\ outcome'[x] \in {"ok", "failed"}
      BY <1>0, <3>2 DEF TypeOK
    <3>4. outcome'[x] = "ok" => left \cap Compared = {}
      <4>1. outcome'[x] = "ok" => IsClean(x, left, scanned)
        BY <1>0, <3>2 DEF TypeOK
      <4>2. pre[x] \in {NoBaseline, {}}
        BY <1>0 DEF InitBaselineIntact
      <4>3. "drift" \in left => "stack" \in left
        BY <3>2 DEF WellFormed
      <4> QED  BY <4>1, <4>2, <4>3 DEF IsClean, Listed, Compared
    <3>5. CleanupJudged'
      BY <1>0, <3>1, <3>3, <3>4 DEF CleanupJudged, Scan
    <3>6. InitBaselineIntact'
      BY <1>0, <3>1, <3>3 DEF InitBaselineIntact
    <3> QED  BY <3>5, <3>6
  <2> QED  BY <2>1, <2>2, <2>3, <2>4 DEF ScenarioInv
<1>2. ASSUME CleanupReturns
      PROVE  ScenarioInv'
  <2>1. TypeOK'
    BY <1>0, <1>2, ManagementOverEffect DEF CleanupReturns, TypeOK, CleanupPassed, Finish,
        cloudVars, baselineVars, Things, Baselines, Phases, Steps, Outcomes, Errors, NoBaseline,
        Listed, Compared
  <2>2. PhaseOfStep' /\ AttemptsLeft' /\ FreshLocals'
    BY <1>0, <1>2, ManagementOverEffect DEF CleanupReturns, PhaseOfStep, AttemptsLeft, FreshLocals,
        CleanupPassed, Finish, cloudVars, baselineVars
  <2>3. JobHasBaselines' /\ CloudShape' /\ CapturedDeployed'
    BY <1>0, <1>2, ManagementOverEffect DEF CleanupReturns, JobHasBaselines, CloudShape,
        CapturedDeployed, CleanupPassed, Finish, cloudVars, baselineVars, NoBaseline, WellFormed,
        Deployed
  <2>4. CleanupJudged' /\ InitBaselineIntact'
    BY <1>0, <1>2, ManagementOverEffect DEF CleanupReturns, TypeOK, PhaseOfStep, CloudShape,
        CleanupJudged, InitBaselineIntact, CleanupPassed, Finish, cloudVars, baselineVars, Things,
        Baselines, Phases, Steps, Outcomes, Errors, WellFormed, Scan, NoBaseline, Listed, Compared
  <2> QED  BY <2>1, <2>2, <2>3, <2>4 DEF ScenarioInv
<1>3. ASSUME DeleteSnapshots
      PROVE  ScenarioInv'
  <2>1. TypeOK'
    BY <1>0, <1>3 DEF DeleteSnapshots, TypeOK, NoBaseline, cloudVars, localVars, resultVars,
        Things, Baselines, Phases, Steps, Outcomes, Errors, Listed, Compared
  <2>2. PhaseOfStep' /\ AttemptsLeft' /\ FreshLocals'
    BY <1>0, <1>3 DEF DeleteSnapshots, PhaseOfStep, AttemptsLeft, FreshLocals, NoBaseline,
        cloudVars, localVars, resultVars
  <2>3. JobHasBaselines' /\ CloudShape' /\ CapturedDeployed'
    BY <1>0, <1>3 DEF DeleteSnapshots, PhaseOfStep, JobHasBaselines, CloudShape,
        CapturedDeployed, NoBaseline, cloudVars, localVars, resultVars, WellFormed, Deployed
  <2>4. CleanupJudged' /\ InitBaselineIntact'
    BY <1>0, <1>3 DEF DeleteSnapshots, CleanupJudged, InitBaselineIntact, NoBaseline, cloudVars,
        localVars, resultVars, Scan, Listed, Compared
  <2> QED  BY <2>1, <2>2, <2>3, <2>4 DEF ScenarioInv
<1>4. ASSUME NEW x \in Accounts, ClearAfterCleanup(x)
      PROVE  ScenarioInv'
  <2>1. TypeOK'
    BY <1>0, <1>4 DEF ClearAfterCleanup, TypeOK, cloudVars, baselineVars, resultVars, Things,
        Baselines, Phases, Steps, Outcomes, Errors, NoBaseline, Listed, Compared
  <2>2. PhaseOfStep' /\ AttemptsLeft' /\ FreshLocals'
    BY <1>0, <1>4 DEF ClearAfterCleanup, PhaseOfStep, AttemptsLeft, FreshLocals, cloudVars,
        baselineVars, resultVars
  <2>3. JobHasBaselines' /\ CloudShape' /\ CapturedDeployed'
    BY <1>0, <1>4 DEF ClearAfterCleanup, JobHasBaselines, CloudShape, CapturedDeployed,
        cloudVars, baselineVars, resultVars, NoBaseline, WellFormed, Deployed
  <2>4. CleanupJudged' /\ InitBaselineIntact'
    BY <1>0, <1>4 DEF ClearAfterCleanup, CleanupJudged, InitBaselineIntact, cloudVars,
        baselineVars, resultVars, Scan, NoBaseline, Listed, Compared
  <2> QED  BY <2>1, <2>2, <2>3, <2>4 DEF ScenarioInv
<1>5. ASSUME FlagsCleared
      PROVE  ScenarioInv'
  <2>1. TypeOK'
    BY <1>0, <1>5, ManagementOverEffect DEF FlagsCleared, TypeOK, Finish, cloudVars, baselineVars,
        localVars, Things, Baselines, Phases, Steps, Outcomes, Errors, NoBaseline, Listed, Compared
  <2>2. PhaseOfStep' /\ AttemptsLeft' /\ FreshLocals'
    BY <1>0, <1>5, ManagementOverEffect DEF FlagsCleared, PhaseOfStep, AttemptsLeft, FreshLocals,
        Finish, cloudVars, baselineVars, localVars
  <2>3. JobHasBaselines' /\ CloudShape' /\ CapturedDeployed'
    BY <1>0, <1>5, ManagementOverEffect DEF FlagsCleared, JobHasBaselines, CloudShape,
        CapturedDeployed, Finish, cloudVars, baselineVars, localVars, NoBaseline, WellFormed,
        Deployed
  <2>4. CleanupJudged' /\ InitBaselineIntact'
    BY <1>0, <1>5, ManagementOverEffect DEF FlagsCleared, CleanupJudged, InitBaselineIntact,
        Finish, cloudVars, baselineVars, localVars, Scan, NoBaseline, Listed, Compared
  <2> QED  BY <2>1, <2>2, <2>3, <2>4 DEF ScenarioInv
<1> QED  BY <1>1, <1>2, <1>3, <1>4, <1>5

LEMMA StepKeepsScenarioInv == ScenarioInv /\ [Next]_vars => ScenarioInv'
<1> SUFFICES ASSUME ScenarioInv, [Next]_vars PROVE ScenarioInv'
  OBVIOUS
<1>1. CASE Next
  BY <1>1, StartKeepsInv, PhaseKeepsInv, ResetKeepsInv, CleanupKeepsInv DEF Next, Advance
<1>2. CASE UNCHANGED vars
  BY <1>2 DEF vars, ScenarioInv, TypeOK, PhaseOfStep, AttemptsLeft, FreshLocals, JobHasBaselines,
     CloudShape, CapturedDeployed, Deployed, CleanupJudged, InitBaselineIntact, Scan
<1> QED  BY <1>1, <1>2

LEMMA InitHasScenarioInv == Init => ScenarioInv
<1> SUFFICES ASSUME Init PROVE ScenarioInv
  OBVIOUS
<1>1. \A a \in Accounts : /\ cloud[a] = {} /\ outcome[a] = "none"
                          /\ pre[a] = NoBaseline /\ post[a] = NoBaseline
  BY DEF Init
<1>2. /\ cloud \in [Accounts -> SUBSET Things] /\ outcome \in [Accounts -> Outcomes]
      /\ pre \in [Accounts -> Baselines] /\ post \in [Accounts -> Baselines]
  BY DEF Init, Outcomes, Baselines
<1>3. TypeOK
  <2>1. attempts \in 0..(MaxRedeploys - 1)
    BY ScenarioAssumption DEF Init
  <2>2. /\ stale = {} /\ flagged = {} /\ pending = {} /\ lost = {}
        /\ phase = "NONE" /\ pc = "idle" /\ error = "none" /\ container = "down"
    BY DEF Init
  <2>3. job = FALSE /\ skip = FALSE /\ scriptFailed = FALSE /\ clearFailed = FALSE /\ cancelled = FALSE
    BY DEF Init
  <2> QED  BY <1>2, <2>1, <2>2, <2>3 DEF TypeOK, Errors
<1>4. PhaseOfStep /\ AttemptsLeft /\ FreshLocals /\ JobHasBaselines
  BY <1>1 DEF Init, PhaseOfStep, AttemptsLeft, FreshLocals, JobHasBaselines
<1>5. CloudShape /\ CapturedDeployed /\ CleanupJudged /\ InitBaselineIntact
  BY <1>1 DEF Init, CloudShape, WellFormed, CapturedDeployed, CleanupJudged, InitBaselineIntact
<1> QED  BY <1>3, <1>4, <1>5 DEF ScenarioInv

LEMMA ScenarioInvariant == Spec => []ScenarioInv
  BY InitHasScenarioInv, StepKeepsScenarioInv, PTL DEF Spec

-----------------------------------------------------------------------------
(* What a reset knows until it has told it to the flags *)

\* The reset works on the accounts, redeploys them and writes their flags.
Resetting == phase = "RESET" /\ pc \in {"managing", "redeploying", "recapturing", "tagging"}

\* reset.sh undoes every hidden change, unless it failed.
ScriptUndone == Resetting /\ ~scriptFailed => \A a \in Accounts : "hidden" \notin cloud[a]

\* The account holds nothing that its baseline does not list.
Kept(a) == post[a] # NoBaseline /\ cloud[a] \cap Listed \subseteq post[a]

\* A result of the framework's reset is true of its account: "ok" of a verified one, until
\* the redeploy of the others, after which it takes that no account failed.
ResultsTrue ==
  Resetting /\ ~skip =>
    /\ \A a \in Accounts :
         /\ outcome[a] = "none" => pc = "managing" /\ a \in pending
         /\ outcome[a] = "redeploy" => pc # "tagging"
         /\ outcome[a] \in {"ok", "redeploy"} => Kept(a)
         /\ outcome[a] = "ok" /\ pc # "tagging" => Verifies(a)
    /\ pc = "tagging" /\ (\A a \in Accounts : outcome[a] # "failed") =>
         \A a \in Accounts : Verifies(a)

\* No account has been passed over when the tags are due, and with a skipped framework reset
\* they are due only because the script failed.
TagsDue ==
  /\ pc \in {"redeploying", "recapturing"} => ~skip /\ pending = Accounts
  /\ pc = "managing" /\ phase = "RESET" /\ skip => pending = Accounts
  /\ pc = "tagging" /\ skip => scriptFailed

\* What the loop over the tags has done to the accounts that it has reached.
TagsTold ==
  pc = "tagging" => \A a \in Accounts \ pending :
    IF MustMark(a) THEN a \in flagged \cup lost ELSE a \in flagged => clearFailed

SettlingInv ==
  /\ ScriptUndone /\ ResultsTrue /\ TagsDue /\ TagsTold
  /\ SettledResetAccounted /\ SuccessMeansDone /\ ContainerAccounted

\* The steps after which the reset is not at work and no result is out yet.
LEMMA SettledElsewhere ==
  ASSUME ContainerAccounted',
         \/ pc' \in {"idle", "sweeping", "script", "dropping", "clearing"}
         \/ pc' = "managing" /\ phase' # "RESET"
  PROVE  SettlingInv'
BY DEF SettlingInv, Resetting, ScriptUndone, ResultsTrue, TagsDue, TagsTold,
       SettledResetAccounted, SuccessMeansDone

\* The steps that come to a result.
LEMMA SettledStopping ==
  ASSUME pc' = "stopping", SettledResetAccounted', SuccessMeansDone'
  PROVE  SettlingInv'
BY DEF SettlingInv, Resetting, ScriptUndone, ResultsTrue, TagsDue, TagsTold,
       ContainerAccounted

\* The steps of a reset.
LEMMA SettledResetting ==
  ASSUME pc' \in {"managing", "redeploying", "recapturing", "tagging"},
         ScriptUndone', ResultsTrue', TagsDue', TagsTold'
  PROVE  SettlingInv'
BY DEF SettlingInv, SettledResetAccounted, SuccessMeansDone, ContainerAccounted

LEMMA StartKeepsSettling ==
  ASSUME ScenarioInv, SettlingInv,
         \/ \E x \in Phases : EnvCommand(x)
         \/ \E x \in Accounts : CapturePreSetup(x)
         \/ StartJob \/ EndJob
         \/ MutatingTrial \/ SelfRestoringTrial \/ RefusedTrial \/ CancelledTrial
  PROVE  SettlingInv'
<1>1. pc' \in {"idle", "sweeping", "script"}
  BY DEF EnvCommand, CapturePreSetup, StartJob, EndJob, MutatingTrial, SelfRestoringTrial,
         RefusedTrial, CancelledTrial, Start
<1>2. pc' = "idle" => pc = "idle" /\ (container' = "up" => container = "up" /\ error' = error)
  BY DEF EnvCommand, CapturePreSetup, StartJob, EndJob, MutatingTrial, SelfRestoringTrial,
         RefusedTrial, CancelledTrial, Start, resultVars
<1>3. ContainerAccounted'
  BY <1>2 DEF SettlingInv, ContainerAccounted
<1> QED  BY <1>1, <1>3, SettledElsewhere

\* The script of a reset undoes what neither a scan nor a drift detection sees.
LEMMA ScriptSettles ==
  ASSUME ScenarioInv, SettlingInv, ScriptSucceeds \/ ScriptFails \/ NoScript
  PROVE  SettlingInv'
<1>1. pc = "script" /\ pc' = "managing" /\ phase' = phase /\ pending' = Accounts
      /\ skip' = skip /\ outcome' = outcome
  BY DEF ScriptSucceeds, ScriptFails, NoScript
<1>2. CASE phase # "RESET"
  <2>1. ContainerAccounted'
    BY <1>1 DEF ContainerAccounted
  <2> QED  BY <1>1, <1>2, <2>1, SettledElsewhere
<1>3. CASE phase = "RESET"
  <2>1. ScriptUndone'
    <3>1. CASE ScriptSucceeds
      <4>1. cloud' = [a \in Accounts |-> cloud[a] \ {"hidden"}]
        BY <1>3, <3>1 DEF ScriptSucceeds, ScriptEffect
      <4> QED  BY <4>1 DEF ScriptUndone
    <3>2. CASE ScriptFails
      BY <3>2 DEF ScriptFails, ScriptUndone
    <3>3. CASE NoScript
      <4>1. "RESET" \notin Scripts /\ cloud' = cloud
        BY <1>3, <3>3 DEF NoScript, HasPhaseScript, cloudVars
      <4> QED  BY <4>1 DEF ScenarioInv, CloudShape, ScriptUndone
    <3> QED  BY <3>1, <3>2, <3>3
  <2>2. \A a \in Accounts : outcome[a] = "none"
    BY <1>1 DEF ScenarioInv, FreshLocals
  <2>3. ResultsTrue'
    BY <1>1, <2>2 DEF ResultsTrue
  <2>4. TagsDue' /\ TagsTold'
    BY <1>1 DEF TagsDue, TagsTold
  <2> QED  BY <1>1, <2>1, <2>3, <2>4, SettledResetting
<1> QED  BY <1>2, <1>3

\* The deploy's snapshot, the verification and the end of a run.
LEMMA PhaseSettles ==
  ASSUME ScenarioInv, SettlingInv,
         PreCleanupSweep \/ Snapshot \/ Verify \/ Cancel \/ StopContainer
  PROVE  SettlingInv'
<1>1. CASE PreCleanupSweep
  BY <1>1, SettledElsewhere DEF PreCleanupSweep, ContainerAccounted
<1>2. CASE Snapshot
  <2>1. pc' = "stopping" /\ phase = "DEPLOY" /\ phase' = phase /\ cloud' = cloud
    BY <1>2 DEF Snapshot, Finish
  <2>2. ASSUME error' = "none", NEW a \in Accounts
        PROVE  "stack" \in cloud[a] /\ post'[a] = Scan(a) /\ a \notin stale'
    <3>1. ~scriptFailed /\ Capture(Accounts)
      BY <1>2, <2>2 DEF Snapshot, Finish
    <3>2. Deployed
      BY <1>2, <3>1 DEF Snapshot, ScenarioInv, CapturedDeployed
    <3> QED  BY <3>1, <3>2 DEF Capture, Deployed
  <2>3. SuccessMeansDone'
    BY <2>1, <2>2 DEF SuccessMeansDone, Scan
  <2> QED  BY <2>1, <2>3, SettledStopping DEF SettledResetAccounted
<1>3. CASE Verify
  <2>1. pc' = "stopping" /\ phase = "VERIFY" /\ phase' = phase /\ UNCHANGED <<cloud, stale, post>>
    BY <1>3 DEF Verify, Finish, cloudVars, baselineVars
  <2>2. error' = "none" => \A a \in Accounts : Verifies(a)
    BY <1>3 DEF Verify, Finish
  <2>3. SuccessMeansDone'
    BY <2>1, <2>2 DEF SuccessMeansDone, Verifies, Scan
  <2> QED  BY <2>1, <2>3, SettledStopping DEF SettledResetAccounted
<1>4. CASE Cancel
  BY <1>4, SettledStopping DEF Cancel, SettledResetAccounted, SuccessMeansDone
<1>5. CASE StopContainer
  <2>1. pc' = "idle" /\ (container' = "up" => error' # "none")
    BY <1>5 DEF StopContainer, RecordStop
  <2> QED  BY <2>1, SettledElsewhere DEF ContainerAccounted
<1> QED  BY <1>1, <1>2, <1>3, <1>4, <1>5

LEMMA CleanupSettles ==
  ASSUME ScenarioInv, SettlingInv,
         \/ \E x \in Accounts : FrameworkCleanup(x) \/ ClearAfterCleanup(x)
         \/ CleanupReturns \/ DeleteSnapshots \/ FlagsCleared
  PROVE  SettlingInv'
<1>1. CASE \/ \E x \in Accounts : FrameworkCleanup(x) \/ ClearAfterCleanup(x)
           \/ DeleteSnapshots
  <2>1. pc' \in {"clearing"} \/ (pc' = "managing" /\ phase' # "RESET")
    BY <1>1 DEF FrameworkCleanup, ClearAfterCleanup, DeleteSnapshots
  <2> QED  BY <2>1, SettledElsewhere DEF ContainerAccounted
<1>2. CASE CleanupReturns
  <2>1. phase' = "CLEANUP"
    BY <1>2 DEF CleanupReturns
  <2>2. CASE CleanupPassed
    BY <1>2, <2>1, <2>2, SettledElsewhere DEF CleanupReturns, ContainerAccounted
  <2>3. CASE ~CleanupPassed
    <3>1. pc' = "stopping" /\ error' # "none"
      BY <1>2, <2>3 DEF CleanupReturns, CleanupPassed, Finish
    <3> QED  BY <2>1, <3>1, SettledStopping DEF SettledResetAccounted, SuccessMeansDone
  <2> QED  BY <2>2, <2>3
<1>3. CASE FlagsCleared
  <2>1. pc' = "stopping" /\ phase' = "CLEANUP" /\ cloud' = cloud
    BY <1>3 DEF FlagsCleared, Finish, cloudVars, ScenarioInv, PhaseOfStep
  <2>2. \A a \in Accounts : cloud[a] = {}
    BY <1>3 DEF FlagsCleared, ScenarioInv, CleanupJudged
  <2> QED  BY <2>1, <2>2, SettledStopping DEF SettledResetAccounted, SuccessMeansDone
<1> QED  BY <1>1, <1>2, <1>3

\* A scan is a set of resources, and so never the absent baseline.
LEMMA ScanIsBaseline ==
  ASSUME TypeOK, NEW a \in Accounts
  PROVE  Scan(a) # NoBaseline
<1>1. "absent" \notin cloud[a]
  BY DEF TypeOK, Things
<1> QED  BY <1>1 DEF Scan, NoBaseline

\* What a reset at work knows of its results.
LEMMA ResultsKnown ==
  ASSUME ScenarioInv, SettlingInv, Resetting, ~skip, NEW a \in Accounts
  PROVE  /\ outcome[a] \in {"none", "ok", "redeploy", "failed"}
         /\ outcome[a] = "none" => pc = "managing" /\ a \in pending
         /\ outcome[a] = "redeploy" => pc # "tagging"
         /\ outcome[a] \in {"ok", "redeploy"} => Kept(a)
         /\ outcome[a] = "ok" /\ pc # "tagging" => Verifies(a)
BY DEF ScenarioInv, TypeOK, Outcomes, SettlingInv, ResultsTrue

\* A deploy leaves a verified account as it is, and an account that holds nothing new so.
LEMMA DeployKeeps ==
  ASSUME ScenarioInv, NEW reached \in SUBSET Accounts, Deploy(reached), post' = post,
         NEW a \in Accounts
  PROVE  /\ Kept(a) => Kept(a)'
         /\ Verifies(a) => Verifies(a)'
         /\ "hidden" \notin cloud[a] => "hidden" \notin cloud'[a]
<1>1. TypeOK /\ CapturedDeployed
  BY DEF ScenarioInv
<1>2. cloud'[a] \in {cloud[a], cloud[a] \cup {"stack"}}
  BY <1>1, DeployEffect
<1>3. post[a] # NoBaseline => "stack" \in post[a]
  BY <1>1 DEF CapturedDeployed
<1>4. Kept(a) => Kept(a)'
  BY <1>2, <1>3 DEF Kept, Listed
<1>5. ASSUME Verifies(a) PROVE Verifies(a)'
  <2>1. "stack" \in cloud[a]
    BY <1>3, <1>5 DEF Verifies, Scan
  <2>2. cloud'[a] = cloud[a]
    BY <1>2, <2>1
  <2>3. a \notin stale'
    BY <1>5, <2>1 DEF Deploy, Verifies
  <2> QED  BY <1>5, <2>2, <2>3 DEF Verifies, Scan
<1>6. "hidden" \notin cloud[a] => "hidden" \notin cloud'[a]
  BY <1>2
<1> QED  BY <1>4, <1>5, <1>6

\* The framework's reset of an account reports what it leaves of it.
LEMMA FrameworkResetSettles ==
  ASSUME ScenarioInv, SettlingInv, NEW x \in Accounts, FrameworkReset(x)
  PROVE  SettlingInv'
<1>1. /\ pc = "managing" /\ phase = "RESET" /\ ~skip /\ pending' = pending \ {x}
      /\ UNCHANGED <<stale, post, phase, pc, skip, scriptFailed>>
  BY DEF FrameworkReset, baselineVars
<1>2. PICK r \in {"ok", "redeploy", "failed"}, left \in SUBSET cloud[x] :
        /\ ResetLeaves(x, r, left)
        /\ cloud' = [cloud EXCEPT ![x] = left]
        /\ outcome' = [outcome EXCEPT ![x] = r]
  BY DEF FrameworkReset
<1>3. /\ cloud'[x] = left /\ outcome'[x] = r
      /\ \A a \in Accounts \ {x} : cloud'[a] = cloud[a] /\ outcome'[a] = outcome[a]
      /\ \A a \in Accounts : cloud'[a] \subseteq cloud[a]
  BY <1>2 DEF ScenarioInv, TypeOK
<1>4. ScriptUndone'
  BY <1>1, <1>3 DEF SettlingInv, ScriptUndone, Resetting
<1>5. ASSUME NEW a \in Accounts
      PROVE  /\ outcome'[a] = "none" => a \in pending'
             /\ outcome'[a] \in {"ok", "redeploy"} => Kept(a)'
             /\ outcome'[a] = "ok" => Verifies(a)'
  <2>1. CASE a = x
    <3>1. r # "failed" => post[x] # NoBaseline /\ left \cap Listed \subseteq post[x]
      BY <1>2 DEF ResetLeaves, Listed, Compared
    <3>2. r = "ok" => post[x] # NoBaseline /\ left \cap Compared = post[x] /\ x \notin stale
      BY <1>2 DEF ResetLeaves
    <3> QED  BY <1>1, <1>3, <2>1, <3>1, <3>2 DEF Kept, Verifies, Scan
  <2>2. CASE a # x
    BY <1>1, <1>3, <2>2, ResultsKnown DEF Resetting, Kept, Verifies, Scan
  <2> QED  BY <2>1, <2>2
<1>6. ResultsTrue'
  BY <1>1, <1>5 DEF ResultsTrue
<1>7. TagsDue' /\ TagsTold'
  BY <1>1 DEF TagsDue, TagsTold
<1> QED  BY <1>1, <1>4, <1>6, <1>7, SettledResetting

\* What has been reset is redeployed or tagged.
LEMMA ResetReturnsSettles ==
  ASSUME ScenarioInv, SettlingInv, ResetReturns
  PROVE  SettlingInv'
<1>1. /\ pc = "managing" /\ phase = "RESET" /\ ~skip /\ pending = {} /\ pending' = Accounts
      /\ UNCHANGED <<cloud, stale, post, phase, skip, scriptFailed, outcome>>
      /\ pc' = IF NeedsRedeploy THEN "redeploying" ELSE "tagging"
  BY DEF ResetReturns, cloudVars, baselineVars
<1>2. ScriptUndone'
  BY <1>1 DEF SettlingInv, ScriptUndone, Resetting
<1>3. \A a \in Accounts : /\ outcome[a] \in {"ok", "redeploy", "failed"}
                          /\ outcome[a] \in {"ok", "redeploy"} => Kept(a)
                          /\ outcome[a] = "ok" => Verifies(a)
                          /\ outcome[a] = "redeploy" => pc' = "redeploying"
  BY <1>1, ResultsKnown DEF Resetting, NeedsRedeploy
<1>4. ResultsTrue'
  BY <1>1, <1>3 DEF ResultsTrue, Kept, Verifies, Scan
<1>5. TagsDue' /\ TagsTold'
  BY <1>1 DEF TagsDue, TagsTold
<1> QED  BY <1>1, <1>2, <1>4, <1>5, SettledResetting

\* An attempt to redeploy, successful or not.
LEMMA RedeploySettles ==
  ASSUME ScenarioInv, SettlingInv, RedeploySucceeds \/ RedeployFails
  PROVE  SettlingInv'
<1>1. /\ pc = "redeploying" /\ pc' \in {"redeploying", "recapturing", "tagging"}
      /\ UNCHANGED <<post, phase, skip, scriptFailed, pending>>
  BY DEF RedeploySucceeds, RedeployFails, baselineVars
<1>2. phase = "RESET" /\ ~skip /\ pending = Accounts /\ Resetting
  BY <1>1 DEF ScenarioInv, PhaseOfStep, SettlingInv, TagsDue, Resetting
<1>3. PICK reached \in SUBSET Accounts : Deploy(reached)
  BY DEF RedeploySucceeds, RedeployFails
<1>4. \A a \in Accounts : /\ Kept(a) => Kept(a)'
                          /\ Verifies(a) => Verifies(a)'
                          /\ "hidden" \notin cloud[a] => "hidden" \notin cloud'[a]
  BY <1>1, <1>3, DeployKeeps
<1>5. ScriptUndone'
  BY <1>1, <1>2, <1>4 DEF SettlingInv, ScriptUndone
<1>6. \A a \in Accounts : /\ outcome[a] \in {"ok", "redeploy", "failed"}
                          /\ outcome[a] \in {"ok", "redeploy"} => Kept(a)'
                          /\ outcome[a] = "ok" => Verifies(a)'
  BY <1>1, <1>2, <1>4, ResultsKnown
<1>7. ResultsTrue'
  <2>1. CASE outcome' = outcome /\ pc' # "tagging"
    BY <1>1, <1>6, <2>1 DEF ResultsTrue
  <2>2. CASE pc' = "tagging" /\ Redeployed("failed")
    <3>1. \A a \in Accounts : /\ outcome'[a] \in {"ok", "failed"}
                              /\ outcome'[a] = "ok" => outcome[a] = "ok"
      BY <1>6, <2>2 DEF Redeployed
    <3> QED  BY <1>1, <1>6, <2>2, <3>1 DEF ResultsTrue
  <2>3. RedeploySucceeds => outcome' = outcome /\ pc' = "recapturing"
    BY DEF RedeploySucceeds
  <2>4. RedeployFails => \/ pc' = "tagging" /\ Redeployed("failed")
                         \/ outcome' = outcome /\ pc' = pc
    BY DEF RedeployFails
  <2> QED  BY <1>1, <2>1, <2>2, <2>3, <2>4
<1>8. TagsDue' /\ TagsTold'
  BY <1>1, <1>2 DEF TagsDue, TagsTold
<1> QED  BY <1>1, <1>5, <1>7, <1>8, SettledResetting

\* The recapture takes no account for verified that it has not captured, or that was not before.
LEMMA RecaptureSettles ==
  ASSUME ScenarioInv, SettlingInv, Recapture
  PROVE  SettlingInv'
<1>1. /\ pc = "recapturing" /\ pc' = "tagging"
      /\ UNCHANGED <<cloud, phase, skip, scriptFailed, pending>>
  BY DEF Recapture
<1>2. phase = "RESET" /\ ~skip /\ pending = Accounts /\ Resetting
  BY <1>1 DEF ScenarioInv, PhaseOfStep, SettlingInv, TagsDue, Resetting
<1>3. ScriptUndone'
  BY <1>1, <1>2 DEF SettlingInv, ScriptUndone
<1>4. \A a \in Accounts : /\ outcome[a] \in {"ok", "redeploy", "failed"}
                          /\ outcome[a] \in {"ok", "redeploy"} => Kept(a)
                          /\ outcome[a] = "ok" => Verifies(a)
  BY <1>1, <1>2, ResultsKnown
<1>5. CASE RecaptureAllowed
  <2>1. PICK captured \in SUBSET Accounts :
          /\ Capture(captured)
          /\ Redeployed(IF captured = Accounts THEN "ok" ELSE "failed")
    BY <1>5 DEF Recapture
  <2>2. \A a \in Accounts : Scan(a) # NoBaseline
    BY ScanIsBaseline DEF ScenarioInv
  <2>3. ASSUME NEW a \in Accounts
        PROVE  /\ outcome'[a] # "none" /\ outcome'[a] # "redeploy"
               /\ Kept(a)'
               /\ captured = Accounts \/ outcome[a] = "ok" => Verifies(a)'
               /\ captured # Accounts /\ outcome[a] # "ok" => outcome'[a] = "failed"
    <3>1. post'[a] = IF a \in captured THEN Scan(a) ELSE post[a]
      BY <2>1 DEF Capture
    <3>2. a \in captured => a \notin stale'
      BY <2>1 DEF Capture
    <3>3. a \in stale' => a \in stale
      BY <2>1 DEF Capture
    <3>4. outcome[a] \in {"ok", "redeploy"}
      BY <1>4, <1>5 DEF RecaptureAllowed
    <3>5. outcome'[a] = IF outcome[a] = "redeploy"
                        THEN (IF captured = Accounts THEN "ok" ELSE "failed") ELSE outcome[a]
      BY <2>1 DEF Redeployed
    <3>6. Kept(a)'
      BY <1>1, <1>4, <2>2, <3>1, <3>4 DEF Kept, Scan, Listed, Compared
    <3>7. a \in captured => Verifies(a)'
      BY <1>1, <2>2, <3>1, <3>2 DEF Verifies, Scan
    <3>8. a \notin captured /\ outcome[a] = "ok" => Verifies(a)'
      BY <1>1, <1>4, <3>1, <3>3 DEF Verifies, Scan
    <3> QED  BY <3>4, <3>5, <3>6, <3>7, <3>8
  <2>4. ResultsTrue'
    BY <1>1, <2>3 DEF ResultsTrue
  <2> QED  BY <1>1, <1>2, <1>3, <2>4, SettledResetting DEF TagsDue, TagsTold
<1>6. CASE ~RecaptureAllowed
  <2>1. Redeployed("ok") /\ post' = post /\ stale' = stale
    BY <1>6 DEF Recapture
  <2>2. PICK b \in Accounts : outcome[b] = "failed"
    BY <1>6 DEF RecaptureAllowed
  <2>3. \A a \in Accounts : /\ outcome'[a] \in {"ok", "failed"}
                            /\ outcome'[a] = "ok" => Kept(a)
    BY <1>4, <2>1 DEF Redeployed
  <2>4. outcome'[b] = "failed"
    BY <2>1, <2>2 DEF Redeployed
  <2>5. ResultsTrue'
    BY <1>1, <2>1, <2>3, <2>4 DEF ResultsTrue, Kept
  <2> QED  BY <1>1, <1>2, <1>3, <2>5, SettledResetting DEF TagsDue, TagsTold
<1> QED  BY <1>5, <1>6

\* A tag is written or its failure is remembered.
LEMMA TagSettles ==
  ASSUME ScenarioInv, SettlingInv, NEW x \in Accounts, Tag(x)
  PROVE  SettlingInv'
<1>1. /\ pc = "tagging" /\ x \in pending /\ pending' = pending \ {x}
      /\ UNCHANGED <<cloud, stale, post, phase, pc, skip, scriptFailed, outcome>>
  BY DEF Tag, cloudVars, baselineVars
<1>2. ScriptUndone' /\ TagsDue'
  BY <1>1 DEF SettlingInv, ScriptUndone, Resetting, TagsDue
<1>3. ResultsTrue'
  BY <1>1 DEF SettlingInv, ResultsTrue, Resetting, Kept, Verifies, Scan
<1>4. ASSUME NEW a \in Accounts \ pending'
      PROVE  /\ MustMark(a) => a \in flagged' \cup lost'
             /\ ~MustMark(a) /\ a \in flagged' => clearFailed'
  <2>1. CASE a = x
    BY <2>1 DEF Tag
  <2>2. CASE a # x
    <3>1. a \in Accounts \ pending
      BY <1>1, <2>2
    <3>2. /\ MustMark(a) => a \in flagged \cup lost
          /\ ~MustMark(a) /\ a \in flagged => clearFailed
      BY <1>1, <3>1 DEF SettlingInv, TagsTold
    <3>3. flagged' \in {flagged, flagged \cup {x}, flagged \ {x}} /\ lost \subseteq lost'
      BY DEF Tag
    <3>4. clearFailed => clearFailed'
      BY DEF Tag
    <3> QED  BY <2>2, <3>2, <3>3, <3>4
  <2> QED  BY <2>1, <2>2
<1>5. TagsTold'
  BY <1>1, <1>4 DEF TagsTold, MustMark
<1> QED  BY <1>1, <1>2, <1>3, <1>5, SettledResetting

\* A skipped framework reset ends the run, or flags the accounts whose script failed.
LEMMA SkipSettles ==
  ASSUME ScenarioInv, SettlingInv, SkipFrameworkReset
  PROVE  SettlingInv'
<1>1. pc = "managing" /\ phase = "RESET" /\ skip
      /\ UNCHANGED <<cloud, phase, skip>>
  BY DEF SkipFrameworkReset, cloudVars
<1>2. CASE scriptFailed
  <2>1. pc' = "tagging" /\ scriptFailed' /\ pending' = pending
    BY <1>2 DEF SkipFrameworkReset
  <2>2. pending = Accounts
    BY <1>1 DEF SettlingInv, TagsDue
  <2> QED  BY <1>1, <2>1, <2>2, SettledResetting DEF ScriptUndone, ResultsTrue, TagsDue, TagsTold
<1>3. CASE ~scriptFailed
  <2>1. pc' = "stopping"
    BY <1>3 DEF SkipFrameworkReset, Finish
  <2> QED  BY <1>1, <2>1, SettledStopping DEF SettledResetAccounted, SuccessMeansDone
<1> QED  BY <1>2, <1>3

\* When all tags are told, every account is restored, or one is flagged or lost its flag.
LEMMA TagsAppliedSettles ==
  ASSUME ScenarioInv, SettlingInv, TagsApplied
  PROVE  SettlingInv'
<1>1. /\ pc = "tagging" /\ pending = {} /\ pc' = "stopping"
      /\ UNCHANGED <<cloud, stale, post, phase, skip, flagged, lost>>
  BY DEF TagsApplied, Finish, cloudVars, baselineVars
<1>2. phase = "RESET" /\ Resetting
  BY <1>1 DEF ScenarioInv, PhaseOfStep, Resetting
<1>3. \A a \in Accounts : /\ MustMark(a) => a \in flagged \cup lost
                          /\ ~MustMark(a) /\ a \in flagged => clearFailed
  BY <1>1 DEF SettlingInv, TagsTold
<1>4. (\A a \in Accounts : ~MustMark(a)) => \A a \in Accounts : ~skip => Restored(a)
  <2> SUFFICES ASSUME \A a \in Accounts : ~MustMark(a), ~skip, NEW a \in Accounts
               PROVE  Restored(a)
    OBVIOUS
  <2>1. ~scriptFailed /\ \A b \in Accounts : outcome[b] # "failed"
    BY DEF MustMark
  <2> QED  BY <1>1, <1>2, <2>1 DEF SettlingInv, ScriptUndone, ResultsTrue, Restored
<1>5. SettledResetAccounted'
  BY <1>1, <1>3, <1>4 DEF SettledResetAccounted, Restored, Verifies, Scan
<1>6. error' = "none" => \A a \in Accounts : ~MustMark(a) /\ a \notin flagged
  <2>1. error' = "none" => ~ResetFailed /\ ~scriptFailed
    BY DEF TagsApplied, Finish
  <2> QED  BY <1>3, <2>1 DEF ResetFailed, MustMark
<1>7. SuccessMeansDone'
  BY <1>1, <1>2, <1>4, <1>6 DEF SuccessMeansDone, Restored, Verifies, Scan
<1> QED  BY <1>1, <1>5, <1>7, SettledStopping

LEMMA StepKeepsSettling ==
  ASSUME ScenarioInv, SettlingInv, [Next]_vars
  PROVE  SettlingInv'
<1>1. CASE Next
  BY <1>1, StartKeepsSettling, ScriptSettles, PhaseSettles, CleanupSettles,
     FrameworkResetSettles, ResetReturnsSettles, RedeploySettles, RecaptureSettles, TagSettles,
     SkipSettles, TagsAppliedSettles DEF Next, Advance
<1>2. CASE UNCHANGED vars
  BY <1>2 DEF vars, SettlingInv, Resetting, ScriptUndone, ResultsTrue, TagsDue, TagsTold,
     SettledResetAccounted, SuccessMeansDone, ContainerAccounted, Kept, Verifies, Restored, Scan,
     MustMark
<1> QED  BY <1>1, <1>2

LEMMA InitHasSettlingInv == Init => SettlingInv
BY DEF Init, SettlingInv, Resetting, ScriptUndone, ResultsTrue, TagsDue, TagsTold,
       SettledResetAccounted, SuccessMeansDone, ContainerAccounted

-----------------------------------------------------------------------------
(* Theorems *)

\* Every variable keeps its kind; the redeploy makes at most _REDEPLOY_MAX_ATTEMPTS
\* attempts, however they fail.
THEOREM ScenarioTypes == Spec => []TypeOK
<1>1. ScenarioInv => TypeOK  BY DEF ScenarioInv
<1> QED  BY <1>1, ScenarioInvariant, PTL

\* An init baseline never lists what a deploy or a task made, and it is deleted only
\* with the account empty, through failed, cancelled and repeated runs.
THEOREM InitBaselinesStayPristine == Spec => []InitBaselineIntact
<1>1. ScenarioInv => InitBaselineIntact  BY DEF ScenarioInv
<1> QED  BY <1>1, ScenarioInvariant, PTL

\* Of a flagged scenario only a reset or a cleanup changes an account: the gates of
\* the deploy and of the trials are the only ways past a flag, and both are shut.
THEOREM FlagsFreezeScenario == Spec => FlaggedScenarioFrozen
<1>1. ScenarioInv /\ [Next]_vars =>
        [(flagged # {} /\ cloud' # cloud) => phase \in {"RESET", "CLEANUP"}]_vars
  <2> SUFFICES ASSUME ScenarioInv, Next, flagged # {}, cloud' # cloud
               PROVE  phase \in {"RESET", "CLEANUP"}
    BY DEF vars
  <2>1. PhaseOfStep
    BY DEF ScenarioInv
  <2>2. CASE \/ PreCleanupSweep \/ RedeploySucceeds \/ RedeployFails
    BY <2>1, <2>2 DEF PhaseOfStep, PreCleanupSweep, RedeploySucceeds, RedeployFails
  <2>3. CASE \E a \in Accounts : FrameworkReset(a) \/ FrameworkCleanup(a)
    BY <2>3 DEF FrameworkReset, FrameworkCleanup
  <2>4. CASE ScriptSucceeds \/ ScriptFails
    <3>1. CASE phase = "DEPLOY"
      <4>1. ~DeployAdmitted(TRUE)
        BY DEF DeployAdmitted
      <4>2. Deploy({})
        BY <2>4, <3>1, <4>1 DEF ScriptSucceeds, ScriptFails, ScriptEffect
      <4>3. TypeOK /\ {} \in SUBSET Accounts
        BY DEF ScenarioInv
      <4>4. cloud' = cloud
        BY <4>2, <4>3, DeployEffect DEF TypeOK
      <4> QED  BY <4>4
    <3>2. CASE phase \notin {"DEPLOY", "RESET", "CLEANUP"}
      BY <2>4, <3>2 DEF ScriptSucceeds, ScriptFails, ScriptEffect, cloudVars
    <3> QED  BY <3>1, <3>2
  <2>5. CASE MutatingTrial \/ CancelledTrial
    BY <2>5 DEF MutatingTrial, CancelledTrial, TrialAdmitted
  <2>6. CASE \/ \E ph \in Phases : EnvCommand(ph)
             \/ \E a \in Accounts : CapturePreSetup(a) \/ Tag(a) \/ ClearAfterCleanup(a)
             \/ StartJob \/ EndJob \/ SelfRestoringTrial \/ RefusedTrial \/ Cancel
             \/ NoScript \/ Snapshot \/ Verify \/ SkipFrameworkReset \/ ResetReturns
             \/ Recapture \/ TagsApplied \/ CleanupReturns \/ DeleteSnapshots
             \/ FlagsCleared \/ StopContainer
    BY <2>6 DEF EnvCommand, CapturePreSetup, Tag, ClearAfterCleanup, StartJob, EndJob,
       SelfRestoringTrial, RefusedTrial, Cancel, NoScript, Snapshot, Verify, SkipFrameworkReset,
       ResetReturns, Recapture, TagsApplied, CleanupReturns, DeleteSnapshots, FlagsCleared,
       StopContainer, cloudVars
  <2> QED  BY <2>2, <2>3, <2>4, <2>5, <2>6 DEF Next, Advance
<1> QED  BY <1>1, ScenarioInvariant, PTL DEF Spec, FlaggedScenarioFrozen

\* The inductive invariant of a reset: what is known of every account while it is reset,
\* redeployed, captured again and tagged (ResultsTrue, ScriptUndone), which accounts the flags
\* have been told of (TagsDue, TagsTold), and what a run that is over has reported.
THEOREM SettlingInvariant == Spec => [](ScenarioInv /\ SettlingInv)
<1>1. Init => ScenarioInv /\ SettlingInv
  BY InitHasScenarioInv, InitHasSettlingInv
<1>2. (ScenarioInv /\ SettlingInv) /\ [Next]_vars => (ScenarioInv /\ SettlingInv)'
  BY StepKeepsScenarioInv, StepKeepsSettling
<1> QED  BY <1>1, <1>2, PTL DEF Spec

\* A framework reset that was not cancelled ends with every account restored, with a flag set,
\* or with the failure to set one: _apply_contamination_tags passes over no account.
THEOREM SettledResetsAccounted == Spec => []SettledResetAccounted
<1>1. SettlingInv => SettledResetAccounted
  BY DEF SettlingInv
<1> QED  BY <1>1, SettlingInvariant, PTL

\* A run of any phase that reports no error has done what the phase promises.
THEOREM SuccessesAreDone == Spec => []SuccessMeansDone
<1>1. SettlingInv => SuccessMeansDone
  BY DEF SettlingInv
<1> QED  BY <1>1, SettlingInvariant, PTL

\* A container is left running only by a run whose result has an error.
THEOREM ContainersAccounted == Spec => []ContainerAccounted
<1>1. SettlingInv => ContainerAccounted
  BY DEF SettlingInv
<1> QED  BY <1>1, SettlingInvariant, PTL

\* A flag is cleared only from an account that holds nothing a task left in it: MustMark keeps
\* it while a result or the script is a failure, and a cleanup clears only empty accounts.
THEOREM FlagsClearedWhenRestored == Spec => ClearedOnlyWhenRestored
<1>1. ScenarioInv /\ SettlingInv /\ [Next]_vars =>
        [\A a \in flagged \ flagged' :
           \/ /\ phase = "RESET"
              /\ cloud[a] \cap (Listed \cup {"hidden"}) \subseteq post[a]
              /\ (\A b \in Accounts : outcome[b] # "failed") => Restored(a)
           \/ phase = "CLEANUP" /\ cloud[a] = {}]_vars
  <2> SUFFICES ASSUME ScenarioInv, SettlingInv, Next, NEW a \in flagged \ flagged'
               PROVE  \/ /\ phase = "RESET"
                         /\ cloud[a] \cap (Listed \cup {"hidden"}) \subseteq post[a]
                         /\ (\A b \in Accounts : outcome[b] # "failed") => Restored(a)
                      \/ phase = "CLEANUP" /\ cloud[a] = {}
    BY DEF vars
  <2>1. a \in Accounts
    BY DEF ScenarioInv, TypeOK
  <2>2. flagged' # flagged
    OBVIOUS
  <2>3. CASE \E x \in Accounts : Tag(x)
    <3>1. PICK x \in Accounts : Tag(x)
      BY <2>3
    <3>2. x = a /\ pc = "tagging" /\ outcome[a] # "failed" /\ ~scriptFailed
      BY <3>1 DEF Tag, MustMark
    <3>3. phase = "RESET" /\ Resetting /\ ~skip
      BY <3>2 DEF ScenarioInv, PhaseOfStep, Resetting, SettlingInv, TagsDue
    <3>4. "hidden" \notin cloud[a] /\ Kept(a)
      BY <2>1, <3>2, <3>3, ResultsKnown DEF SettlingInv, ScriptUndone
    <3>5. (\A b \in Accounts : outcome[b] # "failed") => Verifies(a)
      BY <2>1, <3>2, <3>3 DEF SettlingInv, ResultsTrue
    <3> QED  BY <3>3, <3>4, <3>5 DEF Kept, Restored
  <2>4. CASE \E x \in Accounts : ClearAfterCleanup(x)
    <3>1. pc = "clearing"
      BY <2>4 DEF ClearAfterCleanup
    <3> QED  BY <2>1, <3>1 DEF ScenarioInv, PhaseOfStep, CleanupJudged
  <2>5. CASE \/ \E ph \in Phases : EnvCommand(ph)
             \/ \E x \in Accounts : CapturePreSetup(x) \/ FrameworkReset(x) \/ FrameworkCleanup(x)
             \/ StartJob \/ EndJob \/ MutatingTrial \/ SelfRestoringTrial \/ RefusedTrial
             \/ CancelledTrial \/ Cancel \/ PreCleanupSweep \/ ScriptSucceeds \/ ScriptFails
             \/ NoScript \/ Snapshot \/ Verify \/ SkipFrameworkReset \/ ResetReturns
             \/ RedeploySucceeds \/ RedeployFails \/ Recapture \/ TagsApplied \/ CleanupReturns
             \/ DeleteSnapshots \/ FlagsCleared \/ StopContainer
    BY <2>2, <2>5 DEF EnvCommand, CapturePreSetup, FrameworkReset, FrameworkCleanup, StartJob,
       EndJob, MutatingTrial, SelfRestoringTrial, RefusedTrial, CancelledTrial, Cancel,
       PreCleanupSweep, ScriptSucceeds, ScriptFails, NoScript, Snapshot, Verify,
       SkipFrameworkReset, ResetReturns, RedeploySucceeds, RedeployFails, Recapture, TagsApplied,
       CleanupReturns, DeleteSnapshots, FlagsCleared, StopContainer
  <2> QED  BY <2>3, <2>4, <2>5 DEF Next, Advance
<1> QED  BY <1>1, SettlingInvariant, PTL DEF Spec, ClearedOnlyWhenRestored

\* The recapture that ends a reset stores no leftover of a task in a baseline: it happens only
\* when no account's reset failed, and a reset that did not fail leaves no new resource.
THEOREM RecapturesAbsorbNothing == Spec => RecaptureNeverAbsorbs
<1>1. ScenarioInv /\ SettlingInv /\ [Next]_vars =>
        [phase = "RESET" => \A a \in Accounts :
           (post'[a] # post[a] /\ "orphan" \in post'[a]) => "orphan" \in post[a]]_vars
  <2> SUFFICES ASSUME ScenarioInv, SettlingInv, Next, phase = "RESET", NEW a \in Accounts,
                      post'[a] # post[a], "orphan" \in post'[a]
               PROVE  "orphan" \in post[a]
    BY DEF vars
  <2>1. CASE Recapture
    <3>1. pc = "recapturing" /\ ~skip /\ Resetting
      BY <2>1 DEF Recapture, SettlingInv, TagsDue, Resetting
    <3>2. RecaptureAllowed /\ post'[a] \in {post[a], Scan(a)}
      BY <2>1 DEF Recapture, Capture
    <3>3. Kept(a)
      BY <3>1, <3>2, ResultsKnown DEF RecaptureAllowed
    <3>4. "orphan" \in cloud[a]
      BY <3>2 DEF Scan
    <3> QED  BY <3>3, <3>4 DEF Kept, Listed
  <2>2. CASE Snapshot \/ DeleteSnapshots
    BY <2>2 DEF Snapshot, DeleteSnapshots, ScenarioInv, PhaseOfStep
  <2>3. CASE \/ \E ph \in Phases : EnvCommand(ph)
             \/ \E x \in Accounts : \/ CapturePreSetup(x) \/ FrameworkReset(x) \/ Tag(x)
                                    \/ FrameworkCleanup(x) \/ ClearAfterCleanup(x)
             \/ StartJob \/ EndJob \/ MutatingTrial \/ SelfRestoringTrial \/ RefusedTrial
             \/ CancelledTrial \/ Cancel \/ PreCleanupSweep \/ ScriptSucceeds \/ ScriptFails
             \/ NoScript \/ Verify \/ SkipFrameworkReset \/ ResetReturns \/ RedeploySucceeds
             \/ RedeployFails \/ TagsApplied \/ CleanupReturns \/ FlagsCleared \/ StopContainer
    BY <2>3 DEF EnvCommand, CapturePreSetup, FrameworkReset, Tag, FrameworkCleanup,
       ClearAfterCleanup, StartJob, EndJob, MutatingTrial, SelfRestoringTrial, RefusedTrial,
       CancelledTrial, Cancel, PreCleanupSweep, ScriptSucceeds, ScriptFails, NoScript, Verify,
       SkipFrameworkReset, ResetReturns, RedeploySucceeds, RedeployFails, TagsApplied,
       CleanupReturns, FlagsCleared, StopContainer, baselineVars
  <2> QED  BY <2>1, <2>2, <2>3 DEF Next, Advance
<1> QED  BY <1>1, SettlingInvariant, PTL DEF Spec, RecaptureNeverAbsorbs

-----------------------------------------------------------------------------
(* From one trial of a job to the next *)

\* Between the trials of a job no account is flagged; or a trial's run leaves the framework's
\* reset out and was not cancelled so far.
Undisturbed == job /\ IF pc = "idle" THEN flagged = {} ELSE skip /\ ~cancelled

JobInv == Undisturbed => \A a \in Accounts : Verifies(a)

\* What a step that leaves the scan, the baselines and the stacks' identity alone preserves.
LEMMA VerifiesKept ==
  ASSUME JobInv, Undisturbed, UNCHANGED <<post, stale>>,
         \A a \in Accounts : cloud'[a] \in {cloud[a], cloud[a] \ {"hidden"}}
  PROVE  \A a \in Accounts : Verifies(a)'
<1> SUFFICES ASSUME NEW a \in Accounts PROVE Verifies(a)'
  OBVIOUS
<1>1. Scan(a)' = Scan(a)
  BY DEF Scan, Compared, Listed
<1> QED  BY <1>1 DEF JobInv, Verifies

\* A job begins verified; a trial that restored the account itself changes nothing.
LEMMA StartKeepsJob ==
  ASSUME JobInv,
         \/ \E x \in Phases : EnvCommand(x)
         \/ \E x \in Accounts : CapturePreSetup(x)
         \/ StartJob \/ EndJob
         \/ MutatingTrial \/ SelfRestoringTrial \/ RefusedTrial \/ CancelledTrial \/ Cancel
  PROVE  JobInv'
<1>1. CASE \/ \E x \in Phases : EnvCommand(x)
           \/ \E x \in Accounts : CapturePreSetup(x)
           \/ EndJob \/ MutatingTrial \/ RefusedTrial \/ CancelledTrial \/ Cancel
  <2>1. ~Undisturbed'
    BY <1>1 DEF EnvCommand, CapturePreSetup, EndJob, MutatingTrial, RefusedTrial, CancelledTrial,
           Cancel, LocalsGone, Start, Undisturbed
  <2> QED  BY <2>1 DEF JobInv
<1>2. CASE StartJob
  BY <1>2 DEF StartJob, JobInv, Verifies, Scan, cloudVars, baselineVars
<1>3. CASE SelfRestoringTrial
  BY <1>3, VerifiesKept
     DEF SelfRestoringTrial, TrialAdmitted, Undisturbed, JobInv, cloudVars, baselineVars
<1> QED  BY <1>1, <1>2, <1>3

\* When the run of a trial ends uncancelled, its reset has restored the accounts or flagged one.
LEMMA StopKeepsJob ==
  ASSUME ScenarioInv, SettlingInv, JobInv, lost = {}, StopContainer
  PROVE  JobInv'
<1> SUFFICES ASSUME Undisturbed' PROVE \A a \in Accounts : Verifies(a)'
  BY DEF JobInv
<1>1. pc = "stopping" /\ pc' = "idle" /\ UNCHANGED <<cloud, stale, post, flagged>>
  BY DEF StopContainer, cloudVars, baselineVars
<1>2. job /\ ~cancelled /\ flagged = {}
  <2>1. job' /\ flagged' = {}
    BY <1>1 DEF Undisturbed
  <2>2. job' = (job /\ ~cancelled') /\ (cancelled' = cancelled \/ cancelled' = TRUE)
    BY DEF StopContainer
  <2>3. job
    BY <2>1, <2>2
  <2>4. ~cancelled
    BY <2>1, <2>2
  <2> QED  BY <1>1, <2>1, <2>3, <2>4
<1>3. CASE skip
  BY <1>1, <1>2, <1>3, VerifiesKept DEF Undisturbed
<1>4. CASE ~skip
  <2>1. phase = "RESET"
    BY <1>1, <1>2 DEF ScenarioInv, PhaseOfStep, JobHasBaselines
  <2>2. \A a \in Accounts : Restored(a)
    BY <1>1, <1>2, <1>4, <2>1 DEF SettlingInv, SettledResetAccounted
  <2> QED  BY <1>1, <2>2 DEF Restored, Verifies, Scan
<1> QED  BY <1>3, <1>4

\* Of the other steps of a run only its script reaches an account without a framework's reset.
LEMMA RunKeepsJob ==
  ASSUME ScenarioInv, SettlingInv, JobInv, Advance, ~StopContainer
  PROVE  JobInv'
<1> SUFFICES ASSUME Undisturbed' PROVE \A a \in Accounts : Verifies(a)'
  BY DEF JobInv
<1>1. pc # "idle" /\ pc' # "idle" /\ UNCHANGED <<job, skip, cancelled, phase>>
  BY DEF Advance, PreCleanupSweep, ScriptSucceeds, ScriptFails, NoScript, Snapshot, Verify,
         SkipFrameworkReset, ResetReturns, RedeploySucceeds, RedeployFails, Recapture, TagsApplied,
         CleanupReturns, DeleteSnapshots, FlagsCleared, FrameworkReset, Tag, FrameworkCleanup,
         ClearAfterCleanup, Finish, localVars, resultVars
<1>2. Undisturbed /\ skip /\ phase = "RESET"
  BY <1>1 DEF Undisturbed, ScenarioInv, PhaseOfStep, JobHasBaselines
<1>3. CASE ScriptSucceeds \/ ScriptFails
  <2>1. PICK reached \in SUBSET Accounts : ScriptEffect(reached)
    BY <1>3 DEF ScriptSucceeds, ScriptFails
  <2>2. \A a \in Accounts : cloud'[a] \in {cloud[a], cloud[a] \ {"hidden"}}
    BY <1>2, <2>1 DEF ScriptEffect
  <2>3. UNCHANGED <<post, stale>>
    BY <1>2, <1>3, <2>1 DEF ScriptSucceeds, ScriptFails, ScriptEffect, baselineVars
  <2> QED  BY <1>2, <2>2, <2>3, VerifiesKept
<1>4. CASE \/ NoScript \/ SkipFrameworkReset \/ ResetReturns \/ TagsApplied \/ FlagsCleared
           \/ \E a \in Accounts : Tag(a) \/ ClearAfterCleanup(a)
  <2>1. UNCHANGED <<cloud, stale, post>>
    BY <1>4 DEF NoScript, SkipFrameworkReset, ResetReturns, TagsApplied, FlagsCleared, Tag,
           ClearAfterCleanup, cloudVars, baselineVars
  <2> QED  BY <1>2, <2>1, VerifiesKept
<1>5. CASE PreCleanupSweep \/ RedeploySucceeds \/ RedeployFails \/ Recapture \/ DeleteSnapshots
  BY <1>2, <1>5 DEF PreCleanupSweep, RedeploySucceeds, RedeployFails, Recapture, DeleteSnapshots,
     ScenarioInv, PhaseOfStep, SettlingInv, TagsDue
<1>6. CASE \/ Snapshot \/ Verify \/ CleanupReturns
           \/ \E a \in Accounts : FrameworkReset(a) \/ FrameworkCleanup(a)
  BY <1>2, <1>6 DEF Snapshot, Verify, CleanupReturns, FrameworkReset, FrameworkCleanup
<1> QED  BY <1>3, <1>4, <1>5, <1>6 DEF Advance

\* As long as every flag can be written, a trial of a job that the contamination gate admits
\* finds every account verified against its baseline, whatever the trials before it did and
\* however their resets ended: verify_environment, which ran once before the job, need not
\* run again between the trials.
THEOREM TrialsStartVerified ==
  Spec /\ [](lost = {}) =>
    [](job /\ pc = "idle" /\ TrialAdmitted => \A a \in Accounts : Verifies(a))
<1>1. Init => JobInv
  BY DEF Init, JobInv, Undisturbed
<1>2. (ScenarioInv /\ SettlingInv) /\ lost = {} /\ JobInv /\ [Next]_vars => JobInv'
  <2> SUFFICES ASSUME ScenarioInv, SettlingInv, lost = {}, JobInv, [Next]_vars
               PROVE  JobInv'
    OBVIOUS
  <2>1. CASE Next
    BY <2>1, StartKeepsJob, StopKeepsJob, RunKeepsJob DEF Next
  <2>2. CASE UNCHANGED vars
    BY <2>2 DEF vars, JobInv, Undisturbed, Verifies, Scan
  <2> QED  BY <2>1, <2>2
<1>3. JobInv => (job /\ pc = "idle" /\ TrialAdmitted => \A a \in Accounts : Verifies(a))
  BY DEF JobInv, Undisturbed, TrialAdmitted
<1> QED  BY <1>1, <1>2, <1>3, SettlingInvariant, PTL DEF Spec

===============================================================================
