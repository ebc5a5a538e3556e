------------------------- MODULE BenchmarkTrialProofs --------------------------
(***************************************************************************)
(* Theorems about BenchmarkTrial, for any homes, any assignment of phases  *)
(* to homes and any kinds of cancellation.                                 *)
(***************************************************************************)
EXTENDS BenchmarkTrial, TLAPS

\* What is under way where: an exception or a refresher only within a stage, an abandoned
\* command or a cancelled outcome only after a cancellation.
StageInv ==
  /\ at # "idle" => phase \in Roles
  /\ at = "body" => raised = "none"
  /\ at = "join" => refresher = "writing"
  /\ refresher # "none" => at \in {"body", "join"}
  /\ late.does # NoRole => cancelled = "abandoned"
  /\ "cancel" \in {raised, outcome} => cancelled # "no"

\* Once its files are written a stage has its own and no others; a home that is not that of
\* the stage under way is empty, unless a removal failed.  All this until a cancellation
\* abandons a command, which may then write or remove files at any moment.
FilesInv ==
  cancelled # "abandoned" =>
    /\ at \in {"config", "body", "join"} => creds[Home] = {phase}
    /\ "removal" \in logged \/ \A h \in Homes : creds[h] # {} => at # "idle" /\ h = Home

\* Where the trial can be once post_invoke is due.
Ending == {"stop", "detached", "teardown", "reset", "over"}

\* post_invoke counts as successful only if it ran to its end and restored the account, which
\* nothing changes any more; and only then is the reset told to skip its work.
PostInv ==
  /\ postDone => phase \in Ending \cup {"post_invoke"}
  /\ phase = "post_invoke" => postDone /\ ~postOk
  /\ phase = "post_invoke" /\ at \in {"join", "remove"} /\ raised = "none" => ~account.dirty
  /\ postOk => phase \in Ending /\ postDone /\ ~account.dirty
  /\ account.skipped => postOk

TrialInv == TypeOK /\ StageInv /\ FilesInv /\ PostInv /\ MutationAccounted

-----------------------------------------------------------------------------
(* What the operators do *)

\* No command is none of the commands that change files.
LEMMA NoCommandType == NoCommand \in [home : Homes, does : {NoRole}]
<1>1. HomeOf["agent"] \in Homes
  BY TrialAssumption DEF Roles
<1> QED  BY <1>1 DEF NoCommand

\* A phase that stages its files does so in a home of the container.
LEMMA HomeType == phase \in Roles => Home \in Homes
  BY TrialAssumption DEF Home

\* An outcome is never worse than what was raised or had been before.
LEMMA WorseType ==
  ASSUME NEW o \in {"ok", "error", "cancel"}, NEW r \in {"none", "error", "cancel"}
  PROVE  /\ Worse(o, r) \in {"ok", "error", "cancel"}
         /\ Worse(o, r) = "cancel" => "cancel" \in {o, r}
  BY DEF Worse

\* The stage is left for a phase that may follow; only post_invoke decides of postOk.
LEMMA LeaveStageEffect ==
  ASSUME TypeOK, phase \in Roles, NEW r \in {"none", "error", "cancel"}, LeaveStage(r)
  PROVE  /\ at' = "idle" /\ raised' = "none"
         /\ outcome' \in {"ok", "error", "cancel"} /\ finalizing' \in BOOLEAN
         /\ outcome' = "cancel" => "cancel" \in {outcome, r}
         /\ phase # "post_invoke" => postOk' = postOk /\ phase' \in {"agent", "verifier", "teardown"}
         /\ phase = "post_invoke" => phase' = "stop" /\ postOk' = (r = "none")
<1>1. /\ Worse(outcome, r) \in {"ok", "error", "cancel"}
      /\ Worse(outcome, r) = "cancel" => "cancel" \in {outcome, r}
      /\ Worse(outcome, "error") \in {"ok", "error", "cancel"}
      /\ Worse(outcome, "error") = "cancel" => outcome = "cancel"
  BY WorseType DEF TypeOK
<1>2. outcome \in {"ok", "error", "cancel"} /\ finalizing \in BOOLEAN
  BY DEF TypeOK
<1> QED  BY <1>1, <1>2 DEF LeaveStage, PostInvokeOk, Finalize, AfterAgent, Roles

-----------------------------------------------------------------------------
(* Type correctness *)

LEMMA InitTypes == Init => TypeOK
<1> SUFFICES ASSUME Init PROVE TypeOK
  OBVIOUS
<1>1. creds \in [Homes -> SUBSET Roles] /\ logged \subseteq {"removal", "reset"}
  BY DEF Init
<1>2. account \in [dirty : BOOLEAN, flagged : BOOLEAN, skipped : BOOLEAN]
  BY DEF Init
<1>3. late \in [home : Homes, does : Roles \cup {NoRole, "removal"}]
  BY NoCommandType DEF Init
<1> QED  BY <1>1, <1>2, <1>3 DEF Init, TypeOK, Phases

\* The calls of Harbor between the stages.
LEMMA RunTypes ==
  ASSUME TypeOK,
         \/ RaiseIfContaminated \/ SetupAgentEnvironment \/ DetachedVerifier
         \/ Teardown \/ StopAgentEnvironment \/ ResetScenarioAccount
  PROVE  TypeOK'
<1>1. CASE RaiseIfContaminated
  <2>1. phase' \in Phases /\ outcome' \in {"ok", "error", "cancel"} /\ finalizing' \in BOOLEAN
    BY <1>1 DEF RaiseIfContaminated, Finalize, TypeOK, Phases
  <2> QED  BY <1>1, <2>1 DEF RaiseIfContaminated, TypeOK, stageVars, postVars
<1>2. CASE SetupAgentEnvironment
  <2>1. phase' \in Phases /\ outcome' \in {"ok", "error", "cancel"} /\ finalizing' \in BOOLEAN
    BY <1>2 DEF SetupAgentEnvironment, AfterSetup, Finalize, TypeOK, Phases, Roles
  <2>2. started' \in BOOLEAN
    BY <1>2 DEF SetupAgentEnvironment, TypeOK
  <2> QED  BY <1>2, <2>1, <2>2 DEF SetupAgentEnvironment, TypeOK, stageVars, postVars
<1>3. CASE DetachedVerifier
  <2>1. Worse(outcome, "error") \in {"ok", "error", "cancel"}
    BY WorseType DEF TypeOK
  <2> QED  BY <1>3, <2>1 DEF DetachedVerifier, Finalize, TypeOK, Phases, stageVars, postVars
<1>4. CASE Teardown
  <2>1. phase' \in Phases /\ postDone' \in BOOLEAN
    BY <1>4 DEF Teardown, TypeOK, Phases, Roles
  <2> QED  BY <1>4, <2>1 DEF Teardown, TypeOK, stageVars
<1>5. CASE StopAgentEnvironment
  <2>1. creds' \in [Homes -> SUBSET Roles]
    BY <1>5 DEF StopAgentEnvironment
  <2>2. late' \in [home : Homes, does : Roles \cup {NoRole, "removal"}]
    BY <1>5, NoCommandType DEF StopAgentEnvironment
  <2>3. phase' \in Phases
    BY <1>5 DEF StopAgentEnvironment, AfterStop, Phases
  <2>4. SkipFrameworkReset \in BOOLEAN
    BY DEF SkipFrameworkReset
  <2>5. account' \in [dirty : BOOLEAN, flagged : BOOLEAN, skipped : BOOLEAN]
    BY <1>5, <2>4 DEF StopAgentEnvironment, TypeOK
  <2> QED  BY <1>5, <2>1, <2>2, <2>3, <2>5 DEF StopAgentEnvironment, TypeOK, postVars
<1>6. CASE ResetScenarioAccount
  <2>1. account' \in [dirty : BOOLEAN, flagged : BOOLEAN, skipped : BOOLEAN]
    BY <1>6 DEF ResetScenarioAccount, TypeOK
  <2>2. phase' \in Phases /\ logged' \subseteq {"removal", "reset"}
    BY <1>6 DEF ResetScenarioAccount, TypeOK, Phases
  <2> QED  BY <1>6, <2>1, <2>2 DEF ResetScenarioAccount, TypeOK, stageVars, postVars
<1> QED  BY <1>1, <1>2, <1>3, <1>4, <1>5, <1>6

\* The effect of a phase on the account.
LEMMA EffectType ==
  ASSUME TypeOK, NEW dirty \in BOOLEAN, Effect(dirty)
  PROVE  /\ account' \in [dirty : BOOLEAN, flagged : BOOLEAN, skipped : BOOLEAN]
         /\ account'.skipped = account.skipped
         /\ phase = "post_invoke" => account'.dirty = dirty
  BY DEF Effect, TypeOK

\* The stages.
LEMMA StageTypes ==
  ASSUME TypeOK, StageInv,
         \/ StageCredentials \/ WriteStageCredentials \/ WriteAwsConfig
         \/ RefreshDue \/ RefreshMinted \/ RefreshWritten \/ RunPhase \/ RemoveFiles
  PROVE  TypeOK'
<1>1. CASE StageCredentials
  BY <1>1 DEF StageCredentials, TypeOK, postVars
<1>2. CASE WriteStageCredentials
  <2>1. phase \in Roles
    BY <1>2 DEF WriteStageCredentials, StageInv
  <2>2. \A c \in FailedWrite(Home, phase) \cup {FirstFiles(Home, phase)} : c \in SUBSET Roles
    BY <2>1, HomeType DEF FailedWrite, FirstFiles, TypeOK
  <2>3. creds' \in [Homes -> SUBSET Roles]
    BY <1>2, <2>1, <2>2, HomeType DEF WriteStageCredentials, TypeOK
  <2> QED  BY <1>2, <2>3 DEF WriteStageCredentials, TypeOK, postVars
<1>3. CASE WriteAwsConfig
  BY <1>3 DEF WriteAwsConfig, TypeOK, postVars
<1>4. CASE RefreshDue \/ RefreshMinted
  BY <1>4 DEF RefreshDue, RefreshMinted, TypeOK, postVars
<1>5. CASE RefreshWritten
  <2>1. phase \in Roles
    BY <1>5 DEF RefreshWritten, StageInv
  <2>2. creds' \in [Homes -> SUBSET Roles]
    BY <1>5, <2>1, HomeType DEF RefreshWritten, TypeOK
  <2> QED  BY <1>5, <2>2 DEF RefreshWritten, RefreshEnds, TypeOK, postVars
<1>6. CASE RunPhase
  <2>1. account' \in [dirty : BOOLEAN, flagged : BOOLEAN, skipped : BOOLEAN]
    BY <1>6, EffectType DEF RunPhase
  <2> QED  BY <1>6, <2>1 DEF RunPhase, JoinRefresher, TypeOK, postVars
<1>7. CASE RemoveFiles
  <2>1. phase \in Roles /\ raised \in {"none", "error", "cancel"}
    BY <1>7 DEF RemoveFiles, StageInv, TypeOK
  <2>2. /\ at' = "idle" /\ raised' = "none" /\ outcome' \in {"ok", "error", "cancel"}
        /\ finalizing' \in BOOLEAN /\ postOk' \in BOOLEAN
        /\ phase' \in {"agent", "verifier", "teardown", "stop"}
    BY <1>7, <2>1, LeaveStageEffect DEF RemoveFiles, TypeOK
  <2>3. creds' \in [Homes -> SUBSET Roles] /\ logged' \subseteq {"removal", "reset"}
    BY <1>7 DEF RemoveFiles, TypeOK
  <2> QED  BY <1>7, <2>2, <2>3 DEF RemoveFiles, TypeOK, Phases, Roles
<1> QED  BY <1>1, <1>2, <1>3, <1>4, <1>5, <1>6, <1>7

\* A cancellation, wherever it hits the trial.
LEMMA CancelTypes ==
  ASSUME TypeOK, StageInv, Cancel
  PROVE  TypeOK'
<1>1. PICK how \in Cancellations :
        /\ cancelled = "no"
        /\ \/ CancelOutside /\ cancelled' = "yes"
           \/ CancelCommand(how)
           \/ CancelPhase(how)
        /\ UNCHANGED <<task, started>>
  BY DEF Cancel
<1>2. CASE CancelOutside /\ cancelled' = "yes"
  <2>1. phase' \in Phases /\ outcome' \in {"ok", "error", "cancel"} /\ finalizing' \in BOOLEAN
    BY <1>2 DEF CancelOutside, Finalize, TypeOK, Phases
  <2> QED  BY <1>1, <1>2, <2>1 DEF CancelOutside, TypeOK, stageVars, postVars
<1>3. CASE CancelCommand(how)
  <2>1. phase \in Roles /\ Home \in Homes
    BY <1>3, HomeType DEF CancelCommand
  <2>2. Command \in [home : Homes, does : Roles \cup {NoRole, "removal"}]
    BY <2>1, NoCommandType DEF Command
  <2>3. creds' = creds /\ refresher' = refresher /\ account' = account /\ logged' = logged
        /\ postDone' = postDone
    BY <1>3 DEF CancelCommand
  <2>4. late' \in [home : Homes, does : Roles \cup {NoRole, "removal"}]
        /\ cancelled' \in {"no", "yes", "abandoned"}
    BY <1>3, <2>2 DEF CancelCommand, TypeOK
  <2>5. CASE LeaveStage("cancel")
    BY <1>1, <2>1, <2>3, <2>4, <2>5, LeaveStageEffect DEF TypeOK, Phases, Roles
  <2>6. CASE /\ raised' = "cancel" /\ at' \in {at, "remove"}
             /\ UNCHANGED <<phase, outcome, finalizing, postOk>>
    BY <1>1, <2>3, <2>4, <2>6 DEF TypeOK
  <2> QED  BY <1>3, <2>5, <2>6 DEF CancelCommand
<1>4. CASE CancelPhase(how)
  <2>1. phase \in Roles /\ Home \in Homes
    BY <1>4, HomeType DEF CancelPhase, StageInv
  <2>2. account' \in [dirty : BOOLEAN, flagged : BOOLEAN, skipped : BOOLEAN]
    BY <1>4, EffectType DEF CancelPhase, TypeOK
  <2>3. late' \in [home : Homes, does : Roles \cup {NoRole, "removal"}]
        /\ cancelled' \in {"no", "yes", "abandoned"}
    BY <1>4, <2>1 DEF CancelPhase, JoinRefresher, TypeOK
  <2>4. /\ at' \in {"join", "remove"} /\ raised' = "cancel"
        /\ refresher' \in {"none", "sleeping", "minting", "writing"}
    BY <1>4 DEF CancelPhase, JoinRefresher, TypeOK
  <2> QED  BY <1>1, <1>4, <2>2, <2>3, <2>4 DEF CancelPhase, TypeOK, postVars
<1> QED  BY <1>1, <1>2, <1>3, <1>4

LEMMA LateTypes ==
  ASSUME TypeOK, LateCommand
  PROVE  TypeOK'
<1>1. late.home \in Homes /\ late.does \in Roles \cup {"removal"}
  BY DEF LateCommand, TypeOK
<1>2. creds' \in [Homes -> SUBSET Roles]
  <2>1. CASE late.does = "removal"
    BY <1>1, <2>1 DEF LateCommand, TypeOK
  <2>2. CASE late.does \in Roles
    BY <1>1, <2>2 DEF LateCommand, TypeOK
  <2> QED  BY <1>1, <2>1, <2>2
<1>3. late' \in [home : Homes, does : Roles \cup {NoRole, "removal"}]
  BY NoCommandType DEF LateCommand
<1> QED  BY <1>2, <1>3 DEF LateCommand, TypeOK, postVars

\* Every step keeps the types.
LEMMA StepTypes ==
  ASSUME TypeOK, StageInv, [Next]_vars
  PROVE  TypeOK'
<1>1. CASE \/ RaiseIfContaminated \/ SetupAgentEnvironment \/ DetachedVerifier
           \/ Teardown \/ StopAgentEnvironment \/ ResetScenarioAccount
  BY <1>1, RunTypes
<1>2. CASE \/ StageCredentials \/ WriteStageCredentials \/ WriteAwsConfig
           \/ RefreshDue \/ RefreshMinted \/ RefreshWritten \/ RunPhase \/ RemoveFiles
  BY <1>2, StageTypes
<1>3. CASE Cancel
  BY <1>3, CancelTypes
<1>4. CASE LateCommand
  BY <1>4, LateTypes
<1>5. CASE Over \/ UNCHANGED vars
  BY <1>5 DEF Over, vars, TypeOK
<1> QED  BY <1>1, <1>2, <1>3, <1>4, <1>5 DEF Next

-----------------------------------------------------------------------------
(* What is under way where *)

LEMMA RunStage ==
  ASSUME TypeOK, StageInv,
         \/ RaiseIfContaminated \/ SetupAgentEnvironment \/ DetachedVerifier
         \/ Teardown \/ StopAgentEnvironment \/ ResetScenarioAccount
  PROVE  /\ StageInv' /\ at = "idle" /\ at' = "idle" /\ cancelled' = cancelled
         /\ outcome' = "cancel" => outcome = "cancel"
<1>1. /\ at' = at /\ raised' = raised /\ refresher' = refresher /\ cancelled' = cancelled
      /\ phase \in {"gate", "setup", "detached", "teardown", "stop", "reset"}
  BY DEF RaiseIfContaminated, SetupAgentEnvironment, DetachedVerifier, Teardown,
         StopAgentEnvironment, ResetScenarioAccount, stageVars
<1>2. at = "idle"
  BY <1>1 DEF StageInv, Roles
<1>3. late'.does # NoRole => late' = late
  BY NoCommandType DEF RaiseIfContaminated, SetupAgentEnvironment, DetachedVerifier, Teardown,
         StopAgentEnvironment, ResetScenarioAccount
<1>4. outcome' = "cancel" => outcome = "cancel"
  <2>1. Worse(outcome, "error") = "cancel" => outcome = "cancel"
    BY DEF Worse
  <2> QED  BY <2>1 DEF RaiseIfContaminated, SetupAgentEnvironment, DetachedVerifier, Teardown,
                       StopAgentEnvironment, ResetScenarioAccount, Finalize
<1> QED  BY <1>1, <1>2, <1>3, <1>4 DEF StageInv

LEMMA StageStage ==
  ASSUME TypeOK, StageInv,
         \/ StageCredentials \/ WriteStageCredentials \/ WriteAwsConfig
         \/ RefreshDue \/ RefreshMinted \/ RefreshWritten \/ RunPhase \/ RemoveFiles
  PROVE  StageInv' /\ phase \in Roles
<1>1. CASE StageCredentials
  BY <1>1 DEF StageCredentials, StageInv, postVars
<1>2. CASE WriteStageCredentials
  BY <1>2 DEF WriteStageCredentials, StageInv, postVars
<1>3. CASE WriteAwsConfig
  BY <1>3 DEF WriteAwsConfig, StageInv, postVars
<1>4. CASE RefreshDue
  BY <1>4 DEF RefreshDue, StageInv, postVars
<1>5. CASE RefreshMinted
  BY <1>5 DEF RefreshMinted, StageInv, postVars
<1>6. CASE RefreshWritten
  BY <1>6 DEF RefreshWritten, RefreshEnds, StageInv, postVars
<1>7. CASE RunPhase
  BY <1>7 DEF RunPhase, JoinRefresher, StageInv, postVars
<1>8. CASE RemoveFiles
  <2>1. phase \in Roles /\ raised \in {"none", "error", "cancel"}
    BY <1>8 DEF RemoveFiles, StageInv, TypeOK
  <2>2. /\ at' = "idle" /\ raised' = "none"
        /\ outcome' = "cancel" => "cancel" \in {outcome, raised}
    BY <1>8, <2>1, LeaveStageEffect DEF RemoveFiles
  <2> QED  BY <1>8, <2>1, <2>2 DEF RemoveFiles, StageInv
<1> QED  BY <1>1, <1>2, <1>3, <1>4, <1>5, <1>6, <1>7, <1>8

LEMMA CancelStage ==
  ASSUME TypeOK, StageInv, Cancel
  PROVE  StageInv'
<1>1. PICK how \in Cancellations :
        /\ cancelled = "no"
        /\ \/ CancelOutside /\ cancelled' = "yes"
           \/ CancelCommand(how)
           \/ CancelPhase(how)
        /\ UNCHANGED <<task, started>>
  BY DEF Cancel
<1>2. late.does = NoRole
  BY <1>1 DEF StageInv
<1>3. CASE CancelOutside /\ cancelled' = "yes"
  BY <1>2, <1>3 DEF CancelOutside, StageInv, stageVars
<1>4. CASE CancelCommand(how)
  <2>1. cancelled' # "no" /\ refresher' = "none" /\ phase \in Roles
    BY <1>1, <1>4 DEF CancelCommand, StageInv
  <2>2. late'.does # NoRole => cancelled' = "abandoned"
    BY <1>2, <1>4, NoCommandType DEF CancelCommand, Command
  <2>3. CASE LeaveStage("cancel")
    BY <2>1, <2>2, <2>3, LeaveStageEffect DEF StageInv
  <2>4. CASE at' = at /\ raised' = "cancel" /\ phase' = phase /\ how = "abort" /\ at # "idle"
    BY <1>4, <2>1, <2>2, <2>4 DEF CancelCommand, StageInv
  <2>5. CASE at' = "remove" /\ phase' = phase
    BY <2>1, <2>2, <2>5 DEF StageInv
  <2> QED  BY <1>4, <2>3, <2>4, <2>5 DEF CancelCommand
<1>5. CASE CancelPhase(how)
  BY <1>2, <1>5 DEF CancelPhase, JoinRefresher, StageInv
<1> QED  BY <1>1, <1>3, <1>4, <1>5

\* Every step keeps the stage's bookkeeping.
LEMMA StepStage ==
  ASSUME TypeOK, StageInv, [Next]_vars
  PROVE  StageInv'
<1>1. CASE \/ RaiseIfContaminated \/ SetupAgentEnvironment \/ DetachedVerifier
           \/ Teardown \/ StopAgentEnvironment \/ ResetScenarioAccount
  BY <1>1, RunStage
<1>2. CASE \/ StageCredentials \/ WriteStageCredentials \/ WriteAwsConfig
           \/ RefreshDue \/ RefreshMinted \/ RefreshWritten \/ RunPhase \/ RemoveFiles
  BY <1>2, StageStage
<1>3. CASE Cancel
  BY <1>3, CancelStage
<1>4. CASE LateCommand
  BY <1>4, NoCommandType DEF LateCommand, StageInv
<1>5. CASE Over \/ UNCHANGED vars
  BY <1>5 DEF Over, vars, StageInv
<1> QED  BY <1>1, <1>2, <1>3, <1>4, <1>5 DEF Next

-----------------------------------------------------------------------------
(* The credential files *)

LEMMA InitFiles == Init => StageInv /\ FilesInv /\ PostInv /\ MutationAccounted
<1> SUFFICES ASSUME Init PROVE StageInv /\ FilesInv /\ PostInv /\ MutationAccounted
  OBVIOUS
<1>1. StageInv
  BY NoCommandType DEF Init, StageInv
<1>2. FilesInv
  BY DEF Init, FilesInv
<1>3. PostInv /\ MutationAccounted
  BY DEF Init, PostInv, MutationAccounted, Roles
<1> QED  BY <1>1, <1>2, <1>3

LEMMA RunFiles ==
  ASSUME TypeOK, StageInv, FilesInv,
         \/ RaiseIfContaminated \/ SetupAgentEnvironment \/ DetachedVerifier
         \/ Teardown \/ StopAgentEnvironment \/ ResetScenarioAccount
  PROVE  FilesInv'
<1>1. at = "idle" /\ at' = "idle" /\ cancelled' = cancelled
  BY RunStage
<1>2. logged \subseteq logged' /\ \A h \in Homes : creds'[h] # {} => creds' = creds
  BY DEF RaiseIfContaminated, SetupAgentEnvironment, DetachedVerifier, Teardown,
         StopAgentEnvironment, ResetScenarioAccount, stageVars
<1> QED  BY <1>1, <1>2 DEF FilesInv

LEMMA StageFiles ==
  ASSUME TypeOK, StageInv, FilesInv,
         \/ StageCredentials \/ WriteStageCredentials \/ WriteAwsConfig
         \/ RefreshDue \/ RefreshMinted \/ RefreshWritten \/ RunPhase \/ RemoveFiles
  PROVE  FilesInv'
<1>1. phase \in Roles /\ Home \in Homes
  BY StageStage, HomeType
<1>2. CASE StageCredentials
  BY <1>2 DEF StageCredentials, FilesInv, Home
<1>3. CASE WriteStageCredentials
  <2>1. /\ at = "write" /\ at' \in {"config", "remove"} /\ Home' = Home /\ phase' = phase
        /\ logged' = logged /\ cancelled' = cancelled
    BY <1>3 DEF WriteStageCredentials, Home
  <2>2. \A h \in Homes \ {Home} : creds'[h] = creds[h]
    BY <1>1, <1>3 DEF WriteStageCredentials, TypeOK
  <2>3. at' = "config" => creds'[Home] = {phase}
    BY <1>1, <1>3 DEF WriteStageCredentials, FirstFiles, TypeOK
  <2> QED  BY <2>1, <2>2, <2>3 DEF FilesInv
<1>4. CASE WriteAwsConfig
  BY <1>4 DEF WriteAwsConfig, FilesInv, Home
<1>5. CASE RefreshDue \/ RefreshMinted
  BY <1>5 DEF RefreshDue, RefreshMinted, FilesInv, Home
<1>6. CASE RefreshWritten
  <2>1. /\ at \in {"body", "join"} /\ Home' = Home /\ phase' = phase
        /\ logged' = logged /\ cancelled' = cancelled
    BY <1>6 DEF RefreshWritten, StageInv, Home
  <2>2. at' \in {"body", "remove"}
    BY <1>6, <2>1 DEF RefreshWritten, RefreshEnds
  <2>3. creds[Home] = {phase} => creds' = creds
    BY <1>1, <1>6 DEF RefreshWritten, TypeOK
  <2> QED  BY <2>1, <2>2, <2>3 DEF FilesInv
<1>7. CASE RunPhase
  <2>1. at = "body" /\ at' \in {"join", "remove"} /\ phase' = phase /\ Home' = Home
        /\ creds' = creds /\ logged' = logged /\ cancelled' = cancelled
    BY <1>7 DEF RunPhase, JoinRefresher, Home
  <2> QED  BY <2>1 DEF FilesInv
<1>8. CASE RemoveFiles
  <2>1. at = "remove" /\ at' = "idle" /\ cancelled' = cancelled
    BY <1>8 DEF RemoveFiles, LeaveStage
  <2>2. \/ "removal" \in logged'
        \/ logged' = logged /\ creds' = [creds EXCEPT ![Home] = {}]
    BY <1>8 DEF RemoveFiles
  <2> QED  BY <1>1, <2>1, <2>2 DEF FilesInv, TypeOK
<1> QED  BY <1>2, <1>3, <1>4, <1>5, <1>6, <1>7, <1>8

LEMMA CancelFiles ==
  ASSUME TypeOK, StageInv, FilesInv, Cancel
  PROVE  FilesInv'
<1>1. PICK how \in Cancellations :
        /\ cancelled = "no"
        /\ \/ CancelOutside /\ cancelled' = "yes"
           \/ CancelCommand(how)
           \/ CancelPhase(how)
        /\ UNCHANGED <<task, started>>
  BY DEF Cancel
<1>2. CASE CancelOutside /\ cancelled' = "yes"
  BY <1>1, <1>2 DEF CancelOutside, FilesInv, stageVars
<1>3. CASE CancelCommand(how)
  <2>1. creds' = creds /\ logged' = logged
    BY <1>3 DEF CancelCommand
  <2>2. cancelled' = "abandoned" \/ (phase' = phase /\ at' \in {at, "remove"})
    BY <1>3 DEF CancelCommand
  <2> QED  BY <1>1, <2>1, <2>2 DEF FilesInv, Home
<1>4. CASE CancelPhase(how)
  <2>1. /\ at \in {"body", "join"} /\ at' \in {"join", "remove"}
        /\ phase' = phase /\ creds' = creds /\ logged' = logged
    BY <1>4 DEF CancelPhase, JoinRefresher
  <2> QED  BY <1>1, <2>1 DEF FilesInv, Home
<1> QED  BY <1>1, <1>2, <1>3, <1>4

\* Every step keeps what the homes may hold.
LEMMA StepFiles ==
  ASSUME TypeOK, StageInv, FilesInv, [Next]_vars
  PROVE  FilesInv'
<1>1. CASE \/ RaiseIfContaminated \/ SetupAgentEnvironment \/ DetachedVerifier
           \/ Teardown \/ StopAgentEnvironment \/ ResetScenarioAccount
  BY <1>1, RunFiles
<1>2. CASE \/ StageCredentials \/ WriteStageCredentials \/ WriteAwsConfig
           \/ RefreshDue \/ RefreshMinted \/ RefreshWritten \/ RunPhase \/ RemoveFiles
  BY <1>2, StageFiles
<1>3. CASE Cancel
  BY <1>3, CancelFiles
<1>4. CASE LateCommand
  BY <1>4 DEF LateCommand, StageInv, FilesInv
<1>5. CASE Over \/ UNCHANGED vars
  BY <1>5 DEF Over, vars, FilesInv, Home
<1> QED  BY <1>1, <1>2, <1>3, <1>4, <1>5 DEF Next

-----------------------------------------------------------------------------
(* post_invoke and the account *)

LEMMA RunPost ==
  ASSUME TypeOK, StageInv, PostInv,
         \/ RaiseIfContaminated \/ SetupAgentEnvironment \/ DetachedVerifier
         \/ Teardown \/ StopAgentEnvironment \/ ResetScenarioAccount
  PROVE  PostInv'
<1>1. at' = "idle"
  BY RunStage
<1>2. CASE RaiseIfContaminated \/ SetupAgentEnvironment
  <2>1. ~postDone /\ ~postOk /\ ~account.skipped
    BY <1>2 DEF RaiseIfContaminated, SetupAgentEnvironment, PostInv, Ending
  <2>2. phase' # "post_invoke"
    BY <1>2 DEF RaiseIfContaminated, SetupAgentEnvironment, AfterSetup, Finalize
  <2>3. postDone' = postDone /\ postOk' = postOk /\ account' = account
    BY <1>2 DEF RaiseIfContaminated, SetupAgentEnvironment, postVars
  <2> QED  BY <2>1, <2>2, <2>3 DEF PostInv
<1>3. CASE DetachedVerifier
  BY <1>3 DEF DetachedVerifier, Finalize, PostInv, Ending, postVars
<1>4. CASE Teardown
  <2>1. account' = account /\ postOk' = postOk
    BY <1>4 DEF Teardown
  <2>2. CASE PostInvokeDue
    BY <1>1, <1>4, <2>1, <2>2 DEF Teardown, PostInvokeDue, PostInv
  <2>3. CASE ~PostInvokeDue
    BY <1>4, <2>1, <2>3 DEF Teardown, PostInv, Ending
  <2> QED  BY <2>2, <2>3
<1>5. CASE StopAgentEnvironment
  <2>1. phase' \in Ending /\ phase' # "post_invoke" /\ phase \in Ending
    BY <1>5 DEF StopAgentEnvironment, AfterStop, Ending
  <2>2. account'.dirty = account.dirty /\ (account'.skipped => account.skipped \/ postOk)
    BY <1>5 DEF StopAgentEnvironment, SkipFrameworkReset, TypeOK
  <2>3. postDone' = postDone /\ postOk' = postOk
    BY <1>5 DEF StopAgentEnvironment, postVars
  <2> QED  BY <2>1, <2>2, <2>3 DEF PostInv
<1>6. CASE ResetScenarioAccount
  <2>1. (account'.dirty => account.dirty) /\ account'.skipped = account.skipped
    BY <1>6 DEF ResetScenarioAccount, TypeOK
  <2> QED  BY <1>6, <2>1 DEF ResetScenarioAccount, PostInv, Ending, postVars
<1> QED  BY <1>2, <1>3, <1>4, <1>5, <1>6

\* Until the files of post_invoke are removed it does not count as successful.
LEMMA NotYetOk ==
  ASSUME PostInv, phase \in Roles
  PROVE  ~postOk /\ ~account.skipped /\ (phase # "post_invoke" => ~postDone)
BY DEF PostInv, Ending, Roles

LEMMA StagePost ==
  ASSUME TypeOK, StageInv, PostInv,
         \/ StageCredentials \/ WriteStageCredentials \/ WriteAwsConfig
         \/ RefreshDue \/ RefreshMinted \/ RefreshWritten \/ RunPhase \/ RemoveFiles
  PROVE  PostInv'
<1>1. /\ phase \in Roles /\ ~postOk /\ ~account.skipped
      /\ phase # "post_invoke" => ~postDone
      /\ phase = "post_invoke" => postDone
  BY StageStage, NotYetOk DEF PostInv
<1>2. CASE \/ StageCredentials \/ WriteStageCredentials \/ WriteAwsConfig
           \/ RefreshDue \/ RefreshMinted \/ RefreshWritten
  <2>1. phase' = phase /\ postDone' = postDone /\ postOk' = postOk /\ account' = account
    BY <1>2 DEF StageCredentials, WriteStageCredentials, WriteAwsConfig, RefreshDue,
                RefreshMinted, RefreshWritten, postVars
  <2>2. at' \in {"join", "remove"} /\ raised' = "none" =>
          at \in {"join", "remove"} /\ raised = "none"
    BY <1>2 DEF StageCredentials, WriteStageCredentials, WriteAwsConfig, RefreshDue,
                RefreshMinted, RefreshWritten, RefreshEnds, StageInv
  <2> QED  BY <1>1, <2>1, <2>2 DEF PostInv
<1>3. CASE RunPhase
  <2>1. PICK fails \in BOOLEAN, dirty \in BOOLEAN :
          /\ (phase = "post_invoke" /\ ~fails) => ~dirty
          /\ Effect(dirty)
          /\ raised' = IF fails THEN "error" ELSE raised
    BY <1>3 DEF RunPhase
  <2>2. /\ account'.skipped = account.skipped
        /\ phase = "post_invoke" /\ raised' = "none" => ~account'.dirty
    BY <2>1, EffectType
  <2>3. phase' = phase /\ postDone' = postDone /\ postOk' = postOk
    BY <1>3 DEF RunPhase, postVars
  <2> QED  BY <1>1, <2>2, <2>3 DEF PostInv
<1>4. CASE RemoveFiles
  <2>1. account' = account /\ postDone' = postDone /\ at = "remove" /\ LeaveStage(raised)
        /\ raised \in {"none", "error", "cancel"}
    BY <1>4 DEF RemoveFiles, TypeOK
  <2>2. CASE phase = "post_invoke"
    <3>1. phase' = "stop" /\ postOk' = (raised = "none")
      BY <1>1, <2>1, <2>2, LeaveStageEffect
    <3>2. raised = "none" => ~account.dirty
      BY <2>1, <2>2 DEF PostInv
    <3> QED  BY <1>1, <2>1, <2>2, <3>1, <3>2 DEF PostInv, Ending
  <2>3. CASE phase # "post_invoke"
    <3>1. postOk' = postOk /\ phase' # "post_invoke"
      BY <1>1, <2>1, <2>3, LeaveStageEffect
    <3> QED  BY <1>1, <2>1, <2>3, <3>1 DEF PostInv
  <2> QED  BY <2>2, <2>3
<1> QED  BY <1>2, <1>3, <1>4

LEMMA CancelPost ==
  ASSUME TypeOK, StageInv, PostInv, Cancel
  PROVE  PostInv'
<1>1. PICK how \in Cancellations :
        \/ CancelOutside /\ cancelled' = "yes"
        \/ CancelCommand(how)
        \/ CancelPhase(how)
  BY DEF Cancel
<1>2. CASE CancelOutside /\ cancelled' = "yes"
  <2>1. /\ phase \notin Roles /\ phase' \in Ending \cup {phase}
        /\ postDone' = postDone /\ postOk' = postOk /\ account' = account
    BY <1>2 DEF CancelOutside, Finalize, Ending, postVars
  <2>2. phase' # "post_invoke"
    BY <2>1 DEF Ending, Roles
  <2> QED  BY <2>1, <2>2 DEF PostInv
<1>3. CASE CancelCommand(how)
  <2>1. phase \in Roles /\ account' = account /\ postDone' = postDone
    BY <1>3 DEF CancelCommand
  <2>2. /\ ~postOk /\ ~account.skipped
        /\ phase # "post_invoke" => ~postDone
        /\ phase = "post_invoke" => postDone
    BY <2>1, NotYetOk DEF PostInv
  <2>3. CASE LeaveStage("cancel")
    <3>1. phase' # "post_invoke" /\ (postOk' = postOk \/ postOk' = ("cancel" = "none"))
      BY <2>1, <2>3, LeaveStageEffect
    <3>2. postDone => phase' \in Ending
      BY <2>1, <2>2, <2>3, LeaveStageEffect DEF Ending
    <3>3. ~postOk'
      BY <2>2, <3>1
    <3> QED  BY <2>1, <2>2, <3>1, <3>2, <3>3 DEF PostInv
  <2>4. CASE raised' = "cancel" /\ phase' = phase /\ postOk' = postOk
    BY <2>1, <2>2, <2>4 DEF PostInv
  <2> QED  BY <1>3, <2>3, <2>4 DEF CancelCommand
<1>4. CASE CancelPhase(how)
  <2>1. /\ phase \in Roles /\ phase' = phase /\ postDone' = postDone /\ postOk' = postOk
        /\ raised' = "cancel"
    BY <1>4 DEF CancelPhase, StageInv, postVars
  <2>2. account'.skipped = account.skipped
    BY <1>4, EffectType DEF CancelPhase
  <2> QED  BY <2>1, <2>2, NotYetOk DEF PostInv
<1> QED  BY <1>1, <1>2, <1>3, <1>4

\* Every step keeps what is said of post_invoke.
LEMMA StepPost ==
  ASSUME TypeOK, StageInv, PostInv, [Next]_vars
  PROVE  PostInv'
<1>1. CASE \/ RaiseIfContaminated \/ SetupAgentEnvironment \/ DetachedVerifier
           \/ Teardown \/ StopAgentEnvironment \/ ResetScenarioAccount
  BY <1>1, RunPost
<1>2. CASE \/ StageCredentials \/ WriteStageCredentials \/ WriteAwsConfig
           \/ RefreshDue \/ RefreshMinted \/ RefreshWritten \/ RunPhase \/ RemoveFiles
  BY <1>2, StagePost
<1>3. CASE Cancel
  BY <1>3, CancelPost
<1>4. CASE LateCommand \/ Over \/ UNCHANGED vars
  BY <1>4 DEF LateCommand, Over, vars, postVars, PostInv
<1> QED  BY <1>1, <1>2, <1>3, <1>4 DEF Next

-----------------------------------------------------------------------------
(* How the trial ends *)

\* A trial that was over stays over, and its account and the account of its failures with it.
LEMMA OverStays ==
  ASSUME StageInv, phase = "over", [Next]_vars
  PROVE  UNCHANGED <<task, account, logged, cancelled>>
<1>1. at = "idle" /\ refresher = "none" /\ phase \notin Roles
  BY DEF StageInv, Roles
<1>2. CASE LateCommand \/ Over \/ UNCHANGED vars
  BY <1>2 DEF LateCommand, Over, vars
<1>3. ~Cancel
  BY <1>1 DEF Cancel, CancelOutside, CancelCommand, CancelPhase
<1>4. ~(\/ RaiseIfContaminated \/ SetupAgentEnvironment \/ DetachedVerifier
        \/ Teardown \/ StopAgentEnvironment \/ ResetScenarioAccount)
  BY DEF RaiseIfContaminated, SetupAgentEnvironment, DetachedVerifier, Teardown,
         StopAgentEnvironment, ResetScenarioAccount
<1>5. ~(\/ StageCredentials \/ WriteStageCredentials \/ WriteAwsConfig
        \/ RefreshDue \/ RefreshMinted \/ RefreshWritten \/ RunPhase \/ RemoveFiles)
  BY <1>1 DEF StageCredentials, WriteStageCredentials, WriteAwsConfig, RefreshDue,
              RefreshMinted, RefreshWritten, RunPhase, RemoveFiles
<1> QED  BY <1>2, <1>3, <1>4, <1>5 DEF Next

\* Once post_invoke was due, no step leads from the stages that end a trial back to a phase.
LEMMA EndingStays ==
  ASSUME StageInv, postDone, phase \in Ending, [Next]_vars
  PROVE  phase' \in Ending
<1>1. at = "idle" /\ refresher = "none" /\ phase \notin Roles
  BY DEF StageInv, Ending, Roles
<1>2. CASE DetachedVerifier \/ Teardown \/ StopAgentEnvironment \/ ResetScenarioAccount
  BY <1>2 DEF DetachedVerifier, Finalize, Teardown, PostInvokeDue, StopAgentEnvironment, AfterStop,
              ResetScenarioAccount, Ending
<1>3. CASE Cancel
  BY <1>1, <1>3 DEF Cancel, CancelOutside, CancelCommand, CancelPhase, Finalize, Ending
<1>4. CASE LateCommand \/ Over \/ UNCHANGED vars
  BY <1>4 DEF LateCommand, Over, vars
<1>5. ~(\/ RaiseIfContaminated \/ SetupAgentEnvironment
        \/ StageCredentials \/ WriteStageCredentials \/ WriteAwsConfig
        \/ RefreshDue \/ RefreshMinted \/ RefreshWritten \/ RunPhase \/ RemoveFiles)
  BY <1>1 DEF RaiseIfContaminated, SetupAgentEnvironment, Ending, StageCredentials,
              WriteStageCredentials, WriteAwsConfig, RefreshDue, RefreshMinted, RefreshWritten,
              RunPhase, RemoveFiles
<1> QED  BY <1>2, <1>3, <1>4, <1>5 DEF Next

\* A step to the end accounts for the account.
LEMMA StepAccounted ==
  ASSUME TypeOK, StageInv, PostInv, MutationAccounted, [Next]_vars
  PROVE  MutationAccounted'
<1>1. CASE phase = "over"
  BY <1>1, OverStays DEF MutationAccounted
<1>2. CASE phase # "over"
  <2> SUFFICES ASSUME phase' = "over", task'.mutating, account'.dirty
               PROVE  account'.flagged \/ cancelled' # "no" \/ "reset" \in logged'
    BY DEF MutationAccounted
  <2>1. CASE StopAgentEnvironment
    <3>1. outcome = "cancel"
      BY <2>1 DEF StopAgentEnvironment, AfterStop
    <3> QED  BY <2>1, <3>1 DEF StopAgentEnvironment, StageInv
  <2>2. CASE ResetScenarioAccount
    <3>1. account.skipped => ~account.dirty
      BY DEF PostInv
    <3> QED  BY <2>2, <3>1 DEF ResetScenarioAccount, TypeOK
  <2>3. CASE Cancel
    <3>1. PICK how \in Cancellations :
            /\ cancelled = "no"
            /\ \/ CancelOutside /\ cancelled' = "yes"
               \/ CancelCommand(how)
               \/ CancelPhase(how)
      BY <2>3 DEF Cancel
    <3> QED  BY <3>1, <2>3, CancelStage DEF CancelCommand, CancelPhase, StageInv
  <2>4. CASE \/ StageCredentials \/ WriteStageCredentials \/ WriteAwsConfig
             \/ RefreshDue \/ RefreshMinted \/ RefreshWritten \/ RunPhase
    BY <1>2, <2>4 DEF StageCredentials, WriteStageCredentials, WriteAwsConfig, RefreshDue,
                      RefreshMinted, RefreshWritten, RunPhase
  <2>5. CASE RemoveFiles
    <3>1. phase \in Roles /\ raised \in {"none", "error", "cancel"} /\ LeaveStage(raised)
      BY <2>5 DEF RemoveFiles, StageInv, TypeOK
    <3>2. phase' \in {"agent", "verifier", "teardown", "stop"}
      BY <3>1, LeaveStageEffect
    <3> QED  BY <3>2
  <2>6. CASE RaiseIfContaminated \/ SetupAgentEnvironment \/ DetachedVerifier \/ Teardown
    BY <2>6 DEF RaiseIfContaminated, SetupAgentEnvironment, AfterSetup, DetachedVerifier,
                Finalize, Teardown
  <2>7. CASE LateCommand \/ Over \/ UNCHANGED vars
    BY <1>2, <2>7 DEF LateCommand, Over, vars
  <2> QED  BY <2>1, <2>2, <2>3, <2>4, <2>5, <2>6, <2>7 DEF Next
<1> QED  BY <1>1, <1>2

-----------------------------------------------------------------------------
(* Theorems *)

\* The inductive invariant: where a trial is and what is under way (StageInv), what the homes
\* of its container hold (FilesInv), and when post_invoke counts as successful (PostInv).
THEOREM TrialInvariant == Spec => []TrialInv
<1>1. Init => TrialInv
  BY InitTypes, InitFiles DEF TrialInv
<1>2. TrialInv /\ [Next]_vars => TrialInv'
  BY StepTypes, StepStage, StepFiles, StepPost, StepAccounted DEF TrialInv
<1> QED  BY <1>1, <1>2, PTL DEF Spec

\* Every variable of a trial keeps its type.
THEOREM TrialTypes == Spec => []TypeOK
<1>1. TrialInv => TypeOK
  BY DEF TrialInv
<1> QED  BY <1>1, TrialInvariant, PTL

\* A running phase finds its own credential files and no others, whatever removal failed before
\* it (_write_stage_credentials clears the folder first), until a command is abandoned.
THEOREM StagesSeeOnlyTheirOwn == Spec => []StageSeesOnlyItsOwn
<1>1. TrialInv => StageSeesOnlyItsOwn
  BY DEF TrialInv, FilesInv, StageSeesOnlyItsOwn
<1> QED  BY <1>1, TrialInvariant, PTL

\* No refresh writes after the removal of its stage's files: between the stages every home is
\* empty, unless a removal failed or a cancellation abandoned a command.
THEOREM NothingOutlivesStages == Spec => []NothingOutlivesItsStage
<1>1. TrialInv => NothingOutlivesItsStage
  BY DEF TrialInv, FilesInv, NothingOutlivesItsStage
<1> QED  BY <1>1, TrialInvariant, PTL

\* A mutating trial leaves its account restored, flagged, or with the failure of its reset
\* logged, unless it was cancelled.
THEOREM MutationsAccounted == Spec => []MutationAccounted
<1>1. TrialInv => MutationAccounted
  BY DEF TrialInv
<1> QED  BY <1>1, TrialInvariant, PTL

\* Once post_invoke was due no step enters a phase: it runs once, and nothing runs after it.
THEOREM PostInvokeRunsOnce == Spec => PostInvokeOnce
<1>1. TrialInv /\ [Next]_vars =>
        [postDone /\ phase # "post_invoke" => phase' \notin Roles]_vars
  <2> SUFFICES ASSUME TrialInv, Next, postDone, phase # "post_invoke"
               PROVE  phase' \notin Roles
    BY DEF vars
  <2>1. phase \in Ending
    BY DEF TrialInv, PostInv
  <2> QED  BY <2>1, EndingStays DEF TrialInv, Ending, Roles
<1> QED  BY <1>1, TrialInvariant, PTL DEF Spec, PostInvokeOnce

\* The reset is told to skip its work only on an account that is clean: this is what lets
\* ScenarioTrial's SelfRestoringTrial start a skipping reset with the accounts as they are.
THEOREM SkipsOnlyRestored == Spec => [](account.skipped => ~account.dirty)
<1>1. TrialInv => (account.skipped => ~account.dirty)
  BY DEF TrialInv, PostInv
<1> QED  BY <1>1, TrialInvariant, PTL

===============================================================================
