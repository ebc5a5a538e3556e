---------------------------- MODULE BenchmarkTrial ----------------------------
(***************************************************************************)
(* One benchmark trial (aws_bench/task/aws_trial.py) as Harbor's lifecycle *)
(* drives it: the contamination check, the container, pre_invoke, the      *)
(* agent, the verifier, post_invoke, the stop of the container and, for a  *)
(* mutating trial, the reset of the account.                               *)
(*                                                                         *)
(* Every phase runs between the staging of its credential files in the     *)
(* container and their removal, while a background task, the refresher,    *)
(* writes them again before they expire.  A trial is cancelled at most     *)
(* once, at any await: by its TaskGroup ("abort", which cancels the        *)
(* trial's own task) or by Ctrl+C ("interrupt", after which asyncio.run    *)
(* cancels every task of the loop, the writers of files included).         *)
(*                                                                         *)
(* A command that is cancelled while the container executes it is          *)
(* abandoned: it may still take effect, at any later moment.               *)
(***************************************************************************)
EXTENDS Integers, FiniteSets

CONSTANTS Homes,         \* the home folders of the users that phases run as
          HomeOf,        \* phase -> the home its credential files are under
          NoRole,        \* no phase
          Cancellations  \* the kinds of cancellation that may hit the trial

Roles == {"pre_invoke", "agent", "verifier", "post_invoke"}

ASSUME TrialAssumption ==
  /\ HomeOf \in [Roles -> Homes]
  /\ NoRole \notin Roles \cup {"removal"}
  /\ Cancellations \subseteq {"abort", "interrupt"}

VARIABLES task,      \* what the task declares: mutating, skip, which scripts it has
          phase,     \* the phase of the trial's own task
          at,        \* where it is within _staged_credentials
          raised,    \* the exception on its way out of the stage
          outcome,   \* what Harbor's run will report: "ok", "error" or "cancel"
          finalizing,\* the teardown under way is that of _finalize
          started,   \* _agent_container_started
          postDone,  \* _aws_post_invoke_done
          postOk,    \* _aws_post_invoke_ok
          creds,     \* home -> the phases whose credential files it holds
          refresher, \* the refresh task of the stage
          late,      \* an abandoned command: the home it works on and what it does
          cancelled, \* the trial has been cancelled, and a command abandoned by it
          account,   \* the account: dirty, flagged, skipped (what the reset was told)
          logged     \* failures that are only logged: "removal", "reset"

stageVars == <<raised, creds, refresher>>
postVars == <<postDone, postOk>>
vars == <<task, phase, at, raised, outcome, finalizing, started, postDone, postOk,
          creds, refresher, late, cancelled, account, logged>>

Phases == {"gate", "setup", "detached", "teardown", "stop", "reset", "over"} \cup Roles

NoCommand == [home |-> CHOOSE h \in Homes : TRUE, does |-> NoRole]

\* A task with skip_framework_reset is mutating (dataset/task_config.py).
Tasks == {t \in [mutating : BOOLEAN, skip : BOOLEAN, pre : BOOLEAN, post : BOOLEAN] :
            t.skip => t.mutating}

Init ==
  /\ task \in Tasks
  /\ phase = "gate" /\ at = "idle" /\ raised = "none" /\ outcome = "ok"
  /\ finalizing = FALSE /\ started = FALSE /\ postDone = FALSE /\ postOk = FALSE
  /\ creds = [h \in Homes |-> {}]
  /\ refresher = "none" /\ late = NoCommand /\ cancelled = "no"
  /\ \E f \in BOOLEAN : account = [dirty |-> f, flagged |-> f, skipped |-> FALSE]
  /\ logged = {}

TypeOK ==
  /\ task \in Tasks
  /\ phase \in Phases
  /\ at \in {"idle", "write", "config", "body", "join", "remove"}
  /\ raised \in {"none", "error", "cancel"}
  /\ outcome \in {"ok", "error", "cancel"}
  /\ {finalizing, started, postDone, postOk} \subseteq BOOLEAN
  /\ creds \in [Homes -> SUBSET Roles]
  /\ refresher \in {"none", "sleeping", "minting", "writing"}
  /\ late \in [home : Homes, does : Roles \cup {NoRole, "removal"}]
  /\ cancelled \in {"no", "yes", "abandoned"}
  /\ account \in [dirty : BOOLEAN, flagged : BOOLEAN, skipped : BOOLEAN]
  /\ logged \subseteq {"removal", "reset"}

Home == HomeOf[phase]

-----------------------------------------------------------------------------
(* Harbor's run: the order in which it calls the overridden methods *)

\* The run ends with `o` and _finalize tears the environment down.
Finalize(o) ==
  /\ phase' = "teardown"
  /\ finalizing' = TRUE
  /\ outcome' = o

\* Seeded fault: the last phase decides, and a later success hides an earlier failure.
WorseLast(o, r) == r

\* Worse(o, r): the outcome of the run once `r` has been raised in it.
Worse(o, r) == CASE r = "none" -> o [] r = "error" -> IF o = "ok" THEN "error" ELSE o
                 [] r = "cancel" -> "cancel"

\* _prepare: the flags of the trial's accounts are read first.  A flagged account, or a
\* failing read, ends the run before its container exists.  verify_env may be off.
RaiseIfContaminated ==
  /\ phase = "gate"
  /\ \/ phase' = "setup" /\ UNCHANGED <<outcome, finalizing>>
     \/ Finalize("error")
  /\ UNCHANGED <<task, at, stageVars, started, postVars, late, cancelled, account, logged>>

\* The first phase after the container is up.
AfterSetup == IF task.pre THEN "pre_invoke" ELSE "agent"

SetupAgentEnvironment ==
  /\ phase = "setup"
  /\ \/ started' = TRUE /\ phase' = AfterSetup /\ UNCHANGED <<outcome, finalizing>>
     \/ Finalize("error") /\ UNCHANGED started
  /\ UNCHANGED <<task, at, stageVars, postVars, late, cancelled, account, logged>>

\* After a failed agent Harbor may still verify.  A verifier with an environment of its
\* own runs after the agent's environment is torn down, and stages nothing here.
AfterAgent ==
  \/ phase' = "verifier" /\ UNCHANGED finalizing
  \/ phase' = "teardown" /\ finalizing' = (raised = "error")

DetachedVerifier ==
  /\ phase = "detached"
  /\ \E o \in {outcome, Worse(outcome, "error")} : Finalize(o)
  /\ UNCHANGED <<task, at, stageVars, started, postVars, late, cancelled, account, logged>>

-----------------------------------------------------------------------------
(* _staged_credentials *)

\* The credentials are minted off-loop; their files are written next.
StageCredentials ==
  /\ phase \in Roles /\ at = "idle"
  /\ \/ at' = "write" /\ UNCHANGED raised
     \/ at' = "remove" /\ raised' = "error"
  /\ UNCHANGED <<task, phase, creds, refresher, outcome, finalizing, started, postVars, late,
                 cancelled, account, logged>>

\* Seeded fault: the folder is not cleared before the first write.
FirstFilesUncleared(h, role) == creds[h] \cup {role}

\* The folder once a phase has written its first files: it was deleted before.
FirstFiles(h, role) == {role}

\* What a first write that exits non-zero leaves: nothing done, cleared, or part of the files.
FailedWrite(h, role) == {creds[h], {}, {role}}

\* _write_stage_credentials(clear_dir=True).  Cancelled while the container executes it,
\* the trial waits for the command and then unwinds.
WriteStageCredentials ==
  /\ at = "write"
  /\ \/ /\ raised = "none"
        /\ creds' = [creds EXCEPT ![Home] = FirstFiles(Home, phase)] /\ at' = "config" /\ UNCHANGED raised
     \/ /\ \E c \in FailedWrite(Home, phase) : creds' = [creds EXCEPT ![Home] = c]
        /\ at' = "remove" /\ raised' = IF raised = "none" THEN "error" ELSE raised
     \/ /\ raised = "cancel"
        /\ creds' = [creds EXCEPT ![Home] = FirstFiles(Home, phase)] /\ at' = "remove" /\ UNCHANGED raised
  /\ UNCHANGED <<task, phase, outcome, finalizing, started, postVars, refresher, late,
                 cancelled, account, logged>>

\* _aws_config_write_command, after which the refresher is created and the phase begins.
WriteAwsConfig ==
  /\ at = "config"
  /\ \/ raised = "none" /\ at' = "body" /\ refresher' = "sleeping" /\ UNCHANGED raised
     \/ raised = "none" /\ at' = "remove" /\ raised' = "error" /\ UNCHANGED refresher
     \/ raised = "cancel" /\ at' = "remove" /\ UNCHANGED <<raised, refresher>>
  /\ UNCHANGED <<task, phase, outcome, finalizing, started, postVars, creds, late,
                 cancelled, account, logged>>

\* run_credential_refresh_loop: sleep, mint, write; a failure is retried after a sleep.
RefreshDue ==
  /\ at \in {"body", "join"} /\ refresher = "sleeping"
  /\ refresher' = "minting"
  /\ UNCHANGED <<task, phase, at, raised, outcome, finalizing, started, postVars, creds,
                 late, cancelled, account, logged>>

RefreshMinted ==
  /\ refresher = "minting"
  /\ refresher' \in {"writing", "sleeping"}
  /\ UNCHANGED <<task, phase, at, raised, outcome, finalizing, started, postVars, creds,
                 late, cancelled, account, logged>>

\* Seeded fault: the loop takes the cancellation for a failed refresh and retries.
RefreshEndsDeaf == refresher' = "sleeping" /\ UNCHANGED at

\* A refresher that the end of the phase has cancelled meanwhile has waited for its write, and
\* ends with it; the stage goes on to remove the files.
RefreshEnds ==
  IF at = "join" THEN at' = "remove" /\ refresher' = "none"
                 ELSE refresher' = "sleeping" /\ UNCHANGED at

\* The write of a refresh ends, and may have failed.
RefreshWritten ==
  /\ refresher = "writing"
  /\ \E c \in {{}, {phase}} : creds' = [creds EXCEPT ![Home] = @ \cup c]
  /\ RefreshEnds
  /\ UNCHANGED <<task, phase, raised, outcome, finalizing, started, postVars, late,
                 cancelled, account, logged>>

\* Seeded fault: the stage cancels the refresher without waiting for its write.
JoinRefresherAbandoning ==
  /\ at' = "remove" /\ refresher' = "none"
  /\ late' = IF refresher = "writing" THEN [home |-> Home, does |-> phase] ELSE late

\* The finally of the stage: cancel the refresher and wait for it.  Only a write under way
\* makes it wait; the thread of a mint under way writes nothing.
JoinRefresher ==
  /\ IF refresher = "writing" THEN at' = "join" /\ UNCHANGED refresher
                              ELSE at' = "remove" /\ refresher' = "none"
  /\ UNCHANGED late

\* What a phase may make of the account: pre_invoke and, in a mutating task, the agent
\* change it; post_invoke restores it when it exits 0.
Effect(dirty) ==
  CASE phase = "post_invoke" -> account' = [account EXCEPT !.dirty = dirty]
    [] phase = "pre_invoke" \/ (phase = "agent" /\ task.mutating) ->
         account' = [account EXCEPT !.dirty = @ \/ dirty]
    [] OTHER -> UNCHANGED account

\* The body of the stage ends: the script, the agent or the verifier returns or raises.
RunPhase ==
  /\ at = "body"
  /\ \E fails \in BOOLEAN, dirty \in BOOLEAN :
       /\ (phase = "post_invoke" /\ ~fails) => ~dirty
       /\ (phase = "post_invoke" /\ dirty) => account.dirty
       /\ Effect(dirty)
       /\ raised' = IF fails THEN "error" ELSE raised
  /\ JoinRefresher
  /\ UNCHANGED <<task, phase, outcome, finalizing, started, postVars, creds, cancelled,
                 logged>>

\* Seeded fault: post_invoke counts as successful however it ended.
PostInvokeOkRegardless(r) == TRUE

\* _aws_post_invoke_ok is set only when post_invoke ran to completion and exited 0.
PostInvokeOk(r) == r = "none"

\* The stage is left with `r` on its way: where each phase goes on.  What post_invoke
\* raises, a cancellation included, is recorded and goes no further.
LeaveStage(r) ==
  /\ at' = "idle" /\ raised' = "none"
  /\ CASE phase = "post_invoke" ->
            /\ phase' = "stop"
            /\ postOk' = PostInvokeOk(r)
            /\ outcome' = IF r = "none" THEN outcome ELSE Worse(outcome, "error")
            /\ UNCHANGED finalizing
       [] phase = "pre_invoke" /\ r = "none" ->
            phase' = "agent" /\ UNCHANGED <<outcome, finalizing, postOk>>
       [] phase = "agent" /\ r # "cancel" ->
            AfterAgent /\ outcome' = Worse(outcome, r) /\ UNCHANGED postOk
       [] OTHER -> Finalize(Worse(outcome, r)) /\ UNCHANGED postOk

\* The credential files and the config of the home are removed; a failure is only logged.
RemoveFiles ==
  /\ at = "remove"
  /\ \/ creds' = [creds EXCEPT ![Home] = {}] /\ UNCHANGED logged
     \/ logged' = logged \cup {"removal"} /\ UNCHANGED creds
  /\ LeaveStage(raised)
  /\ UNCHANGED <<task, started, postDone, refresher, late, cancelled, account>>

-----------------------------------------------------------------------------
(* _stop_agent_environment *)

\* Seeded fault: each teardown runs post_invoke.
PostInvokeDueAgain == started /\ task.post

\* post_invoke runs once, and only in a container that came up.
PostInvokeDue == started /\ ~postDone /\ task.post

Teardown ==
  /\ phase = "teardown"
  /\ IF PostInvokeDue THEN phase' = "post_invoke" /\ postDone' = TRUE
                      ELSE phase' = "stop" /\ UNCHANGED postDone
  /\ UNCHANGED <<task, at, stageVars, outcome, finalizing, started, postOk, late,
                 cancelled, account, logged>>

\* What follows the stop of the container in run().
AfterStop ==
  IF ~finalizing THEN "detached"
  ELSE IF outcome # "cancel" /\ task.mutating THEN "reset" ELSE "over"

\* Seeded fault: skip_framework_reset is handed on whether or not post_invoke succeeded.
SkipFrameworkResetAlways == task.skip

\* skip_framework_reset, as _reset_scenario_account hands it to the scenario trial.
SkipFrameworkReset == task.skip /\ postOk

\* The container goes, with the files in it and the commands it was executing.
StopAgentEnvironment ==
  /\ phase = "stop"
  /\ creds' = [h \in Homes |-> {}]
  /\ late' = NoCommand
  /\ phase' = AfterStop
  /\ account' = IF phase' = "reset" THEN [account EXCEPT !.skipped = SkipFrameworkReset]
                ELSE account
  /\ UNCHANGED <<task, at, raised, outcome, finalizing, started, postVars, refresher,
                 cancelled, logged>>

\* _reset_scenario_account: the scenario's RESET restores the account, or flags it, or raises,
\* which is only logged.  With skip_framework_reset it leaves the account as it is.
ResetScenarioAccount ==
  /\ phase = "reset"
  /\ phase' = "over"
  /\ \/ /\ account' = IF account.skipped THEN account
                      ELSE [account EXCEPT !.dirty = FALSE, !.flagged = FALSE]
        /\ UNCHANGED logged
     \/ account' = [account EXCEPT !.flagged = TRUE] /\ UNCHANGED logged
     \/ logged' = logged \cup {"reset"} /\ UNCHANGED account
  /\ UNCHANGED <<task, at, stageVars, outcome, finalizing, started, postVars, late,
                 cancelled>>

-----------------------------------------------------------------------------
(* Cancellation *)

\* Cancelled between the stages: the run unwinds through _finalize; in the teardown or in the
\* reset it ends.  A stop under way completes, since Harbor's stop is of the container.
CancelOutside ==
  /\ at = "idle" /\ phase \notin Roles \cup {"over"}
  /\ CASE phase \in {"gate", "setup", "detached"} -> Finalize("cancel")
       [] phase = "reset" -> phase' = "over" /\ outcome' = "cancel" /\ UNCHANGED finalizing
       [] OTHER -> outcome' = "cancel" /\ finalizing' = TRUE /\ UNCHANGED phase
  /\ UNCHANGED <<at, stageVars, postVars, late, account, logged>>

\* The command the trial itself is waiting for, when it changes the credential files.
Command ==
  CASE at = "write" -> [home |-> Home, does |-> phase]
    [] at = "remove" -> [home |-> Home, does |-> "removal"]
    [] OTHER -> NoCommand

\* Cancelled before the phase begins, or while its files are removed.  An abort is delivered
\* once the command under way has ended; an interrupt cancels the command's own task as well,
\* and abandons it.  A mint runs in a thread, and is left to itself.
CancelCommand(how) ==
  /\ phase \in Roles /\ at \in {"idle", "write", "config", "remove"}
  /\ IF how = "abort" /\ at # "idle"
     THEN /\ raised' = "cancel" /\ cancelled' = "yes"
          /\ UNCHANGED <<phase, at, outcome, finalizing, postOk, creds, refresher, late>>
     ELSE /\ late' = Command
          /\ cancelled' = IF at = "idle" THEN "yes" ELSE "abandoned"
          /\ IF at = "remove" THEN LeaveStage("cancel")
             ELSE /\ raised' = "cancel" /\ at' = "remove"
                  /\ UNCHANGED <<phase, outcome, finalizing, postOk>>
          /\ UNCHANGED <<creds, refresher>>
  /\ UNCHANGED <<postDone, account, logged>>

\* Cancelled in the body, or while the stage waits for its refresher.  That wait is on a gather,
\* so a cancellation there reaches the refresher a second time and, in it, the write it was
\* waiting for: like an interrupt, it abandons the write.
CancelPhase(how) ==
  /\ at \in {"body", "join"}
  /\ raised' = "cancel"
  /\ \E dirty \in BOOLEAN :
       IF at = "body" /\ (phase = "post_invoke" /\ dirty => account.dirty)
       THEN Effect(dirty) ELSE UNCHANGED account
  /\ IF refresher = "writing" /\ (how = "interrupt" \/ at = "join")
     THEN /\ late' = [home |-> Home, does |-> phase]
          /\ at' = "remove" /\ refresher' = "none"
          /\ cancelled' = "abandoned"
     ELSE JoinRefresher /\ cancelled' = "yes"
  /\ UNCHANGED <<phase, outcome, finalizing, postVars, creds, logged>>

Cancel ==
  \E how \in Cancellations :
    /\ cancelled = "no"
    /\ \/ CancelOutside /\ cancelled' = "yes"
       \/ CancelCommand(how)
       \/ CancelPhase(how)
    /\ UNCHANGED <<task, started>>

\* The container carries out an abandoned command after all, or its process dies.
LateCommand ==
  /\ late.does # NoRole
  /\ late' = NoCommand
  /\ \/ creds' = [creds EXCEPT ![late.home] =
                    IF late.does = "removal" THEN {} ELSE @ \cup {late.does}]
     \/ UNCHANGED creds
  /\ UNCHANGED <<task, phase, at, raised, outcome, finalizing, started, postVars, refresher,
                 cancelled, account, logged>>

Over == phase = "over" /\ UNCHANGED vars

Next ==
  \/ RaiseIfContaminated \/ SetupAgentEnvironment \/ DetachedVerifier
  \/ StageCredentials \/ WriteStageCredentials \/ WriteAwsConfig
  \/ RefreshDue \/ RefreshMinted \/ RefreshWritten
  \/ RunPhase \/ RemoveFiles
  \/ Teardown \/ StopAgentEnvironment \/ ResetScenarioAccount
  \/ Cancel \/ LateCommand \/ Over

Spec == Init /\ [][Next]_vars

\* Every script, agent and verifier runs under a timeout, and every command of the container
\* returns; a cancellation and a further refresh are up to the environment.
Fairness ==
  /\ WF_vars(RaiseIfContaminated) /\ WF_vars(SetupAgentEnvironment) /\ WF_vars(DetachedVerifier)
  /\ WF_vars(StageCredentials) /\ WF_vars(WriteStageCredentials) /\ WF_vars(WriteAwsConfig)
  /\ WF_vars(RefreshMinted) /\ WF_vars(RefreshWritten) /\ WF_vars(RunPhase)
  /\ WF_vars(RemoveFiles) /\ WF_vars(Teardown) /\ WF_vars(StopAgentEnvironment)
  /\ WF_vars(ResetScenarioAccount)

FairSpec == Spec /\ Fairness

-----------------------------------------------------------------------------
(* Properties *)

\* While a phase runs, its home holds its own credential files and no others, whatever removal
\* failed before it, unless a cancellation abandoned a command in the container.
StageSeesOnlyItsOwn ==
  at = "body" /\ cancelled # "abandoned" => creds[Home] = {phase}

\* No credential file outlives its stage, by a removal that is overtaken by a refresh, unless
\* the removal itself failed or a cancellation abandoned a command.
NothingOutlivesItsStage ==
  at = "idle" /\ (\E h \in Homes : creds[h] # {}) =>
    "removal" \in logged \/ cancelled = "abandoned"

\* A mutating trial that ends with its account dirty has flagged it, was cancelled, or its
\* reset raised (logged only).  In particular the framework's reset is skipped only for an
\* account that post_invoke restored.
MutationAccounted ==
  phase = "over" /\ task.mutating /\ account.dirty =>
    account.flagged \/ cancelled # "no" \/ "reset" \in logged

\* post_invoke runs once, although the teardown is reached twice, and no phase follows it.
PostInvokeOnce == [][postDone /\ phase # "post_invoke" => phase' \notin Roles]_vars

\* Every trial comes to its end, refreshed, failed or cancelled at any point.
EveryTrialEnds == <>(phase = "over")
=============================================================================
