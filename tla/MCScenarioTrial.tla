---------------------------- MODULE MCScenarioTrial ----------------------------
(* Instances of ScenarioTrial for TLC. *)
EXTENDS ScenarioTrial, TLC

CONSTANTS a1, a2

OneAccount == {a1}
TwoAccounts == {a1, a2}
EveryScript == {"VERIFY", "RESET", "CLEANUP"}
RecoveryScripts == {"RESET", "CLEANUP"}
AccountSymmetry == Permutations(TwoAccounts)

=============================================================================
