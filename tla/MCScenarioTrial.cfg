SPECIFICATION Spec
CONSTANTS
  a1 = a1
  a2 = a2
  Accounts <- TwoAccounts
  Scripts <- EveryScript
  MaxRedeploys = 2
SYMMETRY AccountSymmetry
INVARIANTS InitBaselineIntact SettledResetAccounted SuccessMeansDone ContainerAccounted
PROPERTIES ClearedOnlyWhenRestored FlaggedScenarioFrozen RecaptureNeverAbsorbs
