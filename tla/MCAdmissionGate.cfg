SPECIFICATION FairSpec
CONSTANTS
  r1 = r1
  r2 = r2
  w1 = w1
  w2 = w2
  scenarioA = scenarioA
  Trials <- AllTrials
  ScenarioOf <- OneScenario
  Mutating <- Writers
  NConcurrent = 1
  MaxRetries = 1
  NoGate = NoGate
INVARIANTS
  ExclusiveWriter
  HoldsAccounted
  NoLostWakeup
  SlotsAccounted
PROPERTIES
  AccessSpec
  EveryTrialSettles
