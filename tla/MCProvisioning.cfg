CONSTANTS
  Pairs <- MCPairs
  ScenarioOf <- MCScenarioOf
  AccountLimit = 3
  NoPair = "untagged"
  NoAccount = 0
  CreationSlots = 1
  LifecycleSlots = 2
  Attempts = 2
  MaxRuns = 2
SPECIFICATION Spec
INVARIANTS UniquePair OneEndEach
PROPERTIES SummaryHonest EveryRunEnds
CHECK_DEADLOCK FALSE
