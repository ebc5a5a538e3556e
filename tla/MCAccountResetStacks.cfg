SPECIFICATION FairSpec
CONSTANTS
  east = east west = west bucket = bucket queue = queue knowledge = knowledge role = role cfn = cfn
  leak = leak base = base exec = exec agentStack = agentStack child = child s1 = s1 s2 = s2
  Regions <- TwoRegions
  Types <- OwnedTypes
  Filled <- OnlyCfn
  FailedTypes <- Nothing
  GlobalTypes <- Nothing
  StackType = cfn
  Unavailable <- Everywhere
  Flaky <- Nothing
  Items <- OwnedItems
  Masked <- Nothing
  TypeOf <- OwnedType
  HomeOf <- OwnedHome
  RolesOf <- OwnedRoles
  ChildrenOf <- OwnsNothing
  Studio <- OnlyAgentStack
  Lingering <- Nothing
  Stacks <- TwoStacks
  RegionOf <- BothWest
  Updated <- OnlyS2
  ReadFailures <- EveryRead
INVARIANTS AbandonedNeverPasses SuccessSettlesStacks
PROPERTIES HealthyStackKept EveryResetReports
