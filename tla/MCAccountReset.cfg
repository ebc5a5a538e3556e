SPECIFICATION Spec
CONSTANTS
  east = east west = west bucket = bucket queue = queue knowledge = knowledge role = role cfn = cfn
  leak = leak base = base exec = exec agentStack = agentStack child = child s1 = s1 s2 = s2
  Regions <- TwoRegions
  Types <- AllTypes
  Filled <- FilledTypes
  FailedTypes <- OnlyQueue
  GlobalTypes <- RoleType
  StackType = cfn
  Unavailable <- BucketNotInWest
  Flaky <- BucketAndRole
  Items <- AllItems
  Masked <- OnlyBase
  TypeOf <- ItemTypes
  HomeOf <- Homes
  RolesOf <- Roles
  ChildrenOf <- Children
  Studio <- Nothing
  Lingering <- OnlyBase
  Stacks <- OneStack
  RegionOf <- StackEast
  Updated <- Nothing
  ReadFailures <- Nothing
INVARIANTS NoSilentSurvivor DependentsKeepRoles
