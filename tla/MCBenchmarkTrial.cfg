SPECIFICATION FairSpec
CONSTANTS
  container = container
  agentUser = agentUser
  NoRole = NoRole
  Homes <- TwoHomes
  HomeOf <- AgentApart
  Cancellations <- EveryKind
INVARIANTS
  TypeOK
  StageSeesOnlyItsOwn
  NothingOutlivesItsStage
  MutationAccounted
PROPERTIES
  PostInvokeOnce
  EveryTrialEnds
