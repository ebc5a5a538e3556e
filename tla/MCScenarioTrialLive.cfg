SPECIFICATION FairSpec
CONSTANTS
  a1 = a1
  a2 = a2
  Accounts <- OneAccount
  Scripts <- RecoveryScripts
  MaxRedeploys = 3
PROPERTIES EveryRunReturns
