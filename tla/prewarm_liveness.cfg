SPECIFICATION FairSpec
CONSTANTS
  NumProxies = 1  Cooldown = 1  BackoffUnit = 1
  MaxProbesPerHour = 2  BudgetWindow = 10
  AuthIDs = {"a", "b"}  Models = {"m"}  RequestIDs = {}  WorkerIDs = {"w1"}
  Scopes = {"home"}  PlanOf <- MCPlanOf
  AutoAccounts = TRUE  ExplicitPlans <- NoneExplicit
  HasSelectors = TRUE  SelectorIDs = {}
  MaxAccounts = 1  MaxOwned = 1  MaxAttempts = 1  MaxPending = 1
  TTL = 2  RefreshBefore = 1  PendingTTL = 4
  DiscoveryInterval = 1  DiscoveryRetry = 1  MaxTime = 1
INVARIANTS JobsAccounted
PROPERTIES ManagedForGood RoundsEnd DueKeysServed CloseCompletes
