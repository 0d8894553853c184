SPECIFICATION Spec
CONSTANTS
  NumProxies = 1  Cooldown = 1  BackoffUnit = 1
  MaxProbesPerHour = 4  BudgetWindow = 10
  AuthIDs = {"a"}  Models = {"m", "n"}  RequestIDs = {"q1"}  WorkerIDs = {"w1"}
  Scopes = {"home", "moved"}  PlanOf <- MCPlanOf
  AutoAccounts = FALSE  ExplicitPlans <- OnlyM
  HasSelectors = FALSE  SelectorIDs = {}
  MaxAccounts = 2  MaxOwned = 2  MaxAttempts = 1  MaxPending = 2
  TTL = 2  RefreshBefore = 1  PendingTTL = 4
  DiscoveryInterval = 2  DiscoveryRetry = 1  MaxTime = 1
INVARIANT BlameOwnTicket
