SPECIFICATION Spec
CONSTANTS
  NumProxies = 1  Cooldown = 1  BackoffUnit = 1
  MaxProbesPerHour = 2  BudgetWindow = 10
  AuthIDs = {"a"}  Models = {"m"}  RequestIDs = {q1, q2}  WorkerIDs = {"w1"}
  Scopes = {"home"}  PlanOf <- MCPlanOf
  AutoAccounts = FALSE  ExplicitPlans <- AllPro
  HasSelectors = FALSE  SelectorIDs = {}
  MaxAccounts = 1  MaxOwned = 1  MaxAttempts = 1  MaxPending = 1
  TTL = 2  RefreshBefore = 1  PendingTTL = 1
  DiscoveryInterval = 1  DiscoveryRetry = 1  MaxTime = 2
SYMMETRY RequestSymmetry
INVARIANTS RequestsBounded
PROPERTIES RevokedStaysOut
