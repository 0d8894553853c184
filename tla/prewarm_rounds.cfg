SPECIFICATION Spec
CONSTANTS
  NumProxies = 2  Cooldown = 1  BackoffUnit = 1
  MaxProbesPerHour = 3  BudgetWindow = 10
  AuthIDs = {"a"}  Models = {"m", "n"}  RequestIDs = {}  WorkerIDs = {w1, w2}
  Scopes = {"home", "moved"}  PlanOf <- MCPlanOf
  AutoAccounts = FALSE  ExplicitPlans <- AllPro
  HasSelectors = FALSE  SelectorIDs = {}
  MaxAccounts = 1  MaxOwned = 1  MaxAttempts = 2  MaxPending = 1
  TTL = 2  RefreshBefore = 1  PendingTTL = 4
  DiscoveryInterval = 1  DiscoveryRetry = 1  MaxTime = 1
SYMMETRY WorkerSymmetry
INVARIANTS TypeOK TicketsQualified GoodProxyUsable
PROPERTIES ClosedIsFinal
