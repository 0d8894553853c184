SPECIFICATION FairSpec
CONSTANTS
  Callers = {"l1", "l2"}  Callbacks = {"f"}  Threads = {"t"}
  Hosts = {"h"}  Configs = {"one", "passive"}  ProbeLimit <- MCProbeLimit
  BudgetWindow = 1  MaxHostCalls = 1  MaxCalls = 3  MaxTime = 1
INVARIANTS TypeOK OneEngineLives LifecycleSettled NeverServesClosed ShutdownFinal
PROPERTIES HostStable BudgetShared CallsReturn
