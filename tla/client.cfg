SPECIFICATION FairSpec
CONSTANTS
  AuthIDs = {"a", "b"}  Indices = {"i"}  Callers <- MCCallers  Scheduler <- MCScheduler
  Discovers = TRUE  MaxChanges = 3
  Workspaces = {"team"}  Routes = {"direct", "proxy"}  Agents = {"codex_cli_rs", "custom"}
  Files <- MCFiles  Configs <- MCConfigs
INVARIANTS TypeOK OwnCredentials AcceptedUnderScope
PROPERTIES IndexRecovers
