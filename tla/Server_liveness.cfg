SPECIFICATION Spec
CONSTANTS
  ServerJobs = {"m1", "m2"}
  Revisions = {1}
  ServerBudgets <- MCServerBudgets
  HookJobs = {"h1"}
  MaxWrites = 2
  Cores = {"c1", "c2"}
  WaitingTicks = 2
  MaxHookAttempts = 2
  MaxHookFaults = 2
  BackupJobs = {"b1"}
  BackupKinds <- MCBackupKinds
  BackupBudgets <- MCBackupBudgets
  Updates = {"a"}
  NewVersions = {2, 3}
  RootAllowsDowngrade = TRUE
  UpdateBudgets <- MCUpdateBudgets
CHECK_DEADLOCK FALSE
PROPERTIES  FinishedIsSettled  UpdateEnds
