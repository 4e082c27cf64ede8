SPECIFICATION Spec
CONSTANTS
  ServerJobs = {"m1", "m2"}
  Revisions = {1, 2}
  ServerBudgets <- MCServerBudgets
  HookJobs = {"h1"}
  MaxWrites = 3
  Cores = {"c1", "c2"}
  WaitingTicks = 2
  MaxHookAttempts = 2
  MaxHookFaults = 2
  Packages = {1, 2, 3, 4}
  Declares <- MCDeclares
  BackupJobs = {"b1", "b2"}
  BackupKinds <- MCBackupKinds
  BackupBudgets <- MCBackupBudgets
  Destinations = {"r", "f"}
  DestTypes <- MCDestTypes
  HashSupport <- MCHashSupport
  MaxBundles = 2
  Keep <- MCKeep
  StoreBudgets <- MCStoreBudgets
  KeyIds = {"k1", "k2"}
  KeyFiles = {"f1", "f2"}
  KeyBytes = {"x", "y"}
  HotJobs = {1, 2, 3}
  Released <- MCReleased
  Hotfixes <- MCHotfixes
  HotBudgets <- MCHotBudgets
CHECK_DEADLOCK FALSE
INVARIANTS ServerTypesOK LockGuardsChild OutcomeIsTrue HandedOverOnce   VisibleIsComplete MergeKeepsTrust 
 
