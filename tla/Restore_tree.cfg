SPECIFICATION SpecRestore
CONSTANTS
  BackupJobs = {"b1"}
  BackupKinds <- MCBackupKinds
  BackupBudgets <- MCBackupBudgets
CHECK_DEADLOCK FALSE
INVARIANTS FailedRestoreKeepsTree
