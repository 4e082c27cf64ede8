SPECIFICATION Spec
CONSTANTS
  Updates = {"a", "b"}
  NewVersions = {2, 3}
  RootAllowsDowngrade = TRUE
  UpdateBudgets <- MCUpdateBudgets
  Checkers = {"p", "q"}
  Sources = {"branch", "release"}
  LastTick = 4
  LastCommit = 2
  RequestTicks = 1
  FreshTicks <- MCFreshTicks
  SuppressTicks <- MCSuppressTicks
  Asked <- MCAsked
  CheckBudgets <- MCCheckBudgets
  Jobs = {1, 2}
  Replacements = {"prem", "rival"}
  SwitchBudgets <- MCSwitchBudgets
  Fleet = {"a", "b", "c"}
  Installed0 <- MCInstalled0
  InstallPlans <- MCInstallPlans
  MaxInstalls = 2
  InstallBudgets <- MCInstallBudgets
CHECK_DEADLOCK FALSE
INVARIANTS UpdatesTypesOK  
   
