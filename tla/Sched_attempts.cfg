SPECIFICATION Spec
CONSTANTS
  s1 = s1
  s2 = s2
  d1 = d1
  d2 = d2
  d3 = d3
  d4 = d4
  w1 = w1
  w2 = w2
  NoRun = NoRun
  Schedules = {s1}
  OneOffs = {}
  SkipPolicy = {s1}
  Recovering = {}
  Definitions = {d1}
  Once = {}
  TargetShapes = {"canonical"}
  ModuleStates = {"visible"}
  Workers = {w1}
  Runs = {1, 2}
  RetryCount = 1
  RetryDelay = 1
  Timeout = 0
  Grace = 1
  QueuedStale = 1
  LateTolerance = 1
  MissedGrace = 0
  TimelyTicks = FALSE
  MaxTime = 4
  DueAt <- MCDueAt
  Budget <- OneDup
CHECK_DEADLOCK FALSE
PROPERTIES AttemptsAdvance
