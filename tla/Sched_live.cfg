SPECIFICATION StoryFairSpec
CONSTANTS
  s1 = s1
  s2 = s2
  d1 = d1
  d2 = d2
  d3 = d3
  d4 = d4
  w1 = w1
  w2 = w2
  NoRun = NoRun
  Schedules = {s1}
  OneOffs = {}
  SkipPolicy = {s1}
  Recovering = {}
  Definitions = {d1, d3}
  Once = {d3}
  TargetShapes = {"canonical"}
  ModuleStates = {"visible", "disabled", "orphaned", "unreadable"}
  Workers = {w1}
  Runs = {1}
  RetryCount = 1
  RetryDelay = 1
  Timeout = 0
  Grace = 1
  QueuedStale = 1
  LateTolerance = 1
  MissedGrace = 0
  TimelyTicks = TRUE
  MaxTime = 10
  DueAt <- MCDueAt
  Budget <- AllEvents
  Stories <- Waits
CHECK_DEADLOCK FALSE
PROPERTIES RunsEnd 
