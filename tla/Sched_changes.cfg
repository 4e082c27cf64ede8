SPECIFICATION Spec
CONSTANTS
  s1 = s1
  s2 = s2
  d1 = d1
  d2 = d2
  d3 = d3
  d4 = d4
  w1 = w1
  w2 = w2
  NoRun = NoRun
  Schedules = {s1, s2}
  OneOffs = {s2}
  SkipPolicy = {s1}
  Recovering = {}
  Definitions = {d1, d2, d3}
  Once = {d3}
  TargetShapes = {"canonical", "legacy", "invalid"}
  ModuleStates = {"visible", "disabled", "orphaned", "unreadable"}
  Workers = {w1, w2}
  Runs = {1, 2}
  RetryCount = 0
  RetryDelay = 1
  Timeout = 0
  Grace = 1
  QueuedStale = 1
  LateTolerance = 1
  MissedGrace = 0
  TimelyTicks = FALSE
  MaxTime = 4
  DueAt <- MCDueAt
  Budget <- MostEvents
CONSTRAINT InAStory
CHECK_DEADLOCK FALSE
INVARIANTS OneOffHappensOnce
 
