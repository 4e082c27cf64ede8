SPECIFICATION EndsSpec
CONSTANTS
  k1 = k1
  k2 = k2
  p1 = p1
  w1 = w1
  w2 = w2
  NoRow = NoRow
  Keys = {k1, k2}
  Rows = {1, 2}
  Publishers = {p1}
  Workers = {w1}
  MaxAttempts = 1
  Backoff = 1
  MaxBackoff = 1
  HardLimit = 0
  StaleGrace = 0
  Overdue = 1
  Expires = 1
  Dedupe = 0
  MaxBacklog = 1
  RowLimit = 1
  InTime = {"tick"}
  MaxTime = 4
  Budget <- Outages
CHECK_DEADLOCK FALSE
INVARIANTS PatientIsTried
PROPERTIES CrowdedRowsEnd
