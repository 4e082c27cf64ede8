SPECIFICATION CoreSpec
CONSTANTS
  k1 = k1
  k2 = k2
  p1 = p1
  w1 = w1
  w2 = w2
  NoRow = NoRow
  Keys = {k1}
  Rows = {1, 2}
  Publishers = {p1}
  Workers = {w1, w2}
  MaxAttempts = 2
  Backoff = 0
  MaxBackoff = 0
  HardLimit = 1
  StaleGrace = 0
  Overdue = 1
  Expires = 3
  Dedupe = 1
  MaxBacklog = 2
  RowLimit = 2
  InTime = {}
  MaxTime = 3
  Budget <- AnyOnce
  KnoxTokens = {"t"}
  ApiKeys = {"k"}
  LegacyTokens = {"t"}
  UserOf <- MCUserOf
  Clients = {"r"}
  Addresses = {"i", "j"}
  SessionPolicies <- MCSessionPolicies
  Retention = 1
  LastSessionTick = 3
  SessionBudgets <- MCSessionBudgets
  Terminals = {"s1", "s2"}
  KindOf <- MCKindOf
  TicketTicks = 1
  TermBudgets <- MCTermBudgets
  Sockets = {"a", "b", "w", "m"}
  Presents <- MCPresents
  From <- MCFrom
  Calls = {"r1", "r2"}
  MaxFailures = 1
  MaxPending = 1
  MaxUnanswered = 2
  PresenceTicks = 2
  RecheckTicks = 2
  GraceTicks = 1
  WireBudgets <- MCWireBudgets
SYMMETRY Processes
CONSTRAINT Bounded
CHECK_DEADLOCK FALSE
INVARIANTS TypeOK OneHandlerPerKey HandlerOwnsRow RevokedIsOut TerminalsAreBacked TransportIsSound
PROPERTIES KeepsContract SweepSparesActive
