CONSTANTS
  Log = {l1, l2, big}
  Request = {r1, r2}
  Faults = {"pipeline", "persist", "mark", "ack_start", "crash"}
  SerialClients = TRUE
  l1 = l1
  l2 = l2
  big = big
  v1 = v1
  v2 = v2
  v3 = v3
  k1 = k1
  k2 = k2
  Override <- MCOverride
  InvalidOverride <- MCInvalid
  File <- MCFile
  MaxUploadBytes = 1
  Value <- MCValue
  Key <- MCKey
  Trunc <- MCTrunc
  MaxUpsertRows = 2
  Outcome <- MCOutcome
  Statuses <- MCStatuses
  PageSize = 1
SPECIFICATION ReportsSpec
SYMMETRY Symmetry
INVARIANTS RowsMatchCounters StatisticsConsistent WalkComplete
PROPERTY CompletedIsFinal
CHECK_DEADLOCK FALSE
