CONSTANTS
  Log = {l1}
  Request = {r1, r2}
  Faults = {"persist"}
  SerialClients = FALSE
  l1 = l1
  l2 = l2
  big = big
  v1 = v1
  v2 = v2
  v3 = v3
  k1 = k1
  k2 = k2
  Override <- MCOverride
  InvalidOverride <- MCInvalid
  File <- MCFile
  MaxUploadBytes = 1
  Value <- MCValue
  Key <- MCKey
  Trunc <- MCTrunc
  MaxUpsertRows = 2
  Outcome <- MCOutcome
SPECIFICATION Spec
PROPERTY CompletedIsFinal
CHECK_DEADLOCK FALSE
