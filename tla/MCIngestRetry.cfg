CONSTANTS
  File = {a, junk}
  NoFile = none
  Call = {c1, c2}
  Doc = {text, scrap}
  Docs <- MCDocs
  Unsupported = {}
  Invalid = {scrap}
  Batches <- MCBatches
  Faults = {"upsert"}
  SerialCalls = TRUE
  a = a
  b = b
  junk = junk
  other = other
  text = text
  scrap = scrap
SPECIFICATION Spec
INVARIANT DuplicateIsIndexed
CHECK_DEADLOCK FALSE
